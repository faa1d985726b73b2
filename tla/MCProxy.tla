-------------------------------- MODULE MCProxy --------------------------------
(* Model checking of Proxy: see the cfg files for who fails, who is slow and  *)
(* who hangs up.                                                              *)
EXTENDS Proxy

Weights1 == <<1>>
Weights2 == <<3, 1>>

SameClient == [r \in Req |-> 0]

================================================================================
