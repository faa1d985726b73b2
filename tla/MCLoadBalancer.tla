---------------------------- MODULE MCLoadBalancer -----------------------------
(* Model checking of LoadBalancer: a pool of three backends.                  *)
EXTENDS LoadBalancer

Weights3 == <<3, 1, 2>>

================================================================================
