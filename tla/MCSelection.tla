------------------------------ MODULE MCSelection ------------------------------
(* Model checking of Selection with the weights of the product pool           *)
(* (gateway/main.go).                                                         *)
EXTENDS Selection

ProductWeights == <<3, 1, 2, 3>>

================================================================================
