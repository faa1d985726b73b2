--------------------------- MODULE MCCircuitBreaker ----------------------------
(* Model checking of CircuitBreaker: see the cfg file for the bounds.         *)
EXTENDS CircuitBreaker, TLC

================================================================================
