------------------------------ MODULE MCOrderPath ------------------------------
(* Model checking of OrderPath: handlers are alike.                           *)
EXTENDS OrderPath, TLC

Symmetry == Permutations(Handler)

================================================================================
