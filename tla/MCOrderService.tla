---------------------------- MODULE MCOrderService -----------------------------
(* Model checking of OrderService: see the cfg files for how clients repeat   *)
(* their requests and what fails.                                             *)
EXTENDS OrderService, TLC

HandlerSymmetry == Permutations(Handler)

================================================================================
