------------------------------ MODULE MCSimulation -----------------------------
(* Model checking of Simulation: the goroutines of a flood are alike.         *)
EXTENDS Simulation, TLC

Weights2 == <<3, 1>>

SameClient == [r \in Req |-> 0]

Symmetry == Permutations(Flooder)

================================================================================
