------------------------------ MODULE MCDashboard ------------------------------
(* Model checking of Dashboard: see the cfg file for the bounds.              *)
EXTENDS Dashboard, TLC

================================================================================
