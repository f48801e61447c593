----------------------------- MODULE MCCalibration -----------------------------
(* A few rows of each kind for Calibration.                                  *)
EXTENDS Calibration, TLC

MCOthers ==
    {[metric |-> "competence", usable |-> TRUE, probability |-> 1, success |-> TRUE],
     [metric |-> "ask", usable |-> TRUE, outcome |-> "timed_out"],
     [metric |-> "knowledge", usable |-> FALSE], [metric |-> "ask", usable |-> FALSE]}

TargetSymmetry == Permutations(Targets)
===============================================================================
