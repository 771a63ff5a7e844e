------------------------------ MODULE MCWriter ------------------------------
(* Writer for TLC: a note states at most one rule and one next step.       *)
EXTENDS Writer

AllFacts == {"rule", "step"}
Rules    == {"rule"}
Steps    == {"step"}
=============================================================================
