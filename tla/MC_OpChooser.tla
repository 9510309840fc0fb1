----------------------------- MODULE MC_OpChooser -----------------------------
(* Two run workloads in a row; every subset of the five kinds with weight  *)
(* one, so sums 1..5 and draws on the boundaries of halves and quarters;   *)
(* a known and an unknown name for each distribution.                      *)
EXTENDS OpChooser

MC_Workloads ==
  [p : [Kinds -> {0, 1}], dist : {"zipfian", "bogus"}, scanDist : {"uniform", "bogus"}]
=============================================================================
