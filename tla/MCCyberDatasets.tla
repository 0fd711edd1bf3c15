--------------------------- MODULE MCCyberDatasets ---------------------------
(* The model values of the runs of CyberDatasets.                          *)
EXTENDS CyberDatasets, TLC

Symmetry == Permutations(Caller) \cup Permutations(Worker) \cup Permutations(SetId)
=============================================================================
