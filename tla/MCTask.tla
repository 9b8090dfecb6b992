------------------------------- MODULE MCTask -------------------------------
(* Instances of TaskProperties for TLC.  Requests and Task objects are     *)
(* told apart by nothing but their names.                                  *)
EXTENDS TaskProperties, TLC

Alike == Permutations(Requests) \cup Permutations(Tasks)
=============================================================================
