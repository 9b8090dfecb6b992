------------------------------ MODULE MCModels ------------------------------
(* An instance of ModelProperties for TLC, with the chains of the catalog. *)
EXTENDS ModelProperties, TLC

CONSTANTS pro, flash, lite

Policy(m, silent, last) == [model |-> m, silent |-> silent, lastResort |-> last]

TheMainChain == <<Policy(pro, FALSE, FALSE), Policy(flash, FALSE, TRUE)>>
TheLiteChain ==
  <<Policy(lite, TRUE, FALSE), Policy(flash, TRUE, FALSE), Policy(pro, TRUE, TRUE)>>
TheTransition == [f \in Failures |-> "terminal"]

=============================================================================
