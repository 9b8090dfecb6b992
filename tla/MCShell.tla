------------------------------ MODULE MCShell ------------------------------
(* An instance of ShellProperties for TLC.                                 *)
EXTENDS ShellProperties, TLC

CONSTANTS command, agent, w1

OfCommand == w1 :> command

=============================================================================
