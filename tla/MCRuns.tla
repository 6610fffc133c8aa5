------------------------------- MODULE MCRuns -------------------------------
(* Instances of Runs for TLC. *)
EXTENDS Runs

=============================================================================
