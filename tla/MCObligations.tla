--------------------------- MODULE MCObligations ---------------------------
(* Instances of Obligations for TLC. *)
EXTENDS Obligations, TLC

Perms == Permutations(Drainer) \cup Permutations(Registrar)

=============================================================================
