-------------------------- MODULE MCEffectOutbox --------------------------
(* Constants of EffectOutbox for model checking, with the dispatchers and the
   reconcilers interchangeable. *)
EXTENDS EffectOutbox, TLC

Perms == Permutations(Dispatcher) \cup Permutations(Reconciler)

=============================================================================
