------------------------------ MODULE MCReplay ------------------------------
EXTENDS Replay

Plain == [semantics |-> "idempotent", dispatch |-> "inline", connector |-> FALSE, bk |-> "",
          scope |-> "", resolvable |-> FALSE, unsafe |-> FALSE, undo |-> TRUE, samples |-> TRUE]
Wire == [Plain EXCEPT !.semantics = "non_idempotent", !.dispatch = "outbox", !.connector = TRUE,
                      !.bk = "callable", !.scope = "wire", !.resolvable = TRUE, !.samples = FALSE]
Unsafe == [Plain EXCEPT !.semantics = "non_idempotent", !.unsafe = TRUE, !.scope = "wire"]
Headless == [Wire EXCEPT !.connector = FALSE]
Foreign == [Plain EXCEPT !.scope = "other"]
Sampler == [Plain EXCEPT !.undo = FALSE]

Keyed == [Plain EXCEPT !.bk = "callable", !.samples = FALSE]

Tools == {Plain, Wire, Unsafe, Headless, Foreign, Keyed}
Samplers == {Sampler}

Managed == [explicit |-> TRUE, require |-> "unset", env |-> TRUE, anchored |-> TRUE, cap |-> 0]
Managed1 == {Managed}
Capped1 == [Managed EXCEPT !.cap = 1]
Postures == {Managed, Capped1, [Managed EXCEPT !.anchored = FALSE]}
=============================================================================
