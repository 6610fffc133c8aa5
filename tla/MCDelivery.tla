----------------------------- MODULE MCDelivery -----------------------------
(* Small instances of the delivery paths. *)
EXTENDS Delivery

CONSTANTS d1, d2, b1, r1, r2, hit, near, miss

Def(kind, shards, debounce, registry) ==
  [kind |-> kind, subjects |-> {hit}, shards |-> shards, debounce |-> debounce, dlq |-> 2,
   registry |-> registry]

Reactions == << Def("TASK", 1, FALSE, {d1, d2}), Def("TASK", 1, TRUE, {d1}),
                Def("PUBLISH", 1, FALSE, {b1}), Def("AGENT", 1, FALSE, {}) >>

(* An agent reaction on two shards, of which the runs use one. *)
ShardedReaction == << Def("AGENT", 2, FALSE, {}) >>

Hash == (r1 :> 0) @@ (r2 :> 1)
=============================================================================
