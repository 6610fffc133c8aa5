---------------------------- MODULE MCEmbedded ----------------------------
(* Constants of EmbeddedTier for model checking. *)
EXTENDS EmbeddedTier

Pay == [tool |-> "pay", bk |-> None]
Wire(bk) == [tool |-> "wire", bk |-> bk]

TwiceWire == "i1" :> <<<<Wire("b1"), Wire("b1")>>>>

TwoDecisions == "i1" :> <<<<Pay>>, <<Pay>>>> @@ "i2" :> <<>>

Perms == Permutations(Worker)

=============================================================================
