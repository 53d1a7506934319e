-------------------------- MODULE MCReftableStack --------------------------
(* Instances of ReftableStack for TLC. *)
EXTENDS ReftableStack, TLC

CONSTANTS a, b, ab, o1, o2, w1, w2, k1, rd

Upd(o, n) == [old |-> o, new |-> n]

(* No name is a leading component of another. *)
FlatParents == [r \in Ref |-> {}]

(* ab stands for a/b. *)
NestedParents == [r \in Ref |-> IF r = ab THEN {a} ELSE {}]

(* An update, a deletion and a move. *)
PlainTransactions ==
    {(a :> Upd(o1, o2)), (a :> Upd(NoOld, None)), (a :> Upd(o1, None) @@ b :> Upd(None, o1))}

(* Two and three tables, with a tombstone among them. *)
PlainStacks == {<<(a :> o1), (b :> None)>>, <<(b :> o2), (a :> o1), (b :> None)>>}

ShortStacks == {<<(a :> o1), (b :> None)>>}

(* Updates, a deletion, a move, and a creation below a reference. *)
MixedTransactions ==
    {(a :> Upd(o1, o2)), (a :> Upd(NoOld, None)), (a :> Upd(o1, None) @@ b :> Upd(None, o1)),
     (ab :> Upd(None, o1)), (a :> Upd(None, o1))}

MixedStacks == {<<(a :> o1), (b :> None)>>, <<(b :> o2), (a :> o1), (a :> None)>>}

Symmetry == Permutations(Writer) \cup Permutations(Packer)
=============================================================================
