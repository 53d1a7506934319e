-------------------------- MODULE MCFilesRefStore --------------------------
(* Instances of FilesRefStore for TLC. *)
EXTENDS FilesRefStore, TLC

CONSTANTS a, b, ab, o0, o1, o2, w1, w2, k1, rd

Upd(o, n) == [old |-> o, new |-> n, prune |-> FALSE]

(* No name is a leading component of another. *)
FlatParents == [r \in Ref |-> {}]

(* ab stands for a/b. *)
NestedParents == [r \in Ref |-> IF r = ab THEN {a} ELSE {}]

(* Changes of a that start from o1 and never bring back a value it had. *)
OnceTransactions ==
    {(a :> Upd(o1, o2)), (a :> Upd(NoOld, o2)), (a :> Upd(o1, None)),
     (a :> Upd(NoOld, None) @@ b :> Upd(o1, NoNew)),
     (a :> Upd(None, o2) @@ b :> Upd(NoOld, None))}

(* a and b have the value o1: loose, packed, both, or loose over the older *)
(* packed value o0.                                                        *)
OnceStores ==
    {[loose |-> (a :> s[1] @@ b :> None), packed |-> (a :> s[2] @@ b :> o1)] :
        s \in {<<o1, None>>, <<o1, o1>>, <<None, o1>>, <<o1, o0>>}}

(* Changes of a for readers to follow. *)
ReadTransactions == {(a :> Upd(o1, o2)), (a :> Upd(NoOld, None))}

ReadStores == {[loose |-> (a :> s[1]), packed |-> (a :> s[2])] : s \in {<<o1, None>>, <<None, o1>>}}

(* Creations and deletions of a and a/b, and a value that moves from a to b. *)
NameTransactions ==
    {(a :> Upd(None, o1)), (ab :> Upd(None, o1)), (a :> Upd(o1, None)), (ab :> Upd(o1, None)),
     (a :> Upd(NoOld, None) @@ ab :> Upd(None, o1)),
     (a :> Upd(o1, None) @@ b :> Upd(None, o1))}

NameStores ==
    {[loose |-> (a :> s[1] @@ ab :> s[2] @@ b :> None), packed |-> (a :> s[3] @@ ab :> s[4] @@ b :> None)] :
        s \in {<<None, None, None, None>>, <<o1, None, None, None>>, <<None, o1, None, None>>,
               <<None, None, o1, None>>, <<None, None, None, o1>>}}

(* A deletion of a and a creation with the value a had. *)
AgainTransactions == {(a :> Upd(o1, None)), (a :> Upd(None, o1))}

AgainStores == {[loose |-> (a :> o1), packed |-> (a :> None)]}

Symmetry == Permutations(Writer) \cup Permutations(Packer)
=============================================================================
