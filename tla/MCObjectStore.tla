---------------------------- MODULE MCObjectStore ----------------------------
(* Instances of ObjectStore for TLC: k is a root commit that main keeps, o2 *)
(* a commit whose parent is o1, that topic may hold.                        *)
EXTENDS ObjectStore, TLC

CONSTANTS g1, g2, k, o1, o2, main, topic, branch

MCReaches == k :> {k} @@ o1 :> {o1} @@ o2 :> {o1, o2}

Store(t, x, y, c) ==
    [ref |-> main :> k @@ topic :> t @@ branch :> None,
     loose |-> k :> x[1] @@ o1 :> x[2] @@ o2 :> x[3],
     base |-> k :> y[1] @@ o1 :> y[2] @@ o2 :> y[3],
     cruft |-> c]

(* Everything is packed and old; k and o1 are loose and old; o1 is packed   *)
(* and o2 a newer loose object; o1 is loose and o2 not there; with cruft    *)
(* packs, also o1 both packed and loose.                                    *)
MCStores ==
    {Store(s[1], s[2], s[3], c) : c \in BOOLEAN, s \in {
        <<o2, <<"none", "none", "none">>, <<"old", "old", "old">>>>,
        <<o2, <<"old", "old", "none">>, <<"none", "none", "old">>>>,
        <<None, <<"none", "none", "new">>, <<"old", "old", "none">>>>,
        <<None, <<"none", "old", "none">>, <<"old", "none", "none">>>>}}
    \cup {Store(None, <<"none", "old", "none">>, <<"old", "old", "none">>, TRUE)}

(* Without cruft packs, o1 both packed and loose.                           *)
DuplicateStores == {Store(None, <<"none", "old", "none">>, <<"old", "old", "none">>, FALSE)}

Plan(s, q) == [objects |-> s, dest |-> branch, quarantine |-> q]
MCPlans == {Plan(<<o1, o2>>, FALSE), Plan(<<o1, o2>>, TRUE), Plan(<<o2>>, FALSE)}

GcSymmetry == Permutations({g1, g2})
=============================================================================
