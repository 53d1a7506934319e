---------------------------- MODULE AtomicUpdate ----------------------------
(***************************************************************************)
(* What lockfile.h promises to the users of a locked file: the file is     *)
(* only ever replaced as a whole, and each replacement is computed from    *)
(* the contents it replaces.  A file is the set of updates that it         *)
(* contains; one step adds one update and loses none.                      *)
(***************************************************************************)
CONSTANT Update

VARIABLE content

Init == content = {}

Replace(u) == content' = content \cup {u}

Next == \E u \in Update : Replace(u)

Spec == Init /\ [][Next]_content
=============================================================================
