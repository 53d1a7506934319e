------------------------------ MODULE MCIndex ------------------------------
(***************************************************************************)
(* Instances of Index for TLC.  A file holds one of two contents of the    *)
(* same size or nothing.                                                   *)
(***************************************************************************)
EXTENDS Index, TLC

Sizes == [x \in Contents |-> IF x = Empty THEN 0 ELSE 1]

Symmetry == Permutations(Paths) \cup Permutations(Commands) \cup Permutations(Contents \ {Empty})
=============================================================================
