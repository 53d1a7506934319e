---------------------------- MODULE MCSimpleIpc ----------------------------
(* Instances of SimpleIpc for TLC. *)
EXTENDS SimpleIpc, TLC

CONSTANTS s1, s2, c1, c2

(* The first server has two workers and its successor has one. *)
TwoAndOne == (s1 :> 2 @@ s2 :> 1)
=============================================================================
