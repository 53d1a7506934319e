--------------------------- MODULE MCDeltaSearch ---------------------------
(* Instances of DeltaSearch for TLC. *)
EXTENDS DeltaSearch

(* No path hashes; one path; a long path and a short one; a last share     *)
(* whose only boundary is not where it would be halved.                    *)
Hashes == { [e \in Index |-> 0],
            [e \in Index |-> 1],
            [e \in Index |-> IF e <= N - 3 THEN 1 ELSE 2],
            [e \in Index |-> IF e < N - 4 THEN 0 ELSE IF e = N - 1 THEN 2 ELSE 1] }

Lists == [hash : Hashes, preferred : {{1}}]
=============================================================================
