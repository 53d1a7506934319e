------------------------ MODULE MCCompactionSegment ------------------------
(* Instance of CompactionSegment for TLC: all stacks of up to MaxTables    *)
(* tables of up to MaxSize bytes, and one more table.                      *)
EXTENDS CompactionSegment

CONSTANTS MaxTables, MaxSize, MaxTotal

SmallSizes == 1 .. MaxSize
SmallStacks == UNION {[1 .. n -> 1 .. MaxSize] : n \in 0 .. MaxTables}

(* Tables are not added to a stack that is full, and do not grow for ever. *)
Bounded == Len(sizes) <= MaxTables + 1 /\ \A k \in DOMAIN sizes : sizes[k] <= MaxTotal
=============================================================================
