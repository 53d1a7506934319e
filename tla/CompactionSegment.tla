------------------------- MODULE CompactionSegment -------------------------
(***************************************************************************)
(* Auto-compaction of a reftable stack (reftable/stack.c):                 *)
(* suggest_compaction_segment(), one step per iteration of its two loops,  *)
(* and the compaction that follows.  Positions count from 1, and the end   *)
(* of a segment is its last table.  Sizes are file sizes without the       *)
(* header; sums of them do not reach 2^64.                                 *)
(***************************************************************************)
EXTENDS Naturals, Sequences

CONSTANTS
    Factor,     \* auto_compaction_factor
    Sizes,      \* the sizes a new table may have
    InitStacks  \* the sizes of the tables the stack may start with

ASSUME FactorAssumption == Factor \in Nat \ {0}
ASSUME SizeAssumption == Sizes \subseteq Nat \ {0} /\ InitStacks \subseteq Seq(Nat \ {0})

VARIABLES
    sizes,      \* the sizes of the tables of the stack
    pc,         \* "idle", in one of the loops, or at the compaction
    i,          \* the loop counter
    bytes,      \* the size of the tables from the counter to the end
    seg         \* the segment; its end is 0 if there is none

vars == <<sizes, pc, i, bytes, seg>>

NoSegment == [start |-> 0, end |-> 0, bytes |-> 0]

Init ==
    /\ sizes \in InitStacks
    /\ pc = "idle" /\ i = 0 /\ bytes = 0 /\ seg = NoSegment

(* A transaction or pack-refs --auto runs reftable_stack_auto_compact(); a *)
(* transaction has added a table before.                                   *)
Begin ==
    /\ pc = "idle"
    /\ sizes' \in {sizes} \cup {Append(sizes, s) : s \in Sizes}
    /\ pc' = IF Len(sizes') < 2 THEN "idle" ELSE "end"
    /\ i' = Len(sizes')
    /\ bytes' = 0
    /\ seg' = NoSegment

(* Mutant: a table of just the size wanted is compacted, too. *)
TooSmallOrEqual(size, next) == size <= next * Factor

(* A table that is too small for the one after it. *)
TooSmall(size, next) == size < next * Factor

(* The first loop looks for the end of the segment from the newest table.  *)
FindEnd ==
    /\ pc = "end"
    /\ IF i > 1 /\ TooSmall(sizes[i - 1], sizes[i])
         THEN /\ seg' = [seg EXCEPT !.end = i]
              /\ bytes' = sizes[i]
              /\ pc' = "start" /\ i' = i
         ELSE /\ i' = IF i > 1 THEN i - 1 ELSE i
              /\ pc' = IF i > 1 THEN "end" ELSE "idle"
              /\ UNCHANGED <<seg, bytes>>
    /\ UNCHANGED sizes

(* Mutant: stop at the first table that is large enough. *)
FindStartOnce ==
    /\ pc = "start"
    /\ IF i > 1 /\ TooSmall(sizes[i - 1], bytes)
         THEN /\ bytes' = bytes + sizes[i - 1]
              /\ seg' = [seg EXCEPT !.start = i - 1, !.bytes = bytes']
              /\ i' = i - 1
              /\ UNCHANGED pc
         ELSE pc' = "compact" /\ UNCHANGED <<i, bytes, seg>>
    /\ UNCHANGED sizes

(* The second loop goes on to the oldest table.  A table that is too small *)
(* for all the newer ones together becomes the start.                      *)
FindStart ==
    /\ pc = "start"
    /\ IF i > 1
         THEN /\ bytes' = bytes + sizes[i - 1]
              /\ seg' = IF TooSmall(sizes[i - 1], bytes)
                          THEN [seg EXCEPT !.start = i - 1, !.bytes = bytes']
                          ELSE seg
              /\ i' = i - 1
              /\ UNCHANGED pc
         ELSE pc' = "compact" /\ UNCHANGED <<i, bytes, seg>>
    /\ UNCHANGED sizes

(* The stack after a segment is replaced by a table of size m. *)
Compacted(m) ==
    SubSeq(sizes, 1, seg.start - 1) \o <<m>> \o SubSeq(sizes, seg.end + 1, Len(sizes))

(* stack_compact_range(): the new table is not larger than the old ones    *)
(* together, and is left out if it is empty, as it may be at the bottom of *)
(* the stack.                                                              *)
Compact ==
    /\ pc = "compact"
    /\ \/ \E m \in 1 .. seg.bytes : sizes' = Compacted(m)
       \/ seg.start = 1 /\ sizes' = SubSeq(sizes, seg.end + 1, Len(sizes))
    /\ pc' = "idle"
    /\ UNCHANGED <<i, bytes, seg>>

(* The compaction may also fail or lose a race. *)
Skip ==
    /\ pc = "compact"
    /\ pc' = "idle" /\ seg' = NoSegment /\ i' = 0
    /\ UNCHANGED <<sizes, bytes>>

Next == Begin \/ FindEnd \/ FindStart \/ Compact \/ Skip

Spec == Init /\ [][Next]_vars

-----------------------------------------------------------------------------
(* Properties. *)

(* Type correctness. *)
TypeOK ==
    /\ sizes \in Seq(Nat \ {0})
    /\ pc \in {"idle", "end", "start", "compact"}
    /\ i \in Nat /\ bytes \in Nat
    /\ seg \in [start : Nat, end : Nat, bytes : Nat]

Geometric(s) == \A k \in 1 .. Len(s) - 1 : s[k] >= s[k + 1] * Factor

(* The segment that is suggested is a range of two or more tables of the   *)
(* stack, and only a stack that is not geometric is compacted.             *)
SegmentIsNeeded ==
    pc = "compact" =>
        /\ 1 <= seg.start /\ seg.start < seg.end /\ seg.end <= Len(sizes)
        /\ sizes[seg.end] <= seg.bytes
        /\ ~Geometric(sizes)

(* "stack must form geometric sequence after compaction": replacing the    *)
(* segment by one table, as large as the newest of them or larger up to    *)
(* their sum, leaves a stack in which every table is Factor times as large *)
(* as the next; and if no segment is suggested it was one already.         *)
RestoresGeometric ==
    /\ pc = "compact" => \A m \in sizes[seg.end] .. seg.bytes : Geometric(Compacted(m))
    /\ pc = "end" /\ i = 1 => Geometric(sizes)

-----------------------------------------------------------------------------
(* The inductive invariant: what the loops know at each iteration.         *)

GoodPair(k) == sizes[k] >= sizes[k + 1] * Factor

(* All pairs that the first loop has passed are good. *)
EndLoopInv ==
    pc = "end" =>
        /\ seg = NoSegment
        /\ 1 <= i /\ i <= Len(sizes)
        /\ \A k \in i .. Len(sizes) - 1 : GoodPair(k)

(* So are those after the end and those before the start of the segment;   *)
(* and the table before the start is good for the segment as a whole.      *)
StartLoopInv ==
    pc \in {"start", "compact"} =>
        /\ 1 <= i /\ i <= seg.end /\ 2 <= seg.end /\ seg.end <= Len(sizes)
        /\ TooSmall(sizes[seg.end - 1], sizes[seg.end])
        /\ \A k \in seg.end .. Len(sizes) - 1 : GoodPair(k)
        /\ sizes[i] <= bytes
        /\ i = seg.end => bytes = sizes[seg.end]
        /\ i < seg.end =>
             /\ i <= seg.start /\ seg.start < seg.end
             /\ sizes[seg.end] <= seg.bytes /\ seg.bytes <= bytes
             /\ \A k \in i .. seg.start - 2 : GoodPair(k)
             /\ i < seg.start => sizes[seg.start - 1] >= seg.bytes * Factor
        /\ pc = "compact" => i = 1

IInv == TypeOK /\ EndLoopInv /\ StartLoopInv
=============================================================================
