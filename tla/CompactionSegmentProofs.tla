---------------------- MODULE CompactionSegmentProofs ----------------------
(* Proofs about module CompactionSegment, for every factor and every stack. *)
EXTENDS CompactionSegment, SequenceTheorems, TLAPS

(* Multiplication by the factor keeps the order of sizes. *)
LEMMA TimesFactor ==
    ASSUME NEW a \in Nat, NEW b \in Nat, a <= b
    PROVE  a * Factor <= b * Factor
<1>1. PICK d \in Nat : b = a + d
    <2>1. b - a \in Nat /\ b = a + (b - a)
        OBVIOUS
    <2> QED BY <2>1
<1>2. b * Factor = a * Factor + d * Factor
    BY <1>1, FactorAssumption
<1>3. d * Factor \in Nat /\ a * Factor \in Nat
    BY <1>1, FactorAssumption
<1> QED BY <1>2, <1>3

(* The loops and the compaction keep the types of the variables. *)
LEMMA TypeInitially == Init => TypeOK
BY SizeAssumption DEF Init, TypeOK, NoSegment

(* The first loop starts with no pair passed. *)
LEMMA BeginKeepsInv == IInv /\ Begin => IInv'
<1> SUFFICES ASSUME IInv, Begin PROVE IInv'
    OBVIOUS
<1>1. sizes' \in Seq(Nat \ {0})
    <2>1. CASE sizes' = sizes
        BY <2>1 DEF IInv, TypeOK
    <2>2. CASE \E s \in Sizes : sizes' = Append(sizes, s)
        <3>1. PICK s \in Nat \ {0} : sizes' = Append(sizes, s)
            BY <2>2, SizeAssumption
        <3> QED BY <3>1 DEF IInv, TypeOK
    <2> QED BY <2>1, <2>2 DEF Begin
<1>2. TypeOK'
    BY <1>1 DEF TypeOK, Begin, NoSegment
<1>3. EndLoopInv'
    BY <1>1 DEF EndLoopInv, Begin
<1>4. StartLoopInv'
    BY DEF StartLoopInv, Begin
<1> QED BY <1>2, <1>3, <1>4 DEF IInv

(* The first loop passes good pairs until it meets a bad one. *)
LEMMA FindEndKeepsInv == IInv /\ FindEnd => IInv'
<1> SUFFICES ASSUME IInv, FindEnd PROVE IInv'
    OBVIOUS
<1> USE FactorAssumption
<1>0. /\ sizes \in Seq(Nat \ {0}) /\ i \in Nat /\ 1 <= i /\ i <= Len(sizes)
      /\ pc = "end" /\ seg = NoSegment /\ sizes' = sizes
    BY DEF IInv, TypeOK, EndLoopInv, FindEnd
<1>1. CASE i > 1 /\ TooSmall(sizes[i - 1], sizes[i])
    <2>1. /\ pc' = "start" /\ i' = i /\ bytes' = sizes[i]
          /\ seg' = [start |-> 0, end |-> i, bytes |-> 0]
        BY <1>0, <1>1 DEF FindEnd, NoSegment
    <2>2. TypeOK'
        BY <1>0, <2>1 DEF TypeOK
    <2>3. StartLoopInv'
        BY <1>0, <1>1, <2>1 DEF StartLoopInv, EndLoopInv, IInv, GoodPair, TooSmall
    <2> QED BY <2>1, <2>2, <2>3 DEF IInv, EndLoopInv
<1>2. CASE i > 1 /\ ~TooSmall(sizes[i - 1], sizes[i])
    <2>1. pc' = "end" /\ i' = i - 1 /\ seg' = seg /\ bytes' = bytes
        BY <1>0, <1>2 DEF FindEnd
    <2>2. TypeOK'
        BY <1>0, <1>2, <2>1 DEF TypeOK, IInv
    <2>3. GoodPair(i - 1)
        BY <1>0, <1>2 DEF GoodPair, TooSmall
    <2>4. EndLoopInv'
        BY <1>0, <1>2, <2>1, <2>3 DEF EndLoopInv, IInv, GoodPair
    <2> QED BY <2>1, <2>2, <2>4 DEF IInv, StartLoopInv
<1>3. CASE ~(i > 1)
    <2>1. pc' = "idle" /\ i' = i /\ seg' = seg /\ bytes' = bytes
        BY <1>0, <1>3 DEF FindEnd
    <2> QED BY <1>0, <2>1 DEF IInv, TypeOK, EndLoopInv, StartLoopInv
<1> QED BY <1>1, <1>2, <1>3

(* The second loop keeps what it knows about the tables before the start.  *)
LEMMA FindStartKeepsInv == IInv /\ FindStart => IInv'
<1> SUFFICES ASSUME IInv, FindStart PROVE IInv'
    OBVIOUS
<1> USE FactorAssumption
<1>1. /\ sizes \in Seq(Nat \ {0}) /\ i \in Nat /\ bytes \in Nat
      /\ seg \in [start : Nat, end : Nat, bytes : Nat]
      /\ pc = "start" /\ sizes' = sizes
    BY DEF IInv, TypeOK, FindStart
<1>2. /\ 1 <= i /\ i <= seg.end /\ 2 <= seg.end /\ seg.end <= Len(sizes)
      /\ TooSmall(sizes[seg.end - 1], sizes[seg.end])
      /\ \A k \in seg.end .. Len(sizes) - 1 : GoodPair(k)
      /\ sizes[i] <= bytes
      /\ i = seg.end => bytes = sizes[seg.end]
    BY <1>1 DEF IInv, StartLoopInv
<1>3. ASSUME i < seg.end
      PROVE  /\ i <= seg.start /\ seg.start < seg.end
             /\ sizes[seg.end] <= seg.bytes /\ seg.bytes <= bytes
             /\ \A k \in i .. seg.start - 2 : GoodPair(k)
             /\ i < seg.start => sizes[seg.start - 1] >= seg.bytes * Factor
    BY <1>1, <1>3 DEF IInv, StartLoopInv
<1>4. /\ i \in Nat /\ bytes \in Nat /\ seg.start \in Nat /\ seg.end \in Nat /\ seg.bytes \in Nat
      /\ sizes[i] \in Nat /\ sizes[seg.end] \in Nat
      /\ i > 1 => sizes[i - 1] \in Nat
    <2>1. /\ seg.start \in Nat /\ seg.end \in Nat /\ seg.bytes \in Nat
          /\ i \in Nat /\ bytes \in Nat
        BY <1>1
    <2>2. \A k \in 1 .. Len(sizes) : sizes[k] \in Nat
        BY <1>1
    <2>3. Len(sizes) \in Nat /\ i \in Nat
        BY <1>1
    <2>4. i \in 1 .. Len(sizes) /\ seg.end \in 1 .. Len(sizes)
        BY <1>2, <2>1, <2>3
    <2>5. i > 1 => i - 1 \in 1 .. Len(sizes)
        BY <2>3, <2>4
    <2> QED BY <2>1, <2>2, <2>4, <2>5
<1>5. \A k : GoodPair(k)' <=> GoodPair(k)
    BY <1>1 DEF GoodPair
<1>6. CASE i > 1 /\ TooSmall(sizes[i - 1], bytes)
    <2>1. pc' = "start" /\ i' = i - 1 /\ bytes' = bytes + sizes[i - 1]
        BY <1>1, <1>6 DEF FindStart
    <2>2. seg' = [start |-> i - 1, end |-> seg.end, bytes |-> bytes + sizes[i - 1]]
        BY <1>1, <1>6, <2>1 DEF FindStart
    <2>3. TypeOK'
        <3>1. i - 1 \in Nat /\ bytes + sizes[i - 1] \in Nat /\ seg.end \in Nat
            BY <1>4, <1>6
        <3>2. seg' \in [start : Nat, end : Nat, bytes : Nat]
            BY <2>2, <3>1
        <3> QED BY <1>1, <2>1, <3>1, <3>2 DEF TypeOK
    <2>4. sizes[seg.end] <= bytes
        <3>1. CASE i = seg.end
            BY <1>2, <3>1
        <3>2. CASE i < seg.end
            <4>1. sizes[seg.end] <= seg.bytes /\ seg.bytes <= bytes
                BY <1>3, <3>2
            <4>2. bytes \in Nat /\ seg.bytes \in Nat /\ sizes[seg.end] \in Nat
                BY <1>4
            <4> QED BY <4>1, <4>2
        <3>3. i <= seg.end /\ i \in Nat /\ seg.end \in Nat
            BY <1>2, <1>4
        <3>4. i = seg.end \/ i < seg.end
            BY <3>3
        <3> QED BY <3>1, <3>2, <3>4
    <2>5. StartLoopInv'
        <3>1. seg'.start = i - 1 /\ seg'.end = seg.end /\ seg'.bytes = bytes + sizes[i - 1]
            BY <2>2
        <3>2. 1 <= i - 1 /\ i - 1 < seg.end /\ i - 1 # seg.end
            <4>1. i \in Nat /\ i > 1 /\ i <= seg.end /\ seg.end \in Nat
                BY <1>2, <1>4, <1>6
            <4> QED BY <4>1
        <3>3. /\ sizes[i - 1] <= bytes + sizes[i - 1]
              /\ sizes[seg.end] <= bytes + sizes[i - 1]
            BY <1>4, <1>6, <2>4
        <3>4. \A k \in i - 1 .. (i - 1) - 2 : GoodPair(k)
            <4>1. i - 1 .. (i - 1) - 2 = {}
                BY <1>1
            <4> QED BY <4>1
        <3>5. i - 1 <= seg.end /\ ~(i - 1 < i - 1) /\ i - 1 <= i - 1
            BY <1>4, <3>2
        <3>6. bytes + sizes[i - 1] <= bytes + sizes[i - 1]
            BY <1>4, <1>6
        <3> QED BY <1>1, <1>2, <1>5, <2>1, <3>1, <3>2, <3>3, <3>4, <3>5, <3>6, SMTT(60) DEF StartLoopInv
    <2> QED BY <2>1, <2>3, <2>5 DEF IInv, EndLoopInv
<1>7. CASE i > 1 /\ ~TooSmall(sizes[i - 1], bytes)
    <2>1. pc' = "start" /\ i' = i - 1 /\ bytes' = bytes + sizes[i - 1] /\ seg' = seg
        BY <1>1, <1>7 DEF FindStart
    <2>2. TypeOK'
        BY <1>1, <1>4, <1>7, <2>1 DEF TypeOK
    <2>3. i # seg.end
        BY <1>2, <1>7
    <2>4. sizes[i - 1] >= bytes * Factor
        BY <1>1, <1>4, <1>7 DEF TooSmall
    <2>5. GoodPair(i - 1)
        <3>1. sizes[i] * Factor <= bytes * Factor
            BY <1>2, <1>4, TimesFactor
        <3>2. (i - 1) + 1 = i /\ sizes[i] * Factor \in Nat /\ bytes * Factor \in Nat
            BY <1>4
        <3> QED BY <1>4, <1>7, <2>4, <3>1, <3>2 DEF GoodPair
    <2>6. sizes[i - 1] >= seg.bytes * Factor
        <3>1. seg.bytes * Factor <= bytes * Factor
            <4>1. seg.bytes <= bytes
                BY <1>2, <1>3, <1>4, <2>3
            <4> QED BY <1>4, <4>1, TimesFactor
        <3>2. seg.bytes * Factor \in Nat /\ bytes * Factor \in Nat
            BY <1>4
        <3> QED BY <1>4, <1>7, <2>4, <3>1, <3>2
    <2>7. \A k \in i - 1 .. seg.start - 2 : GoodPair(k)
        <3> TAKE k \in i - 1 .. seg.start - 2
        <3>1. k = i - 1 \/ k \in i .. seg.start - 2
            BY <1>4
        <3> QED BY <1>2, <1>3, <1>4, <2>3, <2>5, <3>1
    <2>8. i - 1 < seg.start => sizes[seg.start - 1] >= seg.bytes * Factor
        <3>1. i < seg.end
            BY <1>2, <1>4, <2>3
        <3>2. CASE i < seg.start
            BY <1>3, <3>1, <3>2
        <3>3. CASE i = seg.start
            BY <2>6, <3>3
        <3>4. i <= seg.start
            BY <1>3, <3>1
        <3> QED BY <1>4, <3>2, <3>3, <3>4
    <2>9. i < seg.end
        BY <1>2, <1>4, <2>3
    <2>10. sizes[i - 1] <= bytes + sizes[i - 1] /\ seg.bytes <= bytes + sizes[i - 1]
        BY <1>3, <1>4, <1>7, <2>9
    <2>11. /\ 1 <= i - 1 /\ i - 1 <= seg.end /\ i - 1 # seg.end /\ i - 1 < seg.end
           /\ i - 1 <= seg.start /\ seg.start < seg.end /\ sizes[seg.end] <= seg.bytes
        <3>1. i <= seg.start /\ seg.start < seg.end /\ sizes[seg.end] <= seg.bytes
            BY <1>3, <2>9
        <3>2. i \in Nat /\ i > 1
            BY <1>1, <1>7
        <3> QED BY <1>4, <2>9, <3>1, <3>2
    <2>12. StartLoopInv'
        BY <1>1, <1>2, <1>5, <2>1, <2>7, <2>8, <2>10, <2>11 DEF StartLoopInv
    <2> QED BY <2>1, <2>2, <2>12 DEF IInv, EndLoopInv
<1>8. CASE ~(i > 1)
    <2>1. pc' = "compact" /\ i' = i /\ seg' = seg /\ bytes' = bytes
        BY <1>1, <1>8 DEF FindStart
    <2>2. i = 1
        BY <1>1, <1>2, <1>8
    <2>3. StartLoopInv'
        BY <1>1, <1>2, <1>3, <1>5, <2>1, <2>2 DEF StartLoopInv
    <2> QED BY <1>1, <2>1, <2>3 DEF IInv, TypeOK, EndLoopInv
<1> QED BY <1>6, <1>7, <1>8

(* The bounds of a segment that is about to be compacted. *)
LEMMA SegmentBounds ==
    IInv /\ pc = "compact" =>
        /\ 1 <= seg.start /\ seg.start < seg.end /\ seg.end <= Len(sizes)
        /\ sizes[seg.end] <= seg.bytes
        /\ {seg.start, seg.end, seg.bytes} \subseteq Nat /\ sizes \in Seq(Nat \ {0})
BY DEF IInv, TypeOK, StartLoopInv

(* A sequence without its first b elements. *)
LEMMA TailElements ==
    ASSUME NEW S, NEW s \in Seq(S), NEW b \in Nat, b <= Len(s)
    PROVE  /\ SubSeq(s, b + 1, Len(s)) \in Seq(S)
           /\ Len(SubSeq(s, b + 1, Len(s))) = Len(s) - b
           /\ \A k \in 1 .. Len(s) - b : SubSeq(s, b + 1, Len(s))[k] = s[b + k]
<1>1. SubSeq(s, b + 1, Len(s)) \in Seq(S)
    OBVIOUS
<1>2. Len(SubSeq(s, b + 1, Len(s))) = Len(s) - b
    OBVIOUS
<1>3. ASSUME NEW k \in 1 .. Len(s) - b
      PROVE  SubSeq(s, b + 1, Len(s))[k] = s[b + k]
    OBVIOUS
<1> QED BY <1>1, <1>2, <1>3

(* A sequence in which the elements from a to b are replaced by m, *)
Replaced(s, m, a, b) == SubSeq(s, 1, a - 1) \o <<m>> \o SubSeq(s, b + 1, Len(s))

(* and what is where in such a sequence t. *)
IsReplaced(t, S, s, m, a, b) ==
    /\ t \in Seq(S) /\ Len(t) = a + (Len(s) - b)
    /\ \A k \in 1 .. a - 1 : t[k] = s[k]
    /\ t[a] = m
    /\ \A j \in 1 .. Len(s) - b : t[a + j] = s[b + j]

(* Replacing a range by one element leaves the others in their order. *)
LEMMA ReplacedElements ==
    ASSUME NEW S, NEW s \in Seq(S), NEW m \in S,
           NEW a \in Nat, NEW b \in Nat, 1 <= a, a < b, b <= Len(s)
    PROVE  IsReplaced(Replaced(s, m, a, b), S, s, m, a, b)
<1> DEFINE t == Replaced(s, m, a, b)
           L == SubSeq(s, 1, a - 1)
           R == SubSeq(s, b + 1, Len(s))
           M == L \o <<m>>
<1>1. Len(s) \in Nat
    OBVIOUS
<1>2. L \in Seq(S) /\ Len(L) = a - 1 /\ \A k \in 1 .. a - 1 : L[k] = s[k]
    OBVIOUS
<1>3. /\ R \in Seq(S) /\ Len(R) = Len(s) - b
      /\ \A k \in 1 .. Len(s) - b : R[k] = s[b + k]
    BY TailElements
<1>4. t = M \o R
    BY DEF Replaced
<1> HIDE DEF L, R, t
<1>5. /\ M \in Seq(S) /\ Len(M) = a /\ M[a] = m
      /\ \A k \in 1 .. a - 1 : M[k] = s[k]
    <2> DEFINE E == <<m>>
    <2>1. E \in Seq(S) /\ Len(E) = 1 /\ E[1] = m
        OBVIOUS
    <2>2. M = L \o E
        OBVIOUS
    <2> HIDE DEF M, E
    <2>3. /\ M \in Seq(S) /\ Len(M) = Len(L) + Len(E)
          /\ \A k \in 1 .. Len(L) + Len(E) : M[k] = IF k <= Len(L) THEN L[k] ELSE E[k - Len(L)]
        BY <1>2, <2>1, <2>2, ConcatProperties
    <2>4. /\ Len(L) + Len(E) = a
          /\ a \in 1 .. a /\ ~(a <= a - 1) /\ a - (a - 1) = 1
          /\ \A k \in 1 .. a - 1 : k \in 1 .. a /\ k <= a - 1
        BY <1>2, <2>1
    <2>5. \A k \in 1 .. a : M[k] = IF k <= a - 1 THEN L[k] ELSE E[k - (a - 1)]
        BY <1>2, <2>3, <2>4, Zenon
    <2>6. M[a] = m
        BY <2>1, <2>4, <2>5, Zenon
    <2>7. \A k \in 1 .. a - 1 : M[k] = s[k]
        BY <1>2, <2>4, <2>5, Zenon
    <2> QED BY <2>3, <2>4, <2>6, <2>7, Zenon
<1> HIDE DEF M
<1>6. /\ t \in Seq(S) /\ Len(t) = Len(M) + Len(R)
      /\ \A k \in 1 .. Len(M) + Len(R) : t[k] = IF k <= Len(M) THEN M[k] ELSE R[k - Len(M)]
    <2>1. M \in Seq(S) /\ R \in Seq(S)
        BY <1>3, <1>5
    <2>2. /\ M \o R \in Seq(S) /\ Len(M \o R) = Len(M) + Len(R)
          /\ \A k \in 1 .. Len(M) + Len(R) :
               (M \o R)[k] = IF k <= Len(M) THEN M[k] ELSE R[k - Len(M)]
        BY <2>1, ConcatProperties, Zenon
    <2> QED BY <1>4, <2>2, Zenon
<1>7. /\ Len(t) = a + (Len(s) - b)
      /\ \A k \in 1 .. a + (Len(s) - b) : t[k] = IF k <= a THEN M[k] ELSE R[k - a]
    BY <1>3, <1>5, <1>6, Zenon
<1>8. \A k \in 1 .. a - 1 : t[k] = s[k]
    <2> TAKE k \in 1 .. a - 1
    <2>1. k \in 1 .. a + (Len(s) - b) /\ k <= a
        BY <1>1
    <2> QED BY <1>5, <1>7, <2>1, Zenon
<1>9. t[a] = m
    <2>1. a \in 1 .. a + (Len(s) - b) /\ a <= a
        BY <1>1
    <2> QED BY <1>5, <1>7, <2>1, Zenon
<1>10. \A j \in 1 .. Len(s) - b : t[a + j] = s[b + j]
    <2> TAKE j \in 1 .. Len(s) - b
    <2>1. a + j \in 1 .. a + (Len(s) - b) /\ ~(a + j <= a) /\ (a + j) - a = j
        BY <1>1
    <2>2. t[a + j] = R[(a + j) - a]
        BY <1>7, <2>1, Zenon
    <2> QED BY <1>3, <2>1, <2>2, Zenon
<1> QED BY <1>6, <1>7, <1>8, <1>9, <1>10, Zenon DEF IsReplaced, t

(* Compaction, or its failure, goes back to where nothing is claimed. *)
LEMMA CompactKeepsInv == IInv /\ (Compact \/ Skip) => IInv'
<1> SUFFICES ASSUME IInv, Compact \/ Skip PROVE IInv'
    OBVIOUS
<1>1. CASE Skip
    BY <1>1 DEF Skip, IInv, TypeOK, EndLoopInv, StartLoopInv, NoSegment
<1>2. CASE Compact
    <2>1. sizes' \in Seq(Nat \ {0})
        <3>1. ASSUME NEW m \in 1 .. seg.bytes, sizes' = Compacted(m)
              PROVE  sizes' \in Seq(Nat \ {0})
            <4>1. m \in Nat \ {0}
                BY <1>2, SegmentBounds DEF Compact
            <4>2. IsReplaced(Compacted(m), Nat \ {0}, sizes, m, seg.start, seg.end)
                BY <1>2, <4>1, SegmentBounds, ReplacedElements DEF Compact, Compacted, Replaced
            <4> QED BY <3>1, <4>2 DEF IsReplaced
        <3>2. CASE sizes' = SubSeq(sizes, seg.end + 1, Len(sizes))
            BY <1>2, <3>2, SegmentBounds, TailElements DEF Compact
        <3> QED BY <1>2, <3>1, <3>2 DEF Compact
    <2> QED BY <1>2, <2>1 DEF Compact, IInv, TypeOK, EndLoopInv, StartLoopInv
<1> QED BY <1>1, <1>2
(* Every step keeps the inductive invariant. *)
LEMMA InvInductive == IInv /\ [Next]_vars => IInv'
<1> SUFFICES ASSUME IInv, [Next]_vars PROVE IInv'
    OBVIOUS
<1>1. CASE UNCHANGED vars
    BY <1>1 DEF vars, IInv, TypeOK, EndLoopInv, StartLoopInv, GoodPair
<1> QED BY <1>1, BeginKeepsInv, FindEndKeepsInv, FindStartKeepsInv, CompactKeepsInv DEF Next

(* Before the first compaction nothing is claimed but the types. *)
LEMMA InvInitially == Init => IInv
BY TypeInitially DEF Init, IInv, EndLoopInv, StartLoopInv

(* The table before a segment that is compacted is large enough for it.    *)
LEMMA StackAroundSegment ==
    IInv /\ pc = "compact" =>
        /\ \A k \in seg.end .. Len(sizes) - 1 : GoodPair(k)
        /\ \A k \in 1 .. seg.start - 2 : GoodPair(k)
        /\ 1 < seg.start => sizes[seg.start - 1] >= seg.bytes * Factor
        /\ TooSmall(sizes[seg.end - 1], sizes[seg.end])
<1> SUFFICES ASSUME IInv, pc = "compact"
             PROVE  /\ \A k \in seg.end .. Len(sizes) - 1 : GoodPair(k)
                    /\ \A k \in 1 .. seg.start - 2 : GoodPair(k)
                    /\ 1 < seg.start => sizes[seg.start - 1] >= seg.bytes * Factor
                    /\ TooSmall(sizes[seg.end - 1], sizes[seg.end])
    OBVIOUS
<1>1. i = 1 /\ 2 <= seg.end /\ seg.end \in Nat
    BY DEF IInv, TypeOK, StartLoopInv
<1>2. i < seg.end
    BY <1>1
<1> QED BY <1>1, <1>2 DEF IInv, StartLoopInv

(* The segment has two tables or more and holds a pair that is not good.   *)
LEMMA NeededFromInv == IInv => SegmentIsNeeded
<1> SUFFICES ASSUME IInv, pc = "compact" PROVE SegmentIsNeeded
    BY DEF SegmentIsNeeded
<1>1. /\ 1 <= seg.start /\ seg.start < seg.end /\ seg.end <= Len(sizes)
      /\ sizes[seg.end] <= seg.bytes
      /\ seg.start \in Nat /\ seg.end \in Nat /\ sizes \in Seq(Nat \ {0})
    BY SegmentBounds
<1>2. sizes[seg.end - 1] < sizes[seg.end] * Factor
    BY StackAroundSegment DEF TooSmall
<1>3. seg.end - 1 \in 1 .. Len(sizes) - 1 /\ (seg.end - 1) + 1 = seg.end
    BY <1>1
<1>4. sizes[seg.end - 1] \in Nat /\ sizes[seg.end] * Factor \in Nat
    <2>1. \A k \in 1 .. Len(sizes) : sizes[k] \in Nat
        BY <1>1
    <2>2. seg.end - 1 \in 1 .. Len(sizes) /\ seg.end \in 1 .. Len(sizes)
        BY <1>1
    <2> QED BY <2>1, <2>2, FactorAssumption
<1>5. ~(sizes[seg.end - 1] >= sizes[seg.end] * Factor)
    BY <1>2, <1>4
<1>6. ~Geometric(sizes)
    BY <1>3, <1>5 DEF Geometric
<1> QED BY <1>1, <1>6 DEF SegmentIsNeeded

(* One table in place of the segment leaves good pairs only. *)
LEMMA CompactedIsGeometric ==
    ASSUME IInv, pc = "compact", NEW m \in sizes[seg.end] .. seg.bytes
    PROVE  Geometric(Compacted(m))
<1> DEFINE a == seg.start
           b == seg.end
           n == Len(sizes)
           t == Compacted(m)
<1>1. /\ a \in Nat /\ b \in Nat /\ n \in Nat /\ seg.bytes \in Nat
      /\ 1 <= a /\ a < b /\ b <= n /\ sizes \in Seq(Nat \ {0})
    BY SegmentBounds
<1>2. \A k \in 1 .. n : sizes[k] \in Nat \ {0}
    BY <1>1
<1>3. /\ sizes[b] \in Nat \ {0} /\ m \in Nat \ {0}
      /\ sizes[b] <= m /\ m <= seg.bytes
    <2>1. b \in 1 .. n
        BY <1>1
    <2>2. sizes[b] \in Nat \ {0}
        BY <1>2, <2>1
    <2> QED BY <1>1, <2>2
<1>4. /\ \A k \in b .. n - 1 : sizes[k] >= sizes[k + 1] * Factor
      /\ \A k \in 1 .. a - 2 : sizes[k] >= sizes[k + 1] * Factor
      /\ 1 < a => sizes[a - 1] >= seg.bytes * Factor
    BY StackAroundSegment DEF GoodPair
<1>5. IsReplaced(t, Nat \ {0}, sizes, m, a, b)
    <2>1. t = Replaced(sizes, m, a, b)
        BY DEF Compacted, Replaced
    <2> HIDE DEF a, b, t
    <2>2. IsReplaced(Replaced(sizes, m, a, b), Nat \ {0}, sizes, m, a, b)
        <3>1. sizes \in Seq(Nat \ {0}) /\ m \in Nat \ {0} /\ a \in Nat /\ b \in Nat
            BY <1>1, <1>3
        <3>2. 1 <= a /\ a < b /\ b <= Len(sizes)
            BY <1>1
        <3> HIDE DEF n
        <3> QED BY <3>1, <3>2, ReplacedElements, Zenon
    <2> QED BY <2>1, <2>2, Zenon
<1>6. /\ Len(t) = a + (n - b)
      /\ \A k \in 1 .. a - 1 : t[k] = sizes[k]
      /\ t[a] = m
      /\ \A j \in 1 .. n - b : t[a + j] = sizes[b + j]
    <2> HIDE DEF a, b, t
    <2> QED BY <1>5, Zenon DEF IsReplaced
<1> HIDE DEF a, b, n, t
<1>7. SUFFICES ASSUME NEW k \in 1 .. Len(t) - 1
               PROVE  t[k] >= t[k + 1] * Factor
    BY DEF Geometric, t
<1>8. CASE k < a - 1
    <2>1. k \in 1 .. a - 1 /\ k + 1 \in 1 .. a - 1 /\ k \in 1 .. a - 2
        BY <1>1, <1>8
    <2> QED BY <1>4, <1>6, <2>1
<1>9. CASE k = a - 1
    <2>1. k \in 1 .. a - 1 /\ k + 1 = a /\ 1 < a /\ a - 1 \in 1 .. n
        BY <1>1, <1>9
    <2>2. m * Factor <= seg.bytes * Factor
        BY <1>1, <1>3, TimesFactor
    <2>3. sizes[a - 1] \in Nat /\ m * Factor \in Nat /\ seg.bytes * Factor \in Nat
        <3>1. sizes[a - 1] \in Nat
            BY <1>2, <2>1
        <3>2. m * Factor \in Nat /\ seg.bytes * Factor \in Nat
            BY <1>1, <1>3, FactorAssumption
        <3> QED BY <3>1, <3>2
    <2>4. sizes[a - 1] >= seg.bytes * Factor
        BY <1>4, <2>1
    <2>5. sizes[a - 1] >= m * Factor
        BY <2>2, <2>3, <2>4
    <2>6. t[k] = sizes[a - 1] /\ t[k + 1] = m
        BY <1>6, <1>9, <2>1
    <2> QED BY <2>5, <2>6
<1>10. CASE k = a
    <2>1. /\ 1 \in 1 .. n - b /\ k + 1 = a + 1
          /\ b \in b .. n - 1 /\ b + 1 \in 1 .. n
        BY <1>1, <1>6, <1>10
    <2>2. t[k] = m /\ t[k + 1] = sizes[b + 1]
        BY <1>6, <1>10, <2>1
    <2>3. sizes[b] >= sizes[b + 1] * Factor
        BY <1>4, <2>1
    <2>4. sizes[b + 1] * Factor \in Nat
        BY <1>2, <2>1, FactorAssumption
    <2> QED BY <1>3, <2>2, <2>3, <2>4
<1>11. CASE k > a
    <2>1. PICK j \in 1 .. n - b - 1 : k = a + j
        <3>1. k - a \in 1 .. n - b - 1 /\ k = a + (k - a)
            BY <1>1, <1>6, <1>11
        <3> QED BY <3>1
    <2>2. /\ j \in 1 .. n - b /\ j + 1 \in 1 .. n - b /\ k + 1 = a + (j + 1)
          /\ b + j \in b .. n - 1 /\ b + (j + 1) = (b + j) + 1
        BY <1>1, <2>1
    <2>3. t[k] = sizes[b + j] /\ t[k + 1] = sizes[(b + j) + 1]
        BY <1>6, <2>1, <2>2, Zenon
    <2> QED BY <1>4, <2>2, <2>3
<1> QED BY <1>1, <1>6, <1>8, <1>9, <1>10, <1>11

(* With no segment to suggest, the first loop has passed all pairs. *)
LEMMA RestoresFromInv == IInv => RestoresGeometric
<1> SUFFICES ASSUME IInv PROVE RestoresGeometric
    OBVIOUS
<1>1. pc = "compact" => \A m \in sizes[seg.end] .. seg.bytes : Geometric(Compacted(m))
    BY CompactedIsGeometric
<1>2. pc = "end" /\ i = 1 => Geometric(sizes)
    BY DEF IInv, EndLoopInv, GoodPair, Geometric
<1> QED BY <1>1, <1>2 DEF RestoresGeometric

(* The inductive invariant holds in every reachable state. *)
LEMMA InvAlways == Spec => []IInv
<1>1. Init => IInv
    BY InvInitially
<1>2. IInv /\ [Next]_vars => IInv'
    BY InvInductive
<1> QED BY <1>1, <1>2, PTL DEF Spec

(* The loops of suggest_compaction_segment() stay inside the array of      *)
(* sizes and no table on the list is ever empty.                           *)
THEOREM TypeCorrect == Spec => []TypeOK
<1>1. IInv => TypeOK
    BY DEF IInv
<1> QED BY <1>1, InvAlways, PTL

(* A segment is suggested only for a stack that is not geometric, and it   *)
(* has two or more tables, all on the stack.                               *)
THEOREM SegmentNeeded == Spec => []SegmentIsNeeded
<1> QED BY NeededFromInv, InvAlways, PTL

(* Whatever the sizes and the factor, compacting the segment that          *)
(* suggest_compaction_segment() returns makes the stack geometric.         *)
THEOREM CompactionRestores == Spec => []RestoresGeometric
<1> QED BY RestoresFromInv, InvAlways, PTL
=============================================================================
