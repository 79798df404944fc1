---------------------------- MODULE EventBusProofs ----------------------------
(***************************************************************************)
(* The array written round and round is the log of the newest items, for   *)
(* any size, and so is the buffer of the event bus, whatever its           *)
(* publishers, flushes and clears; the batches are a partition of the      *)
(* events published, and the event log shows the newest of them.           *)
(***************************************************************************)
EXTENDS EventBus, FiniteSetTheorems, SequenceTheorems, TLAPS

\* An index that has gone round at most once.
LEMMA RoundOnce ==
    ASSUME NEW n \in Nat, n < 2 * Size
    PROVE  n % Size = IF n < Size THEN n ELSE n - Size
<1>1. Size \in Nat \ {0}
  BY SizeAssumption
<1>2. CASE n < Size
  BY <1>1, <1>2
<1>3. CASE n >= Size
  BY <1>1, <1>3
<1> QED
  BY <1>1, <1>2, <1>3

\* From slot p on, and from the one behind it.
LEMMA RoundFrom ==
    ASSUME NEW p \in 0..(Size - 1), NEW i \in 1..Size, NEW q,
           q = IF p + 1 < Size THEN p + 1 ELSE 0
    PROVE  /\ i = Size => (q + i - 1) % Size = p
           /\ i # Size => /\ (q + i - 1) % Size = (p + i) % Size
                          /\ (p + i) % Size \in 0..(Size - 1)
                          /\ (p + i) % Size # p
<1> DEFINE m == p + i
           n == q + i - 1
<1>1. Size \in Nat \ {0} /\ q \in 0..(Size - 1)
  BY SizeAssumption
<1>2. m \in Nat /\ m < 2 * Size /\ n \in Nat /\ n < 2 * Size
  BY <1>1
<1>3. n = IF p + 1 < Size THEN m ELSE i - 1
  BY <1>1
<1>4. m = p + i
  OBVIOUS
<1> HIDE DEF m, n
<1>5. /\ m % Size = IF m < Size THEN m ELSE m - Size
      /\ n % Size = IF n < Size THEN n ELSE n - Size
  BY <1>2, RoundOnce
<1>6. i = Size => n % Size = p
  BY <1>1, <1>2, <1>3, <1>4, <1>5
<1>7. i # Size => n % Size = m % Size /\ m % Size \in 0..(Size - 1) /\ m % Size # p
  BY <1>1, <1>2, <1>3, <1>4, <1>5
<1> QED
  BY <1>6, <1>7 DEF m, n

\* Until the array is full, the next item goes behind the last one.
RingInv == RingTypeOK /\ (count < Size => pos = count)

Slots == Items \cup {None}

\* The slots of a ring of n items, from slot first on, as a sequence.
LEMMA FromSlotIsSeq ==
    ASSUME RingTypeOK, NEW first \in 0..(Size - 1),
           NEW start \in 0..Size, NEW end \in start..Size
    PROVE  /\ FromSlot(first, start, end) \in Seq(Slots)
           /\ Len(FromSlot(first, start, end)) = end - start
           /\ \A i \in 1..(end - start) :
                FromSlot(first, start, end)[i] = buf[(first + start + i - 1) % Size]
<1> DEFINE n == end - start
           f == FromSlot(first, start, end)
<1>1. n \in Nat /\ Size \in Nat \ {0}
  BY SizeAssumption
<1>2. ASSUME NEW i \in 1..n
      PROVE  buf[(first + start + i - 1) % Size] \in Slots
  <2>1. first + start + i - 1 \in Nat /\ first + start + i - 1 < 2 * Size
    BY <1>1
  <2>2. (first + start + i - 1) % Size \in 0..(Size - 1)
    BY <1>1, <2>1, RoundOnce
  <2> QED
    BY <2>2 DEF RingTypeOK, Slots
<1>3. f \in [1..n -> Slots]
  BY <1>2 DEF FromSlot
<1>4. f \in Seq(Slots)
  BY <1>1, <1>3, SeqDef
<1>5. Len(f) = n
  BY <1>1, <1>3, <1>4, LenProperties
<1>6. \A i \in 1..n : f[i] = buf[(first + start + i - 1) % Size]
  BY DEF FromSlot
<1> QED
  BY <1>4, <1>5, <1>6

\* Where the oldest item is.
First == IF count < Size THEN 0 ELSE pos

\* What get_all() returns: the items from the oldest on.
AllFromFirst ==
    /\ GetAll \in Seq(Slots)
    /\ Len(GetAll) = count /\ count \in 0..Size /\ First \in 0..(Size - 1)
    /\ \A i \in 1..count : GetAll[i] = buf[(First + i - 1) % Size]

LEMMA GetAllIsSeq == RingInv => AllFromFirst
<1> SUFFICES ASSUME RingInv
             PROVE  AllFromFirst
  OBVIOUS
<1>1. Size \in Nat \ {0} /\ count \in 0..Size /\ First \in 0..(Size - 1)
  BY SizeAssumption DEF RingInv, RingTypeOK, First
<1>2. GetAll = FromSlot(First, 0, count)
  BY DEF GetAll, First
<1>3. 0 \in 0..Size /\ count \in 0..Size
  BY <1>1
<1>4. /\ FromSlot(First, 0, count) \in Seq(Slots)
      /\ Len(FromSlot(First, 0, count)) = count - 0
      /\ \A i \in 1..(count - 0) : FromSlot(First, 0, count)[i] = buf[(First + 0 + i - 1) % Size]
  BY <1>1, <1>3, FromSlotIsSeq DEF RingInv
<1>5. count - 0 = count /\ \A i \in 1..count : First + 0 + i - 1 = First + i - 1
  BY <1>1
<1> QED
  BY <1>1, <1>2, <1>4, <1>5 DEF AllFromFirst

LEMMA GetAllIsSeqNext == RingInv' => AllFromFirst'
BY GetAllIsSeq, PTL

LEMMA RingInvAppend ==
    ASSUME RingInv, NEW x \in Items, RingAppend(x)
    PROVE  RingInv'
<1>1. Size \in Nat \ {0} /\ pos \in 0..(Size - 1) /\ count \in 0..Size
  BY SizeAssumption DEF RingInv, RingTypeOK
<1>2. pos' = IF pos + 1 < Size THEN pos + 1 ELSE 0
  BY <1>1, RoundOnce DEF RingAppend
<1>3. count' = IF count < Size THEN count + 1 ELSE count
  BY DEF RingAppend
<1>4. buf' \in [0..(Size - 1) -> Items \cup {None}]
  BY DEF RingAppend, RingInv, RingTypeOK
<1> QED
  BY <1>1, <1>2, <1>3, <1>4 DEF RingInv, RingTypeOK

LEMMA RingInvClear == RingInv /\ RingClear => RingInv'
BY SizeAssumption DEF RingInv, RingTypeOK, RingClear

LEMMA ClearForgets == RingInv' /\ RingClear => GetAll' = <<>>
<1> SUFFICES ASSUME RingInv', RingClear
             PROVE  GetAll' = <<>>
  OBVIOUS
<1>1. count' = 0
  BY DEF RingClear
<1>2. GetAll' \in Seq(Slots) /\ Len(GetAll') = 0
  BY <1>1, GetAllIsSeqNext DEF AllFromFirst
<1> QED
  BY <1>2, EmptySeq

\* The newest items of the log with x: those it had, and the oldest one only if
\* there is room for it.
LEMMA AppendKeepsNewest ==
    ASSUME RingInv, NEW x \in Items, RingAppend(x)
    PROVE  GetAll' = Log!Newest(Append(GetAll, x))
<1> DEFINE new == Append(GetAll, x)
           kept1 == Log!Newest(new)
<1>1. /\ Size \in Nat \ {0} /\ pos \in 0..(Size - 1) /\ count \in 0..Size
      /\ count < Size => pos = count
      /\ buf \in [0..(Size - 1) -> Items \cup {None}]
  BY SizeAssumption DEF RingInv, RingTypeOK
<1>2. RingInv'
  BY RingInvAppend
<1>3. /\ GetAll' \in Seq(Slots) /\ Len(GetAll') = count'
      /\ \A i \in 1..count' : GetAll'[i] = buf'[(First' + i - 1) % Size]
  BY <1>2, GetAllIsSeqNext DEF AllFromFirst
<1>4. /\ GetAll \in Seq(Slots) /\ Len(GetAll) = count
      /\ \A i \in 1..count : GetAll[i] = buf[(First + i - 1) % Size]
  BY GetAllIsSeq DEF AllFromFirst
<1>5. /\ new \in Seq(Slots) /\ Len(new) = count + 1
      /\ new[count + 1] = x /\ \A i \in 1..count : new[i] = GetAll[i]
  BY <1>1, <1>4 DEF Slots
<1>9. \A i \in 0..(Size - 1) : buf'[i] = IF i = pos THEN x ELSE buf[i]
  BY <1>1 DEF RingAppend
<1>10. pos' = IF pos + 1 < Size THEN pos + 1 ELSE 0
  <2>1. pos + 1 \in Nat /\ pos + 1 < 2 * Size /\ (pos + 1 < Size \/ pos + 1 = Size)
    BY <1>1
  <2>2. (pos + 1) % Size = IF pos + 1 < Size THEN pos + 1 ELSE (pos + 1) - Size
    BY ONLY <2>1, RoundOnce, Zenon
  <2> QED
    BY <1>1, <2>1, <2>2 DEF RingAppend
<1>6. /\ pos' = IF pos + 1 < Size THEN pos + 1 ELSE 0
      /\ count' = IF count < Size THEN count + 1 ELSE count
      /\ \A i \in 0..(Size - 1) : buf'[i] = IF i = pos THEN x ELSE buf[i]
  BY <1>9, <1>10 DEF RingAppend
<1>7. CASE count < Size
  <2>1. kept1 = new /\ Len(new) = count'
    BY <1>1, <1>5, <1>6, <1>7 DEF Log!Newest
  <2>2. First = 0 /\ First' = 0
    BY <1>1, <1>6, <1>7 DEF First
  <2>3. ASSUME NEW i \in 1..count'
        PROVE  GetAll'[i] = new[i]
    <3>1. i - 1 \in Nat /\ i - 1 < Size /\ (i - 1) % Size = i - 1
      BY <1>1, <1>6, <1>7, RoundOnce
    <3>2. GetAll'[i] = buf'[i - 1]
      BY <1>3, <2>2, <3>1
    <3>3. CASE i = count + 1
      BY <1>1, <1>5, <1>6, <1>7, <3>1, <3>2, <3>3
    <3>4. CASE i # count + 1
      <4>1. i \in 1..count
        BY <1>1, <1>6, <1>7, <3>4
      <4>2. new[i] = buf[i - 1]
        BY <1>4, <1>5, <2>2, <3>1, <4>1
      <4>3. i - 1 \in 0..(Size - 1) /\ i - 1 # pos
        BY <1>1, <1>7, <4>1
      <4> QED
        BY <1>6, <3>2, <4>2, <4>3
    <3> QED
      BY <3>3, <3>4
  <2> QED
    BY <1>3, <1>5, <2>1, <2>3, SeqEqual
<1>8. CASE count = Size
  <2>1. count' = Size /\ First = pos /\ First' = pos'
    BY <1>1, <1>6, <1>8 DEF First
  <2>2. kept1 = SubSeq(new, 2, Size + 1)
    BY <1>1, <1>5, <1>8 DEF Log!Newest
  <2>3. /\ kept1 \in Seq(Slots) /\ Len(kept1) = Size
        /\ \A i \in 1..Size : kept1[i] = new[i + 1]
    <3>1. \A i \in 2..(Size + 1) : new[i] \in Slots
      BY <1>1, <1>5, <1>8, ElementOfSeq
    <3>2. 2 \in Int /\ Size + 1 \in Int /\ (Size + 1) - 2 + 1 = Size /\ 2 <= Size + 1
      BY <1>1
    <3>3. \A i \in 1..Size : 2 + i - 1 = i + 1
      BY <1>1
    <3> DEFINE last1 == Size + 1
    <3>4. /\ last1 \in Int /\ \A i \in 2..last1 : new[i] \in Slots
          /\ kept1 = SubSeq(new, 2, last1)
      BY <2>2, <3>1, <3>2
    <3> HIDE DEF kept1, new, last1
    <3>5. /\ kept1 \in Seq(Slots)
          /\ Len(kept1) = IF 2 <= last1 THEN last1 - 2 + 1 ELSE 0
          /\ \A i \in 1..last1 - 2 + 1 : kept1[i] = new[2 + i - 1]
      BY ONLY <3>4, SubSeqProperties
    <3> QED
      BY <3>2, <3>3, <3>5 DEF last1
  <2>4. ASSUME NEW i \in 1..Size
        PROVE  GetAll'[i] = kept1[i]
    <3>1. GetAll'[i] = buf'[(pos' + i - 1) % Size] /\ kept1[i] = new[i + 1]
      BY <1>3, <2>1, <2>3
    <3>2. /\ i = Size => (pos' + i - 1) % Size = pos
          /\ i # Size => /\ (pos' + i - 1) % Size = (pos + i) % Size
                         /\ (pos + i) % Size \in 0..(Size - 1)
                         /\ (pos + i) % Size # pos
      <4>1. pos \in 0..(Size - 1) /\ i \in 1..Size
        BY <1>1
      <4> QED
        BY ONLY <4>1, <1>10, RoundFrom, Zenon
    <3>3. CASE i = Size
      BY <1>1, <1>5, <1>6, <1>8, <3>1, <3>2, <3>3
    <3>4. CASE i # Size
      <4>1. i + 1 \in 1..count /\ new[i + 1] = buf[(pos + i) % Size]
        <5>1. i + 1 \in 1..count /\ pos + (i + 1) - 1 = pos + i
          BY <1>1, <1>8, <3>4
        <5> QED
          BY <1>4, <1>5, <2>1, <5>1
      <4> QED
        BY <1>6, <3>1, <3>2, <3>4, <4>1
    <3> QED
      BY <3>3, <3>4
  <2> QED
    BY <1>3, <2>1, <2>3, <2>4, SeqEqual
<1> QED
  BY <1>1, <1>7, <1>8

\* A slice is the part of get_all() between its bounds.
LEMMA SlicesAgree == RingInv => SliceAgrees
<1> SUFFICES ASSUME RingInv, NEW start \in 0..Size, NEW end \in 0..Size,
                    start < end, end <= count
             PROVE  GetSlice(start, end) = SubSeq(GetAll, start + 1, end)
  BY DEF SliceAgrees
<1> DEFINE n == end - start
           slice == GetSlice(start, end)
           part == SubSeq(GetAll, start + 1, end)
<1>1. Size \in Nat \ {0} /\ count \in 0..Size /\ n \in Nat /\ n >= 1
  BY SizeAssumption DEF RingInv, RingTypeOK
<1>2. /\ GetAll \in Seq(Slots) /\ Len(GetAll) = count /\ First \in 0..(Size - 1)
      /\ \A i \in 1..count : GetAll[i] = buf[(First + i - 1) % Size]
  BY GetAllIsSeq DEF AllFromFirst
<1>3. slice = FromSlot(First, start, end)
  BY <1>1 DEF GetSlice, First
<1>4. start \in 0..Size /\ end \in start..Size
  BY <1>1
<1>5. /\ slice \in Seq(Slots) /\ Len(slice) = n
      /\ \A i \in 1..n : slice[i] = buf[(First + start + i - 1) % Size]
  BY <1>2, <1>3, <1>4, FromSlotIsSeq DEF RingInv
<1>6. /\ part \in Seq(Slots) /\ Len(part) = n
      /\ \A i \in 1..n : part[i] = GetAll[start + i]
  <2> DEFINE first1 == start + 1
  <2>1. \A i \in first1..end : GetAll[i] \in Slots
    BY <1>1, <1>2, ElementOfSeq
  <2>2. first1 \in Int /\ end \in Int /\ part = SubSeq(GetAll, first1, end)
    BY <1>1
  <2> HIDE DEF part, first1
  <2>3. /\ part \in Seq(Slots)
        /\ Len(part) = IF first1 <= end THEN end - first1 + 1 ELSE 0
        /\ \A i \in 1..end - first1 + 1 : part[i] = GetAll[first1 + i - 1]
    BY ONLY <2>1, <2>2, SubSeqProperties
  <2>4. /\ first1 <= end /\ end - first1 + 1 = n
        /\ \A i \in 1..n : first1 + i - 1 = start + i
    BY <1>1 DEF first1
  <2> QED
    BY <2>3, <2>4
<1>7. ASSUME NEW i \in 1..n
      PROVE  slice[i] = part[i]
  <2>1. start + i \in 1..count /\ First + (start + i) - 1 = First + start + i - 1
    BY <1>1, <1>2
  <2> QED
    BY <1>2, <1>5, <1>6, <2>1
<1> HIDE DEF slice, part
<1>8. slice = part
  BY <1>5, <1>6, <1>7, SeqEqual
<1> QED
  BY <1>8 DEF slice, part

-------------------------------------------------------------------------------
(* The buffer of the event bus                                              *)

BusRingInv == RingInv /\ issued \in Nat

LEMMA BusRingInit == Init => BusRingInv /\ Log!Init
<1> SUFFICES ASSUME Init
             PROVE  BusRingInv /\ Log!Init
  OBVIOUS
<1>1. BusRingInv /\ count = 0
  BY SizeAssumption DEF Init, BusRingInv, RingInv, RingTypeOK, RingInit
<1>2. GetAll \in Seq(Slots) /\ Len(GetAll) = 0
  BY <1>1, GetAllIsSeq DEF BusRingInv, AllFromFirst
<1> QED
  BY <1>1, <1>2, EmptySeq DEF Log!Init

\* The steps of the bus append an event, clear the buffer, or leave it alone.
LEMMA BusRingStep ==
    BusRingInv /\ [Next]_vars => BusRingInv' /\ [Log!Next]_GetAll
<1> SUFFICES ASSUME BusRingInv, [Next]_vars
             PROVE  BusRingInv' /\ [Log!Next]_GetAll
  OBVIOUS
<1> USE DEF BusRingInv
<1>1. ASSUME NEW p \in Publishers, AppendToRing(p)
      PROVE  BusRingInv' /\ [Log!Next]_GetAll
  <2>1. issued + 1 \in Items /\ RingAppend(issued + 1) /\ issued' = issued + 1
    BY <1>1, EventsAssumption DEF AppendToRing
  <2>2. GetAll' = Log!Newest(Append(GetAll, issued + 1))
    BY <2>1, AppendKeepsNewest
  <2> QED
    BY <2>1, <2>2, RingInvAppend DEF Log!Next, Log!Append1
<1>2. CASE ClearBegins
  BY <1>2, RingInvClear, ClearForgets DEF ClearBegins, Log!Next, Log!Forget
<1>3. CASE UNCHANGED <<ringVars, issued>>
  <2>1. UNCHANGED <<buf, pos, count, issued>>
    BY <1>3 DEF ringVars
  <2> QED
    BY <2>1 DEF RingInv, RingTypeOK, GetAll, FromSlot
<1>4. CASE \/ Flush \/ Stop \/ BatchUpdate \/ ClearEnds \/ UNCHANGED vars
           \/ \E p \in Publishers : AddPending(p)
  BY <1>3, <1>4 DEF Flush, Stop, BatchUpdate, ClearEnds, AddPending, vars
<1> QED
  BY <1>1, <1>2, <1>4 DEF Next

\* For any size and any number of events, publishers and clears, get_all() of the
\* ring buffer is the log of the newest events, and get_slice() a part of it.
THEOREM RingIsBoundedLogHolds == Spec => RingIsBoundedLog
<1>1. BusRingInv => SliceAgrees
  BY SlicesAgree DEF BusRingInv
<1> QED
  BY <1>1, BusRingInit, BusRingStep, PTL DEF Spec, RingIsBoundedLog, Log!Spec

-------------------------------------------------------------------------------
(* What the event log shows                                                 *)

\* The newest n of a sequence, as a sequence.
LEMMA LastOfIsSeq ==
    ASSUME NEW s \in Seq(Events), NEW n \in Nat \ {0}
    PROVE  /\ LastOf(s, n) \in Seq(Events)
           /\ Len(LastOf(s, n)) = IF Len(s) > n THEN n ELSE Len(s)
           /\ \A i \in 1..Len(LastOf(s, n)) :
                 LastOf(s, n)[i] = s[i + Len(s) - Len(LastOf(s, n))]
<1> DEFINE m == Len(s) - n + 1
           k == Len(s)
           part == SubSeq(s, m, k)
<1>1. k \in Nat /\ \A i \in 1..k : s[i] \in Events
  BY LenProperties, ElementOfSeq
<1>2. CASE k <= n
  <2>1. LastOf(s, n) = s
    BY <1>1, <1>2 DEF LastOf
  <2>2. \A i \in 1..k : i + k - k = i
    BY <1>1
  <2> QED
    BY <1>1, <1>2, <2>1, <2>2
<1>3. CASE k > n
  <2>1. m \in Int /\ k \in Int /\ m <= k /\ k - m + 1 = n /\ \A i \in m..k : s[i] \in Events
    BY <1>1, <1>3
  <2>2. LastOf(s, n) = part /\ part = SubSeq(s, m, k)
    BY <1>3 DEF LastOf
  <2>3. \A i \in 1..n : m + i - 1 = i + k - n
    BY <1>1
  <2> HIDE DEF m, part
  <2>4. /\ part \in Seq(Events)
        /\ Len(part) = IF m <= k THEN k - m + 1 ELSE 0
        /\ \A i \in 1..k - m + 1 : part[i] = s[m + i - 1]
    BY ONLY <2>1, <2>2, SubSeqProperties
  <2> QED
    BY <1>3, <2>1, <2>2, <2>3, <2>4
<1> QED
  BY <1>1, <1>2, <1>3

\* What is newest after b is appended depends on the newest before it only.
LEMMA LastOfConcat ==
    ASSUME NEW s \in Seq(Events), NEW b \in Seq(Events), NEW n \in Nat \ {0}
    PROVE  LastOf(s \o b, n) = LastOf(LastOf(s, n) \o b, n)
<1> DEFINE t == LastOf(s, n)
           left == LastOf(s \o b, n)
           right == LastOf(t \o b, n)
<1>1. Len(s) \in Nat /\ Len(b) \in Nat
  BY LenProperties
<1>2. /\ t \in Seq(Events)
      /\ Len(t) = IF Len(s) > n THEN n ELSE Len(s)
      /\ \A i \in 1..Len(t) : t[i] = s[i + Len(s) - Len(t)]
  BY LastOfIsSeq
<1> HIDE DEF t
<1>3. /\ s \o b \in Seq(Events)
      /\ Len(s \o b) = Len(s) + Len(b)
      /\ \A i \in 1..Len(s) + Len(b) :
            (s \o b)[i] = IF i <= Len(s) THEN s[i] ELSE b[i - Len(s)]
  BY ConcatProperties
<1>4. /\ t \o b \in Seq(Events)
      /\ Len(t \o b) = Len(t) + Len(b)
      /\ \A i \in 1..Len(t) + Len(b) :
            (t \o b)[i] = IF i <= Len(t) THEN t[i] ELSE b[i - Len(t)]
  BY <1>2, ConcatProperties
<1> DEFINE sb == s \o b
           tb == t \o b
<1>5. /\ left \in Seq(Events)
      /\ Len(left) = IF Len(sb) > n THEN n ELSE Len(sb)
      /\ \A i \in 1..Len(left) : left[i] = sb[i + Len(sb) - Len(left)]
  BY <1>3, LastOfIsSeq
<1>6. /\ right \in Seq(Events)
      /\ Len(right) = IF Len(tb) > n THEN n ELSE Len(tb)
      /\ \A i \in 1..Len(right) : right[i] = tb[i + Len(tb) - Len(right)]
  BY <1>4, LastOfIsSeq
<1> HIDE DEF sb, tb, left, right
<1>7. Len(left) = Len(right)
  BY <1>1, <1>2, <1>3, <1>4, <1>5, <1>6 DEF sb, tb
<1>8. ASSUME NEW i \in 1..Len(left)
      PROVE  left[i] = right[i]
  <2> DEFINE x == i + Len(sb) - Len(left)
             y == i + Len(tb) - Len(right)
  <2>1. Len(sb) = Len(s) + Len(b) /\ Len(tb) = Len(t) + Len(b) /\ Len(t) \in Nat
    BY <1>1, <1>2, <1>3, <1>4 DEF sb, tb
  <2>2. left[i] = sb[x] /\ right[i] = tb[y]
    BY <1>5, <1>6, <1>7
  <2>3. /\ x \in 1..Len(s) + Len(b) /\ y \in 1..Len(t) + Len(b)
        /\ x - Len(s) = y - Len(t)
    <3>1. /\ Len(left) = IF Len(s) + Len(b) > n THEN n ELSE Len(s) + Len(b)
          /\ Len(right) = IF Len(t) + Len(b) > n THEN n ELSE Len(t) + Len(b)
      BY <2>1, <1>5, <1>6
    <3>2. /\ x = i + (Len(s) + Len(b)) - Len(left)
          /\ y = i + (Len(t) + Len(b)) - Len(left)
      BY <2>1, <1>7
    <3> HIDE DEF x, y
    <3>3. i \in 1..Len(left) /\ n \in Nat
      OBVIOUS
    <3> DEFINE l == Len(left)
    <3>4. l = Len(right) /\ l = Len(left) /\ l \in Nat /\ i <= l /\ 1 <= i /\ i \in Nat
      BY <1>1, <1>7, <2>1, <3>1, <3>3
    <3> HIDE DEF l
    <3>5. l <= Len(s) + Len(b) /\ l <= Len(t) + Len(b)
      BY <1>1, <2>1, <3>1, <3>3, <3>4
    <3> QED
      BY <1>1, <2>1, <3>2, <3>4, <3>5
  <2> HIDE DEF x, y
  <2>4. CASE x <= Len(s)
    <3>1. y \in 1..Len(t) /\ y + Len(s) - Len(t) = x
      BY <1>1, <1>2, <2>1, <2>3, <2>4
    <3>2. t[y] = s[y + Len(s) - Len(t)]
      BY <1>2, <3>1
    <3>3. sb[x] = s[x]
      BY <1>3, <2>3, <2>4 DEF sb
    <3>4. tb[y] = t[y]
      BY <1>4, <2>1, <2>3, <3>1 DEF tb
    <3> QED
      BY <2>2, <3>1, <3>2, <3>3, <3>4
  <2>5. CASE ~(x <= Len(s))
    <3>1. ~(y <= Len(t))
      BY <1>1, <1>2, <2>1, <2>3, <2>5
    <3>2. tb[y] = b[y - Len(t)] /\ sb[x] = b[x - Len(s)]
      BY <1>3, <1>4, <2>3, <2>5, <3>1 DEF sb, tb
    <3> QED
      BY <2>2, <2>3, <3>2
  <2> QED
    BY <2>4, <2>5
<1>9. left = right
  BY <1>5, <1>6, <1>7, <1>8, SeqEqual
<1> QED
  BY <1>9 DEF left, right, t

\* The newest of the newest.
LEMMA LastOfTwice ==
    ASSUME NEW s \in Seq(Events), NEW n \in Nat \ {0}
    PROVE  LastOf(LastOf(s, n), n) = LastOf(s, n)
BY LastOfIsSeq, LenProperties DEF LastOf

\* The lists of events; LogShowsNewest is inductive beside their types.
ListsOK ==
    /\ issued \in 0..NumEvents
    /\ holding \in [Publishers -> Events \cup {None}]
    /\ publisher \in [Events -> Publishers \cup {None}]
    /\ pending \in Seq(Events)
    /\ received \in Seq(Events)
    /\ display \in Seq(Events)
    /\ emitted \in Seq(Events)
    /\ kept \in Seq(Events)
    /\ dropped \in SUBSET Events

LogInv == ListsOK /\ LogShowsNewest

LEMMA EmitShowsNewest ==
    ASSUME LogInv, EmitPending, UNCHANGED <<issued, holding, publisher, dropped>>
    PROVE  LogInv'
<1>1. CASE pending = <<>>
  BY <1>1 DEF EmitPending, LogInv, ListsOK, LogShowsNewest, widgetVars
<1>2. CASE pending # <<>>
  <2>1. /\ received' = received \o pending /\ scheduled' = TRUE /\ display' = display
        /\ pending' = <<>> /\ emitted' = emitted \o pending /\ kept' = kept \o pending
    BY <1>2 DEF EmitPending, OnBatch
  <2>2. ListsOK'
    BY <2>1, ConcatProperties, EmptySeq DEF LogInv, ListsOK
  <2>3. /\ display \in Seq(Events) /\ received \in Seq(Events) /\ pending \in Seq(Events)
        /\ kept \in Seq(Events) /\ display \o received \in Seq(Events)
        /\ MaxDisplay \in Nat \ {0}
    BY MaxDisplayAssumption, ConcatProperties DEF LogInv, ListsOK
  <2>4. display' \o received' = (display \o received) \o pending
    <3>1. (display \o received) \o pending = display \o (received \o pending)
      BY ONLY <2>3, ConcatAssociative
    <3> QED
      BY <2>1, <3>1
  <2>5. LastOf(display \o received, MaxDisplay) = LastOf(kept, MaxDisplay)
    BY DEF LogInv, LogShowsNewest
  <2>6. LastOf((display \o received) \o pending, MaxDisplay)
           = LastOf(LastOf(display \o received, MaxDisplay) \o pending, MaxDisplay)
    BY <2>3, LastOfConcat
  <2>7. LastOf(kept \o pending, MaxDisplay)
           = LastOf(LastOf(kept, MaxDisplay) \o pending, MaxDisplay)
    BY <2>3, LastOfConcat
  <2>8. LastOf(display' \o received', MaxDisplay) = LastOf(kept', MaxDisplay)
    BY <2>1, <2>4, <2>5, <2>6, <2>7
  <2> QED
    BY <2>1, <2>2, <2>8 DEF LogInv, LogShowsNewest
<1> QED
  BY <1>1, <1>2

LEMMA LogInvInit == Init => LogInv
BY EventsAssumption, EmptySeq DEF Init, LogInv, ListsOK, LogShowsNewest, Events, LastOf

LEMMA LogInvStep == LogInv /\ [Next]_vars => LogInv'
<1> SUFFICES ASSUME LogInv, [Next]_vars
             PROVE  LogInv'
  OBVIOUS
<1>1. ASSUME NEW p \in Publishers, AppendToRing(p)
      PROVE  LogInv'
  <2>1. issued + 1 \in Events /\ issued' \in 0..NumEvents
    BY <1>1, EventsAssumption DEF AppendToRing, LogInv, ListsOK, Events
  <2> QED
    BY <1>1, <2>1 DEF AppendToRing, LogInv, ListsOK, LogShowsNewest, widgetVars, busVars
<1>2. ASSUME NEW p \in Publishers, AddPending(p)
      PROVE  LogInv'
  <2>1. holding[p] \in Events /\ pending \in Seq(Events)
    BY <1>2 DEF AddPending, LogInv, ListsOK
  <2>2. pending' \in Seq(Events) /\ holding' \in [Publishers -> Events \cup {None}]
    BY <1>2, <2>1 DEF AddPending, LogInv, ListsOK
  <2> QED
    BY <1>2, <2>2 DEF AddPending, LogInv, ListsOK, LogShowsNewest, widgetVars, historyVars
<1>3. CASE Flush \/ Stop
  BY <1>3, EmitShowsNewest DEF Flush, Stop
<1>4. CASE BatchUpdate
  <2>1. /\ display \in Seq(Events) /\ received \in Seq(Events)
        /\ display \o received \in Seq(Events) /\ MaxDisplay \in Nat \ {0}
    BY MaxDisplayAssumption, ConcatProperties DEF LogInv, ListsOK
  <2>2. /\ received' = <<>> /\ display' \in Seq(Events)
        /\ LastOf(display', MaxDisplay) = LastOf(display \o received, MaxDisplay)
    <3>1. CASE received = <<>>
      BY <1>4, <2>1, <3>1, ConcatEmptySeq DEF BatchUpdate
    <3>2. CASE received # <<>>
      BY <1>4, <2>1, <3>2, LastOfIsSeq, LastOfTwice DEF BatchUpdate, KeepNewest
    <3> QED
      BY <3>1, <3>2
  <2>3. display' \o received' = display'
    BY <2>2, ConcatEmptySeq
  <2>4. received' \in Seq(Events)
    BY <2>2, EmptySeq
  <2> QED
    BY <1>4, <2>2, <2>3, <2>4
    DEF BatchUpdate, LogInv, ListsOK, LogShowsNewest, busVars, historyVars
<1>5. CASE ClearBegins
  <2>1. display' = <<>> /\ received' = <<>> /\ kept' = <<>> /\ <<>> \in Seq(Events)
    BY <1>5, EmptySeq DEF ClearBegins
  <2>2. display' \o received' = kept'
    BY <2>1, ConcatEmptySeq
  <2> QED
    BY <1>5, <2>1, <2>2 DEF ClearBegins, LogInv, ListsOK, LogShowsNewest
<1>6. CASE ClearEnds
  <2>1. pending' = <<>> /\ pending' \in Seq(Events) /\ dropped' \in SUBSET Events
    BY <1>6, EmptySeq, ElementOfSeq, LenProperties DEF ClearEnds, LogInv, ListsOK
  <2> QED
    BY <1>6, <2>1 DEF ClearEnds, LogInv, ListsOK, LogShowsNewest, widgetVars
<1>7. CASE UNCHANGED vars
  BY <1>7 DEF vars, busVars, widgetVars, historyVars, LogInv, ListsOK, LogShowsNewest
<1> QED
  BY <1>1, <1>2, <1>3, <1>4, <1>5, <1>6, <1>7 DEF Next

\* Whatever is published, flushed and cleared meanwhile, the table and what waits for
\* its next update are the newest events since the last clear, and an update is due
\* whenever events wait for it (EventLogWidget._on_batch, _batch_update, _clear).
THEOREM LogShowsNewestHolds == Spec => []LogShowsNewest
<1>1. LogInv => LogShowsNewest
  BY DEF LogInv
<1> QED
  BY <1>1, LogInvInit, LogInvStep, PTL DEF Spec

-------------------------------------------------------------------------------
(* What is emitted, and in which order                                      *)

\* Past the ring buffer: what was emitted and what waits for it.
Sent == emitted \o pending

Earlier(s) ==
    \A i, j \in 1..Len(s) :
        i < j => /\ s[i] # s[j]
                 /\ publisher[s[i]] = publisher[s[j]] => s[i] < s[j]

\* The event that p holds between its two locks is the newest of p and nowhere else.
Holds(p, s) ==
    holding[p] # None =>
        /\ holding[p] \in 1..issued
        /\ publisher[holding[p]] = p
        /\ holding[p] \notin dropped
        /\ \A i \in 1..Len(s) :
              /\ s[i] # holding[p]
              /\ publisher[s[i]] = p => s[i] < holding[p]

\* Every event published is held, in s or dropped, and only there.
Partition(s) ==
    /\ \A i \in 1..Len(s) : s[i] \in 1..issued /\ s[i] \notin dropped
    /\ dropped \subseteq 1..issued
    /\ \A e \in 1..issued :
          \/ e \in dropped
          \/ \E i \in 1..Len(s) : s[i] = e
          \/ \E p \in Publishers : holding[p] = e

SentInv(s) ==
    /\ s \in Seq(Events)
    /\ Earlier(s) /\ Partition(s)
    /\ \A p \in Publishers : Holds(p, s)

DeliveryInv == ListsOK /\ SentInv(Sent)

LEMMA SentIsSeq ==
    ListsOK => /\ Sent \in Seq(Events) /\ Len(Sent) = Len(emitted) + Len(pending)
               /\ \A i \in 1..Len(emitted) : Sent[i] = emitted[i]
               /\ \A k \in 1..Len(pending) : Sent[Len(emitted) + k] = pending[k]
<1> SUFFICES ASSUME ListsOK
             PROVE  /\ Sent \in Seq(Events) /\ Len(Sent) = Len(emitted) + Len(pending)
                    /\ \A i \in 1..Len(emitted) : Sent[i] = emitted[i]
                    /\ \A k \in 1..Len(pending) : Sent[Len(emitted) + k] = pending[k]
  OBVIOUS
<1>1. /\ Sent \in Seq(Events) /\ Len(Sent) = Len(emitted) + Len(pending)
      /\ \A i \in 1..Len(emitted) + Len(pending) :
            Sent[i] = IF i <= Len(emitted) THEN emitted[i] ELSE pending[i - Len(emitted)]
  BY ConcatProperties DEF Sent, ListsOK
<1>2. Len(emitted) \in Nat /\ Len(pending) \in Nat
  BY LenProperties DEF ListsOK
<1>3. ASSUME NEW k \in 1..Len(pending)
      PROVE  Sent[Len(emitted) + k] = pending[k]
  <2>1. /\ Len(emitted) + k \in 1..Len(emitted) + Len(pending)
        /\ ~(Len(emitted) + k <= Len(emitted)) /\ Len(emitted) + k - Len(emitted) = k
    BY <1>2
  <2> QED
    BY <1>1, <2>1
<1> QED
  BY <1>1, <1>2, <1>3

LEMMA DeliveryInit == Init => DeliveryInv
<1> SUFFICES ASSUME Init
             PROVE  DeliveryInv
  OBVIOUS
<1>1. ListsOK
  BY LogInvInit DEF LogInv
<1>2. Sent \in Seq(Events) /\ Len(Sent) = 0
  BY <1>1, SentIsSeq, EmptySeq DEF Init
<1> QED
  BY <1>1, <1>2 DEF Init, DeliveryInv, SentInv, Earlier, Partition, Holds

\* A publisher takes the next number.
LEMMA DeliveryIssue ==
    ASSUME DeliveryInv, NEW p \in Publishers, AppendToRing(p), ListsOK'
    PROVE  DeliveryInv'
<1>1. /\ issued' = issued + 1 /\ issued \in Nat /\ issued + 1 \in Events
      /\ holding' = [holding EXCEPT ![p] = issued + 1]
      /\ publisher' = [publisher EXCEPT ![issued + 1] = p]
      /\ holding[p] = None /\ dropped' = dropped /\ Sent' = Sent
  BY EventsAssumption DEF AppendToRing, DeliveryInv, ListsOK, busVars, Sent, Events
<1>2. SentInv(Sent)
  BY DEF DeliveryInv
<1> DEFINE s == Sent
<1> HIDE DEF s
<1>3. s' = s /\ SentInv(s) /\ None \notin Events /\ Events = 1..NumEvents
  BY <1>1, <1>2, NoneAssumption, EventsAssumption DEF s, Events
<1>4. /\ holding \in [Publishers -> Events \cup {None}]
      /\ publisher \in [Events -> Publishers \cup {None}]
  BY DEF DeliveryInv, ListsOK
<1>5. \A e \in 1..issued : e \in Events /\ publisher'[e] = publisher[e] /\ e # issued + 1
  BY <1>1, <1>3, <1>4, EventsAssumption
<1>6. \A i \in 1..Len(s) : s[i] \in 1..issued
  BY <1>3 DEF SentInv, Partition
<1>7. Earlier(s)'
  BY <1>3, <1>5, <1>6 DEF SentInv, Earlier
<1>8. Partition(s)'
  <2>1. \A i \in 1..Len(s) : s[i] \in 1..(issued + 1) /\ s[i] \notin dropped
    BY <1>1, <1>3 DEF SentInv, Partition
  <2>2. dropped \subseteq 1..(issued + 1)
    BY <1>1, <1>3 DEF SentInv, Partition
  <2>3. ASSUME NEW e \in 1..(issued + 1)
        PROVE  \/ e \in dropped
               \/ \E i \in 1..Len(s) : s[i] = e
               \/ \E q \in Publishers : holding'[q] = e
    <3>1. CASE e = issued + 1
      BY <1>1, <1>4, <3>1
    <3>2. CASE e # issued + 1
      <4>1. e \in 1..issued
        BY <1>1, <3>2
      <4>2. \A q \in Publishers : holding[q] = e => holding'[q] = e
        BY <1>1, <1>3, <1>4, <1>5, <4>1
      <4> QED
        BY <1>3, <4>1, <4>2 DEF SentInv, Partition
    <3> QED
      BY <3>1, <3>2
  <2> QED
    BY <1>1, <1>3, <2>1, <2>2, <2>3 DEF Partition
<1>9. ASSUME NEW q \in Publishers
      PROVE  Holds(q, s)'
  <2>1. CASE q = p
    <3>1. holding'[q] = issued + 1 /\ publisher'[issued + 1] = q
      BY <1>1, <1>4, <2>1
    <3>2. issued + 1 \notin dropped
      BY <1>1, <1>3 DEF SentInv, Partition
    <3>3. \A i \in 1..Len(s) : s[i] # issued + 1 /\ s[i] < issued + 1
      BY <1>1, <1>6
    <3> QED
      BY <1>1, <1>3, <3>1, <3>2, <3>3 DEF Holds
  <2>2. CASE q # p
    <3>1. holding'[q] = holding[q]
      BY <1>1, <1>4, <2>2
    <3>2. Holds(q, s)
      BY <1>3 DEF SentInv
    <3> QED
      BY <1>1, <1>3, <1>5, <1>6, <3>1, <3>2 DEF Holds
  <2> QED
    BY <2>1, <2>2
<1>10. SentInv(s)'
  BY <1>3, <1>7, <1>8, <1>9 DEF SentInv
<1> QED
  BY <1>10 DEF DeliveryInv, s

\* It adds its event to _pending.
LEMMA DeliveryAdd ==
    ASSUME DeliveryInv, NEW p \in Publishers, AddPending(p), ListsOK'
    PROVE  DeliveryInv'
<1> DEFINE s == Sent
           e == holding[p]
<1>1. /\ holding \in [Publishers -> Events \cup {None}] /\ e \in Events /\ e # None
      /\ emitted \in Seq(Events) /\ pending \in Seq(Events) /\ None \notin Events
      /\ publisher \in [Events -> Publishers \cup {None}]
  BY NoneAssumption DEF AddPending, DeliveryInv, ListsOK, Events
<1>2. /\ pending' = Append(pending, e) /\ holding' = [holding EXCEPT ![p] = None]
      /\ emitted' = emitted /\ dropped' = dropped /\ issued' = issued
      /\ publisher' = publisher
  BY DEF AddPending, historyVars
<1>3. /\ s \in Seq(Events) /\ s' \in Seq(Events)
      /\ Len(s) = Len(emitted) + Len(pending) /\ Len(s') = Len(emitted) + Len(pending')
      /\ \A i \in 1..Len(emitted) : s[i] = emitted[i] /\ s'[i] = emitted[i]
      /\ \A k \in 1..Len(pending) : s[Len(emitted) + k] = pending[k]
      /\ \A k \in 1..Len(pending') : s'[Len(emitted) + k] = pending'[k]
  <2>1. (ListsOK => /\ s \in Seq(Events) /\ Len(s) = Len(emitted) + Len(pending)
                    /\ \A i \in 1..Len(emitted) : s[i] = emitted[i]
                    /\ \A k \in 1..Len(pending) : s[Len(emitted) + k] = pending[k])'
    BY SentIsSeq, PTL
  <2> QED
    BY <1>2, <2>1, SentIsSeq DEF DeliveryInv
<1>4. SentInv(s)
  BY DEF DeliveryInv
<1> HIDE DEF s, e
<1>5. /\ Len(emitted) \in Nat /\ Len(pending) \in Nat /\ Len(pending') = Len(pending) + 1
      /\ \A k \in 1..Len(pending) : pending'[k] = pending[k]
      /\ pending'[Len(pending) + 1] = e
  BY <1>1, <1>2, LenProperties
<1>6. /\ Len(s) \in Nat /\ Len(s') = Len(s) + 1 /\ s'[Len(s) + 1] = e
      /\ \A i \in 1..Len(s) : s'[i] = s[i]
  <2>1. Len(s) \in Nat /\ Len(s') = Len(s) + 1 /\ s'[Len(s) + 1] = e
    BY <1>3, <1>5
  <2>2. ASSUME NEW i \in 1..Len(s)
        PROVE  s'[i] = s[i]
    <3>1. CASE i <= Len(emitted)
      BY <1>3, <1>5, <3>1
    <3>2. CASE i > Len(emitted)
      <4>1. i - Len(emitted) \in 1..Len(pending) /\ i = Len(emitted) + (i - Len(emitted))
        BY <1>3, <1>5, <3>2
      <4> QED
        BY <1>3, <1>5, <4>1
    <3> QED
      BY <1>3, <1>5, <3>1, <3>2
  <2> QED
    BY <2>1, <2>2
<1>7. /\ e \in 1..issued /\ publisher[e] = p /\ e \notin dropped
      /\ \A i \in 1..Len(s) : s[i] # e /\ (publisher[s[i]] = p => s[i] < e)
  BY <1>1, <1>4 DEF SentInv, Holds, e
<1>8. \A i \in 1..Len(s') : i \in 1..Len(s) \/ i = Len(s) + 1
  BY <1>6
<1>9. Earlier(s)'
  <2> SUFFICES ASSUME NEW i \in 1..Len(s'), NEW j \in 1..Len(s'), i < j
               PROVE  /\ s'[i] # s'[j]
                      /\ publisher[s'[i]] = publisher[s'[j]] => s'[i] < s'[j]
    BY <1>2 DEF Earlier
  <2>1. i \in 1..Len(s)
    BY <1>6, <1>8
  <2>2. CASE j \in 1..Len(s)
    BY <1>4, <1>6, <2>1, <2>2 DEF SentInv, Earlier
  <2>3. CASE j = Len(s) + 1
    BY <1>6, <1>7, <2>1, <2>3
  <2> QED
    BY <1>8, <2>2, <2>3
<1>10. Partition(s)'
  <2>1. \A i \in 1..Len(s') : s'[i] \in 1..issued /\ s'[i] \notin dropped
    BY <1>4, <1>6, <1>7, <1>8 DEF SentInv, Partition
  <2>2. ASSUME NEW x \in 1..issued
        PROVE  \/ x \in dropped
               \/ \E i \in 1..Len(s') : s'[i] = x
               \/ \E q \in Publishers : holding'[q] = x
    <3>1. CASE x = e
      BY <1>6, <3>1
    <3>2. ASSUME NEW i \in 1..Len(s), s[i] = x
          PROVE  i \in 1..Len(s') /\ s'[i] = x
      BY <1>6, <3>2
    <3>3. ASSUME NEW q \in Publishers, holding[q] = x, x # e
          PROVE  holding'[q] = x
      BY <1>1, <1>2, <3>3 DEF e
    <3> QED
      BY <1>4, <3>1, <3>2, <3>3 DEF SentInv, Partition
  <2> QED
    BY <1>2, <1>4, <2>1, <2>2 DEF SentInv, Partition
<1>11. ASSUME NEW q \in Publishers
       PROVE  Holds(q, s)'
  <2>1. CASE q = p
    BY <1>1, <1>2, <2>1 DEF Holds
  <2>2. CASE q # p
    <3>1. holding'[q] = holding[q] /\ Holds(q, s)
      BY <1>1, <1>2, <1>4, <2>2 DEF SentInv
    <3>2. holding[q] # None => holding[q] # e
      BY <1>7, <2>2, <3>1 DEF Holds
    <3> QED
      BY <1>2, <1>6, <1>7, <1>8, <2>2, <3>1, <3>2 DEF Holds
  <2> QED
    BY <2>1, <2>2
<1>12. SentInv(s)'
  BY <1>3, <1>9, <1>10, <1>11 DEF SentInv
<1> QED
  BY <1>12 DEF DeliveryInv, s

\* A batch is emitted: what waited was sent already.
LEMMA DeliveryEmit ==
    ASSUME DeliveryInv, EmitPending, UNCHANGED <<issued, holding, publisher, dropped>>,
           ListsOK'
    PROVE  DeliveryInv'
<1>1. Sent' = Sent
  <2>1. CASE pending = <<>>
    BY <2>1 DEF EmitPending, Sent
  <2>2. CASE pending # <<>>
    <3>1. emitted' = emitted \o pending /\ pending' = <<>> /\ emitted' \in Seq(Events)
      BY <2>2 DEF EmitPending, ListsOK
    <3> QED
      BY <3>1, ConcatEmptySeq DEF Sent
  <2> QED
    BY <2>1, <2>2
<1> DEFINE s == Sent
<1>2. s' = s /\ SentInv(s)
  BY <1>1 DEF DeliveryInv
<1> HIDE DEF s
<1>3. SentInv(s)'
  BY <1>2 DEF SentInv, Earlier, Partition, Holds
<1> QED
  BY <1>3 DEF DeliveryInv, s

\* clear() takes what waits: what was emitted is a prefix of what was sent.
LEMMA DeliveryClear ==
    ASSUME DeliveryInv, ClearEnds, ListsOK'
    PROVE  DeliveryInv'
<1> DEFINE s == Sent
           n == Len(emitted)
<1>1. /\ pending' = <<>> /\ emitted' = emitted /\ issued' = issued /\ holding' = holding
      /\ publisher' = publisher
      /\ dropped' = dropped \cup {pending[i] : i \in DOMAIN pending}
  BY DEF ClearEnds
<1>2. emitted \in Seq(Events) /\ pending \in Seq(Events)
  BY DEF DeliveryInv, ListsOK
<1>3. DOMAIN pending = 1..Len(pending) /\ n \in Nat /\ Len(pending) \in Nat
  BY <1>2, LenProperties
<1>4. s' = emitted
  BY <1>1, <1>2, ConcatEmptySeq DEF Sent
<1>5. /\ s \in Seq(Events) /\ Len(s) = n + Len(pending)
      /\ \A i \in 1..n : s[i] = emitted[i]
      /\ \A k \in 1..Len(pending) : s[n + k] = pending[k]
  BY SentIsSeq DEF DeliveryInv
<1>6. SentInv(s)
  BY DEF DeliveryInv
<1> HIDE DEF s
<1>7. /\ Len(s') = n /\ \A i \in 1..n : i \in 1..Len(s) /\ s'[i] = s[i]
      /\ \A k \in 1..Len(pending) : n + k \in 1..Len(s)
  BY <1>3, <1>4, <1>5
<1>8. \A i \in 1..Len(s) : i \in 1..n \/ (i - n \in 1..Len(pending) /\ i = n + (i - n))
  BY <1>3, <1>5
<1>9. \A x \in dropped' : x \in dropped \/ \E k \in 1..Len(pending) : x = s[n + k]
  BY <1>1, <1>3, <1>5
<1>10. Earlier(s)'
  BY <1>1, <1>6, <1>7 DEF SentInv, Earlier
<1>11. Partition(s)'
  <2>1. ASSUME NEW i \in 1..n
        PROVE  s[i] \in 1..issued /\ s[i] \notin dropped'
    <3>1. i \in 1..Len(s) /\ s[i] \in 1..issued /\ s[i] \notin dropped
      BY <1>6, <1>7 DEF SentInv, Partition
    <3>2. ASSUME NEW k \in 1..Len(pending)
          PROVE  s[i] # s[n + k]
      <4>1. n + k \in 1..Len(s) /\ i < n + k
        BY <1>3, <1>7
      <4> QED
        BY <1>6, <3>1, <4>1 DEF SentInv, Earlier
    <3> QED
      BY <1>9, <3>1, <3>2
  <2>2. dropped' \subseteq 1..issued
    BY <1>6, <1>7, <1>9 DEF SentInv, Partition
  <2>3. ASSUME NEW x \in 1..issued
        PROVE  \/ x \in dropped'
               \/ \E i \in 1..n : s[i] = x
               \/ \E q \in Publishers : holding[q] = x
    <3>1. ASSUME NEW i \in 1..Len(s), s[i] = x, i \notin 1..n
          PROVE  x \in dropped'
      <4>1. i - n \in 1..Len(pending) /\ i = n + (i - n)
        BY <1>8, <3>1
      <4>2. s[i] = pending[i - n]
        BY <1>5, <4>1
      <4> QED
        BY <1>1, <1>3, <3>1, <4>1, <4>2
    <3> QED
      BY <1>1, <1>6, <3>1 DEF SentInv, Partition
  <2> QED
    BY <1>1, <1>7, <2>1, <2>2, <2>3 DEF Partition
<1>12. ASSUME NEW q \in Publishers
       PROVE  Holds(q, s)'
  <2>1. Holds(q, s)
    BY <1>6 DEF SentInv
  <2>2. holding[q] # None => holding[q] \notin dropped'
    BY <1>7, <1>9, <2>1 DEF Holds
  <2> QED
    BY <1>1, <1>7, <2>1, <2>2 DEF Holds
<1>13. SentInv(s)'
  BY <1>2, <1>4, <1>10, <1>11, <1>12 DEF SentInv
<1> QED
  BY <1>13 DEF DeliveryInv, s

LEMMA DeliveryStep == DeliveryInv /\ ListsOK' /\ [Next]_vars => DeliveryInv'
<1> SUFFICES ASSUME DeliveryInv, ListsOK', [Next]_vars
             PROVE  DeliveryInv'
  OBVIOUS
<1>1. CASE BatchUpdate \/ ClearBegins \/ UNCHANGED vars
  <2>1. UNCHANGED <<issued, holding, publisher, pending, emitted, dropped>>
    BY <1>1 DEF BatchUpdate, ClearBegins, vars, busVars, historyVars
  <2> DEFINE s == Sent
  <2>2. s' = s /\ SentInv(s)
    BY <2>1 DEF Sent, DeliveryInv
  <2> HIDE DEF s
  <2>3. SentInv(s)'
    BY <2>1, <2>2 DEF SentInv, Earlier, Partition, Holds
  <2> QED
    BY <2>3 DEF DeliveryInv, s
<1> QED
  BY <1>1, DeliveryIssue, DeliveryAdd, DeliveryEmit, DeliveryClear DEF Next, Flush, Stop

\* In a sequence whose elements differ, each occurs once or not at all.
LEMMA OccurrencesInDistinct ==
    ASSUME NEW s \in Seq(Events), NEW e,
           \A i, j \in 1..Len(s) : i < j => s[i] # s[j]
    PROVE  Occurrences(e, s) = IF \E i \in 1..Len(s) : s[i] = e THEN 1 ELSE 0
<1> DEFINE here == {i \in DOMAIN s : s[i] = e}
<1>1. Occurrences(e, s) = Cardinality(here)
  BY DEF Occurrences
<1>2. DOMAIN s = 1..Len(s) /\ Len(s) \in Nat
  BY LenProperties
<1>3. ASSUME NEW i \in 1..Len(s), s[i] = e
      PROVE  Cardinality(here) = 1
  <2>1. \A j \in 1..Len(s) : s[j] = e => j = i
    BY <1>2, <1>3
  <2>2. here = {i}
    BY <1>2, <1>3, <2>1
  <2> QED
    BY <2>2, FS_Singleton
<1>4. ASSUME ~\E i \in 1..Len(s) : s[i] = e
      PROVE  Cardinality(here) = 0
  <2>1. here = {}
    BY <1>2, <1>4
  <2> QED
    BY <2>1, FS_EmptySet
<1> QED
  BY <1>1, <1>3, <1>4

LEMMA DeliveryInvIsEnough == DeliveryInv => DeliveredOnceInOrder
<1> SUFFICES ASSUME DeliveryInv
             PROVE  DeliveredOnceInOrder
  OBVIOUS
<1> DEFINE s == Sent
           n == Len(emitted)
<1>1. emitted \in Seq(Events) /\ pending \in Seq(Events) /\ issued \in Nat
  BY DEF DeliveryInv, ListsOK
<1>2. /\ DOMAIN emitted = 1..n /\ DOMAIN pending = 1..Len(pending)
      /\ n \in Nat /\ Len(pending) \in Nat
  BY <1>1, LenProperties
<1>3. /\ s \in Seq(Events) /\ Len(s) = n + Len(pending)
      /\ \A i \in 1..n : s[i] = emitted[i]
      /\ \A k \in 1..Len(pending) : s[n + k] = pending[k]
  BY SentIsSeq DEF DeliveryInv
<1>4. Earlier(s) /\ Partition(s)
  BY DEF DeliveryInv, SentInv
<1> HIDE DEF s
<1>5. /\ \A i \in 1..n : i \in 1..Len(s)
      /\ \A k \in 1..Len(pending) : n + k \in 1..Len(s)
      /\ \A i \in 1..Len(s) :
            i \in 1..n \/ (i - n \in 1..Len(pending) /\ i = n + (i - n))
  BY <1>2, <1>3
<1>6. /\ \A i, j \in 1..n : i < j => emitted[i] # emitted[j]
      /\ \A i, j \in 1..Len(pending) : i < j => pending[i] # pending[j]
      /\ \A i \in 1..n : \A k \in 1..Len(pending) : emitted[i] # pending[k]
  <2>1. \A i, j \in 1..n : i < j => emitted[i] # emitted[j]
    BY <1>3, <1>4, <1>5 DEF Earlier
  <2>2. ASSUME NEW i \in 1..Len(pending), NEW j \in 1..Len(pending), i < j
        PROVE  pending[i] # pending[j]
    <3>1. n + i \in 1..Len(s) /\ n + j \in 1..Len(s) /\ n + i < n + j
      BY <1>2, <1>5, <2>2
    <3>2. s[n + i] # s[n + j] /\ pending[i] = s[n + i] /\ pending[j] = s[n + j]
      BY <1>3, <1>4, <3>1 DEF Earlier
    <3> QED
      BY <3>2
  <2>3. ASSUME NEW i \in 1..n, NEW k \in 1..Len(pending)
        PROVE  emitted[i] # pending[k]
    <3>1. i \in 1..Len(s) /\ n + k \in 1..Len(s) /\ i < n + k
      BY <1>2, <1>5
    <3> QED
      BY <1>3, <1>4, <3>1 DEF Earlier
  <2> QED
    BY <2>1, <2>2, <2>3
<1>7. PublisherOrder
  BY <1>2, <1>3, <1>4, <1>5 DEF PublisherOrder, Earlier
<1>8. ASSUME NEW e \in 1..issued, ~\E p \in Publishers : holding[p] = e
      PROVE  Occurrences(e, emitted) + Occurrences(e, pending)
                + (IF e \in dropped THEN 1 ELSE 0) = 1
  <2>1. /\ Occurrences(e, emitted) = IF \E i \in 1..n : emitted[i] = e THEN 1 ELSE 0
        /\ Occurrences(e, pending) =
              IF \E k \in 1..Len(pending) : pending[k] = e THEN 1 ELSE 0
    BY <1>1, <1>6, OccurrencesInDistinct
  <2>2. \/ e \in dropped
        \/ \E i \in 1..n : emitted[i] = e
        \/ \E k \in 1..Len(pending) : pending[k] = e
    <3>1. e \in dropped \/ \E i \in 1..Len(s) : s[i] = e
      BY <1>4, <1>8 DEF Partition
    <3>2. ASSUME NEW i \in 1..Len(s), s[i] = e, i \notin 1..n
          PROVE  i - n \in 1..Len(pending) /\ pending[i - n] = e
      <4>1. i - n \in 1..Len(pending) /\ i = n + (i - n)
        BY <1>5, <3>2
      <4>2. pending[i - n] = s[i]
        BY <1>3, <4>1
      <4> QED
        BY <3>2, <4>1, <4>2
    <3> QED
      BY <1>3, <3>1, <3>2
  <2>3. \A i \in 1..n : emitted[i] \notin dropped
    BY <1>3, <1>4, <1>5 DEF Partition
  <2>4. \A k \in 1..Len(pending) : pending[k] \notin dropped
    BY <1>3, <1>4, <1>5 DEF Partition
  <2> QED
    BY <1>6, <2>1, <2>2, <2>3, <2>4
<1> QED
  BY <1>7, <1>8 DEF DeliveredOnceInOrder, DeliveredOnce

\* However publishers, flushes and clears interleave between the two locks of publish(),
\* every event is in exactly one of the batches emitted, _pending and what a clear()
\* took, and the events of one publisher are emitted in the order it published them.
THEOREM DeliveredOnceInOrderHolds == Spec => []DeliveredOnceInOrder
<1>1. LogInv => ListsOK
  BY DEF LogInv
<1> QED
  BY <1>1, LogInvInit, LogInvStep, DeliveryInit, DeliveryStep, DeliveryInvIsEnough, PTL
  DEF Spec
===============================================================================
