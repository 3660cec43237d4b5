----------------------------- MODULE DedupProofs -----------------------------
(***************************************************************************)
(* The coordinator's table of JOIN nonces remembers what DedupTable says,  *)
(* for a table of any size and any sequence of JOINs.                      *)
(***************************************************************************)
EXTENDS DedupTable, TLAPS

TableType ==
    /\ slots \in [Slot -> Nonces \cup {0}]
    /\ count \in Nat /\ count <= MaxDedup
    /\ recorded \in Seq(Nonces)

\* The slots that are searched hold the newest nonces, in the order recorded.
HoldsNewest ==
    /\ count <= Len(recorded)
    /\ \A i \in 0 .. (count - 1) :
          slots[i] = recorded[Len(recorded) - count + i + 1]

\* The fill level counts the nonces until the table is full, and is zero again
\* only in a table of one slot.
CountFollows ==
    /\ Len(recorded) <= MaxDedup => count = Len(recorded)
    /\ MaxDedup > 1 /\ recorded # <<>> => count > 0

NoRepetitionYet ==
    Len(recorded) <= MaxDedup =>
        \A j, k \in 1 .. Len(recorded) : recorded[j] = recorded[k] => j = k

TableInv == TableType /\ HoldsNewest /\ CountFollows /\ NoRepetitionYet

-----------------------------------------------------------------------------

\* Where a nonce goes and what the fill level becomes.
LEMMA Cursor ==
    ASSUME NEW c \in Nat, c <= MaxDedup
    PROVE  /\ c < MaxDedup => c % MaxDedup = c /\ RecordedCount(c) = c + 1
           /\ c = MaxDedup => /\ c % MaxDedup = 0
                              /\ MaxDedup > 1 => RecordedCount(c) = 1
                              /\ MaxDedup = 1 => RecordedCount(c) = 0
  BY DedupAssumption, SMT DEF RecordedCount

LEMMA TableInit == Init => TableInv
<1> SUFFICES ASSUME Init PROVE TableInv
  OBVIOUS
<1>1. recorded = <<>> /\ Len(recorded) = 0 /\ count = 0 /\ recorded \in Seq(Nonces)
  BY DEF Init
<1>2. slots \in [Slot -> Nonces \cup {0}]
  BY DEF Init
<1> QED
  BY <1>1, <1>2, DedupAssumption
     DEF TableInv, TableType, HoldsNewest, CountFollows, NoRepetitionYet

LEMMA OfferStep ==
    ASSUME TableInv, NEW nonce \in Nonces, Offer(nonce)
    PROVE  TableInv'
<1> DEFINE L == Len(recorded)
<1>1. /\ L \in Nat /\ L' = L + 1 /\ recorded' \in Seq(Nonces) /\ recorded' # <<>>
      /\ recorded'[L + 1] = nonce
      /\ \A j \in 1 .. L : recorded'[j] = recorded[j]
  BY DEF Offer, TableInv, TableType
<1>2. count \in Nat /\ count <= MaxDedup /\ MaxDedup \in Nat /\ MaxDedup > 0
  BY DedupAssumption DEF TableInv, TableType
<1>3. count' = RecordedCount(count)
  BY DEF Offer
<1>4. slots' \in [Slot -> Nonces \cup {0}]
  BY DEF Offer, RecordedSlots, TableInv, TableType
<1>5. /\ slots'[count % MaxDedup] = nonce
      /\ \A i \in Slot : i # count % MaxDedup => slots'[i] = slots[i]
  <2>1. count % MaxDedup \in Slot
    BY <1>2, Cursor DEF Slot
  <2> QED
    BY <2>1 DEF Offer, RecordedSlots, TableInv, TableType
<1>6. /\ count <= L
      /\ \A i \in 0 .. (count - 1) : slots[i] = recorded[L - count + i + 1]
  BY DEF TableInv, HoldsNewest
<1>7. L <= MaxDedup => count = L
  BY DEF TableInv, CountFollows
<1> HIDE DEF L
<1>a. CASE count < MaxDedup
  <2>1. count' = count + 1 /\ count % MaxDedup = count
    BY <1>2, <1>3, <1>a, Cursor
  <2>2. ASSUME NEW i \in 0 .. count
        PROVE  slots'[i] = recorded'[L + 1 - (count + 1) + i + 1]
    <3>1. i \in Slot
      BY <1>2, <1>a DEF Slot
    <3>2. CASE i = count
      BY <1>1, <1>2, <1>5, <2>1, <3>2
    <3>3. CASE i # count
      <4>1. i \in 0 .. (count - 1) /\ L - count + i + 1 \in 1 .. L
        BY <1>1, <1>2, <1>6, <3>3
      <4>2. slots'[i] = recorded[L - count + i + 1]
        BY <1>5, <1>6, <2>1, <3>1, <3>3, <4>1
      <4>3. L + 1 - (count + 1) + i + 1 = L - count + i + 1
        BY <1>1, <1>2, <4>1
      <4> QED
        BY <1>1, <4>1, <4>2, <4>3
    <3> QED
      BY <3>2, <3>3
  <2>3. HoldsNewest'
    BY <1>1, <1>2, <1>6, <2>1, <2>2 DEF HoldsNewest, L
  <2>4. CountFollows'
    BY <1>1, <1>2, <1>7, <2>1 DEF CountFollows, L
  <2>5. ASSUME L + 1 <= MaxDedup, NEW j \in 1 .. L
        PROVE  recorded[j] # nonce
    <3>1. count = L /\ j - 1 \in 0 .. (count - 1)
      BY <1>1, <1>2, <1>7, <2>5
    <3>2. slots[j - 1] = recorded[j]
      BY <1>1, <1>6, <3>1
    <3> QED
      BY <3>1, <3>2 DEF Offer, Seen
  <2>6. NoRepetitionYet'
    <3> SUFFICES ASSUME L + 1 <= MaxDedup, NEW j \in 1 .. (L + 1),
                        NEW k \in 1 .. (L + 1), recorded'[j] = recorded'[k]
                 PROVE  j = k
      BY <1>1 DEF NoRepetitionYet, L
    <3>1. L <= MaxDedup
      BY <1>1, <1>2
    <3>2. \A a, b \in 1 .. L : recorded[a] = recorded[b] => a = b
      BY <3>1 DEF TableInv, NoRepetitionYet, L
    <3>3. CASE j \in 1 .. L /\ k \in 1 .. L
      BY <1>1, <3>2, <3>3
    <3>4. CASE j = L + 1 /\ k \in 1 .. L
      BY <1>1, <2>5, <3>4
    <3>5. CASE j \in 1 .. L /\ k = L + 1
      BY <1>1, <2>5, <3>5
    <3> QED
      BY <1>1, <3>3, <3>4, <3>5
  <2> QED
    BY <1>1, <1>2, <1>4, <1>a, <2>1, <2>3, <2>4, <2>6 DEF TableInv, TableType
<1>b. CASE count = MaxDedup
  <2>1. /\ count % MaxDedup = 0
        /\ MaxDedup > 1 => count' = 1
        /\ MaxDedup = 1 => count' = 0
    BY <1>2, <1>3, <1>b, Cursor
  <2>2. count' \in Nat /\ count' <= MaxDedup /\ (count' = 0 \/ count' = 1)
    BY <1>2, <2>1
  <2>3. L >= MaxDedup /\ L + 1 > MaxDedup
    BY <1>1, <1>2, <1>6, <1>b
  <2>4. HoldsNewest'
    <3>1. CASE count' = 0
      BY <1>1, <3>1 DEF HoldsNewest, L
    <3>2. CASE count' = 1
      <4>1. slots'[0] = recorded'[L + 1] /\ 1 <= L + 1 /\ L + 1 - 1 + 0 + 1 = L + 1
        BY <1>1, <1>5, <2>1
      <4>2. \A i \in 0 .. (1 - 1) : i = 0
        OBVIOUS
      <4> QED
        BY <1>1, <3>2, <4>1, <4>2 DEF HoldsNewest, L
    <3> QED
      BY <2>2, <3>1, <3>2
  <2>5. CountFollows' /\ NoRepetitionYet'
    <3>1. ~ (L' <= MaxDedup) /\ (MaxDedup > 1 => count' > 0)
      BY <1>1, <1>2, <2>1, <2>3
    <3> QED
      BY <3>1 DEF CountFollows, NoRepetitionYet, L
  <2> QED
    BY <1>1, <1>4, <2>2, <2>4, <2>5 DEF TableInv, TableType
<1> QED
  BY <1>2, <1>a, <1>b

LEMMA TableStep == TableInv /\ [Next]_vars => TableInv'
<1> SUFFICES ASSUME TableInv, [Next]_vars PROVE TableInv'
  OBVIOUS
<1>1. CASE Next
  BY <1>1, OfferStep DEF Next
<1>2. CASE UNCHANGED vars
  BY <1>2 DEF vars, TableInv, TableType, HoldsNewest, CountFollows, NoRepetitionYet
<1> QED
  BY <1>1, <1>2

LEMMA TableHolds == Spec => []TableInv
  BY TableInit, TableStep, PTL DEF Spec

-----------------------------------------------------------------------------

\* The nonces the search covers are the last count ones recorded.
LEMMA Covers ==
    ASSUME TableInv, NEW j \in 1 .. Len(recorded), j > Len(recorded) - count
    PROVE  Seen(slots, count, recorded[j])
<1>1. Len(recorded) \in Nat /\ count \in Nat /\ count <= Len(recorded)
  BY DEF TableInv, TableType, HoldsNewest
<1> DEFINE i == j - 1 - (Len(recorded) - count)
<1>2. i \in 0 .. (count - 1) /\ Len(recorded) - count + i + 1 = j
  BY <1>1
<1>3. slots[i] = recorded[j]
  BY <1>2 DEF TableInv, HoldsNewest
<1> QED
  BY <1>2, <1>3 DEF Seen

\* A nonce taken for a duplicate was answered before, so no node is left without
\* an id by what the array happens to contain (coordinator_seen_nonce).
THEOREM DuplicatesAreReal == Spec => []NoFalseDuplicate
<1>1. TableInv => NoFalseDuplicate
  <2> SUFFICES ASSUME TableInv, NEW nonce \in Nonces, NEW i \in 0 .. (count - 1),
                      slots[i] = nonce
               PROVE  \E j \in 1 .. Len(recorded) : recorded[j] = nonce
    BY DEF NoFalseDuplicate, Seen
  <2>1. Len(recorded) \in Nat /\ count \in Nat /\ count <= Len(recorded)
    BY DEF TableInv, TableType, HoldsNewest
  <2>2. Len(recorded) - count + i + 1 \in 1 .. Len(recorded)
    BY <2>1
  <2> QED
    BY <2>2 DEF TableInv, HoldsNewest
<1> QED
  BY <1>1, TableHolds, PTL

\* Every nonce is answered once until the table has filled, whatever its size.
THEOREM NothingForgottenBefore == Spec => []NothingForgottenYet
<1>1. TableInv => NothingForgottenYet
  <2> SUFFICES ASSUME TableInv, Len(recorded) <= MaxDedup
               PROVE  /\ Remembers(Len(recorded))
                      /\ \A j, k \in 1 .. Len(recorded) :
                            recorded[j] = recorded[k] => j = k
    BY DEF NothingForgottenYet
  <2>1. Len(recorded) \in Nat /\ count = Len(recorded)
    BY DEF TableInv, TableType, CountFollows
  <2>2. \A j \in 1 .. Len(recorded) : Seen(slots, count, recorded[j])
    BY <2>1, Covers
  <2>3. Remembers(Len(recorded))
    BY <2>1, <2>2 DEF Remembers
  <2> QED
    BY <2>3 DEF TableInv, NoRepetitionYet
<1> QED
  BY <1>1, TableHolds, PTL

\* A JOIN retried at once is recognised however long the coordinator has run,
\* in a table of any size above one.
THEOREM RetryRecognised == Spec => []NewestRemembered
<1>1. TableInv => NewestRemembered
  <2> SUFFICES ASSUME TableInv, MaxDedup > 1,
                      NEW j \in (Len(recorded) - 1 + 1) .. Len(recorded), j >= 1
               PROVE  Seen(slots, count, recorded[j])
    BY DEF NewestRemembered, Remembers
  <2>1. Len(recorded) \in Nat /\ count \in Nat
    BY DEF TableInv, TableType
  <2>2. j = Len(recorded) /\ Len(recorded) > 0
    BY <2>1
  <2>3. count > 0
    BY <2>2 DEF TableInv, CountFollows
  <2> QED
    BY <2>1, <2>2, <2>3, Covers
<1> QED
  BY <1>1, TableHolds, PTL
=============================================================================
