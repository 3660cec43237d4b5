----------------------------- MODULE DedupTable -----------------------------
(***************************************************************************)
(* coordinator_seen_nonce over a long life of one coordinator: JOIN nonces *)
(* arrive in any order, retransmissions included, and the table is never   *)
(* emptied.  recorded is the sequence of nonces the table was told to keep,*)
(* that is, of the JOINs that were answered with a new id.                 *)
(***************************************************************************)
EXTENDS JoinDedup, Sequences

CONSTANTS
    Nonces,       \* the JOIN nonces that arrive
    MaxRecords    \* bound on the length of the history

ASSUME TableAssumption == MaxRecords \in Nat

VARIABLES slots, count, recorded

vars == <<slots, count, recorded>>

Init ==
    /\ slots = [i \in Slot |-> 0]
    /\ count = 0
    /\ recorded = <<>>

\* A JOIN with this nonce reaches the coordinator.
Offer(nonce) ==
    /\ ~ Seen(slots, count, nonce)
    /\ Len(recorded) < MaxRecords
    /\ slots' = RecordedSlots(slots, count, nonce)
    /\ count' = RecordedCount(count)
    /\ recorded' = Append(recorded, nonce)

Next == \E nonce \in Nonces : Offer(nonce)

Spec == Init /\ [][Next]_vars

-----------------------------------------------------------------------------

\* The last k nonces recorded are all recognised.
Remembers(k) ==
    \A j \in (Len(recorded) - k + 1) .. Len(recorded) :
        j >= 1 => Seen(slots, count, recorded[j])

\* A nonce is taken for a duplicate only if it was answered before: no node is
\* left without an id because of what the array happens to contain (it is zeroed, and 0 is a nonce too).
NoFalseDuplicate ==
    \A nonce \in Nonces :
        Seen(slots, count, nonce) =>
            \E j \in 1 .. Len(recorded) : recorded[j] = nonce

\* Until the table has filled once, nothing is forgotten: each nonce is
\* answered once.
NothingForgottenYet ==
    Len(recorded) <= MaxDedup =>
        /\ Remembers(Len(recorded))
        /\ \A j, k \in 1 .. Len(recorded) : recorded[j] = recorded[k] => j = k

\* A JOIN retried at once is still recognised, however long the coordinator
\* has been running (a table of one slot is the exception).
NewestRemembered == MaxDedup > 1 => Remembers(1)

\* "Buffer full - overwrite oldest entry (ring buffer behavior)" (node.c): a
\* full table keeps the newest MaxDedup nonces.
LatestRemembered == Remembers(MaxDedup)
=============================================================================
