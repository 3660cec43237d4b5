----------------------------- MODULE JoinDedup -----------------------------
(***************************************************************************)
(* coordinator_seen_nonce (node.c): the coordinator's table of JOIN nonces *)
(* it has already answered.  slots is seen_join_nonce, count seen_count.   *)
(* The C function tests and records in one call; here the test and the two *)
(* fields it writes are three operators, used together by the caller.      *)
(***************************************************************************)
EXTENDS Naturals

CONSTANT MaxDedup   \* NODE_MAX_DEDUP, 32 in the code

ASSUME DedupAssumption == MaxDedup \in Nat \ {0}

Slot == 0 .. (MaxDedup - 1)

\* Mutant: the whole array is searched, filled or not.
SeenAnywhere(slots, count, nonce) == \E i \in Slot : slots[i] = nonce

\* The linear search looks at the first count slots only.
Seen(slots, count, nonce) == \E i \in 0 .. (count - 1) : slots[i] = nonce

\* Mutant: the nonce goes one slot too far.
RecordedNext(slots, count, nonce) == [slots EXCEPT ![(count + 1) % MaxDedup] = nonce]

\* count % MaxDedup is count itself while there is space.
RecordedSlots(slots, count, nonce) == [slots EXCEPT ![count % MaxDedup] = nonce]

\* Mutant: the fill level wraps one entry early.
CountWrapsEarly(count) == (count + 1) % MaxDedup

\* With the table full, count itself wraps: it is both fill level and cursor.
RecordedCount(count) ==
    IF count < MaxDedup THEN count + 1 ELSE (count + 1) % MaxDedup
=============================================================================
