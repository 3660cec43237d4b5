---------------------------- MODULE BroadcastBus ----------------------------
(***************************************************************************)
(* What node.c expects of bus_interface.h when the bus is the simulated    *)
(* one: a broadcast in one total order.  Frames are numbered in the order  *)
(* they are sent.  A receiver is handed them one by one, in that order,    *)
(* each at most once, from the first one sent after it joined; it misses a *)
(* frame only if Capacity newer ones are waiting for it.                   *)
(***************************************************************************)
EXTENDS Naturals

CONSTANTS Receivers, Capacity

VARIABLES
    sent,   \* frames sent so far
    next,   \* number of the next frame for each receiver, 0 before it joins
    got     \* what the last receive call returned, 0 for nothing

vars == <<sent, next, got>>

Init ==
    /\ sent = 0
    /\ next = [r \in Receivers |-> 0]
    /\ got = [r \in Receivers |-> 0]

Joined(r) == next[r] > 0

Join(r) ==
    /\ ~ Joined(r)
    /\ next' = [next EXCEPT ![r] = sent + 1]
    /\ UNCHANGED <<sent, got>>

Send ==
    /\ sent' = sent + 1
    /\ UNCHANGED <<next, got>>

Receive(r) ==
    /\ Joined(r)
    /\ next[r] <= sent
    /\ got' = [got EXCEPT ![r] = next[r]]
    /\ next' = [next EXCEPT ![r] = @ + 1]
    /\ UNCHANGED sent

\* A receive call may time out although a frame is on its way.
ReceiveNothing(r) ==
    /\ Joined(r)
    /\ got' = [got EXCEPT ![r] = 0]
    /\ UNCHANGED <<sent, next>>

Miss(r) ==
    /\ Joined(r)
    /\ next[r] + Capacity <= sent
    /\ next' = [next EXCEPT ![r] = @ + 1]
    /\ UNCHANGED <<sent, got>>

Next ==
    \/ Send
    \/ \E r \in Receivers : Join(r) \/ Receive(r) \/ ReceiveNothing(r) \/ Miss(r)

Spec == Init /\ [][Next]_vars
=============================================================================
