------------------------------- MODULE SimBus -------------------------------
(***************************************************************************)
(* bus_sim.c: one ring buffer, mutex and condition variable per node, and  *)
(* a global mutex that a sender holds while it walks over all the queues.  *)
(*                                                                         *)
(* What happens under one queue's mutex is one step.  The global mutex is  *)
(* explicit, because receivers run between the pushes of one bus_send.  A  *)
(* frame is its number in the order in which bus_send took the global      *)
(* mutex; its contents play no part.  SimMain composes these operations    *)
(* with the threads that call them.                                        *)
(***************************************************************************)
EXTENDS Naturals

CONSTANTS
    NumNodes,        \* num_nodes: queues in use, one per thread (at most 16)
    RING_CAPACITY,   \* 64 in the code
    MaxSends         \* bound on the number of bus_send calls

ASSUME BusAssumption ==
    /\ NumNodes \in Nat \ {0}
    /\ RING_CAPACITY \in Nat \ {0}
    /\ MaxSends \in Nat

VARIABLES
    g_num_nodes,      \* queues that take part in a broadcast
    g_queues,         \* the ring buffers
    live,             \* queues whose mutex and condition exist
    g_global_mutex,   \* who holds it, or Nobody
    push_index,       \* loop variable i of the bus_send under way
    call,             \* where each thread is in bus_send or bus_recv
    sent,             \* frames sent so far
    got               \* what each thread's last bus_recv returned, 0 for none

busVars == <<g_num_nodes, g_queues, live, g_global_mutex, push_index, call, sent, got>>

Thread == 0 .. (NumNodes - 1)
Nobody == NumNodes
RingIndex == 0 .. (RING_CAPACITY - 1)

EmptyQueue == [buffer |-> [k \in RingIndex |-> 0], head |-> 0, tail |-> 0, count |-> 0]

BusInit ==
    /\ g_num_nodes = 0
    /\ g_queues = [t \in Thread |-> EmptyQueue]
    /\ live = {}
    /\ g_global_mutex = Nobody
    /\ push_index = 0
    /\ call = [t \in Thread |-> "none"]
    /\ sent = 0
    /\ got = [t \in Thread |-> 0]

-----------------------------------------------------------------------------
(* The ring buffer.                                                         *)

Advance(index) == (index + 1) % RING_CAPACITY

\* A full ring gives up its oldest frame.
MakeRoom(q) ==
    IF q.count = RING_CAPACITY
    THEN [q EXCEPT !.head = Advance(@), !.count = @ - 1]
    ELSE q

Stored(q, f) ==
    [q EXCEPT !.buffer[q.tail] = f, !.tail = Advance(@), !.count = @ + 1]

\* Mutant: the newest frame is written over, head stays.
RingPushKeepsHead(q, f) ==
    IF q.count = RING_CAPACITY
    THEN [q EXCEPT !.buffer[q.tail] = f, !.tail = Advance(@)]
    ELSE Stored(q, f)

ring_push(q, f) == Stored(MakeRoom(q), f)

\* The frame a non-empty ring returns, and what is left of it.
Oldest(q) == q.buffer[q.head]
ring_pop(q) == [q EXCEPT !.head = Advance(@), !.count = @ - 1]

-----------------------------------------------------------------------------
(* Creation and shutdown, called by main.                                   *)

GlobalFree == g_global_mutex = Nobody

bus_global_init ==
    /\ GlobalFree
    /\ g_num_nodes' = 0
    /\ g_queues' = [t \in Thread |-> EmptyQueue]
    /\ live' = Thread
    /\ UNCHANGED <<g_global_mutex, push_index, call, sent, got>>

\* The next queue joins the broadcast.  (num_nodes is at most 16, so the
\* check against MAX_NODES = 32 never fails.)
bus_create ==
    /\ GlobalFree
    /\ g_num_nodes' = g_num_nodes + 1
    /\ UNCHANGED <<g_queues, live, g_global_mutex, push_index, call, sent, got>>

bus_global_shutdown ==
    /\ GlobalFree
    /\ live' = live \ (0 .. (g_num_nodes - 1))
    /\ g_num_nodes' = 0
    /\ UNCHANGED <<g_queues, g_global_mutex, push_index, call, sent, got>>

-----------------------------------------------------------------------------
(* bus_send by thread t.                                                    *)

SendLock(t) ==
    /\ call[t] = "none"
    /\ sent < MaxSends
    /\ GlobalFree
    /\ sent' = sent + 1
    /\ g_global_mutex' = t
    /\ push_index' = 0
    /\ call' = [call EXCEPT ![t] = "send"]
    /\ UNCHANGED <<g_num_nodes, g_queues, live, got>>

\* Mutant: only a push into the first slot signals.
SignalledAtHead(i) ==
    [call EXCEPT ![i] = IF @ = "waiting" /\ g_queues[i].tail = 0 THEN "woken" ELSE @]

\* pthread_cond_signal: the queue's owner, if it waits, wakes up.
Signalled(i) == [call EXCEPT ![i] = IF @ = "waiting" THEN "woken" ELSE @]

SendPush(t) ==
    /\ g_global_mutex = t
    /\ push_index < g_num_nodes
    /\ g_queues' = [g_queues EXCEPT ![push_index] = ring_push(@, sent)]
    /\ call' = Signalled(push_index)
    /\ push_index' = push_index + 1
    /\ UNCHANGED <<g_num_nodes, live, g_global_mutex, sent, got>>

\* Mutant: a return that forgets the mutex.
SendReturnLocked(t) ==
    /\ g_global_mutex = t
    /\ push_index >= g_num_nodes
    /\ call' = [call EXCEPT ![t] = "none"]
    /\ UNCHANGED <<g_num_nodes, g_queues, live, g_global_mutex, push_index, sent, got>>

SendUnlock(t) ==
    /\ g_global_mutex = t
    /\ push_index >= g_num_nodes
    /\ g_global_mutex' = Nobody
    /\ call' = [call EXCEPT ![t] = "none"]
    /\ UNCHANGED <<g_num_nodes, g_queues, live, push_index, sent, got>>

-----------------------------------------------------------------------------
(* bus_recv by thread t, with a timeout: node.c always passes 50 ms.        *)

\* Take a frame, if there is one, and return.
PopAndReturn(t) ==
    /\ call' = [call EXCEPT ![t] = "none"]
    /\ \/ /\ g_queues[t].count > 0
          /\ got' = [got EXCEPT ![t] = Oldest(g_queues[t])]
          /\ g_queues' = [g_queues EXCEPT ![t] = ring_pop(@)]
       \/ /\ g_queues[t].count = 0
          /\ got' = [got EXCEPT ![t] = 0]
          /\ UNCHANGED g_queues
    /\ UNCHANGED <<g_num_nodes, live, g_global_mutex, push_index, sent>>

RecvAtOnce(t) ==
    /\ call[t] = "none"
    /\ g_queues[t].count > 0
    /\ PopAndReturn(t)

\* An empty queue: sleep on its condition, which releases its mutex.
RecvWait(t) ==
    /\ call[t] = "none"
    /\ g_queues[t].count = 0
    /\ call' = [call EXCEPT ![t] = "waiting"]
    /\ UNCHANGED <<g_num_nodes, g_queues, live, g_global_mutex, push_index, sent, got>>

\* The sleep ends without a signal: by the clock, or spuriously.
RecvExpire(t) ==
    /\ call[t] = "waiting"
    /\ \E wakeup \in {"expired", "woken"} : call' = [call EXCEPT ![t] = wakeup]
    /\ UNCHANGED <<g_num_nodes, g_queues, live, g_global_mutex, push_index, sent, got>>

\* rc # 0: return without a frame, even if one was pushed since the expiry.
RecvTimeout(t) ==
    /\ call[t] = "expired"
    /\ call' = [call EXCEPT ![t] = "none"]
    /\ got' = [got EXCEPT ![t] = 0]
    /\ UNCHANGED <<g_num_nodes, g_queues, live, g_global_mutex, push_index, sent>>

RecvWoken(t) ==
    /\ call[t] = "woken"
    /\ PopAndReturn(t)
=============================================================================
