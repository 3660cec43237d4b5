----------------------------- MODULE OrderProofs -----------------------------
(***************************************************************************)
(* The simulated bus implements the abstract broadcast, for any number of  *)
(* threads, frames and ring sizes: the rings with their indices, the walk  *)
(* of a sender over them and the life of the simulation are a refinement   *)
(* of BroadcastBus.                                                        *)
(***************************************************************************)
EXTENDS BusProofs, Integers

\* Where the k-th frame of a ring is stored.
At(q, k) == (q.head + k) % RING_CAPACITY

RingType == [buffer : [RingIndex -> Nat], head : RingIndex, tail : RingIndex, count : Nat]

Ring(q) ==
    /\ q \in RingType
    /\ q.count <= RING_CAPACITY
    /\ q.tail = At(q, q.count)

\* The ring holds the frames up to number last, without a gap.
Window(q, last) ==
    /\ q.count <= last
    /\ \A k \in Nat : k < q.count => q.buffer[At(q, k)] = last - q.count + 1 + k

\* What a thread will be handed.
QueuesInOrder ==
    \A t \in Thread :
        /\ Ring(g_queues[t])
        /\ IF bus[t] = "none" THEN g_queues[t].count = 0
                              ELSE Window(g_queues[t], LastPushed(t))

\* The global mutex is held by a thread inside bus_send.
Sending ==
    /\ sent \in Nat /\ push_index \in Nat
    /\ g_global_mutex \in Thread \cup {Nobody}
    /\ g_global_mutex # Nobody => call[g_global_mutex] = "send" /\ sent > 0
    /\ got \in [Thread -> Nat]

\* The queues that take part are those of the buses created so far.
Created ==
    /\ g_num_nodes \in Nat /\ g_num_nodes <= NumNodes
    /\ main_pc # "done" => \A t \in Thread : bus[t] # "none" <=> t < g_num_nodes
    /\ main_pc \in {"init", "create"} => g_num_nodes = index
    /\ main_pc = "spawn" => g_num_nodes = index + 1

OrderInv == QueuesInOrder /\ Sending /\ Created

-----------------------------------------------------------------------------
(* The ring buffer.                                                         *)

\* An index that has gone round the ring at most once.
LEMMA RoundTheRing ==
    ASSUME NEW n \in Nat, n > 0, NEW x \in Nat, x < n + n
    PROVE  x % n = (IF x < n THEN x ELSE x - n)
<1>1. CASE x < n
  BY <1>1, SMT
<1>2. CASE ~ (x < n)
  <2>1. x - n \in Nat /\ x - n < n /\ x = (x - n) + n
    BY <1>2
  <2> QED
    BY <1>2, <2>1, SMT
<1> QED
  BY <1>1, <1>2

\* Where the k-th frame is, without the remainder.
LEMMA Position ==
    ASSUME NEW q \in RingType, NEW k \in Nat, k <= RING_CAPACITY
    PROVE  /\ At(q, k) = (IF q.head + k < RING_CAPACITY THEN q.head + k
                                                     ELSE q.head + k - RING_CAPACITY)
           /\ At(q, k) \in RingIndex
<1>1. q.head \in Nat /\ q.head < RING_CAPACITY /\ RING_CAPACITY \in Nat /\ RING_CAPACITY > 0
  BY BusAssumption DEF RingType, RingIndex
<1>2. q.head + k \in Nat /\ q.head + k < RING_CAPACITY + RING_CAPACITY
  BY <1>1
<1>3. At(q, k) = (IF q.head + k < RING_CAPACITY THEN q.head + k
                                            ELSE q.head + k - RING_CAPACITY)
  BY <1>1, <1>2, RoundTheRing DEF At
<1> QED
  BY <1>1, <1>2, <1>3 DEF RingIndex

LEMMA Advances ==
    ASSUME NEW i \in RingIndex
    PROVE  /\ Advance(i) \in RingIndex
           /\ Advance(i) = (IF i + 1 < RING_CAPACITY THEN i + 1 ELSE i + 1 - RING_CAPACITY)
<1>1. i \in Nat /\ i < RING_CAPACITY /\ RING_CAPACITY \in Nat /\ RING_CAPACITY > 0
  BY BusAssumption DEF RingIndex
<1>2. i + 1 \in Nat /\ i + 1 < RING_CAPACITY + RING_CAPACITY
  BY <1>1
<1>3. Advance(i) = (IF i + 1 < RING_CAPACITY THEN i + 1 ELSE i + 1 - RING_CAPACITY)
  BY <1>1, <1>2, RoundTheRing DEF Advance
<1> QED
  BY <1>1, <1>3 DEF RingIndex

\* Taking the oldest frame moves the window by one.
LEMMA RingPop ==
    ASSUME NEW q, Ring(q), NEW last \in Nat, Window(q, last), q.count > 0
    PROVE  /\ Ring(ring_pop(q))
           /\ Window(ring_pop(q), last)
           /\ ring_pop(q).count = q.count - 1
           /\ Oldest(q) = last - q.count + 1
<1> DEFINE p == ring_pop(q)
<1>1. q \in RingType /\ q.count \in Nat /\ q.count <= RING_CAPACITY /\ q.count <= last
      /\ q.tail = At(q, q.count) /\ q.head \in RingIndex
      /\ RING_CAPACITY \in Nat /\ RING_CAPACITY > 0
  BY BusAssumption DEF Ring, RingType, Window
<1>2. /\ p \in RingType /\ p.buffer = q.buffer /\ p.tail = q.tail
      /\ p.head = Advance(q.head) /\ p.count = q.count - 1
  <2>1. Advance(q.head) \in RingIndex /\ q.count - 1 \in Nat
    BY <1>1, Advances
  <2> QED
    BY <1>1, <2>1 DEF ring_pop, RingType
<1>3. ASSUME NEW k \in Nat, k < q.count
      PROVE  At(p, k) = At(q, k + 1)
  <2>1. q.head \in Nat /\ q.head < RING_CAPACITY
    BY <1>1 DEF RingIndex
  <2>2. k + 1 \in Nat /\ k + 1 <= RING_CAPACITY /\ k <= RING_CAPACITY
    BY <1>1, <1>3
  <2>3. At(p, k) = (IF p.head + k < RING_CAPACITY THEN p.head + k ELSE p.head + k - RING_CAPACITY)
    BY <1>2, <2>2, Position
  <2>4. At(q, k + 1) = (IF q.head + (k + 1) < RING_CAPACITY THEN q.head + (k + 1)
                        ELSE q.head + (k + 1) - RING_CAPACITY)
    BY <1>1, <2>2, Position
  <2>5. p.head = (IF q.head + 1 < RING_CAPACITY THEN q.head + 1 ELSE q.head + 1 - RING_CAPACITY)
    BY <1>1, <1>2, Advances
  <2> QED
    BY <1>1, <2>1, <2>2, <2>3, <2>4, <2>5
<1>4. Ring(p)
  <2>1. q.count - 1 \in Nat /\ q.count - 1 < q.count /\ (q.count - 1) + 1 = q.count
    BY <1>1
  <2>2. At(p, q.count - 1) = At(q, q.count)
    BY <1>3, <2>1
  <2> QED
    BY <1>1, <1>2, <2>1, <2>2 DEF Ring
<1>5. Window(p, last)
  <2>1. ASSUME NEW k \in Nat, k < p.count
        PROVE  p.buffer[At(p, k)] = last - p.count + 1 + k
    <3>1. k + 1 \in Nat /\ k + 1 < q.count /\ k < q.count
      BY <1>1, <1>2, <2>1
    <3>2. q.buffer[At(q, k + 1)] = last - q.count + 1 + (k + 1)
      BY <3>1 DEF Window
    <3>3. p.buffer[At(p, k)] = q.buffer[At(q, k + 1)]
      BY <1>2, <1>3, <3>1
    <3>4. last - q.count + 1 + (k + 1) = last - p.count + 1 + k
      BY <1>1, <1>2
    <3> QED
      BY <3>2, <3>3, <3>4
  <2> QED
    BY <1>1, <1>2, <2>1 DEF Window
<1>6. Oldest(q) = last - q.count + 1
  <2>1. q.buffer[At(q, 0)] = last - q.count + 1 + 0
    BY <1>1 DEF Window
  <2>2. At(q, 0) = q.head
    BY <1>1, Position DEF RingIndex
  <2> QED
    BY <1>1, <2>1, <2>2 DEF Oldest
<1> QED
  BY <1>2, <1>4, <1>5, <1>6

\* A frame stored behind the newest one extends the window by its number.
LEMMA RingStore ==
    ASSUME NEW q, Ring(q), NEW last \in Nat, Window(q, last), q.count < RING_CAPACITY
    PROVE  /\ Ring(Stored(q, last + 1))
           /\ Window(Stored(q, last + 1), last + 1)
           /\ Stored(q, last + 1).count = q.count + 1
<1> DEFINE p == Stored(q, last + 1)
<1>1. q \in RingType /\ q.count \in Nat /\ q.count <= last
      /\ q.tail = At(q, q.count) /\ q.head \in RingIndex /\ q.tail \in RingIndex
      /\ q.buffer \in [RingIndex -> Nat]
      /\ RING_CAPACITY \in Nat /\ RING_CAPACITY > 0
  BY BusAssumption DEF Ring, RingType, Window
<1>2. q.head \in Nat /\ q.head < RING_CAPACITY
  BY <1>1 DEF RingIndex
<1>3. /\ p \in RingType /\ p.head = q.head /\ p.count = q.count + 1
      /\ p.tail = Advance(q.tail)
      /\ p.buffer = [q.buffer EXCEPT ![q.tail] = last + 1]
  <2>1. Advance(q.tail) \in RingIndex /\ q.count + 1 \in Nat /\ last + 1 \in Nat
    BY <1>1, Advances
  <2> QED
    BY <1>1, <2>1 DEF Stored, RingType
<1> HIDE DEF p
<1>4. \A k : At(p, k) = At(q, k)
  BY <1>3 DEF At
<1>5. Ring(p)
  <2>1. q.count + 1 \in Nat /\ q.count + 1 <= RING_CAPACITY /\ q.count <= RING_CAPACITY
    BY <1>1
  <2>2. At(q, q.count + 1) = (IF q.head + (q.count + 1) < RING_CAPACITY
                              THEN q.head + (q.count + 1)
                              ELSE q.head + (q.count + 1) - RING_CAPACITY)
    BY <1>1, <2>1, Position
  <2>3. q.tail = (IF q.head + q.count < RING_CAPACITY THEN q.head + q.count
                  ELSE q.head + q.count - RING_CAPACITY)
    BY <1>1, <2>1, Position
  <2>4. p.tail = (IF q.tail + 1 < RING_CAPACITY THEN q.tail + 1
                  ELSE q.tail + 1 - RING_CAPACITY)
    BY <1>1, <1>3, Advances
  <2>5. p.tail = At(q, q.count + 1)
    BY <1>1, <1>2, <2>1, <2>2, <2>3, <2>4
  <2> QED
    BY <1>3, <1>4, <2>1, <2>5 DEF Ring
<1>6. ASSUME NEW k \in Nat, k < p.count
      PROVE  p.buffer[At(p, k)] = last + 1 - p.count + 1 + k
  <2>1. CASE k = q.count
    <3>1. p.buffer[At(p, k)] = last + 1
      BY <1>1, <1>3, <1>4, <2>1
    <3> QED
      BY <1>1, <1>3, <2>1, <3>1
  <2>2. CASE k # q.count
    <3>1. k < q.count /\ k <= RING_CAPACITY /\ q.count <= RING_CAPACITY
      BY <1>1, <1>3, <1>6, <2>2
    <3>2. At(q, k) = (IF q.head + k < RING_CAPACITY THEN q.head + k
                      ELSE q.head + k - RING_CAPACITY)
          /\ At(q, k) \in RingIndex
      BY <1>1, <3>1, Position
    <3>3. q.tail = (IF q.head + q.count < RING_CAPACITY THEN q.head + q.count
                    ELSE q.head + q.count - RING_CAPACITY)
      BY <1>1, <3>1, Position
    <3>4. At(q, k) # q.tail
      BY <1>1, <1>2, <3>1, <3>2, <3>3
    <3>5. p.buffer[At(p, k)] = q.buffer[At(q, k)]
      BY <1>1, <1>3, <1>4, <3>2, <3>4
    <3>6. q.buffer[At(q, k)] = last - q.count + 1 + k
      BY <3>1 DEF Window
    <3>7. last - q.count + 1 + k = last + 1 - p.count + 1 + k
      BY <1>1, <1>3
    <3> QED
      BY <3>5, <3>6, <3>7
  <2> QED
    BY <2>1, <2>2
<1>7. Window(p, last + 1)
  BY <1>1, <1>3, <1>6 DEF Window
<1> QED
  BY <1>3, <1>5, <1>7 DEF p

\* A push into a full ring costs the oldest frame and no other.
LEMMA RingPush ==
    ASSUME NEW q, Ring(q), NEW last \in Nat, Window(q, last)
    PROVE  /\ Ring(ring_push(q, last + 1))
           /\ Window(ring_push(q, last + 1), last + 1)
           /\ ring_push(q, last + 1).count =
                 (IF q.count = RING_CAPACITY THEN RING_CAPACITY ELSE q.count + 1)
<1>1. q.count \in Nat /\ q.count <= RING_CAPACITY
      /\ RING_CAPACITY \in Nat /\ RING_CAPACITY > 0
  BY BusAssumption DEF Ring, RingType
<1>2. CASE q.count = RING_CAPACITY
  <2>1. ring_push(q, last + 1) = Stored(ring_pop(q), last + 1)
    BY <1>2 DEF ring_push, MakeRoom, ring_pop
  <2>2. q.count > 0
    BY <1>1, <1>2
  <2>3. /\ Ring(ring_pop(q)) /\ Window(ring_pop(q), last)
        /\ ring_pop(q).count = q.count - 1
    BY <2>2, RingPop
  <2>4. ring_pop(q).count < RING_CAPACITY /\ ring_pop(q).count + 1 = RING_CAPACITY
    BY <1>1, <1>2, <2>3
  <2> QED
    BY <1>2, <2>1, <2>3, <2>4, RingStore
<1>3. CASE q.count # RING_CAPACITY
  <2>1. ring_push(q, last + 1) = Stored(q, last + 1)
    BY <1>3 DEF ring_push, MakeRoom
  <2>2. q.count < RING_CAPACITY
    BY <1>1, <1>3
  <2> QED
    BY <1>3, <2>1, <2>2, RingStore
<1> QED
  BY <1>2, <1>3

-----------------------------------------------------------------------------
(* Steps and what they are for the broadcast.                               *)

Nexts == [t \in Thread |-> NextFrame(t)]

\* A step of the abstract bus, or none.
AbstractStep == Broadcast!Next \/ (UNCHANGED <<sent, got>> /\ Nexts' = Nexts)

LEMMA Threads ==
    /\ NumNodes \in Nat /\ NumNodes > 0
    /\ 0 \in Thread /\ Nobody \notin Thread
    /\ \A t \in Thread : t \in Nat /\ t < NumNodes
    /\ \A t \in Nat : t < NumNodes => t \in Thread
  BY BusAssumption DEF Thread, Nobody

LEMMA FreshQueue == Ring(EmptyQueue) /\ EmptyQueue.count = 0
<1>1. RING_CAPACITY \in Nat /\ RING_CAPACITY > 0 /\ 0 \in RingIndex
  BY BusAssumption DEF RingIndex
<1>2. EmptyQueue \in RingType
  BY <1>1 DEF EmptyQueue, RingType
<1>3. EmptyQueue.head = 0 /\ EmptyQueue.tail = 0 /\ EmptyQueue.count = 0
  BY DEF EmptyQueue
<1>4. At(EmptyQueue, 0) = 0
  BY <1>1, <1>2, <1>3, Position
<1> QED
  BY <1>1, <1>2, <1>3, <1>4 DEF Ring

LEMMA OrderInit == Init => OrderInv /\ Broadcast!Init
<1> SUFFICES ASSUME Init PROVE OrderInv /\ Broadcast!Init
  OBVIOUS
<1> USE DEF Init, BusInit
<1>1. \A t \in Thread : g_queues[t] = EmptyQueue /\ bus[t] = "none"
  OBVIOUS
<1>2. QueuesInOrder
  BY <1>1, FreshQueue DEF QueuesInOrder
<1>3. Sending
  BY DEF Sending
<1>4. Created
  BY <1>1, Threads DEF Created
<1>5. \A t \in Thread : NextFrame(t) = 0
  BY <1>1 DEF NextFrame
<1>6. Broadcast!Init
  BY <1>5 DEF Broadcast!Init
<1> QED
  BY <1>2, <1>3, <1>4, <1>6 DEF OrderInv

\* Who is in bus_send or bus_recv, or about to call them, has a bus.
LEMMA UsersHaveBuses ==
    ASSUME LifeInv, NEW t \in Thread,
           thread[t] \in {"begin", "check", "receive", "send"} \/ call[t] # "none"
    PROVE  bus[t] # "none" /\ main_pc \notin {"init", "done"}
<1>1. thread[t] \in {"begin", "check", "receive", "send"}
  BY DEF LifeInv, CallsInPhase
<1>2. main_pc \notin {"init", "shutdown", "done"}
  BY <1>1 DEF LifeInv, Lifecycle
<1> QED
  BY <1>1, <1>2 DEF LifeInv, Lifecycle

\* A step that changes what is next for one receiver only.
LEMMA OneNext ==
    ASSUME NEW i \in Thread, \A t \in Thread \ {i} : NextFrame(t)' = NextFrame(t)
    PROVE  Nexts' = [Nexts EXCEPT ![i] = NextFrame(i)']
<1> DEFINE After(t) == NextFrame(t)'
           Before(t) == NextFrame(t)
<1>1. Nexts' = [t \in Thread |-> After(t)] /\ Nexts = [t \in Thread |-> Before(t)]
  BY DEF Nexts
<1>2. \A t \in Thread : t # i => After(t) = Before(t)
  OBVIOUS
<1> HIDE DEF After, Before
<1>3. [t \in Thread |-> After(t)] = [[t \in Thread |-> Before(t)] EXCEPT ![i] = After(i)]
  BY <1>2
<1> QED
  BY <1>1, <1>3 DEF After

\* Steps that touch neither the queues nor the global mutex.
LEMMA QueuesUntouched ==
    ASSUME OrderInv,
           UNCHANGED <<g_queues, g_global_mutex, push_index, sent>>,
           \A t \in Thread : bus'[t] = "none" <=> bus[t] = "none"
    PROVE  QueuesInOrder' /\ Nexts' = Nexts
<1>1. \A t \in Thread : LastPushed(t)' = LastPushed(t) /\ NextFrame(t)' = NextFrame(t)
  BY DEF LastPushed, NextFrame
<1> QED
  BY <1>1 DEF OrderInv, QueuesInOrder, Nexts, Window, Ring

\* Without a sender all queues have all frames.
LEMMA AllPushed == GlobalFree => \A t : LastPushed(t) = sent
  BY DEF GlobalFree, LastPushed

\* main's own steps: a bus that is created joins the broadcast, nothing else of
\* what main does is noticed.
LEMMA MainRefines ==
    ASSUME LifeInv, OrderInv, Main
    PROVE  OrderInv' /\ AbstractStep
<1> USE DEF OrderInv
<1>1. CASE MainInit
  <2>1. index = 0 /\ g_num_nodes = 0 /\ main_pc = "init"
    BY <1>1 DEF MainInit, LifeInv, Lifecycle, Created
  <2>2. \A t \in Thread : bus[t] = "none" /\ bus'[t] = "none"
    BY <1>1, <2>1, Threads DEF MainInit, Created
  <2>3. \A t \in Thread : g_queues'[t] = EmptyQueue
    BY <1>1 DEF MainInit, bus_global_init
  <2>4. QueuesInOrder'
    BY <2>2, <2>3, FreshQueue DEF QueuesInOrder
  <2>5. UNCHANGED <<g_global_mutex, push_index, call, sent, got, index>>
        /\ g_num_nodes' = 0 /\ main_pc' = "create"
    BY <1>1 DEF MainInit, bus_global_init
  <2>6. Sending' /\ Created'
    BY <2>1, <2>2, <2>5, Threads DEF Sending, Created
  <2>7. \A t \in Thread : NextFrame(t) = 0 /\ NextFrame(t)' = 0
    BY <2>2 DEF NextFrame
  <2> QED
    BY <2>4, <2>5, <2>6, <2>7 DEF AbstractStep, Nexts
<1>2. CASE MainCreateBus
  <2>1. /\ main_pc = "create" /\ main_pc' = "spawn" /\ GlobalFree
        /\ UNCHANGED <<g_queues, g_global_mutex, push_index, call, sent, got, index>>
        /\ g_num_nodes' = g_num_nodes + 1 /\ g_num_nodes = index
        /\ bus' = [bus EXCEPT ![index] = "allocated"]
    BY <1>2 DEF MainCreateBus, bus_create, Created
  <2>2. index \in Thread /\ index \in Nat /\ index < NumNodes
    BY Threads DEF LifeInv, BusType
  <2>3. bus[index] = "none" /\ bus'[index] = "allocated"
        /\ \A t \in Thread \ {index} : bus'[t] = bus[t]
    BY <2>1, <2>2 DEF LifeInv, BusType, Created
  <2>4. \A t \in Thread : LastPushed(t) = sent /\ LastPushed(t)' = sent
    BY <2>1 DEF GlobalFree, LastPushed
  <2>5. g_queues[index].count = 0 /\ sent \in Nat /\ Ring(g_queues[index])
    BY <2>2, <2>3 DEF QueuesInOrder, Sending
  <2>6. Window(g_queues[index], sent)
    BY <2>5 DEF Window
  <2>7. QueuesInOrder'
    <3> SUFFICES ASSUME NEW t \in Thread
                 PROVE  /\ Ring(g_queues[t])
                        /\ IF bus'[t] = "none" THEN g_queues[t].count = 0
                                               ELSE Window(g_queues[t], sent)
      BY <2>1, <2>4 DEF QueuesInOrder, Window, Ring
    <3> QED
      BY <2>3, <2>4, <2>5, <2>6 DEF QueuesInOrder
  <2>8. Sending'
    BY <2>1 DEF Sending
  <2>9. Created'
    <3>1. \A t \in Thread : t < index + 1 <=> (t < index \/ t = index)
      BY <2>2, Threads
    <3>2. \A t \in Thread : bus'[t] # "none" <=> t < index + 1
      BY <2>1, <2>3, <3>1 DEF Created
    <3> QED
      BY <2>1, <2>2, <3>2, Threads DEF Created
  <2>10. PICK new \in Thread : new = index
    BY <2>2
  <2>11. /\ NextFrame(new) = 0 /\ NextFrame(new)' = sent + 1
         /\ \A t \in Thread \ {new} : NextFrame(t)' = NextFrame(t)
    BY <2>1, <2>2, <2>3, <2>4, <2>5, <2>10 DEF NextFrame
  <2>12. Broadcast!Join(new)
    <3>1. Nexts[new] = 0
      BY <2>11 DEF Nexts
    <3>2. Nexts' = [Nexts EXCEPT ![new] = sent + 1]
      BY <2>11, OneNext
    <3> QED
      BY <2>1, <3>1, <3>2 DEF Broadcast!Join, Broadcast!Joined, Nexts
  <2> QED
    BY <2>2, <2>7, <2>8, <2>9, <2>12 DEF AbstractStep, Broadcast!Next
<1>3. CASE MainSpawn
  <2>1. UNCHANGED <<busVars, bus>> /\ main_pc = "spawn"
    BY <1>3 DEF MainSpawn
  <2>2. QueuesInOrder' /\ Nexts' = Nexts
    BY <2>1, QueuesUntouched DEF busVars
  <2>3. Sending'
    BY <2>1 DEF Sending, busVars
  <2>4. Created'
    <3>1. index + 1 < NumNodes => main_pc' = "create" /\ index' = index + 1
      BY <1>3 DEF MainSpawn
    <3>2. ~ (index + 1 < NumNodes) => main_pc' = "stop"
      BY <1>3 DEF MainSpawn
    <3> QED
      BY <2>1, <3>1, <3>2 DEF Created, busVars
  <2> QED
    BY <2>1, <2>2, <2>3, <2>4 DEF AbstractStep, busVars
<1>4. CASE MainStop
  <2>1. UNCHANGED <<busVars, bus>> /\ main_pc = "stop" /\ main_pc' = "join"
    BY <1>4 DEF MainStop
  <2>2. QueuesInOrder' /\ Nexts' = Nexts
    BY <2>1, QueuesUntouched DEF busVars
  <2>3. Sending' /\ Created'
    BY <2>1 DEF Sending, Created, busVars
  <2> QED
    BY <2>1, <2>2, <2>3 DEF AbstractStep, busVars
<1>5. CASE MainJoin
  <2>1. UNCHANGED busVars /\ main_pc = "join" /\ main_pc' \in {"stop", "shutdown"}
        /\ thread[index] = "exited" /\ bus' = [bus EXCEPT ![index] = "freed"]
    BY <1>5 DEF MainJoin
  <2>2. bus[index] = "allocated" /\ index \in Thread
    <3>1. index \in Thread /\ index \in Nat
      BY Threads DEF LifeInv, BusType
    <3> QED
      BY <2>1, <3>1 DEF LifeInv, Lifecycle
  <2>3. \A t \in Thread : bus'[t] = "none" <=> bus[t] = "none"
    BY <2>1, <2>2 DEF LifeInv, BusType
  <2>4. QueuesInOrder' /\ Nexts' = Nexts
    BY <2>1, <2>3, QueuesUntouched DEF busVars
  <2>5. Sending' /\ Created'
    BY <2>1, <2>3 DEF Sending, Created, busVars
  <2> QED
    BY <2>1, <2>4, <2>5 DEF AbstractStep, busVars
<1>6. CASE MainShutdown
  <2>1. /\ UNCHANGED <<g_queues, g_global_mutex, push_index, call, sent, got, bus>>
        /\ main_pc' = "done" /\ g_num_nodes' = 0
    BY <1>6 DEF MainShutdown, bus_global_shutdown
  <2>2. QueuesInOrder' /\ Nexts' = Nexts
    BY <2>1, QueuesUntouched
  <2>3. Sending' /\ Created'
    BY <2>1, Threads DEF Sending, Created
  <2> QED
    BY <2>1, <2>2, <2>3 DEF AbstractStep
<1> QED
  BY <1>1, <1>2, <1>3, <1>4, <1>5, <1>6 DEF Main

\* bus_send takes the global mutex, which is where its frame gets its number.
LEMMA SendLockRefines ==
    ASSUME LifeInv, OrderInv, NEW t \in Thread, SendLock(t), UNCHANGED mainVars
    PROVE  OrderInv' /\ Broadcast!Send
<1> USE DEF OrderInv
<1>1. /\ GlobalFree /\ sent' = sent + 1 /\ g_global_mutex' = t /\ push_index' = 0
      /\ call' = [call EXCEPT ![t] = "send"]
      /\ UNCHANGED <<g_queues, g_num_nodes, got, bus, main_pc, index>>
  BY DEF SendLock, mainVars
<1>2. sent \in Nat
  BY DEF Sending
<1>3. \A u \in Thread : LastPushed(u) = sent /\ LastPushed(u)' = sent
  <2> SUFFICES ASSUME NEW u \in Thread PROVE LastPushed(u) = sent /\ LastPushed(u)' = sent
    OBVIOUS
  <2>1. t # Nobody /\ u \in Nat
    BY Threads
  <2>2. LastPushed(u)' = sent' - 1
    BY <1>1, <2>1 DEF LastPushed, Nobody
  <2> QED
    BY <1>1, <1>2, <2>2, AllPushed
<1>4. \A u \in Thread : NextFrame(u)' = NextFrame(u)
  BY <1>1, <1>3 DEF NextFrame
<1>5. QueuesInOrder'
  BY <1>1, <1>3 DEF QueuesInOrder, Window, Ring
<1>6. Sending'
  BY <1>1, <1>2 DEF Sending, LifeInv, BusType
<1>7. Created'
  BY <1>1 DEF Created
<1>8. Broadcast!Send
  BY <1>1, <1>4 DEF Broadcast!Send
<1> QED
  BY <1>5, <1>6, <1>7, <1>8

\* A push hands the frame over to one more queue; the broadcast notices only
\* if the queue had to give up its oldest frame for it.
LEMMA SendPushRefines ==
    ASSUME LifeInv, OrderInv, NEW t \in Thread, SendPush(t), UNCHANGED mainVars
    PROVE  OrderInv' /\ AbstractStep
<1> USE DEF OrderInv
<1>1. /\ g_global_mutex = t /\ push_index < g_num_nodes /\ push_index' = push_index + 1
      /\ g_queues' = [g_queues EXCEPT ![push_index] = ring_push(@, sent)]
      /\ call' = Signalled(push_index)
      /\ UNCHANGED <<g_global_mutex, g_num_nodes, sent, got, bus, main_pc, index>>
  BY DEF SendPush, mainVars
<1>2. call[t] = "send" /\ sent \in Nat /\ sent > 0 /\ push_index \in Nat /\ t # Nobody
  BY <1>1, Threads DEF Sending
<1>3. push_index \in Thread
  BY <1>1, <1>2, Threads DEF Created
<1>4. PICK i \in Thread : i = push_index
  BY <1>3
<1>5. bus[i] # "none"
  BY <1>1, <1>2, <1>4, UsersHaveBuses DEF Created
<1>6. \A u \in Thread : LastPushed(u) = IF i <= u THEN sent - 1 ELSE sent
  BY <1>1, <1>2, <1>4 DEF LastPushed
<1>7. \A u \in Thread : LastPushed(u)' = IF i + 1 <= u THEN sent - 1 ELSE sent
  BY <1>1, <1>2, <1>4 DEF LastPushed, Nobody
<1>8. LastPushed(i) = sent - 1 /\ LastPushed(i)' = sent
      /\ \A u \in Thread \ {i} : LastPushed(u)' = LastPushed(u)
  <2>1. i <= i /\ ~ (i + 1 <= i) /\ \A u \in Thread : u # i => (i <= u <=> i + 1 <= u)
    BY Threads
  <2> QED
    BY <1>6, <1>7, <2>1
<1> DEFINE q == g_queues[i]
<1>9. Ring(q) /\ Window(q, sent - 1) /\ q.count \in Nat /\ q.count <= sent - 1
      /\ q.count <= RING_CAPACITY /\ RING_CAPACITY \in Nat
  BY <1>5, <1>8, BusAssumption DEF QueuesInOrder, Ring, Window, RingType
<1>10. g_queues'[i] = ring_push(q, sent)
       /\ \A u \in Thread \ {i} : g_queues'[u] = g_queues[u]
  BY <1>1, <1>4 DEF LifeInv, BusType
<1>11. /\ Ring(g_queues'[i]) /\ Window(g_queues'[i], sent)
       /\ g_queues'[i].count = IF q.count = RING_CAPACITY THEN RING_CAPACITY
                                                          ELSE q.count + 1
  <2>1. sent - 1 \in Nat /\ (sent - 1) + 1 = sent
    BY <1>2
  <2> HIDE DEF q
  <2> QED
    BY <1>9, <1>10, <2>1, RingPush
<1> HIDE DEF q
<1>12. QueuesInOrder'
  <2> SUFFICES ASSUME NEW u \in Thread
               PROVE  /\ Ring(g_queues'[u])
                      /\ IF bus'[u] = "none" THEN g_queues'[u].count = 0
                                             ELSE Window(g_queues'[u], LastPushed(u)')
    BY DEF QueuesInOrder, Ring, Window
  <2>1. CASE u = i
    BY <1>1, <1>5, <1>8, <1>11, <2>1
  <2>2. CASE u # i
    BY <1>1, <1>8, <1>10, <2>2 DEF QueuesInOrder
  <2> QED
    BY <2>1, <2>2
<1>13. Sending'
  <2>1. call'[t] = "send"
    BY <1>1, <1>2 DEF Signalled, LifeInv, BusType
  <2> QED
    BY <1>1, <1>2, <2>1 DEF Sending
<1>14. Created'
  BY <1>1 DEF Created
<1>15. \A u \in Thread \ {i} : NextFrame(u)' = NextFrame(u)
  BY <1>1, <1>8, <1>10 DEF NextFrame
<1>16. NextFrame(i) = sent - q.count /\ NextFrame(i)' = sent - g_queues'[i].count + 1
  BY <1>1, <1>2, <1>5, <1>8, <1>9 DEF NextFrame, q
<1>17. Nexts[i] = NextFrame(i) /\ Nexts' = [Nexts EXCEPT ![i] = NextFrame(i)']
  BY <1>15, OneNext DEF Nexts
<1>18. AbstractStep
  <2>1. CASE q.count = RING_CAPACITY
    <3>1. NextFrame(i)' = Nexts[i] + 1 /\ Nexts[i] > 0 /\ Nexts[i] + RING_CAPACITY <= sent
      BY <1>2, <1>9, <1>11, <1>16, <1>17, <2>1
    <3>2. Broadcast!Miss(i)
      BY <1>1, <1>17, <3>1 DEF Broadcast!Miss, Broadcast!Joined, Nexts
    <3> QED
      BY <3>2 DEF AbstractStep, Broadcast!Next
  <2>2. CASE q.count # RING_CAPACITY
    <3>1. NextFrame(i)' = NextFrame(i)
      BY <1>2, <1>9, <1>11, <1>16, <2>2
    <3>2. Nexts' = Nexts
      BY <1>15, <3>1 DEF Nexts
    <3> QED
      BY <1>1, <3>2 DEF AbstractStep
  <2> QED
    BY <2>1, <2>2
<1> QED
  BY <1>12, <1>13, <1>14, <1>18

\* When the mutex is given back every queue that takes part has the frame.
LEMMA SendUnlockRefines ==
    ASSUME LifeInv, OrderInv, NEW t \in Thread, SendUnlock(t), UNCHANGED mainVars
    PROVE  OrderInv' /\ AbstractStep
<1> USE DEF OrderInv
<1>1. /\ g_global_mutex = t /\ push_index >= g_num_nodes /\ g_global_mutex' = Nobody
      /\ call' = [call EXCEPT ![t] = "none"]
      /\ UNCHANGED <<g_queues, push_index, g_num_nodes, sent, got, bus, main_pc, index>>
  BY DEF SendUnlock, mainVars
<1>2. call[t] = "send" /\ push_index \in Nat /\ g_num_nodes \in Nat /\ main_pc # "done"
  BY <1>1, Threads, UsersHaveBuses DEF Sending, Created
<1>3. ASSUME NEW u \in Thread, bus[u] # "none"
      PROVE  LastPushed(u) = sent /\ LastPushed(u)' = sent
  <2>1. u < g_num_nodes /\ u \in Nat
    BY <1>2, <1>3, Threads DEF Created
  <2>2. ~ (push_index <= u)
    BY <1>1, <1>2, <2>1
  <2> QED
    BY <1>1, <2>2 DEF LastPushed
<1>4. \A u \in Thread : NextFrame(u)' = NextFrame(u)
  BY <1>1, <1>3 DEF NextFrame
<1>5. QueuesInOrder'
  <2> SUFFICES ASSUME NEW u \in Thread
               PROVE  /\ Ring(g_queues[u])
                      /\ IF bus[u] = "none" THEN g_queues[u].count = 0
                                            ELSE Window(g_queues[u], LastPushed(u)')
    BY <1>1 DEF QueuesInOrder, Ring, Window
  <2> QED
    BY <1>3 DEF QueuesInOrder
<1>6. Sending' /\ Created'
  BY <1>1 DEF Sending, Created
<1> QED
  BY <1>1, <1>4, <1>5, <1>6 DEF AbstractStep, Nexts

\* A bus_recv that finds a frame returns the next one of the broadcast.
LEMMA PopRefines ==
    ASSUME LifeInv, OrderInv, NEW t \in Thread, bus[t] # "none",
           call[t] \in {"none", "woken"}, PopAndReturn(t), UNCHANGED mainVars
    PROVE  OrderInv' /\ (Broadcast!Receive(t) \/ Broadcast!ReceiveNothing(t))
<1> USE DEF OrderInv
<1>1. /\ call' = [call EXCEPT ![t] = "none"]
      /\ UNCHANGED <<push_index, g_global_mutex, g_num_nodes, sent, bus, main_pc, index>>
  BY DEF PopAndReturn, mainVars
<1>2. Created'
  BY <1>1 DEF Created
<1>3. \A u \in Thread : LastPushed(u)' = LastPushed(u)
  BY <1>1 DEF LastPushed
<1> DEFINE q == g_queues[t]
<1>4. Ring(q) /\ Window(q, LastPushed(t)) /\ q.count \in Nat /\ q.count <= LastPushed(t)
  BY DEF QueuesInOrder, Ring, Window, RingType
<1>5. sent \in Nat /\ LastPushed(t) \in Nat /\ LastPushed(t) <= sent
  <2>1. sent \in Nat /\ (LastPushed(t) = sent \/ (LastPushed(t) = sent - 1 /\ sent > 0))
    BY DEF Sending, LastPushed
  <2> QED
    BY <2>1
<1>6. NextFrame(t) = LastPushed(t) - q.count + 1 /\ NextFrame(t) > 0 /\ NextFrame(t) \in Nat
  BY <1>4, <1>5 DEF NextFrame
<1>7. Nexts[t] = NextFrame(t)
  BY DEF Nexts
<1>8. CASE q.count > 0
  <2>1. /\ got' = [got EXCEPT ![t] = Oldest(q)]
        /\ g_queues' = [g_queues EXCEPT ![t] = ring_pop(q)]
    BY <1>4, <1>8 DEF PopAndReturn
  <2>2. g_queues'[t] = ring_pop(q) /\ \A u \in Thread \ {t} : g_queues'[u] = g_queues[u]
    BY <2>1 DEF LifeInv, BusType
  <2> HIDE DEF q
  <2>3. /\ Ring(ring_pop(q)) /\ Window(ring_pop(q), LastPushed(t))
        /\ ring_pop(q).count = q.count - 1
        /\ Oldest(q) = NextFrame(t)
    BY <1>4, <1>5, <1>6, <1>8, RingPop
  <2>4. QueuesInOrder'
    <3> SUFFICES ASSUME NEW u \in Thread
                 PROVE  /\ Ring(g_queues'[u])
                        /\ IF bus[u] = "none" THEN g_queues'[u].count = 0
                                              ELSE Window(g_queues'[u], LastPushed(u)')
      BY <1>1 DEF QueuesInOrder, Ring, Window
    <3>1. CASE u = t
      BY <1>3, <2>2, <2>3, <3>1
    <3>2. CASE u # t
      BY <1>3, <2>2, <3>2 DEF QueuesInOrder
    <3> QED
      BY <3>1, <3>2
  <2>5. Sending'
    BY <1>1, <1>6, <2>1, <2>3 DEF Sending
  <2>6. /\ NextFrame(t)' = Nexts[t] + 1
        /\ \A u \in Thread \ {t} : NextFrame(u)' = NextFrame(u)
    <3>1. NextFrame(t)' = LastPushed(t) - (q.count - 1) + 1
      BY <1>1, <1>3, <2>2, <2>3 DEF NextFrame
    <3>2. \A u \in Thread \ {t} : NextFrame(u)' = NextFrame(u)
      BY <1>1, <1>3, <2>2 DEF NextFrame
    <3> QED
      BY <1>4, <1>5, <1>6, <1>7, <3>1, <3>2
  <2>7. Nexts' = [Nexts EXCEPT ![t] = Nexts[t] + 1]
    BY <2>6, OneNext
  <2>8. Nexts[t] > 0 /\ Nexts[t] <= sent
    BY <1>4, <1>5, <1>6, <1>7, <1>8
  <2>9. got' = [got EXCEPT ![t] = Nexts[t]]
    BY <1>7, <2>1, <2>3
  <2>10. Broadcast!Receive(t)
    BY <1>1, <2>7, <2>8, <2>9 DEF Broadcast!Receive, Broadcast!Joined, Nexts
  <2> QED
    BY <1>2, <2>4, <2>5, <2>10
<1>9. CASE q.count = 0
  <2>1. g_queues' = g_queues /\ got' = [got EXCEPT ![t] = 0]
    BY <1>9 DEF PopAndReturn
  <2>2. QueuesInOrder' /\ Nexts' = Nexts
    BY <1>1, <2>1, QueuesUntouched
  <2>3. Sending'
    BY <1>1, <2>1 DEF Sending
  <2>4. Broadcast!ReceiveNothing(t)
    BY <1>1, <1>6, <1>7, <2>1, <2>2 DEF Broadcast!ReceiveNothing, Broadcast!Joined, Nexts
  <2> QED
    BY <1>2, <2>2, <2>3, <2>4
<1> QED
  BY <1>4, <1>8, <1>9

LEMMA TimeoutRefines ==
    ASSUME LifeInv, OrderInv, NEW t \in Thread, RecvTimeout(t), UNCHANGED mainVars
    PROVE  OrderInv' /\ Broadcast!ReceiveNothing(t)
<1> USE DEF OrderInv
<1>1. /\ call[t] = "expired" /\ call' = [call EXCEPT ![t] = "none"]
      /\ got' = [got EXCEPT ![t] = 0]
      /\ UNCHANGED <<g_queues, push_index, g_global_mutex, g_num_nodes, sent, bus,
                     main_pc, index>>
  BY DEF RecvTimeout, mainVars
<1>2. bus[t] # "none"
  BY <1>1, UsersHaveBuses
<1>3. QueuesInOrder' /\ Nexts' = Nexts
  BY <1>1, QueuesUntouched
<1>4. Sending' /\ Created'
  BY <1>1 DEF Sending, Created
<1>5. NextFrame(t) > 0
  <2>1. Window(g_queues[t], LastPushed(t)) /\ Ring(g_queues[t])
    BY <1>2 DEF QueuesInOrder
  <2>2. LastPushed(t) \in Int
    BY DEF Sending, LastPushed
  <2>3. g_queues[t].count \in Nat /\ g_queues[t].count <= LastPushed(t)
    BY <2>1 DEF Ring, RingType, Window
  <2> QED
    BY <1>2, <2>2, <2>3 DEF NextFrame
<1>6. Broadcast!ReceiveNothing(t)
  BY <1>1, <1>3, <1>5 DEF Broadcast!ReceiveNothing, Broadcast!Joined, Nexts
<1> QED
  BY <1>3, <1>4, <1>6

\* The steps of a thread outside the queues.
LEMMA QuietRefines ==
    ASSUME LifeInv, OrderInv, NEW t \in Thread,
           \/ EndBegin(t) \/ CheckRunning(t) \/ NoSend(t)
           \/ (RecvWait(t) \/ RecvExpire(t)) /\ UNCHANGED mainVars
    PROVE  OrderInv' /\ AbstractStep
<1> USE DEF OrderInv
<1>1. UNCHANGED <<g_queues, push_index, g_global_mutex, g_num_nodes, sent, got, bus,
                  main_pc, index>>
  BY DEF EndBegin, CheckRunning, NoSend, RecvWait, RecvExpire, busVars, mainVars
<1>2. \A u \in Thread : call[u] = "send" => call'[u] = "send"
  BY DEF EndBegin, CheckRunning, NoSend, RecvWait, RecvExpire, busVars, LifeInv, BusType
<1>3. QueuesInOrder' /\ Nexts' = Nexts
  BY <1>1, QueuesUntouched
<1>4. Sending'
  BY <1>1, <1>2 DEF Sending
<1>5. Created'
  BY <1>1 DEF Created
<1> QED
  BY <1>1, <1>3, <1>4, <1>5 DEF AbstractStep

LEMMA ThreadRefines ==
    ASSUME LifeInv, OrderInv, NEW t \in Thread, ThreadStep(t)
    PROVE  OrderInv' /\ AbstractStep
<1>1. CASE InBus(t)
  <2>1. UNCHANGED mainVars
        /\ (SendLock(t) \/ SendPush(t) \/ RecvWait(t) \/ RecvExpire(t))
    BY <1>1 DEF InBus
  <2> QED
    BY <2>1, SendLockRefines, SendPushRefines, QuietRefines
       DEF AbstractStep, Broadcast!Next
<1>2. CASE LeaveBus(t)
  <2>1. UNCHANGED mainVars
    BY <1>2 DEF LeaveBus
  <2>2. CASE SendUnlock(t)
    BY <2>1, <2>2, SendUnlockRefines
  <2>3. CASE RecvTimeout(t)
    BY <2>1, <2>3, TimeoutRefines DEF AbstractStep, Broadcast!Next
  <2>4. CASE (MayReceive(t) /\ RecvAtOnce(t)) \/ RecvWoken(t)
    <3>1. PopAndReturn(t) /\ call[t] \in {"none", "woken"}
      BY <2>4 DEF RecvAtOnce, RecvWoken
    <3>2. thread[t] \in {"begin", "receive"} \/ call[t] # "none"
      BY <2>4 DEF MayReceive, RecvWoken
    <3>3. bus[t] # "none"
      BY <3>2, UsersHaveBuses
    <3> QED
      BY <2>1, <3>1, <3>3, PopRefines DEF AbstractStep, Broadcast!Next
  <2> QED
    BY <1>2, <2>2, <2>3, <2>4 DEF LeaveBus
<1> QED
  BY <1>1, <1>2, QuietRefines DEF ThreadStep

-----------------------------------------------------------------------------
(* The theorem.                                                             *)

LEMMA OrderStep ==
    LifeInv /\ OrderInv /\ [Next]_vars => OrderInv' /\ [Broadcast!Next]_(Broadcast!vars)
<1> SUFFICES ASSUME LifeInv, OrderInv, [Next]_vars
             PROVE  OrderInv' /\ AbstractStep
  BY DEF AbstractStep, Nexts, Broadcast!vars
<1>1. CASE UNCHANGED vars
  <2>1. UNCHANGED <<busVars, bus, main_pc, index>>
    BY <1>1 DEF vars, mainVars
  <2>2. QueuesInOrder' /\ Nexts' = Nexts
    BY <2>1, QueuesUntouched DEF busVars
  <2>3. Sending' /\ Created'
    BY <2>1 DEF OrderInv, Sending, Created, busVars
  <2> QED
    BY <2>1, <2>2, <2>3 DEF OrderInv, AbstractStep, busVars
<1> QED
  BY <1>1, MainRefines, ThreadRefines DEF Next

\* The ring buffers, the walk of a sender over them, the wake-ups and the life of
\* the simulation are one totally ordered broadcast, whatever the number of
\* threads, the size of the rings and the interleaving (bus_sim.c, main.c).
THEOREM OneOrderForAll == Spec => TotalOrder
  BY LifeInit, LifeStep, OrderInit, OrderStep, PTL DEF Spec, TotalOrder, Broadcast!Spec
=============================================================================
