------------------------------ MODULE BusProofs ------------------------------
(***************************************************************************)
(* The simulated bus for any number of threads, frames and ring sizes: no  *)
(* wakeup is lost, and nothing is freed that a thread still uses.          *)
(***************************************************************************)
EXTENDS SimMain, TLAPS

CallPhase == {"none", "send", "waiting", "woken", "expired"}

ThreadPhase == {"none", "begin", "check", "receive", "send", "exited"}

BusType ==
    /\ call \in [Thread -> CallPhase]
    /\ DOMAIN g_queues = Thread
    /\ index \in Thread
    /\ bus \in [Thread -> {"none", "allocated", "freed"}]
    /\ thread \in [Thread -> ThreadPhase]

\* A thread is inside bus_send or bus_recv only where its loop calls them.
CallsInPhase ==
    \A t \in Thread : call[t] # "none" => thread[t] \in {"begin", "receive", "send"}

\* How far main's two loops have got, thread by thread.
Lifecycle ==
    /\ main_pc \in {"init", "create", "spawn", "stop", "join", "shutdown", "done"}
    /\ main_pc = "init" => index = 0 /\ \A t \in Thread : thread[t] = "none"
    /\ main_pc \in {"create", "spawn"} =>
          \A t \in Thread : IF t < index THEN bus[t] = "allocated"
                                         ELSE thread[t] = "none"
    /\ main_pc = "spawn" => bus[index] = "allocated"
    /\ main_pc \in {"stop", "join"} =>
          \A t \in Thread : IF t < index THEN thread[t] = "exited"
                                         ELSE bus[t] = "allocated"
    /\ main_pc \in {"shutdown", "done"} => \A t \in Thread : thread[t] = "exited"
    /\ main_pc \notin {"init", "done"} => live = Thread

LifeInv == BusType /\ CallsInPhase /\ Lifecycle

LEMMA LifeInit == Init => LifeInv
<1> SUFFICES ASSUME Init PROVE LifeInv
  OBVIOUS
<1>1. 0 \in Thread
  BY BusAssumption DEF Thread
<1> QED
  BY <1>1 DEF Init, BusInit, LifeInv, BusType, CallsInPhase, Lifecycle,
              CallPhase, ThreadPhase

-----------------------------------------------------------------------------
(* The threads.                                                             *)

\* A step of t moves no other thread, starts a call only in t's own phases, and
\* does not touch what main owns.
ThreadMoves(t) ==
    /\ UNCHANGED <<main_pc, index, bus, live>>
    /\ BusType'
    /\ \A u \in Thread \ {t} : thread'[u] = thread[u]
                               /\ (call'[u] # "none" => call[u] # "none")
    /\ thread[t] \in {"none", "exited"} => thread'[t] = thread[t]
    /\ call'[t] # "none" => thread'[t] \in {"begin", "receive", "send"}

\* Waking a sleeper changes no other call, and starts none.
LEMMA SignalWakes ==
    ASSUME BusType, NEW i
    PROVE  /\ Signalled(i) \in [Thread -> CallPhase]
           /\ \A u \in Thread : Signalled(i)[u] # "none" => call[u] # "none"
  BY DEF Signalled, BusType, CallPhase

LEMMA ThreadStepMoves ==
    ASSUME LifeInv, NEW t \in Thread, ThreadStep(t)
    PROVE  ThreadMoves(t)
<1> USE DEF LifeInv, BusType, CallsInPhase, ThreadMoves, mainVars
<1>1. CASE EndBegin(t) \/ CheckRunning(t) \/ NoSend(t)
  <2>1. PICK phase \in {"check", "receive", "exited"} :
           /\ thread[t] \in {"begin", "check", "send"}
           /\ thread' = [thread EXCEPT ![t] = phase]
    BY <1>1 DEF EndBegin, CheckRunning, NoSend, Starts
  <2>2. call[t] = "none" /\ UNCHANGED <<call, g_queues, live, main_pc, index, bus>>
    BY <1>1 DEF EndBegin, CheckRunning, NoSend, Starts, busVars
  <2>3. phase \in ThreadPhase
    BY DEF ThreadPhase
  <2> QED
    BY <2>1, <2>2, <2>3
<1>2. CASE InBus(t)
  <2>1. UNCHANGED <<main_pc, index, bus, thread, live>>
    BY <1>2 DEF InBus, SendLock, SendPush, RecvWait, RecvExpire
  <2>2. CASE SendPush(t)
    <3>1. call' = Signalled(push_index) /\ DOMAIN g_queues' = Thread
      BY <2>2 DEF SendPush
    <3> QED
      BY <2>1, <3>1, SignalWakes
  <2>3. CASE ~ SendPush(t)
    <3>1. PICK phase \in {"send", "waiting", "expired", "woken"} :
             call' = [call EXCEPT ![t] = phase]
      BY <1>2, <2>3 DEF InBus, SendLock, RecvWait, RecvExpire
    <3>2. thread[t] \in {"begin", "receive", "send"} /\ g_queues' = g_queues
      BY <1>2, <2>3 DEF InBus, SendLock, RecvWait, RecvExpire, MaySend, MayReceive
    <3>3. phase \in CallPhase
      BY DEF CallPhase
    <3> QED
      BY <2>1, <3>1, <3>2, <3>3
  <2> QED
    BY <2>2, <2>3
<1>3. CASE LeaveBus(t)
  <2>1. call' = [call EXCEPT ![t] = "none"]
    BY <1>3 DEF LeaveBus, SendUnlock, RecvAtOnce, RecvTimeout, RecvWoken, PopAndReturn
  <2>2. DOMAIN g_queues' = Thread
    BY <1>3 DEF LeaveBus, SendUnlock, RecvAtOnce, RecvTimeout, RecvWoken, PopAndReturn
  <2>3. UNCHANGED <<main_pc, index, bus, live>>
    BY <1>3 DEF LeaveBus, SendUnlock, RecvAtOnce, RecvTimeout, RecvWoken, PopAndReturn
  <2>4. thread' = Returned(t)
    BY <1>3 DEF LeaveBus
  <2>5. /\ Returned(t) \in [Thread -> ThreadPhase]
        /\ \A u \in Thread \ {t} : Returned(t)[u] = thread[u]
        /\ thread[t] \in {"none", "exited"} => Returned(t)[t] = thread[t]
    BY DEF Returned, ThreadPhase
  <2>6. "none" \in CallPhase
    BY DEF CallPhase
  <2> QED
    BY <2>1, <2>2, <2>3, <2>4, <2>5, <2>6
<1> QED
  BY <1>1, <1>2, <1>3 DEF ThreadStep

LEMMA ThreadKeepsLife ==
    ASSUME LifeInv, NEW t \in Thread, ThreadStep(t)
    PROVE  LifeInv'
<1>1. ThreadMoves(t)
  BY ThreadStepMoves
<1>2. \A u \in Thread : thread[u] \in {"none", "exited"} => thread'[u] = thread[u]
  BY <1>1 DEF ThreadMoves
<1>3. CallsInPhase'
  BY <1>1 DEF ThreadMoves, CallsInPhase, LifeInv
<1>4. Lifecycle'
  BY <1>1, <1>2 DEF ThreadMoves, Lifecycle, LifeInv
<1> QED
  BY <1>1, <1>3, <1>4 DEF ThreadMoves, LifeInv

-----------------------------------------------------------------------------
(* main.                                                                    *)

LEMMA MainKeepsLife == LifeInv /\ Main => LifeInv'
<1> SUFFICES ASSUME LifeInv, Main PROVE LifeInv'
  OBVIOUS
<1> USE DEF LifeInv, BusType, Lifecycle, CallsInPhase
<1>0. NumNodes \in Nat /\ (\A t \in Thread : t \in Nat /\ t < NumNodes) /\ 0 \in Thread
      /\ \A t \in Nat : t < NumNodes => t \in Thread
  BY BusAssumption DEF Thread
<1>1. CASE MainInit
  BY <1>0, <1>1 DEF MainInit, bus_global_init
<1>2. CASE MainCreateBus
  BY <1>0, <1>2 DEF MainCreateBus, bus_create
<1>3. CASE MainSpawn
  <2>1. /\ UNCHANGED <<call, g_queues, live, bus>> /\ main_pc = "spawn"
        /\ thread' = [thread EXCEPT ![index] = "begin"]
        /\ "begin" \in ThreadPhase
    BY <1>3 DEF MainSpawn, busVars, ThreadPhase
  <2>2. CallsInPhase' /\ thread' \in [Thread -> ThreadPhase]
    BY <2>1
  <2>3. CASE index + 1 < NumNodes
    <3>1. main_pc' = "create" /\ index' = index + 1
      BY <1>3, <2>3 DEF MainSpawn
    <3>2. \A t \in Thread : (t < index + 1) <=> (t < index \/ t = index)
      BY <1>0
    <3> QED
      BY <1>0, <2>1, <2>2, <2>3, <3>1, <3>2
  <2>4. CASE ~ (index + 1 < NumNodes)
    <3>1. main_pc' = "stop" /\ index' = 0
      BY <1>3, <2>4 DEF MainSpawn
    <3>2. \A t \in Thread : (t < index \/ t = index) /\ ~ (t < 0)
      BY <1>0, <2>4
    <3>3. \A t \in Thread : bus[t] = "allocated"
      BY <2>1, <3>2
    <3> QED
      BY <1>0, <2>1, <2>2, <3>1, <3>2, <3>3
  <2> QED
    BY <2>3, <2>4
<1>4. CASE MainStop
  BY <1>4 DEF MainStop, busVars
<1>5. CASE MainJoin
  <2>1. /\ UNCHANGED <<call, g_queues, live, thread>> /\ main_pc = "join"
        /\ thread[index] = "exited"
        /\ bus' = [bus EXCEPT ![index] = "freed"]
    BY <1>5 DEF MainJoin, busVars
  <2>2. bus' \in [Thread -> {"none", "allocated", "freed"}]
        /\ \A t \in Thread : t # index => bus'[t] = bus[t]
    BY <2>1
  <2>3. CASE index + 1 < NumNodes
    <3>1. main_pc' = "stop" /\ index' = index + 1
      BY <1>5, <2>3 DEF MainJoin
    <3>2. \A t \in Thread : (t < index + 1) <=> (t < index \/ t = index)
      BY <1>0
    <3> QED
      BY <1>0, <2>1, <2>2, <2>3, <3>1, <3>2
  <2>4. CASE ~ (index + 1 < NumNodes)
    <3>1. main_pc' = "shutdown" /\ index' = 0
      BY <1>5, <2>4 DEF MainJoin
    <3>2. \A t \in Thread : t < index \/ t = index
      BY <1>0, <2>4
    <3> QED
      BY <1>0, <2>1, <2>2, <3>1, <3>2
  <2> QED
    BY <2>3, <2>4
<1>6. CASE MainShutdown
  <2>1. /\ main_pc = "shutdown" /\ main_pc' = "done"
        /\ UNCHANGED <<index, bus, running, thread, g_queues, call>>
    BY <1>6 DEF MainShutdown, bus_global_shutdown
  <2> QED
    BY <2>1
<1> QED
  BY <1>1, <1>2, <1>3, <1>4, <1>5, <1>6 DEF Main

LEMMA LifeStep == LifeInv /\ [Next]_vars => LifeInv'
<1>1. LifeInv /\ UNCHANGED vars => LifeInv'
  BY DEF LifeInv, BusType, CallsInPhase, Lifecycle, vars, busVars, mainVars
<1> QED
  BY <1>1, MainKeepsLife, ThreadKeepsLife DEF Next

LEMMA LifeHolds == Spec => []LifeInv
  BY LifeInit, LifeStep, PTL DEF Spec

-----------------------------------------------------------------------------
(* The theorems.                                                            *)

\* No thread is ever inside bus_send or bus_recv, or about to call them, with a
\* Bus that main has freed or mutexes it has destroyed, for any number of nodes
\* and wherever main stops them (main.c, bus_global_shutdown).
THEOREM NothingUsedAfterFree == Spec => []BusOutlivesCalls
<1>1. LifeInv => BusOutlivesCalls
  <2> SUFFICES ASSUME LifeInv, NEW t \in Thread
               PROVE  /\ thread[t] \in {"begin", "check", "receive", "send"} =>
                            bus[t] = "allocated"
                      /\ call[t] # "none" => live = Thread
    BY DEF BusOutlivesCalls
  <2>1. main_pc \in {"init", "done"} => thread[t] \in {"none", "exited"}
    BY DEF LifeInv, Lifecycle
  <2> QED
    BY <2>1 DEF LifeInv, Lifecycle, CallsInPhase
<1> QED
  BY <1>1, LifeHolds, PTL

\* A push wakes the thread that sleeps on the queue, and a thread goes to sleep
\* only on an empty queue.
LEMMA WakeupStep == LifeInv /\ NoLostWakeup /\ [Next]_vars => NoLostWakeup'
<1> SUFFICES ASSUME LifeInv, NoLostWakeup, [Next]_vars,
                    NEW u \in Thread, call'[u] = "waiting"
             PROVE  g_queues'[u].count = 0
  BY DEF NoLostWakeup
<1>1. CASE UNCHANGED <<call, g_queues>>
  BY <1>1 DEF NoLostWakeup
<1>2. CASE MainInit
  BY <1>2 DEF MainInit, bus_global_init, EmptyQueue
<1>3. ASSUME NEW t \in Thread, SendPush(t)
      PROVE  g_queues'[u].count = 0
  <2>1. CASE u = push_index
    <3>1. Signalled(push_index)[u] # "waiting"
      BY <2>1 DEF Signalled, LifeInv, BusType
    <3> QED
      BY <1>3, <3>1 DEF SendPush
  <2>2. CASE u # push_index
    <3>1. call[u] = "waiting"
      BY <1>3, <2>2 DEF SendPush, Signalled, LifeInv, BusType
    <3>2. g_queues'[u] = g_queues[u]
      BY <1>3, <2>2 DEF SendPush, LifeInv, BusType
    <3> QED
      BY <3>1, <3>2 DEF NoLostWakeup
  <2> QED
    BY <2>1, <2>2
<1>4. ASSUME NEW t \in Thread, SendLock(t) \/ RecvWait(t) \/ RecvExpire(t)
      PROVE  g_queues'[u].count = 0
  <2>1. g_queues' = g_queues
    BY <1>4 DEF SendLock, RecvWait, RecvExpire
  <2>2. call[u] = "waiting" \/ (u = t /\ RecvWait(t))
    BY <1>4 DEF SendLock, RecvWait, RecvExpire, LifeInv, BusType
  <2> QED
    BY <2>1, <2>2 DEF RecvWait, NoLostWakeup
<1>5. ASSUME NEW t \in Thread, LeaveBus(t)
      PROVE  g_queues'[u].count = 0
  <2>1. call' = [call EXCEPT ![t] = "none"]
    BY <1>5 DEF LeaveBus, SendUnlock, RecvAtOnce, RecvTimeout, RecvWoken, PopAndReturn
  <2>2. u # t /\ call[u] = "waiting"
    BY <2>1 DEF LifeInv, BusType
  <2>3. g_queues'[u] = g_queues[u]
    BY <1>5, <2>2 DEF LeaveBus, SendUnlock, RecvAtOnce, RecvTimeout, RecvWoken,
                      PopAndReturn, LifeInv, BusType
  <2> QED
    BY <2>2, <2>3 DEF NoLostWakeup
<1>6. CASE UNCHANGED vars
  BY <1>1, <1>6 DEF vars, busVars
<1>7. CASE Main
  BY <1>1, <1>2, <1>7
     DEF Main, MainCreateBus, bus_create, MainSpawn, MainStop, MainJoin,
         MainShutdown, bus_global_shutdown, busVars
<1>8. ASSUME NEW t \in Thread, ThreadStep(t)
      PROVE  g_queues'[u].count = 0
  <2>1. EndBegin(t) \/ CheckRunning(t) \/ NoSend(t) => UNCHANGED <<call, g_queues>>
    BY DEF EndBegin, CheckRunning, NoSend, busVars
  <2> QED
    BY <1>1, <1>3, <1>4, <1>5, <1>8, <2>1 DEF ThreadStep, InBus
<1> QED
  BY <1>6, <1>7, <1>8 DEF Next

\* However many threads send, receive, time out and wake up spuriously at once,
\* none sleeps while a frame waits in its ring (bus_send, bus_recv).
THEOREM WakeupsArrive == Spec => []NoLostWakeup
<1>1. Init => NoLostWakeup
  BY DEF Init, BusInit, NoLostWakeup
<1> QED
  BY <1>1, LifeInit, LifeStep, WakeupStep, PTL DEF Spec
=============================================================================
