------------------------------ MODULE SimMain -------------------------------
(***************************************************************************)
(* main.c: the life of a simulation.  main creates a bus, a node and a     *)
(* thread per index, sleeps, and then stops, joins and frees them one by   *)
(* one while the threads not yet stopped still use the bus.  A thread runs *)
(* node_begin, which uses the bus in any way and lasts a bounded time, and *)
(* then node_service in a loop: one bus_recv and at most one bus_send.     *)
(***************************************************************************)
EXTENDS SimBus

VARIABLES
    main_pc,   \* where main is
    index,     \* loop variable i of main
    bus,       \* each ThreadedNode's Bus: not yet, allocated or freed
    running,   \* ThreadedNode.running
    thread     \* where each thread is between its calls of the bus

mainVars == <<main_pc, index, bus, running>>
vars == <<busVars, mainVars, thread>>

Init ==
    /\ BusInit
    /\ main_pc = "init"
    /\ index = 0
    /\ bus = [t \in Thread |-> "none"]
    /\ running = [t \in Thread |-> FALSE]
    /\ thread = [t \in Thread |-> "none"]

-----------------------------------------------------------------------------
(* main.                                                                    *)

MainInit ==
    /\ main_pc = "init"
    /\ bus_global_init
    /\ main_pc' = "create"
    /\ UNCHANGED <<index, bus, running, thread>>

MainCreateBus ==
    /\ main_pc = "create"
    /\ bus_create
    /\ bus' = [bus EXCEPT ![index] = "allocated"]
    /\ main_pc' = "spawn"
    /\ UNCHANGED <<index, running, thread>>

\* The thread starts at once, while main goes on to the next index; after the
\* last one main sleeps for three seconds.
MainSpawn ==
    /\ main_pc = "spawn"
    /\ running' = [running EXCEPT ![index] = TRUE]
    /\ thread' = [thread EXCEPT ![index] = "begin"]
    /\ main_pc' = IF index + 1 < NumNodes THEN "create" ELSE "stop"
    /\ index' = IF index + 1 < NumNodes THEN index + 1 ELSE 0
    /\ UNCHANGED <<busVars, bus>>

\* running is a plain int read by the other thread; node_service is a call
\* into another file, so the compiler has to read it again each time.
MainStop ==
    /\ main_pc = "stop"
    /\ running' = [running EXCEPT ![index] = FALSE]
    /\ main_pc' = "join"
    /\ UNCHANGED <<busVars, index, bus, thread>>

\* Mutant: the bus is freed without waiting for the thread.
MainFreeAtOnce ==
    /\ main_pc = "join"
    /\ bus' = [bus EXCEPT ![index] = "freed"]
    /\ main_pc' = IF index + 1 < NumNodes THEN "stop" ELSE "shutdown"
    /\ index' = IF index + 1 < NumNodes THEN index + 1 ELSE 0
    /\ UNCHANGED <<busVars, running, thread>>

\* pthread_join, bus_destroy.
MainJoin ==
    /\ main_pc = "join"
    /\ thread[index] = "exited"
    /\ bus' = [bus EXCEPT ![index] = "freed"]
    /\ main_pc' = IF index + 1 < NumNodes THEN "stop" ELSE "shutdown"
    /\ index' = IF index + 1 < NumNodes THEN index + 1 ELSE 0
    /\ UNCHANGED <<busVars, running, thread>>

MainShutdown ==
    /\ main_pc = "shutdown"
    /\ bus_global_shutdown
    /\ main_pc' = "done"
    /\ UNCHANGED <<index, bus, running, thread>>

Main ==
    \/ MainInit
    \/ MainCreateBus
    \/ MainSpawn
    \/ MainStop
    \/ MainJoin
    \/ MainShutdown

-----------------------------------------------------------------------------
(* node_thread.                                                             *)

Starts(t, phase) ==
    /\ thread[t] = phase
    /\ call[t] = "none"

\* A bus_send or a bus_recv may start in node_begin, or where node_service has it.
MaySend(t) == thread[t] \in {"begin", "send"}
MayReceive(t) == thread[t] \in {"begin", "receive"}

\* Where the thread is once its call has returned.
Returned(t) ==
    [thread EXCEPT ![t] =
        CASE @ = "receive" -> "send" [] @ = "send" -> "check" [] OTHER -> @]

EndBegin(t) ==
    /\ Starts(t, "begin")
    /\ thread' = [thread EXCEPT ![t] = "check"]
    /\ UNCHANGED <<busVars, mainVars>>

\* while (tn->running)
CheckRunning(t) ==
    /\ Starts(t, "check")
    /\ thread' = [thread EXCEPT ![t] = IF running[t] THEN "receive" ELSE "exited"]
    /\ UNCHANGED <<busVars, mainVars>>

\* This node_service call has nothing to send.
NoSend(t) ==
    /\ Starts(t, "send")
    /\ thread' = [thread EXCEPT ![t] = "check"]
    /\ UNCHANGED <<busVars, mainVars>>

InBus(t) ==
    /\ \/ MaySend(t) /\ SendLock(t)
       \/ SendPush(t)
       \/ MayReceive(t) /\ RecvWait(t)
       \/ RecvExpire(t)
    /\ UNCHANGED <<mainVars, thread>>

LeaveBus(t) ==
    /\ \/ SendUnlock(t)
       \/ MayReceive(t) /\ RecvAtOnce(t)
       \/ RecvTimeout(t)
       \/ RecvWoken(t)
    /\ thread' = Returned(t)
    /\ UNCHANGED mainVars

ThreadStep(t) ==
    \/ EndBegin(t)
    \/ CheckRunning(t)
    \/ NoSend(t)
    \/ InBus(t)
    \/ LeaveBus(t)

Next == Main \/ \E t \in Thread : ThreadStep(t)

\* Every thread is scheduled, a wait of 50 ms ends, and node_begin is over
\* after a bounded time, whatever the bus does meanwhile.
Spec ==
    /\ Init
    /\ [][Next]_vars
    /\ WF_vars(Main)
    /\ \A t \in Thread : WF_vars(ThreadStep(t)) /\ SF_vars(EndBegin(t))

-----------------------------------------------------------------------------

\* The frame under way is in the queues before push_index.
LastPushed(t) ==
    IF g_global_mutex # Nobody /\ push_index <= t THEN sent - 1 ELSE sent

\* The number of the next frame for t: those after it are in its queue.
NextFrame(t) ==
    IF bus[t] = "none" THEN 0 ELSE LastPushed(t) - g_queues[t].count + 1

Broadcast == INSTANCE BroadcastBus
    WITH Receivers <- Thread, Capacity <- RING_CAPACITY,
         next <- [t \in Thread |-> NextFrame(t)]

\* The ring buffers and the two levels of mutexes make one totally ordered
\* broadcast: all nodes are handed the frames in one order, none twice, none
\* out of the ring's stale slots, and none is missing unless 64 newer ones
\* waited (bus_send, bus_recv, ring_push, ring_pop).
TotalOrder == Broadcast!Spec

\* No thread sleeps while a frame waits for it (pthread_cond_signal is called
\* under the mutex that bus_recv tests count under).
NoLostWakeup == \A t \in Thread : call[t] = "waiting" => g_queues[t].count = 0

\* A thread inside bus_send or bus_recv uses a Bus that is not freed and queues
\* whose mutexes exist (main joins a thread before bus_destroy and all of them
\* before bus_global_shutdown).
BusOutlivesCalls ==
    \A t \in Thread :
        /\ thread[t] \in {"begin", "check", "receive", "send"} => bus[t] = "allocated"
        /\ call[t] # "none" => live = Thread

\* Graceful shutdown: main joins every thread and returns (main.c, "Simulation
\* completed successfully").
Terminates == <>(main_pc = "done")
=============================================================================
