-------------------------------- MODULE Node --------------------------------
(***************************************************************************)
(* The node state machine of shared/core/node.c, one instance per board or *)
(* simulated thread, over the broadcast bus the code is written against.   *)
(*                                                                         *)
(* node_begin is cut at every point where another node can act: the jitter *)
(* delay, each bus_recv of the listen and conflict loops, each bus_send.   *)
(* node_service is one action per branch of one call.  In a handler the    *)
(* receive and the send that answers it are one step: a node only takes    *)
(* from its own inbox and a send only appends, so nothing another node     *)
(* does in between can tell the two apart.                                 *)
(*                                                                         *)
(* Time is a countdown per node, in ticks.  Tick is possible once everybody*)
(* has handled what arrived and what is due (Timely), i.e. a tick is much  *)
(* longer than a handler; with Timely = FALSE no such bound is assumed.    *)
(***************************************************************************)
EXTENDS Proto, JoinDedup, Sequences

CONSTANTS
    Nodes,          \* the boards / simulated threads
    Index,          \* instance_index of each node
    SETUP,          \* setup() of a board, until it opens the bus (2000 ms)
    JITTER,         \* start-up delay per index (150 ms in the code)
    LISTEN,         \* length of the listen phase (1000 ms)
    CONFLICT,       \* length of the conflict window (1000 ms)
    RETRY,          \* JOIN retry period (250 ms)
    Capacity,       \* frames one receive queue holds
    EchoToSender,   \* TRUE: a sender hears its own frame (bus_sim.c)
    Booted,         \* nodes that are powered in the initial state
    Timely,         \* TRUE: handlers are fast compared with a tick
    DistinctNonces, \* TRUE: hal_random32 never repeats a value
    MaxLosses,      \* bound on frames lost on the wire
    MaxPowerOffs    \* bound on boards switched off

ASSUME NodeAssumption ==
    /\ Index \in [Nodes -> Nat]
    /\ SETUP \in Nat
    /\ JITTER \in Nat
    /\ LISTEN \in Nat \ {0}
    /\ CONFLICT \in Nat \ {0}
    /\ RETRY \in Nat \ {0}
    /\ Capacity \in Nat \ {0}
    /\ MaxLosses \in Nat
    /\ MaxPowerOffs \in Nat
    /\ EchoToSender \in BOOLEAN
    /\ Timely \in BOOLEAN
    /\ DistinctNonces \in BOOLEAN
    /\ Booted \subseteq Nodes

VARIABLES
    pc,               \* where the node is in setup / node_begin / loop
    role,             \* Node.role
    assigned_id,      \* Node.assigned_id
    random_nonce,     \* Node.random_nonce
    next_assign_id,   \* Node.next_assign_id
    seen_join_nonce,  \* Node.seen_join_nonce
    seen_count,       \* Node.seen_count
    join_nonce,       \* Node.join_nonce
    timer,            \* ticks until the deadline the node waits for
    inbox,            \* receive queue of each node, oldest first
    overflowed,       \* history: a full queue dropped a frame
    losses,           \* frames lost on the wire so far
    powerOffs,        \* boards switched off so far
    claimNonces,      \* history: election nonces drawn so far
    joinNonces,       \* history: JOIN nonces drawn so far
    ledger,           \* history: every ASSIGN sent, in order
    elections         \* history: how often a node became coordinator

electVars == <<random_nonce, claimNonces, elections>>
idVars == <<role, assigned_id>>
coordVars == <<next_assign_id, seen_join_nonce, seen_count, ledger>>
joinVars == <<join_nonce, joinNonces>>
busVars == <<inbox, overflowed>>
faultVars == <<losses, powerOffs>>
vars == <<pc, timer, electVars, idVars, coordVars, joinVars, busVars, faultVars>>

Role == {"SEEKING", "COORDINATOR", "MEMBER"}

Phase == {"off", "jitter", "listen", "claim", "conflict", "hello", "join",
          "service"}

Jitter(n) == Index[n] * JITTER

Powered(n) == pc[n] # "off"

Coordinators == {n \in Nodes : pc[n] = "service" /\ role[n] = "COORDINATOR"}

Members == {n \in Nodes : pc[n] = "service" /\ role[n] = "MEMBER"}

EmptyTable == [i \in Slot |-> 0]

Init ==
    /\ pc = [n \in Nodes |-> IF n \in Booted THEN "jitter" ELSE "off"]
    /\ role = [n \in Nodes |-> "SEEKING"]
    /\ assigned_id = [n \in Nodes |-> 0]
    /\ random_nonce = [n \in Nodes |-> 0]
    /\ next_assign_id = [n \in Nodes |-> 0]
    /\ seen_join_nonce = [n \in Nodes |-> EmptyTable]
    /\ seen_count = [n \in Nodes |-> 0]
    /\ join_nonce = [n \in Nodes |-> 0]
    /\ timer = [n \in Nodes |-> IF n \in Booted THEN Jitter(n) ELSE 0]
    /\ inbox = [n \in Nodes |-> <<>>]
    /\ overflowed = FALSE
    /\ losses = 0
    /\ powerOffs = 0
    /\ claimNonces = {}
    /\ joinNonces = {}
    /\ ledger = <<>>
    /\ elections = 0

-----------------------------------------------------------------------------
(* The bus.  A frame reaches every powered node's queue, the sender's own   *)
(* too in the simulator; a full queue drops its oldest frame.               *)

Receivers(n) == {m \in Nodes : Powered(m) /\ (m = n => EchoToSender)}

\* Mutant: a full queue is not checked.
EnqueueUnbounded(q, f) == Append(q, f)

Enqueue(q, f) == Append(IF Len(q) = Capacity THEN Tail(q) ELSE q, f)

\* bus_send by n, starting from the queues box.
Broadcast(n, box, f) ==
    /\ inbox' = [m \in Nodes |->
                    IF m \in Receivers(n) THEN Enqueue(box[m], f) ELSE box[m]]
    /\ overflowed' = (overflowed \/ \E m \in Receivers(n) : Len(box[m]) = Capacity)

Popped(n) == [inbox EXCEPT ![n] = Tail(@)]

\* bus_recv by n returns f and nothing is sent in answer.
Consume(n) ==
    /\ inbox' = Popped(n)
    /\ UNCHANGED overflowed

-----------------------------------------------------------------------------
(* Power.                                                                   *)

\* setup(): bus_create, node_init, then node_begin blocks in hal_delay.
PowerOn(n) ==
    /\ pc[n] = "off"
    /\ timer[n] = 0
    /\ pc' = [pc EXCEPT ![n] = "jitter"]
    /\ timer' = [timer EXCEPT ![n] = Jitter(n)]
    /\ role' = [role EXCEPT ![n] = "SEEKING"]
    /\ assigned_id' = [assigned_id EXCEPT ![n] = 0]
    /\ random_nonce' = [random_nonce EXCEPT ![n] = 0]
    /\ next_assign_id' = [next_assign_id EXCEPT ![n] = 0]
    /\ seen_join_nonce' = [seen_join_nonce EXCEPT ![n] = EmptyTable]
    /\ seen_count' = [seen_count EXCEPT ![n] = 0]
    /\ join_nonce' = [join_nonce EXCEPT ![n] = 0]
    /\ UNCHANGED <<busVars, faultVars, claimNonces, joinNonces, ledger, elections>>

\* The board loses power at any point; what was on its way to it is gone.  It
\* hears nothing before a reset has taken it through setup() again.
PowerOff(n) ==
    /\ Powered(n)
    /\ powerOffs < MaxPowerOffs
    /\ powerOffs' = powerOffs + 1
    /\ pc' = [pc EXCEPT ![n] = "off"]
    /\ timer' = [timer EXCEPT ![n] = SETUP]
    /\ inbox' = [inbox EXCEPT ![n] = <<>>]
    /\ UNCHANGED <<electVars, idVars, coordVars, joinVars, overflowed, losses>>

-----------------------------------------------------------------------------
(* node_begin.                                                              *)

\* The delay is over: draw the election nonce and start to listen.
Begin(n) ==
    /\ pc[n] = "jitter"
    /\ timer[n] = 0
    /\ \E v \in ClaimNonce :
          /\ DistinctNonces => v \notin claimNonces
          /\ random_nonce' = [random_nonce EXCEPT ![n] = v]
          /\ claimNonces' = claimNonces \cup {v}
    /\ role' = [role EXCEPT ![n] = "SEEKING"]
    /\ assigned_id' = [assigned_id EXCEPT ![n] = 0]
    /\ seen_count' = [seen_count EXCEPT ![n] = 0]
    /\ pc' = [pc EXCEPT ![n] = "listen"]
    /\ timer' = [timer EXCEPT ![n] = LISTEN]
    /\ UNCHANGED <<elections, next_assign_id, seen_join_nonce, ledger,
                   joinVars, busVars, faultVars>>

\* Mutant: a CLAIM does not end the phase.
ListenDeaf(n) ==
    /\ pc[n] = "listen"
    /\ inbox[n] # <<>>
    /\ Consume(n)
    /\ pc' = [pc EXCEPT ![n] = IF timer[n] = 0 THEN "claim" ELSE "listen"]
    /\ UNCHANGED <<timer, electVars, idVars, coordVars, joinVars, faultVars>>

\* One bus_recv of the listen loop.  Any CLAIM ends the phase; another frame
\* is dropped.  A call that began before the deadline may return after it:
\* that frame is still handled, and the loop then ends.
ListenRecv(n) ==
    /\ pc[n] = "listen"
    /\ inbox[n] # <<>>
    /\ Consume(n)
    /\ \/ /\ Head(inbox[n]).type = "CLAIM"
          /\ pc' = [pc EXCEPT ![n] = "hello"]
          /\ timer' = [timer EXCEPT ![n] = 0]
       \/ /\ Head(inbox[n]).type # "CLAIM"
          /\ pc' = [pc EXCEPT ![n] = IF timer[n] = 0 THEN "claim" ELSE "listen"]
          /\ UNCHANGED timer
    /\ UNCHANGED <<electVars, idVars, coordVars, joinVars, faultVars>>

\* The loop ends by the clock, with or without frames left unread.
ListenTimeout(n) ==
    /\ pc[n] = "listen"
    /\ timer[n] = 0
    /\ pc' = [pc EXCEPT ![n] = "claim"]
    /\ UNCHANGED <<timer, electVars, idVars, coordVars, joinVars, busVars, faultVars>>

\* Mutant: the window opens but the CLAIM is never put on the bus.
SendClaimSilently(n) ==
    /\ pc[n] = "claim"
    /\ pc' = [pc EXCEPT ![n] = "conflict"]
    /\ timer' = [timer EXCEPT ![n] = CONFLICT]
    /\ UNCHANGED <<electVars, idVars, coordVars, joinVars, busVars, faultVars>>

\* No CLAIM heard: claim the coordinator role and open the conflict window.
SendClaim(n) ==
    /\ pc[n] = "claim"
    /\ Broadcast(n, inbox, Claim(0, random_nonce[n]))
    /\ pc' = [pc EXCEPT ![n] = "conflict"]
    /\ timer' = [timer EXCEPT ![n] = CONFLICT]
    /\ UNCHANGED <<electVars, idVars, coordVars, joinVars, faultVars>>

\* Mutant: the coordinator's defence counts like any claim.
YieldsByNonce(n, f) == f.type = "CLAIM" /\ f.nonce > random_nonce[n]

\* Mutant: any other claim makes a claimant yield.
YieldsToAny(n, f) == f.type = "CLAIM"

\* Mutant: the comparison is the wrong way round.
YieldsToLower(n, f) ==
    f.type = "CLAIM" /\ (f.source = 1 \/ f.nonce < random_nonce[n])

\* What makes a claimant yield: the coordinator's defence, or a higher nonce.
Yields(n, f) ==
    /\ f.type = "CLAIM"
    /\ f.source = 1 \/ f.nonce > random_nonce[n]

ConflictYield(n) ==
    /\ pc[n] = "conflict"
    /\ inbox[n] # <<>>
    /\ Yields(n, Head(inbox[n]))
    /\ Consume(n)
    /\ pc' = [pc EXCEPT ![n] = "hello"]
    /\ timer' = [timer EXCEPT ![n] = 0]
    /\ UNCHANGED <<electVars, idVars, coordVars, joinVars, faultVars>>

\* Mutant: the counter starts at the coordinator's own id.
CountFromOne(n) ==
    /\ role' = [role EXCEPT ![n] = "COORDINATOR"]
    /\ assigned_id' = [assigned_id EXCEPT ![n] = 1]
    /\ next_assign_id' = [next_assign_id EXCEPT ![n] = 1]
    /\ pc' = [pc EXCEPT ![n] = "service"]
    /\ elections' = elections + 1

\* Phase 4.  The new coordinator goes straight to its service loop.
BecomeCoordinator(n) ==
    /\ role' = [role EXCEPT ![n] = "COORDINATOR"]
    /\ assigned_id' = [assigned_id EXCEPT ![n] = 1]
    /\ next_assign_id' = [next_assign_id EXCEPT ![n] = 2]
    /\ pc' = [pc EXCEPT ![n] = "service"]
    /\ elections' = elections + 1

\* Any other frame is dropped; if the deadline passed during that bus_recv
\* the loop ends and the claim has won.
ConflictIgnore(n) ==
    /\ pc[n] = "conflict"
    /\ inbox[n] # <<>>
    /\ ~ Yields(n, Head(inbox[n]))
    /\ Consume(n)
    /\ \/ /\ timer[n] > 0
          /\ UNCHANGED <<pc, idVars, next_assign_id, elections>>
       \/ /\ timer[n] = 0
          /\ BecomeCoordinator(n)
    /\ UNCHANGED <<timer, random_nonce, claimNonces, seen_join_nonce, seen_count,
                   ledger, joinVars, faultVars>>

ConflictTimeout(n) ==
    /\ pc[n] = "conflict"
    /\ timer[n] = 0
    /\ BecomeCoordinator(n)
    /\ UNCHANGED <<timer, random_nonce, claimNonces, seen_join_nonce, seen_count,
                   ledger, joinVars, busVars, faultVars>>

\* Phase 5.
SendHello(n) ==
    /\ pc[n] = "hello"
    /\ Broadcast(n, inbox, Hello)
    /\ pc' = [pc EXCEPT ![n] = "join"]
    /\ UNCHANGED <<timer, electVars, idVars, coordVars, joinVars, faultVars>>

SendJoin(n) ==
    /\ pc[n] = "join"
    /\ \E v \in JoinNonce :
          /\ DistinctNonces => v \notin joinNonces
          /\ join_nonce' = [join_nonce EXCEPT ![n] = v]
          /\ joinNonces' = joinNonces \cup {v}
          /\ Broadcast(n, inbox, Join(v))
    /\ pc' = [pc EXCEPT ![n] = "service"]
    /\ timer' = [timer EXCEPT ![n] = RETRY]
    /\ UNCHANGED <<electVars, idVars, coordVars, faultVars>>

-----------------------------------------------------------------------------
(* node_service: one call, by the frame it received.                        *)

Receiving(n, type) ==
    /\ pc[n] = "service"
    /\ inbox[n] # <<>>
    /\ Head(inbox[n]).type = type

\* A claimant's own defence, come back to it (simulator only).
OwnDefence(n, f) == f = Claim(1, random_nonce[n])

Drained(n) == \A k \in 1 .. Len(inbox[n]) : OwnDefence(n, inbox[n][k])

\* Mutant: a JOIN is sent once only.
RetryNever(n) == FALSE

RetryDue(n) == pc[n] = "service" /\ role[n] = "SEEKING" /\ timer[n] = 0

\* n has nothing to do before time passes.
Settled(n) ==
    \/ pc[n] = "off"
    \/ pc[n] = "jitter" /\ timer[n] > 0
    \/ pc[n] \in {"listen", "conflict"} /\ timer[n] > 0 /\ inbox[n] = <<>>
    \/ pc[n] = "service" /\ Drained(n) /\ ~ RetryDue(n)

\* Mutant: an incumbent defends itself only against lower nonces.
DefendIfHigher(n) ==
    /\ Receiving(n, "CLAIM")
    /\ role[n] = "COORDINATOR"
    /\ IF Head(inbox[n]).nonce < random_nonce[n]
       THEN Broadcast(n, Popped(n), Claim(1, random_nonce[n]))
       ELSE Consume(n)
    /\ UNCHANGED <<pc, timer, electVars, idVars, coordVars, joinVars, faultVars>>

\* Mutant: an incumbent steps down for a higher nonce.
DefendOrStepDown(n) ==
    /\ Receiving(n, "CLAIM")
    /\ role[n] = "COORDINATOR"
    /\ IF Head(inbox[n]).nonce <= random_nonce[n]
       THEN Broadcast(n, Popped(n), Claim(1, random_nonce[n])) /\ UNCHANGED role
       ELSE Consume(n) /\ role' = [role EXCEPT ![n] = "SEEKING"]
    /\ UNCHANGED <<pc, timer, electVars, assigned_id, coordVars, joinVars, faultVars>>

\* The coordinator answers every CLAIM, the echo of its own answer included.
\* Each loop iteration sleeps (main.c), so under Timely the echo is answered
\* after the other nodes have handled what was sent before it.
DefendClaim(n) ==
    /\ Receiving(n, "CLAIM")
    /\ role[n] = "COORDINATOR"
    /\ (Timely /\ OwnDefence(n, Head(inbox[n]))) => \A m \in Nodes \ {n} : Settled(m)
    /\ Broadcast(n, Popped(n), Claim(1, random_nonce[n]))
    /\ UNCHANGED <<pc, timer, electVars, idVars, coordVars, joinVars, faultVars>>

\* A new JOIN: record its nonce, take the next id (uint8_t), send ASSIGN.
AssignId(n) ==
    /\ Receiving(n, "JOIN")
    /\ role[n] = "COORDINATOR"
    /\ LET nonce == Head(inbox[n]).nonce
           id == next_assign_id[n]
       IN  /\ ~ Seen(seen_join_nonce[n], seen_count[n], nonce)
           /\ seen_join_nonce' = [seen_join_nonce EXCEPT
                                    ![n] = RecordedSlots(@, seen_count[n], nonce)]
           /\ next_assign_id' = [next_assign_id EXCEPT ![n] = (id + 1) % IdMod]
           /\ ledger' = Append(ledger, [id |-> id, nonce |-> nonce])
           /\ Broadcast(n, Popped(n), Assign(id, nonce))
    /\ seen_count' = [seen_count EXCEPT ![n] = RecordedCount(@)]
    /\ UNCHANGED <<pc, timer, electVars, idVars, joinVars, faultVars>>

\* A JOIN already answered gets no second answer.
IgnoreDuplicateJoin(n) ==
    /\ Receiving(n, "JOIN")
    /\ role[n] = "COORDINATOR"
    /\ Seen(seen_join_nonce[n], seen_count[n], Head(inbox[n]).nonce)
    /\ Consume(n)
    /\ UNCHANGED <<pc, timer, electVars, idVars, coordVars, joinVars, faultVars>>

\* Mutant: the echoed nonce is not compared.
ForAnySeeker(n, f) == role[n] = "SEEKING" /\ f.type = "ASSIGN"

\* Mutant: the nonce compared is that of the election.
ForMyClaim(n, f) == role[n] = "SEEKING" /\ f.type = "ASSIGN" /\ f.nonce = random_nonce[n]

\* An ASSIGN that echoes this node's JOIN nonce makes it a member.
ForMe(n, f) == role[n] = "SEEKING" /\ f.type = "ASSIGN" /\ f.nonce = join_nonce[n]

AcceptAssign(n) ==
    /\ Receiving(n, "ASSIGN")
    /\ ForMe(n, Head(inbox[n]))
    /\ assigned_id' = [assigned_id EXCEPT ![n] = Head(inbox[n]).id]
    /\ role' = [role EXCEPT ![n] = "MEMBER"]
    /\ timer' = [timer EXCEPT ![n] = 0]
    /\ Consume(n)
    /\ UNCHANGED <<pc, electVars, coordVars, joinVars, faultVars>>

\* A frame the role has no branch for.  The same call still ends with the
\* retry check.
ServiceSkip(n) ==
    /\ pc[n] = "service"
    /\ inbox[n] # <<>>
    /\ ~ ForMe(n, Head(inbox[n]))
    /\ role[n] = "COORDINATOR" => Head(inbox[n]).type \notin {"CLAIM", "JOIN"}
    /\ \/ /\ ~ RetryDue(n)
          /\ Consume(n)
          /\ UNCHANGED timer
       \/ /\ RetryDue(n)
          /\ Broadcast(n, Popped(n), Join(join_nonce[n]))
          /\ timer' = [timer EXCEPT ![n] = RETRY]
    /\ UNCHANGED <<pc, electVars, idVars, coordVars, joinVars, faultVars>>

\* A call whose bus_recv returned nothing.
RetryJoin(n) ==
    /\ RetryDue(n)
    /\ Broadcast(n, inbox, Join(join_nonce[n]))
    /\ timer' = [timer EXCEPT ![n] = RETRY]
    /\ UNCHANGED <<pc, electVars, idVars, coordVars, joinVars, faultVars>>

-----------------------------------------------------------------------------
(* The environment.                                                         *)

\* The wire loses the next frame of one receiver.
Lose(n) ==
    /\ losses < MaxLosses
    /\ inbox[n] # <<>>
    /\ losses' = losses + 1
    /\ Consume(n)
    /\ UNCHANGED <<pc, timer, electVars, idVars, coordVars, joinVars, powerOffs>>

Tick ==
    /\ Timely => \A n \in Nodes : Settled(n)
    /\ \E n \in Nodes : timer[n] > 0
    /\ timer' = [n \in Nodes |-> IF timer[n] > 0 THEN timer[n] - 1 ELSE 0]
    /\ UNCHANGED <<pc, electVars, idVars, coordVars, joinVars, busVars, faultVars>>

NodeBegin(n) ==
    \/ Begin(n)
    \/ ListenRecv(n)
    \/ ListenTimeout(n)
    \/ SendClaim(n)
    \/ ConflictYield(n)
    \/ ConflictIgnore(n)
    \/ ConflictTimeout(n)
    \/ SendHello(n)
    \/ SendJoin(n)

NodeService(n) ==
    \/ DefendClaim(n)
    \/ AssignId(n)
    \/ IgnoreDuplicateJoin(n)
    \/ AcceptAssign(n)
    \/ ServiceSkip(n)
    \/ RetryJoin(n)

Step(n) == NodeBegin(n) \/ NodeService(n)

Next ==
    \/ \E n \in Nodes : Step(n) \/ PowerOn(n) \/ PowerOff(n) \/ Lose(n)
    \/ Tick

Spec == Init /\ [][Next]_vars

\* A powered node keeps executing, and time keeps passing.  Ticks need strong
\* fairness because the echo of a defence keeps unsettling the other nodes.
FairSpec ==
    /\ Spec
    /\ \A n \in Nodes : WF_vars(Step(n))
    /\ SF_vars(Tick)
=============================================================================
