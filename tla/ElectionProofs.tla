--------------------------- MODULE ElectionProofs ---------------------------
(***************************************************************************)
(* Why at most one node wins an election, for any number of nodes and any  *)
(* lengths of the phases, under the conditions of Margin.                  *)
(***************************************************************************)
EXTENDS IdProofs

\* Handlers are fast compared with a tick, nonces differ, and a node that was
\* not powered when a CLAIM was sent listens until after the claimant's window.
Margin ==
    /\ Timely
    /\ DistinctNonces
    /\ \A n \in Nodes : Jitter(n) + LISTEN > CONFLICT

ClaimWaits(a, b) == Claim(0, random_nonce[a]) \in Frames(b)

\* While a's window is open: a node that has not heard of it yet will, or ends
\* its own listening after the window; and another claimant sent its CLAIM in
\* the same instant, and has a's CLAIM still to read unless it has the higher nonce.
Overheard(a, b) ==
    pc[a] = "conflict" =>
      /\ pc[b] = "jitter" =>
            ClaimWaits(a, b) \/ timer[b] - timer[a] >= Jitter(b) - CONFLICT
      /\ pc[b] = "listen" =>
            \/ ClaimWaits(a, b) /\ (timer[b] = LISTEN \/ timer[a] = CONFLICT)
            \/ timer[b] - timer[a] >= Jitter(b) + LISTEN - CONFLICT
      /\ pc[b] \in {"claim", "conflict"} =>
            /\ timer[a] = CONFLICT
            /\ \/ ClaimWaits(a, b)
               \/ pc[b] = "conflict" /\ random_nonce[a] < random_nonce[b]

\* IncumbentDefends for two nodes.
Defended(a, b) ==
    (a \in Coordinators /\ pc[b] = "conflict") =>
      /\ timer[b] = CONFLICT
      /\ ClaimWaits(b, a) \/ Claim(1, random_nonce[a]) \in Frames(b)

Alone(a, b) == a \in Coordinators => b \notin Coordinators

Pair(a, b) == Overheard(a, b) /\ Defended(a, b) /\ Alone(a, b)

\* A window never lasts longer than CONFLICT.
Windows == \A n \in Nodes : pc[n] = "conflict" => timer[n] <= CONFLICT

\* The election nonces in use are different.
Drawn ==
    \A a \in Nodes : pc[a] \notin {"off", "jitter"} =>
        /\ random_nonce[a] \in claimNonces
        /\ \A b \in Nodes \ {a} :
              pc[b] \notin {"off", "jitter"} => random_nonce[a] # random_nonce[b]

AllPairs == \A a, b \in Nodes : a # b => Pair(a, b)

ElectionInv == Windows /\ Drawn /\ (Reliable => AllPairs)

-----------------------------------------------------------------------------
(* What a step of p leaves alone.                                           *)

\* Another node's countdown does not change.
LEMMA OthersTimer ==
    ASSUME TypeOK, NEW p \in Nodes, Step(p) \/ EnvStep(p), NEW m \in Nodes, m # p
    PROVE  timer'[m] = timer[m]
<1>1. \/ timer' = timer
      \/ \E t : timer' = [timer EXCEPT ![p] = t]
    BY DEF Step, NodeBegin, NodeService, EnvStep, Begin, ListenRecv,
           ListenTimeout, SendClaim, ConflictYield, ConflictIgnore, ConflictTimeout,
           SendHello, SendJoin, DefendClaim, AssignId, IgnoreDuplicateJoin,
           AcceptAssign, ServiceSkip, RetryJoin, PowerOn, PowerOff, Lose
<1> QED
    BY <1>1 DEF TypeOK

\* Two nodes that do not take the step keep their relation.
LEMMA Bystanders ==
    ASSUME TypeOK, ~ overflowed', NEW p \in Nodes,
           Step(p) \/ PowerOn(p) \/ PowerOff(p) \/ Lose(p),
           NEW a \in Nodes \ {p}, NEW b \in Nodes \ {p}, Pair(a, b)
    PROVE  Pair(a, b)'
<1>1. /\ pc'[a] = pc[a] /\ role'[a] = role[a] /\ random_nonce'[a] = random_nonce[a]
      /\ pc'[b] = pc[b] /\ role'[b] = role[b] /\ random_nonce'[b] = random_nonce[b]
      /\ timer'[a] = timer[a] /\ timer'[b] = timer[b]
    BY OthersKeep, OthersTimer DEF KeepsOwn, EnvStep
<1>2. Frames(a) \subseteq Frames(a)' /\ Frames(b) \subseteq Frames(b)'
    BY OthersFrames
<1>3. /\ ClaimWaits(a, b) => ClaimWaits(a, b)'
      /\ ClaimWaits(b, a) => ClaimWaits(b, a)'
      /\ Claim(1, random_nonce[a]) \in Frames(b)
            => Claim(1, random_nonce'[a]) \in Frames(b)'
    BY <1>1, <1>2 DEF ClaimWaits
<1>4. (a \in Coordinators' <=> a \in Coordinators)
      /\ (b \in Coordinators' <=> b \in Coordinators)
    BY <1>1 DEF Coordinators
<1>5. Overheard(a, b)'
    BY <1>1, <1>3 DEF Pair, Overheard, Jitter
<1>6. Defended(a, b)'
    BY <1>1, <1>3, <1>4 DEF Pair, Defended
<1>7. Alone(a, b)'
    BY <1>4 DEF Pair, Alone
<1> QED
    BY <1>5, <1>6, <1>7 DEF Pair

-----------------------------------------------------------------------------
(* Time passes.                                                             *)

LEMMA TimesType ==
    /\ LISTEN \in Nat /\ LISTEN > 0 /\ CONFLICT \in Nat /\ CONFLICT > 0
    /\ \A n \in Nodes : Jitter(n) \in Nat
    BY NodeAssumption, TimerType

\* A claim with source 0 is no coordinator's defence.
LEMMA ClaimsDiffer ==
    ASSUME NEW v, NEW w
    PROVE  /\ Claim(0, v) # Claim(1, w)
           /\ Claim(0, v).type = "CLAIM" /\ Claim(0, v).source = 0
           /\ Claim(0, v).nonce = v
           /\ Claim(1, v).type = "CLAIM" /\ Claim(1, v).source = 1
<1>1. Claim(0, v).source = 0 /\ Claim(1, w).source = 1
    BY DEF Claim, make_frame
<1>2. /\ Claim(0, v).type = "CLAIM" /\ Claim(0, v).nonce = v
      /\ Claim(1, v).type = "CLAIM" /\ Claim(1, v).source = 1
    BY DEF Claim, make_frame
<1> QED
    BY <1>1, <1>2

LEMMA NoncesAreNumbers ==
    ASSUME TypeOK, NEW n \in Nodes
    PROVE  random_nonce[n] \in Nat
<1>1. random_nonce[n] \in ClaimNonce \cup {0}
    BY DEF TypeOK
<1>2. ClaimNonce \subseteq Nat
    BY ProtoAssumption
<1>3. CASE random_nonce[n] \in ClaimNonce
    BY <1>2, <1>3, Zenon
<1>4. CASE random_nonce[n] = 0
    BY <1>4
<1> QED
    BY <1>1, <1>3, <1>4, Zenon

LEMMA NoFramesWait == ASSUME NEW n, inbox[n] = <<>> PROVE Frames(n) = {}
    BY EmptySeq DEF Frames

\* A settled claimant has read everything and its window is still open.
LEMMA SettledClaimant ==
    ASSUME TypeOK, NEW n \in Nodes, Settled(n), pc[n] \in {"claim", "listen", "conflict"}
    PROVE  pc[n] # "claim" /\ timer[n] > 0 /\ Frames(n) = {}
    BY NoFramesWait DEF Settled

LEMMA PairTick ==
    ASSUME TypeOK, Margin, Tick, NEW a \in Nodes, NEW b \in Nodes, a # b,
           Pair(a, b), Pair(b, a)
    PROVE  Pair(a, b)'
<1>1. Settled(a) /\ Settled(b)
    BY DEF Tick, Margin
<1>2. /\ pc' = pc /\ role' = role /\ random_nonce' = random_nonce
      /\ Frames(a)' = Frames(a) /\ Frames(b)' = Frames(b)
    BY DEF Tick, electVars, idVars, busVars, Frames
<1>3. Coordinators' = Coordinators
    BY <1>2 DEF Coordinators
<1>4. timer[a] \in Nat /\ timer[b] \in Nat
    BY DEF TypeOK
<1>5. /\ timer[a] > 0 => timer'[a] = timer[a] - 1
      /\ timer[b] > 0 => timer'[b] = timer[b] - 1
    BY DEF Tick
<1>6. ClaimWaits(a, b)' <=> ClaimWaits(a, b)
    BY <1>2 DEF ClaimWaits
<1>7. Overheard(a, b)'
    <2> SUFFICES ASSUME pc[a] = "conflict"
                 PROVE  /\ pc[b] = "jitter" =>
                              \/ ClaimWaits(a, b)'
                              \/ timer'[b] - timer'[a] >= Jitter(b) - CONFLICT
                        /\ pc[b] = "listen" =>
                              timer'[b] - timer'[a] >= Jitter(b) + LISTEN - CONFLICT
                        /\ pc[b] \notin {"claim", "conflict"}
        BY <1>2 DEF Overheard, Jitter
    <2>1. timer[a] > 0 /\ Frames(a) = {}
        BY <1>1, SettledClaimant
    <2>2. CASE pc[b] = "jitter"
        <3>1. timer[b] > 0
            BY <1>1, <2>2 DEF Settled
        <3>2. timer'[b] - timer'[a] = timer[b] - timer[a]
            BY <1>4, <1>5, <2>1, <3>1
        <3> QED
            BY <1>6, <2>2, <3>2 DEF Pair, Overheard
    <2>3. CASE pc[b] = "listen"
        <3>1. timer[b] > 0 /\ Frames(b) = {}
            BY <1>1, <2>3, SettledClaimant
        <3>2. timer'[b] - timer'[a] = timer[b] - timer[a]
            BY <1>4, <1>5, <2>1, <3>1
        <3>3. ~ ClaimWaits(a, b)
            BY <3>1 DEF ClaimWaits
        <3> QED
            BY <2>3, <3>2, <3>3 DEF Pair, Overheard
    <2>4. CASE pc[b] = "claim"
        BY <1>1, <2>4, SettledClaimant
    <2>5. CASE pc[b] = "conflict"
        <3>1. Frames(b) = {}
            BY <1>1, <2>5, SettledClaimant
        <3>2. ~ ClaimWaits(a, b) /\ ~ ClaimWaits(b, a)
            BY <2>1, <3>1 DEF ClaimWaits
        <3>3. random_nonce[a] < random_nonce[b] /\ random_nonce[b] < random_nonce[a]
            BY <2>5, <3>2 DEF Pair, Overheard
        <3>4. random_nonce[a] \in Nat /\ random_nonce[b] \in Nat
            BY NoncesAreNumbers
        <3> QED
            BY <3>3, <3>4
    <2> QED
        BY <2>2, <2>3, <2>4, <2>5
<1>8. Defended(a, b)'
    <2> SUFFICES ASSUME a \in Coordinators, pc[b] = "conflict"
                 PROVE  FALSE
        BY <1>2, <1>3 DEF Defended
    <2>1. Frames(b) = {}
        BY <1>1, SettledClaimant
    <2>2. Claim(0, random_nonce[b]) \in Frames(a)
        BY <2>1 DEF Pair, Defended, ClaimWaits
    <2>3. Drained(a)
        BY <1>1 DEF Settled, Coordinators
    <2>4. Claim(0, random_nonce[b]) = Claim(1, random_nonce[a])
        BY <2>2, <2>3 DEF Drained, OwnDefence, Frames
    <2> QED
        BY <2>4, ClaimsDiffer
<1>9. Alone(a, b)'
    BY <1>3 DEF Pair, Alone
<1> QED
    BY <1>7, <1>8, <1>9 DEF Pair

-----------------------------------------------------------------------------
(* The node p that takes a step, and any other node q.                      *)

\* Outside the election and without the coordinator role p is bound by nothing.
LEMMA OutOfContest ==
    ASSUME NEW p \in Nodes, NEW q \in Nodes,
           pc'[p] \in {"off", "hello", "join", "service"}, p \notin Coordinators'
    PROVE  Pair(p, q)' /\ Pair(q, p)'
    BY DEF Pair, Overheard, Defended, Alone

\* p is about to start its window or to listen: only q's window matters.
LEMMA OnlyOverheard ==
    ASSUME NEW p \in Nodes, NEW q \in Nodes,
           pc'[p] \in {"jitter", "listen", "claim"}, Overheard(q, p)'
    PROVE  Pair(p, q)' /\ Pair(q, p)'
    BY DEF Pair, Overheard, Defended, Alone, Coordinators

\* What p's step may rely on: q does nothing, and loses no frame.
Idle(q) ==
    /\ KeepsOwn(q) /\ timer'[q] = timer[q]
    /\ (q \in Coordinators' <=> q \in Coordinators)
    /\ Frames(q) \subseteq Frames(q)'
    /\ pc[q] = "conflict" => timer[q] <= CONFLICT
    /\ timer[q] \in Nat

LEMMA ActorListens ==
    ASSUME TypeOK, Margin, ~ overflowed', NEW p \in Nodes, NEW q \in Nodes, p # q, Idle(q),
           Pair(p, q), Pair(q, p),
           PowerOn(p) \/ Begin(p) \/ ListenRecv(p) \/ ListenTimeout(p)
    PROVE  Pair(p, q)' /\ Pair(q, p)'
<1> USE TimesType DEF Idle, KeepsOwn
<1>0. timer[p] \in Nat /\ Jitter(p) + LISTEN > CONFLICT /\ BusOK
      /\ Jitter(p)' = Jitter(p)
    BY TypeBus DEF TypeOK, Margin, Jitter
<1>1. CASE PowerOn(p)
    <2>1. pc'[p] = "jitter" /\ timer'[p] = Jitter(p)
        BY <1>1 DEF PowerOn, TypeOK
    <2>2. Overheard(q, p)'
        BY <1>0, <2>1 DEF Overheard
    <2> QED
        BY <2>1, <2>2, OnlyOverheard
<1>2. CASE Begin(p)
    <2>1. pc[p] = "jitter" /\ timer[p] = 0 /\ pc'[p] = "listen" /\ timer'[p] = LISTEN
          /\ inbox' = inbox
        BY <1>2 DEF Begin, TypeOK, busVars
    <2>2. Frames(p)' = Frames(p)
        BY <2>1 DEF Frames
    <2>3. ClaimWaits(q, p)' <=> ClaimWaits(q, p)
        BY <2>2 DEF ClaimWaits
    <2>4. Overheard(q, p)'
        <3> SUFFICES ASSUME pc[q] = "conflict"
                     PROVE  \/ ClaimWaits(q, p)'
                            \/ LISTEN - timer[q] >= Jitter(p) + LISTEN - CONFLICT
            BY <1>0, <2>1 DEF Overheard
        <3>1. ClaimWaits(q, p) \/ 0 - timer[q] >= Jitter(p) - CONFLICT
            BY <2>1 DEF Pair, Overheard
        <3> QED
            BY <2>3, <3>1
    <2> QED
        BY <2>1, <2>4, OnlyOverheard
<1>3. CASE ListenRecv(p) \/ ListenTimeout(p)
    <2>1. CASE pc'[p] = "hello"
        <3>1. p \notin Coordinators'
            BY <2>1 DEF Coordinators
        <3> QED
            BY <2>1, <3>1, OutOfContest
    <2>2. CASE pc'[p] # "hello"
        <3>1. /\ pc[p] = "listen" /\ timer'[p] = timer[p]
              /\ pc'[p] = "listen" \/ (pc'[p] = "claim" /\ timer[p] = 0)
              /\ \/ inbox' = inbox
                 \/ inbox[p] # <<>> /\ Consume(p) /\ Head(inbox[p]).type # "CLAIM"
            BY <1>3, <2>2 DEF ListenRecv, ListenTimeout, TypeOK, busVars
        <3>2. ClaimWaits(q, p) => ClaimWaits(q, p)'
            <4> SUFFICES ASSUME ClaimWaits(q, p), inbox' # inbox
                         PROVE  ClaimWaits(q, p)'
                BY DEF ClaimWaits, Frames
            <4>1. Claim(0, random_nonce[q]) # Head(inbox[p])
                BY <3>1, ClaimsDiffer
            <4> QED
                BY <1>0, <3>1, <4>1, ConsumeKeeps DEF ClaimWaits
        <3>3. Overheard(q, p)'
            <4> SUFFICES ASSUME pc[q] = "conflict"
                         PROVE  Overheard(q, p)'
                BY DEF Overheard
            <4>1. \/ ClaimWaits(q, p) /\ (timer[p] = LISTEN \/ timer[q] = CONFLICT)
                  \/ timer[p] - timer[q] >= Jitter(p) + LISTEN - CONFLICT
                BY <3>1 DEF Pair, Overheard
            <4>2. CASE pc'[p] = "listen"
                BY <1>0, <3>1, <3>2, <4>1, <4>2 DEF Overheard
            <4>3. CASE pc'[p] = "claim" /\ timer[p] = 0
                <5>1. ClaimWaits(q, p) /\ timer[q] = CONFLICT
                    BY <1>0, <4>1, <4>3
                <5> QED
                    BY <3>2, <4>3, <5>1 DEF Overheard
            <4> QED
                BY <3>1, <4>2, <4>3
        <3> QED
            BY <3>1, <3>3, OnlyOverheard
    <2> QED
        BY <2>1, <2>2
<1> QED
    BY <1>1, <1>2, <1>3

LEMMA ActorClaims ==
    ASSUME TypeOK, ~ overflowed', NEW p \in Nodes, NEW q \in Nodes, p # q, Idle(q),
           Pair(p, q), Pair(q, p), SendClaim(p)
    PROVE  Pair(p, q)' /\ Pair(q, p)'
<1> USE TimesType DEF Idle, KeepsOwn
<1>1. /\ pc[p] = "claim" /\ pc'[p] = "conflict" /\ timer'[p] = CONFLICT
      /\ random_nonce'[p] = random_nonce[p]
    BY DEF SendClaim, TypeOK, electVars
<1>2. Claim(0, random_nonce[p]) \in Frame
    BY FramesType DEF TypeOK, AnyNonce
<1>3. /\ Frames(p) \subseteq Frames(p)'
      /\ pc[q] # "off" => Claim(0, random_nonce[p]) \in Frames(q)'
    BY <1>2, TypeBus, SendKeeps DEF SendClaim, Powered
<1>4. p \notin Coordinators'
    BY <1>1 DEF Coordinators
<1>5. pc[q] # "off" => ClaimWaits(p, q)'
    BY <1>1, <1>3 DEF ClaimWaits
<1>6. ClaimWaits(q, p) => ClaimWaits(q, p)'
    BY <1>3 DEF ClaimWaits
<1>7. Overheard(p, q)'
    BY <1>1, <1>5 DEF Overheard
<1>8. Overheard(q, p)'
    BY <1>1, <1>6 DEF Overheard, Pair
<1>9. Defended(q, p)'
    BY <1>1, <1>5 DEF Defended, Coordinators
<1> QED
    BY <1>4, <1>7, <1>8, <1>9 DEF Pair, Alone, Defended

\* The window of p has closed: p was alone in it.
LEMMA WindowCloses ==
    ASSUME TypeOK, NEW p \in Nodes, NEW q \in Nodes, p # q, Idle(q),
           Pair(p, q), Pair(q, p), pc[p] = "conflict", timer[p] = 0,
           pc'[p] = "service"
    PROVE  Pair(p, q)' /\ Pair(q, p)'
<1> USE TimesType DEF Idle, KeepsOwn
<1>1. pc[q] # "conflict"
    BY DEF Pair, Overheard
<1>2. q \notin Coordinators
    BY DEF Pair, Defended
<1>3. pc'[p] # "conflict" /\ pc'[q] # "conflict" /\ q \notin Coordinators'
    BY <1>1, <1>2
<1>4. Overheard(p, q)' /\ Overheard(q, p)'
    BY <1>3 DEF Overheard
<1>5. Defended(p, q)' /\ Defended(q, p)'
    BY <1>3 DEF Defended
<1> QED
    BY <1>3, <1>4, <1>5 DEF Pair, Alone

LEMMA ActorContests ==
    ASSUME TypeOK, ~ overflowed', NEW p \in Nodes, NEW q \in Nodes, p # q, Idle(q),
           Pair(p, q), Pair(q, p), random_nonce[p] # random_nonce[q] \/ pc[q] # "conflict",
           ConflictYield(p) \/ ConflictIgnore(p) \/ ConflictTimeout(p)
    PROVE  Pair(p, q)' /\ Pair(q, p)'
<1>1. pc[p] = "conflict"
    BY DEF ConflictYield, ConflictIgnore, ConflictTimeout
<1>3. CASE pc'[p] = "service" /\ timer[p] = 0
    BY <1>1, <1>3, WindowCloses
<1> USE TimesType DEF Idle, KeepsOwn
<1>2. CASE ConflictYield(p)
    <2>1. pc'[p] = "hello"
        BY <1>2 DEF ConflictYield, TypeOK
    <2>2. p \notin Coordinators'
        BY <2>1 DEF Coordinators
    <2> QED
        BY <2>1, <2>2, OutOfContest
<1>4. CASE ConflictTimeout(p)
    BY <1>3, <1>4 DEF ConflictTimeout, BecomeCoordinator, TypeOK
<1>5. CASE ConflictIgnore(p) /\ timer[p] = 0
    BY <1>3, <1>5 DEF ConflictIgnore, BecomeCoordinator, TypeOK
<1>6. CASE ConflictIgnore(p) /\ timer[p] > 0
    <2>1. /\ pc'[p] = "conflict" /\ timer'[p] = timer[p]
          /\ random_nonce'[p] = random_nonce[p]
          /\ inbox[p] # <<>> /\ Consume(p) /\ ~ Yields(p, Head(inbox[p]))
        BY <1>1, <1>6 DEF ConflictIgnore
    <2>2. ClaimWaits(p, q) => ClaimWaits(p, q)'
        BY <2>1 DEF ClaimWaits
    <2>3. p \notin Coordinators'
        BY <2>1 DEF Coordinators
    <2>4. Overheard(p, q)'
        BY <1>1, <2>1, <2>2 DEF Overheard, Pair, Jitter
    <2>5. ASSUME pc[q] = "conflict", ClaimWaits(q, p)
          PROVE  ClaimWaits(q, p)' \/ random_nonce[q] < random_nonce[p]
        <3>1. CASE Head(inbox[p]) = Claim(0, random_nonce[q])
            <4>1. ~ (random_nonce[q] > random_nonce[p])
                BY <2>1, <3>1, ClaimsDiffer DEF Yields
            <4> QED
                BY <2>5, <4>1, NoncesAreNumbers
        <3>2. CASE Head(inbox[p]) # Claim(0, random_nonce[q])
            BY <2>1, <2>5, <3>2, TypeBus, ConsumeKeeps DEF ClaimWaits
        <3> QED
            BY <3>1, <3>2
    <2>6. Overheard(q, p)'
        BY <1>1, <2>1, <2>5 DEF Overheard, Pair
    <2>7. Claim(1, random_nonce[q]) \in Frames(p)
             => Claim(1, random_nonce[q]) \in Frames(p)'
        <3>1. Head(inbox[p]) # Claim(1, random_nonce[q])
            BY <2>1, ClaimsDiffer DEF Yields
        <3> QED
            BY <2>1, <3>1, TypeBus, ConsumeKeeps
    <2>8. Defended(q, p)'
        BY <1>1, <2>1, <2>2, <2>7 DEF Defended, Pair
    <2> QED
        BY <2>3, <2>4, <2>6, <2>8 DEF Pair, Alone, Defended
<1>7. timer[p] = 0 \/ timer[p] > 0
    BY DEF TypeOK
<1> QED
    BY <1>2, <1>4, <1>5, <1>6, <1>7

\* In its other branches the coordinator reads no CLAIM.
LEMMA CoordinatorKeepsClaims ==
    ASSUME TypeOK, ~ overflowed', NEW p \in Nodes, NodeService(p), ~ DefendClaim(p),
           role[p] = "COORDINATOR", NEW v, Claim(0, v) \in Frames(p)
    PROVE  Claim(0, v) \in Frames(p)'
<1>1. BusOK
    BY TypeBus
<1>2. CASE AssignId(p)
    <2>1. inbox[p] # <<>> /\ Head(inbox[p]) \in Frame /\ Head(inbox[p]).type = "JOIN"
        BY <1>1, <1>2, PoppedType DEF AssignId, Receiving
    <2>2. Assign(next_assign_id[p], Head(inbox[p]).nonce) \in Frame
        BY <2>1, FramesType DEF Frame, TypeOK
    <2>3. Broadcast(p, Popped(p), Assign(next_assign_id[p], Head(inbox[p]).nonce))
        BY <1>2 DEF AssignId
    <2>4. Claim(0, v) # Head(inbox[p])
        BY <2>1, ClaimsDiffer
    <2> QED
        BY <1>1, <2>1, <2>2, <2>3, <2>4, AnswerKeeps
<1>3. CASE IgnoreDuplicateJoin(p)
    <2>1. inbox[p] # <<>> /\ Head(inbox[p]).type = "JOIN" /\ Consume(p)
        BY <1>3 DEF IgnoreDuplicateJoin, Receiving
    <2> QED
        BY <1>1, <2>1, ClaimsDiffer, ConsumeKeeps
<1>4. CASE AcceptAssign(p) \/ RetryJoin(p)
    BY <1>4 DEF AcceptAssign, ForMe, RetryJoin, RetryDue
<1>5. CASE ServiceSkip(p)
    <2>1. inbox[p] # <<>> /\ Head(inbox[p]).type # "CLAIM" /\ Consume(p)
        BY <1>5 DEF ServiceSkip, RetryDue
    <2> QED
        BY <1>1, <2>1, ClaimsDiffer, ConsumeKeeps
<1> QED
    BY <1>2, <1>3, <1>4, <1>5 DEF NodeService

LEMMA ActorServes ==
    ASSUME TypeOK, ~ overflowed', NEW p \in Nodes, NEW q \in Nodes, p # q, Idle(q),
           Pair(p, q), Pair(q, p), NodeService(p)
    PROVE  Pair(p, q)' /\ Pair(q, p)'
<1> USE DEF Idle, KeepsOwn
<1>1. /\ pc[p] = "service" /\ pc'[p] = "service" /\ random_nonce'[p] = random_nonce[p]
      /\ role'[p] = role[p] \/ AcceptAssign(p)
    BY DEF NodeService, DefendClaim, AssignId, IgnoreDuplicateJoin, AcceptAssign,
           ServiceSkip, RetryJoin, RetryDue, Receiving, electVars, idVars
<1>2. CASE p \notin Coordinators'
    BY <1>1, <1>2, OutOfContest
<1>3. CASE p \in Coordinators'
    <2>1. role[p] = "COORDINATOR" /\ p \in Coordinators
        BY <1>1, <1>3 DEF Coordinators, AcceptAssign, TypeOK
    <2>2. CASE DefendClaim(p) /\ pc[q] = "conflict"
        <3>1. Claim(1, random_nonce[p]) \in Frame
            BY FramesType DEF TypeOK, AnyNonce
        <3>2. Claim(1, random_nonce[p]) \in Frames(q)'
            BY <2>2, <3>1, TypeBus, AnswerKeeps DEF DefendClaim, Receiving, Powered
        <3>3. Defended(p, q)'
            BY <1>1, <2>1, <3>2 DEF Pair, Defended
        <3> QED
            BY <1>1, <2>1, <3>3 DEF Pair, Overheard, Defended, Alone
    <2>3. CASE DefendClaim(p) /\ pc[q] # "conflict"
        BY <1>1, <2>1, <2>3 DEF Pair, Overheard, Defended, Alone
    <2>4. CASE ~ DefendClaim(p)
        <3>1. Claim(0, random_nonce[q]) \in Frames(p)
                 => Claim(0, random_nonce[q]) \in Frames(p)'
            BY <2>1, <2>4, CoordinatorKeepsClaims
        <3>2. ClaimWaits(q, p) => ClaimWaits(q, p)'
            BY <3>1 DEF ClaimWaits
        <3>3. Claim(1, random_nonce[p]) \in Frames(q)
                => Claim(1, random_nonce'[p]) \in Frames(q)'
            BY <1>1
        <3>4. Defended(p, q)'
            BY <2>1, <3>2, <3>3 DEF Pair, Defended
        <3> QED
            BY <1>1, <2>1, <3>4 DEF Pair, Overheard, Defended, Alone
    <2> QED
        BY <2>2, <2>3, <2>4
<1> QED
    BY <1>2, <1>3

-----------------------------------------------------------------------------
(* The invariant.                                                           *)

LEMMA ElectionInit == Init => ElectionInv
<1> SUFFICES ASSUME Init PROVE ElectionInv
    OBVIOUS
<1>1. \A n \in Nodes : pc[n] \in {"off", "jitter"}
    BY DEF Init
<1>2. Coordinators = {}
    BY <1>1 DEF Coordinators
<1> QED
    BY <1>1, <1>2 DEF ElectionInv, AllPairs, Windows, Drawn, Pair, Overheard, Defended, Alone

LEMMA WindowsStep == TypeOK /\ Windows /\ [Next]_vars => Windows'
<1> SUFFICES ASSUME TypeOK, Windows, [Next]_vars, NEW n \in Nodes, pc'[n] = "conflict"
             PROVE  timer'[n] <= CONFLICT
    BY DEF Windows
<1>0. timer[n] \in Nat /\ CONFLICT \in Nat
    BY TimesType DEF TypeOK
<1>1. CASE Tick
    <2>1. pc[n] = "conflict" /\ timer'[n] = IF timer[n] > 0 THEN timer[n] - 1 ELSE 0
        BY <1>1 DEF Tick
    <2> QED
        BY <1>0, <2>1 DEF Windows
<1>2. CASE UNCHANGED vars
    BY <1>2 DEF vars, Windows
<1>3. ASSUME NEW p \in Nodes, Step(p) \/ EnvStep(p)
      PROVE  timer'[n] <= CONFLICT
    <2>1. CASE p # n
        BY <1>3, <2>1, OthersKeep, OthersTimer DEF KeepsOwn, Windows
    <2>2. CASE p = n
        <3>1. CASE SendClaim(n)
            BY <1>0, <3>1 DEF SendClaim, TypeOK
        <3>2. CASE ~ SendClaim(n)
            <4>1. pc[n] = "conflict" /\ timer'[n] = timer[n]
                BY <1>3, <2>2, <3>2
                DEF Step, NodeBegin, NodeService, EnvStep, Begin, ListenRecv,
                    ListenTimeout, ConflictYield, ConflictIgnore, ConflictTimeout,
                    BecomeCoordinator, SendHello, SendJoin, DefendClaim, AssignId,
                    IgnoreDuplicateJoin, AcceptAssign, ServiceSkip, RetryJoin, RetryDue,
                    Receiving, PowerOn, PowerOff, Lose, TypeOK
            <4> QED
                BY <4>1 DEF Windows
        <3> QED
            BY <3>1, <3>2
    <2> QED
        BY <2>1, <2>2
<1> QED
    BY <1>1, <1>2, <1>3 DEF Next, EnvStep

\* A node draws its nonce once in a life, and a different one.
LEMMA DrawnStep ==
    ASSUME DistinctNonces, TypeOK, Drawn, [Next]_vars
    PROVE  Drawn'
<1> DEFINE Uses(n) == pc[n] \notin {"off", "jitter"}
<1>1. CASE Tick \/ UNCHANGED vars
    BY <1>1 DEF Tick, vars, electVars, Drawn
<1>2. ASSUME NEW p \in Nodes, Step(p) \/ EnvStep(p)
      PROVE  Drawn'
    <2>1. \A q \in Nodes \ {p} : pc'[q] = pc[q] /\ random_nonce'[q] = random_nonce[q]
        BY <1>2, OthersKeep DEF KeepsOwn
    <2>2. CASE Begin(p)
        <3>1. PICK v \in ClaimNonce : /\ v \notin claimNonces
                                      /\ random_nonce' = [random_nonce EXCEPT ![p] = v]
                                      /\ claimNonces' = claimNonces \cup {v}
            BY <2>2 DEF Begin
        <3>2. random_nonce'[p] = v
            BY <3>1 DEF TypeOK
        <3>3. \A q \in Nodes \ {p} : Uses(q) => random_nonce[q] # v
            BY <3>1 DEF Drawn
        <3> QED
            BY <2>1, <3>1, <3>2, <3>3 DEF Drawn
    <2>3. CASE ~ Begin(p)
        <3>1. claimNonces' = claimNonces
            BY <1>2, <2>3
            DEF Step, NodeBegin, NodeService, EnvStep, ListenRecv, ListenTimeout,
                SendClaim, ConflictYield, ConflictIgnore, ConflictTimeout, SendHello,
                SendJoin, DefendClaim, AssignId, IgnoreDuplicateJoin, AcceptAssign,
                ServiceSkip, RetryJoin, PowerOn, PowerOff, Lose, electVars
        <3>2. Uses(p)' => Uses(p) /\ random_nonce'[p] = random_nonce[p]
            BY <1>2, <2>3
            DEF Step, NodeBegin, NodeService, EnvStep, ListenRecv, ListenTimeout,
                SendClaim, ConflictYield, ConflictIgnore, ConflictTimeout, SendHello,
                SendJoin, DefendClaim, AssignId, IgnoreDuplicateJoin, AcceptAssign,
                ServiceSkip, RetryJoin, RetryDue, Receiving, PowerOn, PowerOff, Lose,
                electVars, TypeOK
        <3> QED
            BY <2>1, <3>1, <3>2 DEF Drawn
    <2> QED
        BY <2>2, <2>3
<1> QED
    BY <1>1, <1>2 DEF Next, EnvStep

\* The node p steps: its relation with any other node, both ways.
LEMMA ActorPair ==
    ASSUME Margin, TypeOK, RolesOfPhases, RolesOfPhases', Windows, Drawn, Reliable', ~ overflowed',
           NEW p \in Nodes, Step(p) \/ PowerOn(p) \/ PowerOff(p) \/ Lose(p),
           NEW q \in Nodes, p # q, Pair(p, q), Pair(q, p)
    PROVE  Pair(p, q)' /\ Pair(q, p)'
<1>1. Idle(q)
    <2>1. KeepsOwn(q) /\ timer'[q] = timer[q] /\ Frames(q) \subseteq Frames(q)'
        BY OthersKeep, OthersTimer, OthersFrames DEF EnvStep
    <2> QED
        BY <2>1 DEF Idle, KeepsOwn, Coordinators, Windows, TypeOK
<1>2. CASE PowerOn(p) \/ Begin(p) \/ ListenRecv(p) \/ ListenTimeout(p)
    BY <1>1, <1>2, ActorListens
<1>3. CASE SendClaim(p)
    BY <1>1, <1>3, ActorClaims
<1>4. CASE ConflictYield(p) \/ ConflictIgnore(p) \/ ConflictTimeout(p)
    <2>1. pc[p] = "conflict"
        BY <1>4 DEF ConflictYield, ConflictIgnore, ConflictTimeout
    <2>2. random_nonce[p] # random_nonce[q] \/ pc[q] # "conflict"
        BY <2>1 DEF Drawn
    <2> QED
        BY <1>1, <1>4, <2>2, ActorContests
<1>5. CASE NodeService(p)
    BY <1>1, <1>5, ActorServes
<1>6. CASE SendHello(p) \/ SendJoin(p) \/ PowerOff(p)
    <2>1. pc'[p] \in {"off", "join", "service"} /\ p \notin Coordinators'
        BY <1>6 DEF SendHello, SendJoin, PowerOff, TypeOK, Coordinators, RolesOfPhases,
                    idVars
    <2> QED
        BY <2>1, OutOfContest
<1>7. CASE Lose(p)
    <2>1. losses' = losses + 1 /\ losses \in Nat
        BY <1>7, NodeAssumption DEF Lose, TypeOK
    <2> QED
        BY <2>1 DEF Reliable
<1> QED
    BY <1>2, <1>3, <1>4, <1>5, <1>6, <1>7 DEF Step, NodeBegin

LEMMA ElectionKept ==
    Margin /\ TypeOK /\ RolesOfPhases /\ RolesOfPhases' /\ ElectionInv /\ [Next]_vars
        => ElectionInv'
<1> SUFFICES ASSUME Margin, TypeOK, RolesOfPhases, RolesOfPhases', ElectionInv, [Next]_vars
             PROVE  ElectionInv'
    OBVIOUS
<1>1. Windows' /\ Drawn'
    BY WindowsStep, DrawnStep DEF ElectionInv, Margin
<1>2. ASSUME Reliable', NEW a \in Nodes, NEW b \in Nodes, a # b
      PROVE  Pair(a, b)'
    <2>1. ~ overflowed' /\ Pair(a, b) /\ Pair(b, a) /\ Windows /\ Drawn
        BY <1>2, ReliableBefore DEF ElectionInv, AllPairs
    <2>2. CASE Tick
        BY <1>2, <2>1, <2>2, PairTick
    <2>3. CASE UNCHANGED vars
        <3>1. Frames(a)' = Frames(a) /\ Frames(b)' = Frames(b)
              /\ Coordinators' = Coordinators
            BY <2>3 DEF vars, busVars, idVars, Frames, Coordinators
        <3> QED
            BY <2>1, <2>3, <3>1
            DEF vars, electVars, Pair, Overheard, Defended, Alone, ClaimWaits, Jitter
    <2>4. ASSUME NEW p \in Nodes, Step(p) \/ PowerOn(p) \/ PowerOff(p) \/ Lose(p)
          PROVE  Pair(a, b)'
        <3>1. CASE p = a
            BY <1>2, <2>1, <2>4, <3>1, ActorPair
        <3>2. CASE p = b
            BY <1>2, <2>1, <2>4, <3>2, ActorPair
        <3>3. CASE p # a /\ p # b
            BY <2>1, <2>4, <3>3, Bystanders
        <3> QED
            BY <3>1, <3>2, <3>3
    <2> QED
        BY <2>2, <2>3, <2>4 DEF Next
<1>3. Reliable' => AllPairs'
    BY <1>2 DEF AllPairs
<1> QED
    BY <1>1, <1>3 DEF ElectionInv

LEMMA ElectionHolds ==
    ASSUME Margin
    PROVE  Spec => [](TypeOK /\ ElectionInv)
<1>1. Init => RolesOfPhases
    BY BackingInit DEF BackingInv
<1>2. TypeOK /\ RolesOfPhases /\ RolesOfPhases' /\ ElectionInv /\ [Next]_vars
         => ElectionInv'
    BY ElectionKept
<1> QED
    BY <1>1, <1>2, TypeInit, TypeStep, RolesStep, ElectionInit, PTL DEF Spec

\* Whoever wins its conflict window is alone, for any number of nodes, as long
\* as no frame is lost, nonces differ and nobody listens for less than a window.
THEOREM AtMostOneCoordinator ==
    ASSUME Margin
    PROVE  Spec => []SingleCoordinator
<1>1. ElectionInv => SingleCoordinator
    BY DEF ElectionInv, AllPairs, SingleCoordinator, Pair, Alone, Coordinators
<1>2. Spec => [](TypeOK /\ ElectionInv)
    BY ElectionHolds
<1> QED
    BY <1>1, <1>2, PTL

\* An incumbent is never overtaken: a claimant has its defence to read, or the
\* coordinator the claim, before the claimant's window has advanced at all.
THEOREM IncumbentAlwaysDefends ==
    ASSUME Margin
    PROVE  Spec => []IncumbentDefends
<1>1. ElectionInv => IncumbentDefends
    BY DEF ElectionInv, AllPairs, IncumbentDefends, Pair, Defended, ClaimWaits, Coordinators
<1>2. Spec => [](TypeOK /\ ElectionInv)
    BY ElectionHolds
<1> QED
    BY <1>1, <1>2, PTL

-----------------------------------------------------------------------------
(* A claim always has somebody behind it.  This needs no Margin: frames may *)
(* be lost or late.                                                         *)

\* There is a coordinator, or a claimant whose nonce is at least v.
Led(v) ==
    \/ Coordinators # {}
    \/ \E c \in Nodes : pc[c] = "conflict" /\ random_nonce[c] >= v

ClaimsLed ==
    \A m \in Nodes : \A f \in Frames(m) :
        f.type = "CLAIM" =>
            /\ f.nonce \in Nat
            /\ IF f.source = 0 THEN Led(f.nonce) ELSE Coordinators # {}

JoinersLed == (\E n \in Nodes : pc[n] \in {"hello", "join", "service"}) => Led(0)

LeadInv == powerOffs = 0 => ClaimsLed /\ JoinersLed

\* While nobody is switched off, a coordinator stays one.
LEMMA CoordinatorsStay ==
    ASSUME TypeOK, [Next]_vars, powerOffs' = 0, NEW c \in Coordinators
    PROVE  powerOffs = 0 /\ c \in Coordinators'
<1>1. c \in Nodes /\ pc[c] = "service" /\ role[c] = "COORDINATOR"
    BY DEF Coordinators
<1>2. powerOffs \in Nat
    BY NodeAssumption DEF TypeOK
<1>3. powerOffs' = powerOffs \/ powerOffs' = powerOffs + 1
    BY DEF Next, Step, NodeBegin, NodeService, vars, faultVars, Begin, ListenRecv,
           ListenTimeout, SendClaim, ConflictYield, ConflictIgnore, ConflictTimeout,
           SendHello, SendJoin, DefendClaim, AssignId, IgnoreDuplicateJoin,
           AcceptAssign, ServiceSkip, RetryJoin, PowerOn, PowerOff, Lose, Tick
<1>4. powerOffs = 0
    BY <1>2, <1>3
<1>5. CASE KeepsOwn(c)
    BY <1>1, <1>4, <1>5 DEF KeepsOwn, Coordinators
<1>6. CASE Step(c)
    <2>1. pc'[c] = "service" /\ role'[c] = role[c]
        BY <1>1, <1>6
        DEF Step, NodeBegin, NodeService, Begin, ListenRecv, ListenTimeout, SendClaim,
            ConflictYield, ConflictIgnore, ConflictTimeout, SendHello, SendJoin,
            DefendClaim, AssignId, IgnoreDuplicateJoin, AcceptAssign, ForMe,
            ServiceSkip, RetryJoin, RetryDue, idVars
    <2> QED
        BY <1>1, <1>4, <2>1 DEF Coordinators
<1>7. CASE EnvStep(c)
    BY <1>1, <1>2, <1>4, <1>7 DEF EnvStep, PowerOn, PowerOff, Lose, Coordinators, idVars
<1> QED
    BY <1>1, <1>5, <1>6, <1>7, OwnStep

LEMMA StillOn ==
    ASSUME TypeOK, [Next]_vars, powerOffs' = 0
    PROVE  powerOffs = 0
<1>1. powerOffs \in Nat
    BY NodeAssumption DEF TypeOK
<1>2. powerOffs' = powerOffs \/ powerOffs' = powerOffs + 1
    BY DEF Next, Step, NodeBegin, NodeService, vars, faultVars, Begin, ListenRecv,
           ListenTimeout, SendClaim, ConflictYield, ConflictIgnore, ConflictTimeout,
           SendHello, SendJoin, DefendClaim, AssignId, IgnoreDuplicateJoin,
           AcceptAssign, ServiceSkip, RetryJoin, PowerOn, PowerOff, Lose, Tick
<1> QED
    BY <1>1, <1>2

\* A claimant goes on, wins, or yields.
LEMMA ClaimantStep ==
    ASSUME TypeOK, [Next]_vars, powerOffs' = 0, NEW c \in Nodes, pc[c] = "conflict"
    PROVE  \/ pc'[c] = "conflict" /\ random_nonce'[c] = random_nonce[c]
           \/ c \in Coordinators'
           \/ ConflictYield(c)
<1>1. CASE KeepsOwn(c)
    BY <1>1 DEF KeepsOwn
<1>2. CASE Step(c) /\ ~ ConflictYield(c)
    BY <1>2 DEF Step, NodeBegin, NodeService, Begin, ListenRecv, ListenTimeout,
       SendClaim, ConflictIgnore, ConflictTimeout, BecomeCoordinator, SendHello,
       SendJoin, DefendClaim, AssignId, IgnoreDuplicateJoin, AcceptAssign,
       ServiceSkip, RetryJoin, RetryDue, Receiving, Coordinators, TypeOK
<1>3. CASE EnvStep(c)
    <2>1. powerOffs \in Nat
        BY NodeAssumption DEF TypeOK
    <2> QED
        BY <1>3, <2>1 DEF EnvStep, PowerOn, PowerOff, Lose, electVars
<1> QED
    BY <1>1, <1>2, <1>3, OwnStep

\* The claim that makes c yield is led by somebody with a higher nonce, or by a
\* coordinator; and that somebody is not c.
LEMMA YieldsToLeader ==
    ASSUME TypeOK, ClaimsLed, NEW c \in Nodes, ConflictYield(c)
    PROVE  \/ Coordinators # {}
           \/ \E d \in Nodes \ {c} : pc[d] = "conflict" /\ random_nonce[d] > random_nonce[c]
<1>1. /\ inbox[c] # <<>> /\ Head(inbox[c]).type = "CLAIM"
      /\ Head(inbox[c]).source = 1 \/ Head(inbox[c]).nonce > random_nonce[c]
    BY DEF ConflictYield, Yields
<1>2. Head(inbox[c]) \in Frames(c)
    BY <1>1, TypeBus, PoppedFrames
<1>3. CASE Head(inbox[c]).source # 0
    BY <1>1, <1>2, <1>3 DEF ClaimsLed
<1>4. CASE Head(inbox[c]).source = 0 /\ Coordinators = {}
    <2>1. Head(inbox[c]).nonce > random_nonce[c] /\ Head(inbox[c]).nonce \in Nat
        BY <1>1, <1>2, <1>4 DEF ClaimsLed
    <2>2. PICK d \in Nodes : /\ pc[d] = "conflict"
                             /\ random_nonce[d] >= Head(inbox[c]).nonce
        BY <1>1, <1>2, <1>4 DEF ClaimsLed, Led
    <2>3. random_nonce[d] \in Nat /\ random_nonce[c] \in Nat
        BY NoncesAreNumbers
    <2>4. random_nonce[d] > random_nonce[c]
        BY <2>1, <2>2, <2>3
    <2>5. d # c
        BY <2>3, <2>4
    <2> QED
        BY <2>2, <2>4, <2>5
<1> QED
    BY <1>3, <1>4

LEMMA LedStays ==
    ASSUME TypeOK, [Next]_vars, powerOffs' = 0, ClaimsLed, NEW v \in Nat, Led(v)
    PROVE  Led(v)'
<1>1. CASE Coordinators # {}
    BY <1>1, CoordinatorsStay DEF Led
<1>2. CASE Coordinators = {}
    <2>1. PICK c \in Nodes : pc[c] = "conflict" /\ random_nonce[c] >= v
        BY <1>2 DEF Led
    <2>2. CASE pc'[c] = "conflict" /\ random_nonce'[c] = random_nonce[c]
        BY <2>1, <2>2 DEF Led
    <2>3. CASE c \in Coordinators'
        BY <2>3 DEF Led
    <2>4. CASE ConflictYield(c)
        <3>1. PICK d \in Nodes \ {c} :
                 pc[d] = "conflict" /\ random_nonce[d] > random_nonce[c]
            BY <1>2, <2>4, YieldsToLeader
        <3>2. pc'[d] = "conflict" /\ random_nonce'[d] = random_nonce[d]
            BY <2>4, <3>1, OthersKeep DEF KeepsOwn, Step, NodeBegin
        <3>3. random_nonce[c] \in Nat /\ random_nonce[d] \in Nat
            BY NoncesAreNumbers
        <3>4. random_nonce'[d] >= v
            BY <2>1, <3>1, <3>2, <3>3
        <3> QED
            BY <3>2, <3>4 DEF Led
    <2> QED
        BY <2>1, <2>2, <2>3, <2>4, ClaimantStep
<1> QED
    BY <1>1, <1>2

LEMMA LeadKept == TypeOK /\ LeadInv /\ [Next]_vars => LeadInv'
<1> SUFFICES ASSUME TypeOK, LeadInv, [Next]_vars, powerOffs' = 0
             PROVE  ClaimsLed' /\ JoinersLed'
    BY DEF LeadInv
<1>1. ClaimsLed /\ JoinersLed
    BY StillOn DEF LeadInv
<1>2. ASSUME NEW v \in Nat, Led(v)
      PROVE  Led(v)' /\ Led(0)'
    <2>1. Led(v)'
        BY <1>1, <1>2, LedStays
    <2>2. Led(0)
        <3>1. \A c \in Nodes : random_nonce[c] >= 0
            BY NoncesAreNumbers
        <3> QED
            BY <1>2, <3>1 DEF Led
    <2> QED
        BY <1>1, <2>1, <2>2, LedStays
<1>3. Coordinators # {} => Coordinators' # {}
    BY CoordinatorsStay
<1>4. ClaimsLed'
    <2> SUFFICES ASSUME NEW m \in Nodes, NEW f \in Frames(m)', f.type = "CLAIM"
                 PROVE  /\ f.nonce \in Nat
                        /\ IF f.source = 0 THEN Led(f.nonce)' ELSE Coordinators' # {}
        BY DEF ClaimsLed
    <2>1. CASE f \in Frames(m)
        BY <1>1, <1>2, <1>3, <2>1 DEF ClaimsLed
    <2>2. ASSUME NEW n \in Nodes, SendClaim(n), f = Claim(0, random_nonce[n])
          PROVE  f.nonce \in Nat /\ f.source = 0 /\ Led(f.nonce)'
        <3>1. f.source = 0 /\ f.nonce = random_nonce[n] /\ f.nonce \in Nat
            BY <2>2, ClaimsDiffer, NoncesAreNumbers
        <3>2. pc'[n] = "conflict" /\ random_nonce'[n] = random_nonce[n]
            BY <2>2 DEF SendClaim, electVars, TypeOK
        <3>3. random_nonce'[n] >= f.nonce
            BY <3>1, <3>2
        <3> QED
            BY <3>1, <3>2, <3>3 DEF Led
    <2>3. ASSUME NEW n \in Nodes, DefendClaim(n), f = Claim(1, random_nonce[n])
          PROVE  f.nonce \in Nat /\ f.source = 1 /\ Coordinators' # {}
        <3>1. f.source = 1 /\ f.nonce = random_nonce[n]
            BY <2>3 DEF Claim, make_frame
        <3>2. n \in Coordinators
            BY <2>3 DEF DefendClaim, Receiving, Coordinators
        <3> QED
            BY <1>3, <3>1, <3>2, NoncesAreNumbers
    <2>4. CASE f = Hello \/ (\E v : f = Join(v)) \/ (\E i, v : f = Assign(i, v))
        BY <2>4 DEF Hello, Join, Assign, make_frame
    <2> QED
        BY <2>1, <2>2, <2>3, <2>4, FramesStep
<1>5. JoinersLed'
    <2> SUFFICES ASSUME NEW n \in Nodes, pc'[n] \in {"hello", "join", "service"}
                 PROVE  Led(0)'
        BY DEF JoinersLed
    <2>1. CASE pc[n] \in {"hello", "join", "service"}
        BY <1>1, <1>2, <2>1 DEF JoinersLed
    <2>2. CASE n \in Coordinators'
        BY <2>2 DEF Led
    <2>3. CASE ConflictYield(n) \/ (ListenRecv(n) /\ Head(inbox[n]).type = "CLAIM")
        <3>1. Head(inbox[n]) \in Frames(n) /\ Head(inbox[n]).type = "CLAIM"
            BY <2>3, TypeBus, PoppedFrames DEF ConflictYield, Yields, ListenRecv
        <3>2. \E v \in Nat : Led(v)
            BY <1>1, <3>1 DEF ClaimsLed, Led
        <3> QED
            BY <1>2, <3>2
    <2>4. \/ pc[n] \in {"hello", "join", "service"}
          \/ n \in Coordinators'
          \/ ConflictYield(n)
          \/ ListenRecv(n) /\ Head(inbox[n]).type = "CLAIM"
        <3>1. CASE KeepsOwn(n)
            BY <3>1 DEF KeepsOwn
        <3>2. CASE Step(n)
            BY <3>2 DEF Step, NodeBegin, NodeService, Begin, ListenRecv, ListenTimeout,
               SendClaim, ConflictIgnore, ConflictTimeout, BecomeCoordinator, SendHello,
               SendJoin, DefendClaim, AssignId, IgnoreDuplicateJoin, AcceptAssign,
               ServiceSkip, RetryJoin, RetryDue, Receiving, Coordinators, TypeOK
        <3>3. CASE EnvStep(n)
            BY <3>3 DEF EnvStep, PowerOn, PowerOff, Lose, TypeOK
        <3> QED
            BY <3>1, <3>2, <3>3, OwnStep
    <2> QED
        BY <2>1, <2>2, <2>3, <2>4
<1> QED
    BY <1>4, <1>5

LEMMA LeadHolds == Spec => [](TypeOK /\ LeadInv)
<1>1. Init => LeadInv
    BY EmptySeq DEF Init, LeadInv, ClaimsLed, JoinersLed, Frames
<1> QED
    BY <1>1, TypeInit, TypeStep, LeadKept, PTL DEF Spec

\* Nobody gives way to nobody, whatever the timing and the losses: as long as
\* no board is switched off, who abandons the election leaves a claimant or a
\* coordinator behind.
THEOREM SomeoneAlwaysLeads == Spec => []SomeoneLeads
<1>1. LeadInv => SomeoneLeads
    <2> SUFFICES ASSUME LeadInv, powerOffs = 0,
                        \E n \in Nodes : pc[n] \in {"hello", "join", "service"}
                 PROVE  \E n \in Nodes : pc[n] = "conflict" \/ n \in Coordinators
        BY DEF SomeoneLeads
    <2>1. Led(0)
        BY DEF LeadInv, JoinersLed
    <2> QED
        BY <2>1 DEF Led, Coordinators
<1> QED
    BY <1>1, LeadHolds, PTL

\* "Higher random nonce wins" at every step, whatever the timing and the losses:
\* before there is a coordinator a claimant yields only while a higher nonce
\* is still claiming.
THEOREM HigherNonceWins == Spec => HighestNonceWins
<1>1. ASSUME TypeOK, LeadInv, [Next]_vars, NEW a \in Nodes, pc[a] = "conflict",
             pc'[a] = "hello", Coordinators = {}, powerOffs = 0
      PROVE  \E b \in Nodes : pc[b] = "conflict" /\ random_nonce[b] > random_nonce[a]
    <2>1. ConflictYield(a)
        <3>1. ~ KeepsOwn(a)
            BY <1>1 DEF KeepsOwn
        <3>2. ~ EnvStep(a)
            BY <1>1 DEF EnvStep, PowerOn, PowerOff, Lose, TypeOK
        <3>3. Step(a)
            BY <1>1, <3>1, <3>2, OwnStep
        <3> QED
            BY <1>1, <3>3 DEF Step, NodeBegin, NodeService, Begin, ListenRecv,
               ListenTimeout, SendClaim, ConflictIgnore, ConflictTimeout,
               BecomeCoordinator, SendHello, SendJoin, DefendClaim, AssignId,
               IgnoreDuplicateJoin, AcceptAssign, ServiceSkip, RetryJoin, RetryDue,
               Receiving, TypeOK
    <2>2. ClaimsLed
        BY <1>1 DEF LeadInv
    <2> QED
        BY <1>1, <2>1, <2>2, YieldsToLeader
<1>2. TypeOK /\ LeadInv /\ [Next]_vars =>
        [\A a \in Nodes :
            pc[a] = "conflict" /\ pc'[a] = "hello" /\ Coordinators = {} /\ powerOffs = 0 =>
               \E b \in Nodes : pc[b] = "conflict" /\ random_nonce[b] > random_nonce[a]]_vars
    BY <1>1
<1> QED
    BY <1>2, LeadHolds, PTL DEF Spec, HighestNonceWins
=============================================================================
