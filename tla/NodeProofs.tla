----------------------------- MODULE NodeProofs -----------------------------
(***************************************************************************)
(* Proofs about the node state machine, for every number of nodes, every   *)
(* length of the windows and queues, with or without losses, echo, power   *)
(* cycles and bounds on delays.                                            *)
(***************************************************************************)
EXTENDS NodeProperties, SequenceTheorems, TLAPS

QueueOK(q) == q \in Seq(Frame) /\ Len(q) <= Capacity

\* A queue keeps its type and stays within its capacity (ring_push).
LEMMA EnqueueType ==
    ASSUME NEW q, QueueOK(q), NEW f \in Frame
    PROVE  QueueOK(Enqueue(q, f))
<1> USE NodeAssumption DEF QueueOK
<1>1. CASE Len(q) = Capacity
    <2>1. q # <<>>
        BY <1>1, EmptySeq
    <2>2. Tail(q) \in Seq(Frame) /\ Len(Tail(q)) = Len(q) - 1
        BY <2>1, HeadTailProperties
    <2> QED
        BY <1>1, <2>2, AppendProperties DEF Enqueue
<1>2. CASE Len(q) # Capacity
    BY <1>2, AppendProperties, LenProperties DEF Enqueue
<1> QED
    BY <1>1, <1>2

\* Taking the oldest frame keeps the queue's type, and the frame has one.
LEMMA PopType ==
    ASSUME NEW q, QueueOK(q), q # <<>>
    PROVE  QueueOK(Tail(q)) /\ Head(q) \in Frame
BY HeadTailProperties, LenProperties, NodeAssumption DEF QueueOK

BusOK ==
    /\ inbox \in [Nodes -> Seq(Frame)]
    /\ \A n \in Nodes : QueueOK(inbox[n])
    /\ overflowed \in BOOLEAN

\* A broadcast keeps the queues' type (bus_send).
LEMMA BroadcastType ==
    ASSUME BusOK, NEW n \in Nodes, NEW f \in Frame, NEW box \in [Nodes -> Seq(Frame)],
           \A m \in Nodes : QueueOK(box[m]), Broadcast(n, box, f)
    PROVE  BusOK'
<1>1. \A m \in Nodes : QueueOK(Enqueue(box[m], f))
    BY EnqueueType
<1>2. \A m \in Nodes : inbox'[m] \in {box[m], Enqueue(box[m], f)}
    BY DEF Broadcast
<1>3. \A m \in Nodes : QueueOK(inbox'[m])
    BY <1>1, <1>2
<1>4. inbox' = [m \in Nodes |-> inbox'[m]]
    BY DEF Broadcast
<1>5. inbox' \in [Nodes -> Seq(Frame)]
    BY <1>3, <1>4 DEF QueueOK
<1>6. overflowed' \in BOOLEAN
    BY DEF Broadcast, BusOK
<1> QED
    BY <1>3, <1>5, <1>6 DEF BusOK, QueueOK

\* A receive keeps the queues' type (bus_recv).
LEMMA PoppedType ==
    ASSUME BusOK, NEW n \in Nodes, inbox[n] # <<>>
    PROVE  /\ Popped(n) \in [Nodes -> Seq(Frame)]
           /\ \A m \in Nodes : QueueOK(Popped(n)[m])
           /\ Head(inbox[n]) \in Frame
BY PopType DEF Popped, BusOK, QueueOK

LEMMA ConsumeType ==
    ASSUME BusOK, NEW n \in Nodes, inbox[n] # <<>>, Consume(n)
    PROVE  BusOK'
BY PoppedType DEF Consume, BusOK, QueueOK

\* Every frame the node builds is a frame.
LEMMA FramesType ==
    /\ Hello \in Frame
    /\ \A s \in {0, 1}, v \in AnyNonce : Claim(s, v) \in Frame
    /\ \A v \in AnyNonce : Join(v) \in Frame
    /\ \A i \in Id, v \in AnyNonce : Assign(i, v) \in Frame
BY ProtoAssumption DEF Hello, Claim, Join, Assign, make_frame, Frame, MessageType,
                       AnyNonce, Id

-----------------------------------------------------------------------------
(* Type correctness.                                                        *)

\* The dedup table and its counter keep their range.
LEMMA DedupType ==
    ASSUME NEW slots \in [Slot -> AnyNonce], NEW count \in 0 .. MaxDedup,
           NEW v \in AnyNonce
    PROVE  /\ RecordedSlots(slots, count, v) \in [Slot -> AnyNonce]
           /\ RecordedCount(count) \in 0 .. MaxDedup
<1>1. RecordedCount(count) \in 0 .. MaxDedup
    BY DedupAssumption DEF RecordedCount
<1>2. RecordedSlots(slots, count, v) \in [Slot -> AnyNonce]
    BY DEF RecordedSlots
<1> QED
    BY <1>1, <1>2

\* Countdowns are naturals, whatever the configuration.
LEMMA TimerType ==
    /\ \A n \in Nodes : Jitter(n) \in Nat
    /\ LISTEN \in Nat /\ CONFLICT \in Nat /\ RETRY \in Nat
BY NodeAssumption DEF Jitter

\* What memset leaves in a Node is in range.
LEMMA ZeroType ==
    /\ 0 \in Id /\ 1 \in Id /\ 2 \in Id
    /\ 0 \in 0 .. MaxDedup
    /\ EmptyTable \in [Slot -> AnyNonce]
<1>1. 0 \in Id /\ 1 \in Id /\ 2 \in Id /\ 0 \in 0 .. MaxDedup
    BY ProtoAssumption, DedupAssumption DEF Id
<1>2. EmptyTable \in [Slot -> AnyNonce]
    BY DEF EmptyTable, AnyNonce
<1> QED
    BY <1>1, <1>2

LEMMA TypeInit == Init => TypeOK
<1> SUFFICES ASSUME Init PROVE TypeOK
    OBVIOUS
<1>1. inbox \in [Nodes -> Seq(Frame)] /\ \A n \in Nodes : Len(inbox[n]) <= Capacity
    BY EmptySeq, NodeAssumption DEF Init
<1>2. ledger \in Seq([id : Id, nonce : AnyNonce])
    BY EmptySeq DEF Init
<1>3. timer \in [Nodes -> Nat]
    BY TimerType DEF Init
<1>4. pc \in [Nodes -> Phase] /\ role \in [Nodes -> Role]
    BY DEF Init, Phase, Role
<1>5. assigned_id \in [Nodes -> Id] /\ next_assign_id \in [Nodes -> Id]
    BY ZeroType DEF Init
<1>6. /\ random_nonce \in [Nodes -> ClaimNonce \cup {0}]
      /\ join_nonce \in [Nodes -> JoinNonce \cup {0}]
      /\ claimNonces \subseteq ClaimNonce
      /\ joinNonces \subseteq JoinNonce
    BY DEF Init
<1>7. /\ seen_join_nonce \in [Nodes -> [Slot -> AnyNonce]]
      /\ seen_count \in [Nodes -> 0 .. MaxDedup]
    BY ZeroType DEF Init
<1>9. overflowed \in BOOLEAN
    BY DEF Init
<1>8. /\ losses \in 0 .. MaxLosses
      /\ powerOffs \in 0 .. MaxPowerOffs
      /\ elections \in Nat
    BY NodeAssumption DEF Init
<1> QED
    BY <1>1, <1>2, <1>3, <1>4, <1>5, <1>6, <1>7, <1>8, <1>9 DEF TypeOK

LEMMA TypeBus == TypeOK => BusOK
BY DEF TypeOK, BusOK, QueueOK

LEMMA TypeStep == TypeOK /\ [Next]_vars => TypeOK'
<1> SUFFICES ASSUME TypeOK, [Next]_vars PROVE TypeOK'
    OBVIOUS
<1> USE DEF electVars, idVars, coordVars, joinVars, busVars, faultVars
<1>b. BusOK
    BY TypeBus
<1>s. UNCHANGED vars => TypeOK'
    BY DEF vars, TypeOK
<1>t. Tick => TypeOK'
    BY DEF Tick, TypeOK
<1>n. ASSUME NEW n \in Nodes, Step(n) \/ PowerOn(n) \/ PowerOff(n) \/ Lose(n)
      PROVE  TypeOK'
    <2> USE <1>b, TimerType
    <2>h. inbox[n] # <<>> => /\ Popped(n) \in [Nodes -> Seq(Frame)]
                             /\ \A m \in Nodes : QueueOK(Popped(n)[m])
                             /\ Head(inbox[n]) \in Frame
        BY PoppedType
    <2>i. inbox \in [Nodes -> Seq(Frame)] /\ \A m \in Nodes : QueueOK(inbox[m])
        BY DEF BusOK
    <2>c. Claim(0, random_nonce[n]) \in Frame /\ Claim(1, random_nonce[n]) \in Frame
        BY FramesType DEF TypeOK, AnyNonce
    <2>j. Join(join_nonce[n]) \in Frame
        BY FramesType DEF TypeOK, AnyNonce
    <2>1. CASE Begin(n)
        <3>1. PICK v \in ClaimNonce :
                /\ random_nonce' = [random_nonce EXCEPT ![n] = v]
                /\ claimNonces' = claimNonces \cup {v}
            BY <2>1 DEF Begin
        <3>2. /\ random_nonce' \in [Nodes -> ClaimNonce \cup {0}]
              /\ claimNonces' \subseteq ClaimNonce
            BY <3>1 DEF TypeOK
        <3> QED
            BY <2>1, <3>2, ZeroType DEF Begin, TypeOK, Phase, Role
    <2>2. CASE ListenRecv(n)
        <3>1. BusOK'
            BY <2>2, ConsumeType DEF ListenRecv
        <3>2. pc' \in [Nodes -> Phase]
            BY <2>2 DEF ListenRecv, TypeOK, Phase
        <3>3. timer' \in [Nodes -> Nat]
            <4>1. timer' = [timer EXCEPT ![n] = 0] \/ timer' = timer
                BY <2>2 DEF ListenRecv
            <4> QED
                BY <4>1 DEF TypeOK
        <3> QED
            BY <2>2, <3>1, <3>2, <3>3 DEF ListenRecv, TypeOK, BusOK, QueueOK
    <2>3. CASE ListenTimeout(n)
        BY <2>3 DEF ListenTimeout, TypeOK, Phase
    <2>4. CASE SendClaim(n)
        <3>1. BusOK'
            BY <2>4, <2>i, <2>c, BroadcastType DEF SendClaim
        <3> QED
            BY <2>4, <3>1 DEF SendClaim, TypeOK, Phase, BusOK, QueueOK
    <2>5. CASE ConflictYield(n)
        <3>1. BusOK'
            BY <2>5, ConsumeType DEF ConflictYield
        <3> QED
            BY <2>5, <3>1 DEF ConflictYield, TypeOK, Phase, BusOK, QueueOK
    <2>6. CASE ConflictIgnore(n)
        <3>1. BusOK'
            BY <2>6, ConsumeType DEF ConflictIgnore
        <3>2. /\ pc' \in [Nodes -> Phase]
              /\ role' \in [Nodes -> Role]
              /\ assigned_id' \in [Nodes -> Id]
              /\ next_assign_id' \in [Nodes -> Id]
              /\ elections' \in Nat
            <4>1. CASE BecomeCoordinator(n)
                BY <4>1, ZeroType DEF BecomeCoordinator, TypeOK, Phase, Role
            <4>2. CASE UNCHANGED <<pc, idVars, next_assign_id, elections>>
                BY <4>2 DEF TypeOK
            <4> QED
                BY <2>6, <4>1, <4>2 DEF ConflictIgnore
        <3> QED
            BY <2>6, <3>1, <3>2 DEF ConflictIgnore, TypeOK, BusOK, QueueOK
    <2>7. CASE ConflictTimeout(n)
        BY <2>7, ZeroType
        DEF ConflictTimeout, BecomeCoordinator, TypeOK, Phase, Role
    <2>8. CASE SendHello(n)
        <3>1. BusOK'
            BY <2>8, <2>i, FramesType, BroadcastType DEF SendHello
        <3> QED
            BY <2>8, <3>1 DEF SendHello, TypeOK, Phase, BusOK, QueueOK
    <2>9. CASE SendJoin(n)
        <3>1. PICK v \in JoinNonce :
                /\ join_nonce' = [join_nonce EXCEPT ![n] = v]
                /\ joinNonces' = joinNonces \cup {v}
                /\ Broadcast(n, inbox, Join(v))
            BY <2>9 DEF SendJoin
        <3>2. Join(v) \in Frame
            BY FramesType DEF AnyNonce
        <3>3. BusOK'
            BY <3>1, <3>2, <2>i, BroadcastType
        <3> QED
            BY <2>9, <3>1, <3>3 DEF SendJoin, TypeOK, Phase, BusOK, QueueOK
    <2>10. CASE DefendClaim(n)
        <3>1. BusOK'
            BY <2>10, <2>h, <2>c, BroadcastType DEF DefendClaim, Receiving
        <3> QED
            BY <2>10, <3>1 DEF DefendClaim, TypeOK, BusOK, QueueOK
    <2>11. CASE AssignId(n)
        <3> DEFINE nonce == Head(inbox[n]).nonce
                   id == next_assign_id[n]
        <3>1. nonce \in AnyNonce /\ id \in Id
            BY <2>11, <2>h DEF AssignId, Receiving, Frame, TypeOK
        <3>2. Assign(id, nonce) \in Frame
            BY <3>1, FramesType
        <3>3. BusOK'
            BY <2>11, <3>2, <2>h, BroadcastType DEF AssignId, Receiving
        <3>4. [id |-> id, nonce |-> nonce] \in [id : Id, nonce : AnyNonce]
            BY <3>1
        <3>5. ledger' \in Seq([id : Id, nonce : AnyNonce])
            BY <2>11, <3>4, AppendProperties DEF AssignId, TypeOK
        <3>6. next_assign_id' \in [Nodes -> Id]
            <4>1. (id + 1) % IdMod \in Id
                BY <3>1, ProtoAssumption DEF Id
            <4> QED
                BY <2>11, <4>1 DEF AssignId, TypeOK
        <3>7. /\ seen_join_nonce' \in [Nodes -> [Slot -> AnyNonce]]
              /\ seen_count' \in [Nodes -> 0 .. MaxDedup]
            BY <2>11, <3>1, DedupType DEF AssignId, TypeOK
        <3> QED
            BY <2>11, <3>3, <3>5, <3>6, <3>7 DEF AssignId, TypeOK, BusOK, QueueOK
    <2>12. CASE IgnoreDuplicateJoin(n)
        <3>1. BusOK'
            BY <2>12, ConsumeType DEF IgnoreDuplicateJoin, Receiving
        <3> QED
            BY <2>12, <3>1 DEF IgnoreDuplicateJoin, TypeOK, BusOK, QueueOK
    <2>13. CASE AcceptAssign(n)
        <3>1. BusOK'
            BY <2>13, ConsumeType DEF AcceptAssign, Receiving
        <3>2. Head(inbox[n]).id \in Id
            BY <2>13, <2>h DEF AcceptAssign, Receiving, Frame
        <3> QED
            BY <2>13, <3>1, <3>2 DEF AcceptAssign, TypeOK, Role, BusOK, QueueOK
    <2>14. CASE ServiceSkip(n)
        <3>1. BusOK'
            BY <2>14, <2>h, <2>j, ConsumeType, BroadcastType DEF ServiceSkip
        <3> QED
            BY <2>14, <3>1 DEF ServiceSkip, TypeOK, BusOK, QueueOK
    <2>15. CASE RetryJoin(n)
        <3>1. BusOK'
            BY <2>15, <2>i, <2>j, BroadcastType DEF RetryJoin
        <3> QED
            BY <2>15, <3>1 DEF RetryJoin, TypeOK, BusOK, QueueOK
    <2>16. CASE PowerOn(n)
        BY <2>16, ZeroType DEF PowerOn, TypeOK, Phase, Role
    <2>17. CASE PowerOff(n)
        <3>1. inbox' \in [Nodes -> Seq(Frame)] /\ \A m \in Nodes : Len(inbox'[m]) <= Capacity
            BY <2>17, EmptySeq, NodeAssumption DEF PowerOff, TypeOK
        <3> QED
            BY <2>17, <3>1, NodeAssumption DEF PowerOff, TypeOK, Phase
    <2>18. CASE Lose(n)
        <3>1. BusOK'
            BY <2>18, ConsumeType DEF Lose
        <3> QED
            BY <2>18, <3>1, NodeAssumption DEF Lose, TypeOK, BusOK, QueueOK
    <2> QED
        BY <1>n, <2>1, <2>2, <2>3, <2>4, <2>5, <2>6, <2>7, <2>8, <2>9, <2>10, <2>11,
           <2>12, <2>13, <2>14, <2>15, <2>16, <2>17, <2>18
        DEF Step, NodeBegin, NodeService
<1> QED
    BY <1>s, <1>t, <1>n DEF Next

\* Type correctness of every reachable state (node.c, node.h, bus_sim.c): ids
\* stay uint8_t, no queue exceeds its capacity, the dedup table its bounds.
THEOREM TypeCorrect == Spec => []TypeOK
BY TypeInit, TypeStep, PTL DEF Spec

-----------------------------------------------------------------------------
(* What a step does to the frames that are waiting in the queues.           *)

\* A push adds one frame and no other.
LEMMA EnqueueFrames ==
    ASSUME NEW q, QueueOK(q), NEW f \in Frame, NEW k \in 1 .. Len(Enqueue(q, f))
    PROVE  Enqueue(q, f)[k] = f \/ \E j \in 1 .. Len(q) : Enqueue(q, f)[k] = q[j]
<1> DEFINE r == IF Len(q) = Capacity THEN Tail(q) ELSE q
<1> USE NodeAssumption DEF QueueOK
<1>1. r \in Seq(Frame) /\ \A i \in 1 .. Len(r) : \E j \in 1 .. Len(q) : r[i] = q[j]
    <2>1. CASE Len(q) = Capacity
        <3>1. q # <<>>
            BY <2>1, EmptySeq
        <3> QED
            BY <2>1, <3>1, HeadTailProperties
    <2>2. CASE Len(q) # Capacity
        BY <2>2
    <2> QED
        BY <2>1, <2>2
<1>2. Enqueue(q, f) = Append(r, f)
    BY DEF Enqueue
<1>3. Len(Append(r, f)) = Len(r) + 1 /\ Append(r, f)[Len(r) + 1] = f
      /\ \A i \in 1 .. Len(r) : Append(r, f)[i] = r[i]
    BY <1>1, AppendProperties
<1>4. Len(r) \in Nat
    BY <1>1, LenProperties
<1>5. k \in 1 .. Len(r) \/ k = Len(r) + 1
    BY <1>2, <1>3, <1>4
<1> HIDE DEF r
<1> QED
    BY <1>1, <1>2, <1>3, <1>5

\* A broadcast from queues box adds the frame sent and no other.
LEMMA BroadcastFrames ==
    ASSUME NEW n \in Nodes, NEW f \in Frame, NEW box \in [Nodes -> Seq(Frame)],
           \A m \in Nodes : QueueOK(box[m]),
           \A m \in Nodes : {box[m][k] : k \in 1 .. Len(box[m])} \subseteq Frames(m),
           Broadcast(n, box, f)
    PROVE  \A m \in Nodes : Frames(m)' \subseteq Frames(m) \cup {f}
<1> SUFFICES ASSUME NEW m \in Nodes, NEW k \in 1 .. Len(inbox'[m])
             PROVE  inbox'[m][k] \in Frames(m) \cup {f}
    BY DEF Frames
<1>1. CASE inbox'[m] = box[m]
    BY <1>1
<1>2. CASE inbox'[m] = Enqueue(box[m], f)
    <2>1. inbox'[m][k] = f \/ \E j \in 1 .. Len(box[m]) : inbox'[m][k] = box[m][j]
        BY <1>2, EnqueueFrames
    <2> QED
        BY <2>1
<1> QED
    BY <1>1, <1>2 DEF Broadcast

\* The frame a node is about to read is one of those waiting, and reading it
\* adds none.
LEMMA PoppedFrames ==
    ASSUME BusOK, NEW n \in Nodes, inbox[n] # <<>>
    PROVE  /\ Head(inbox[n]) \in Frames(n)
           /\ \A m \in Nodes :
                 {Popped(n)[m][k] : k \in 1 .. Len(Popped(n)[m])} \subseteq Frames(m)
<1>0. inbox \in [Nodes -> Seq(Frame)] /\ inbox[n] \in Seq(Frame)
    BY DEF BusOK
<1>1. /\ Len(inbox[n]) \in Nat /\ Len(inbox[n]) >= 1
      /\ Head(inbox[n]) = inbox[n][1]
      /\ Len(Tail(inbox[n])) = Len(inbox[n]) - 1
      /\ \A k \in 1 .. Len(Tail(inbox[n])) : Tail(inbox[n])[k] = inbox[n][k + 1]
    BY <1>0, HeadTailProperties, EmptySeq, LenProperties
<1>2. Head(inbox[n]) \in Frames(n)
    BY <1>1 DEF Frames
<1>3. \A k \in 1 .. Len(Tail(inbox[n])) : Tail(inbox[n])[k] \in Frames(n)
    BY <1>1 DEF Frames
<1>4. \A m \in Nodes : Popped(n)[m] = IF m = n THEN Tail(inbox[n]) ELSE inbox[m]
    BY <1>0 DEF Popped
<1>5. \A m \in Nodes : \A k \in 1 .. Len(Popped(n)[m]) : Popped(n)[m][k] \in Frames(m)
    BY <1>3, <1>4 DEF Frames
<1> QED
    BY <1>2, <1>5

LEMMA ConsumeFrames ==
    ASSUME BusOK, NEW n \in Nodes, inbox[n] # <<>>, Consume(n)
    PROVE  \A m \in Nodes : Frames(m)' \subseteq Frames(m)
<1>1. inbox' = Popped(n)
    BY DEF Consume
<1>2. \A m \in Nodes : {inbox'[m][k] : k \in 1 .. Len(inbox'[m])} \subseteq Frames(m)
    BY <1>1, PoppedFrames
<1> QED
    BY <1>2 DEF Frames

\* Every frame in a queue after a step was there before or is what the node
\* that took the step has just sent.
LEMMA FramesStep ==
    ASSUME TypeOK, [Next]_vars, NEW m \in Nodes, NEW f \in Frames(m)'
    PROVE  \/ f \in Frames(m)
           \/ f = Hello
           \/ \E n \in Nodes : SendJoin(n) /\ f = Join(join_nonce'[n])
           \/ \E n \in Nodes : RetryDue(n) /\ f = Join(join_nonce[n])
           \/ \E n \in Nodes : SendClaim(n) /\ f = Claim(0, random_nonce[n])
           \/ \E n \in Nodes : DefendClaim(n) /\ f = Claim(1, random_nonce[n])
           \/ \E n \in Nodes : AssignId(n)
                               /\ f = Assign(next_assign_id[n], Head(inbox[n]).nonce)
<1>b. BusOK
    BY TypeBus
<1>i. /\ inbox \in [Nodes -> Seq(Frame)]
      /\ \A p \in Nodes : QueueOK(inbox[p])
      /\ \A p \in Nodes : {inbox[p][k] : k \in 1 .. Len(inbox[p])} \subseteq Frames(p)
    BY <1>b DEF BusOK, Frames
<1>u. UNCHANGED inbox => f \in Frames(m)
    BY DEF Frames
<1>s. ASSUME NEW n \in Nodes, NEW g \in Frame,
             \/ Broadcast(n, inbox, g)
             \/ inbox[n] # <<>> /\ Broadcast(n, Popped(n), g)
      PROVE  f \in Frames(m) \cup {g}
    <2>1. CASE Broadcast(n, inbox, g)
        BY <1>i, <2>1, BroadcastFrames
    <2>2. CASE inbox[n] # <<>> /\ Broadcast(n, Popped(n), g)
        <3>1. /\ Popped(n) \in [Nodes -> Seq(Frame)]
              /\ \A p \in Nodes : QueueOK(Popped(n)[p])
            BY <1>b, <2>2, PoppedType
        <3>2. \A p \in Nodes :
                {Popped(n)[p][k] : k \in 1 .. Len(Popped(n)[p])} \subseteq Frames(p)
            BY <1>b, <2>2, PoppedFrames
        <3>3. \A p \in Nodes : Frames(p)' \subseteq Frames(p) \cup {g}
            BY <2>2, <3>1, <3>2, BroadcastFrames
        <3> QED
            BY <3>3
    <2> QED
        BY <1>s, <2>1, <2>2
<1>c. ASSUME NEW n \in Nodes, inbox[n] # <<>>, Consume(n)
      PROVE  f \in Frames(m)
    BY <1>b, <1>c, ConsumeFrames
<1>1. CASE UNCHANGED vars
    BY <1>1, <1>u DEF vars, busVars
<1>2. CASE Tick
    BY <1>2, <1>u DEF Tick, busVars
<1>3. ASSUME NEW n \in Nodes, Step(n) \/ PowerOn(n) \/ PowerOff(n) \/ Lose(n)
      PROVE  \/ f \in Frames(m)
             \/ f = Hello
             \/ SendJoin(n) /\ f = Join(join_nonce'[n])
             \/ RetryDue(n) /\ f = Join(join_nonce[n])
             \/ SendClaim(n) /\ f = Claim(0, random_nonce[n])
             \/ DefendClaim(n) /\ f = Claim(1, random_nonce[n])
             \/ AssignId(n) /\ f = Assign(next_assign_id[n], Head(inbox[n]).nonce)
    <2>c. random_nonce[n] \in AnyNonce /\ join_nonce[n] \in AnyNonce
        BY DEF TypeOK, AnyNonce
    <2>1. CASE Begin(n) \/ ListenTimeout(n) \/ ConflictTimeout(n) \/ PowerOn(n)
        BY <2>1, <1>u DEF Begin, ListenTimeout, ConflictTimeout, PowerOn, busVars
    <2>2. CASE \/ ListenRecv(n) \/ ConflictYield(n) \/ ConflictIgnore(n)
               \/ IgnoreDuplicateJoin(n) \/ AcceptAssign(n) \/ Lose(n)
        BY <2>2, <1>c
        DEF ListenRecv, ConflictYield, ConflictIgnore, IgnoreDuplicateJoin,
            AcceptAssign, Lose, Receiving
    <2>3. CASE SendClaim(n)
        BY <2>3, <2>c, <1>s, FramesType DEF SendClaim
    <2>4. CASE SendHello(n)
        BY <2>4, <1>s, FramesType DEF SendHello
    <2>5. CASE SendJoin(n)
        <3>1. PICK v \in JoinNonce :
                 /\ Broadcast(n, inbox, Join(v))
                 /\ join_nonce' = [join_nonce EXCEPT ![n] = v]
            BY <2>5 DEF SendJoin
        <3>2. v \in AnyNonce /\ join_nonce'[n] = v
            BY <3>1 DEF AnyNonce, TypeOK
        <3> QED
            BY <2>5, <3>1, <3>2, <1>s, FramesType
    <2>6. CASE DefendClaim(n)
        BY <2>6, <2>c, <1>s, FramesType DEF DefendClaim, Receiving
    <2>7. CASE AssignId(n)
        <3>1. inbox[n] # <<>> /\ Head(inbox[n]) \in Frame
            BY <2>7, <1>b, PoppedType DEF AssignId, Receiving
        <3>2. Head(inbox[n]).nonce \in AnyNonce /\ next_assign_id[n] \in Id
            BY <3>1 DEF Frame, TypeOK
        <3>3. Broadcast(n, Popped(n), Assign(next_assign_id[n], Head(inbox[n]).nonce))
            BY <2>7 DEF AssignId
        <3> QED
            BY <2>7, <3>1, <3>2, <3>3, <1>s, FramesType
    <2>8. CASE ServiceSkip(n)
        BY <2>8, <2>c, <1>s, <1>c, FramesType DEF ServiceSkip
    <2>9. CASE RetryJoin(n)
        BY <2>9, <2>c, <1>s, FramesType DEF RetryJoin
    <2>10. CASE PowerOff(n)
        <3>1. inbox'[m] = inbox[m] \/ inbox'[m] = <<>>
            BY <2>10, <1>i DEF PowerOff
        <3>2. Len(<<>>) = 0
            BY EmptySeq
        <3> QED
            BY <3>1, <3>2 DEF Frames
    <2> QED
        BY <1>3, <2>1, <2>2, <2>3, <2>4, <2>5, <2>6, <2>7, <2>8, <2>9, <2>10
        DEF Step, NodeBegin, NodeService
<1> QED
    BY <1>1, <1>2, <1>3 DEF Next

-----------------------------------------------------------------------------
(* A step of one node leaves the others' own state alone.                   *)

\* The state of n itself, as far as the proofs look at it.
KeepsOwn(n) ==
    /\ pc'[n] = pc[n]
    /\ role'[n] = role[n]
    /\ assigned_id'[n] = assigned_id[n]
    /\ random_nonce'[n] = random_nonce[n]
    /\ next_assign_id'[n] = next_assign_id[n]
    /\ seen_join_nonce'[n] = seen_join_nonce[n]
    /\ seen_count'[n] = seen_count[n]
    /\ join_nonce'[n] = join_nonce[n]

EnvStep(p) == PowerOn(p) \/ PowerOff(p) \/ Lose(p)

LEMMA OthersKeep ==
    ASSUME TypeOK, NEW p \in Nodes, Step(p) \/ EnvStep(p), NEW n \in Nodes, n # p
    PROVE  KeepsOwn(n)
<1> USE DEF TypeOK, KeepsOwn, electVars, idVars, coordVars, joinVars
<1>1. CASE Begin(p)
    BY <1>1 DEF Begin
<1>2. CASE ListenRecv(p)
    BY <1>2 DEF ListenRecv
<1>3. CASE ListenTimeout(p)
    BY <1>3 DEF ListenTimeout
<1>4. CASE SendClaim(p)
    BY <1>4 DEF SendClaim
<1>5. CASE ConflictYield(p)
    BY <1>5 DEF ConflictYield
<1>6. CASE ConflictIgnore(p)
    BY <1>6 DEF ConflictIgnore, BecomeCoordinator
<1>7. CASE ConflictTimeout(p)
    BY <1>7 DEF ConflictTimeout, BecomeCoordinator
<1>8. CASE SendHello(p)
    BY <1>8 DEF SendHello
<1>9. CASE SendJoin(p)
    BY <1>9 DEF SendJoin
<1>10. CASE DefendClaim(p)
    BY <1>10 DEF DefendClaim
<1>11. CASE AssignId(p)
    BY <1>11 DEF AssignId
<1>12. CASE IgnoreDuplicateJoin(p)
    BY <1>12 DEF IgnoreDuplicateJoin
<1>13. CASE AcceptAssign(p)
    BY <1>13 DEF AcceptAssign
<1>14. CASE ServiceSkip(p)
    BY <1>14 DEF ServiceSkip
<1>15. CASE RetryJoin(p)
    BY <1>15 DEF RetryJoin
<1>16. CASE PowerOn(p)
    BY <1>16 DEF PowerOn
<1>17. CASE PowerOff(p)
    BY <1>17 DEF PowerOff
<1>18. CASE Lose(p)
    BY <1>18 DEF Lose
<1> QED
    BY <1>1, <1>2, <1>3, <1>4, <1>5, <1>6, <1>7, <1>8, <1>9,
       <1>10, <1>11, <1>12, <1>13, <1>14, <1>15, <1>16, <1>17, <1>18
    DEF Step, NodeBegin, NodeService, EnvStep

\* Time changes no node's state but the countdowns.
LEMMA TickKeeps ==
    ASSUME Tick \/ UNCHANGED vars, NEW n \in Nodes
    PROVE  KeepsOwn(n)
BY DEF Tick, vars, KeepsOwn, electVars, idVars, coordVars, joinVars

\* So a step either keeps n's state or is one of n's own.
LEMMA OwnStep ==
    ASSUME TypeOK, [Next]_vars, NEW n \in Nodes
    PROVE  KeepsOwn(n) \/ Step(n) \/ EnvStep(n)
BY OthersKeep, TickKeeps DEF Next, EnvStep

-----------------------------------------------------------------------------
(* Frames that wait, stay, unless they are read.                            *)

\* With room in the queue a push loses nothing.
LEMMA EnqueueKeeps ==
    ASSUME NEW q, QueueOK(q), Len(q) # Capacity, NEW f \in Frame
    PROVE  /\ f \in {Enqueue(q, f)[k] : k \in 1 .. Len(Enqueue(q, f))}
           /\ {q[k] : k \in 1 .. Len(q)}
                 \subseteq {Enqueue(q, f)[k] : k \in 1 .. Len(Enqueue(q, f))}
<1>1. Enqueue(q, f) = Append(q, f) /\ Len(q) \in Nat
    BY LenProperties DEF Enqueue, QueueOK
<1>2. /\ Len(Append(q, f)) = Len(q) + 1
      /\ Append(q, f)[Len(q) + 1] = f
      /\ \A k \in 1 .. Len(q) : Append(q, f)[k] = q[k]
    BY AppendProperties DEF QueueOK
<1>3. Len(q) + 1 \in 1 .. (Len(q) + 1)
      /\ \A k \in 1 .. Len(q) : k \in 1 .. (Len(q) + 1)
    BY <1>1
<1> QED
    BY <1>1, <1>2, <1>3

\* What waits in queues box is still there after a broadcast that overflows no
\* queue, and so is the frame sent.
LEMMA BroadcastKeeps ==
    ASSUME NEW n \in Nodes, NEW f \in Frame, NEW box \in [Nodes -> Seq(Frame)],
           \A m \in Nodes : QueueOK(box[m]), Broadcast(n, box, f), ~ overflowed',
           NEW m \in Nodes
    PROVE  /\ {box[m][k] : k \in 1 .. Len(box[m])} \subseteq Frames(m)'
           /\ m \in Receivers(n) => f \in Frames(m)'
<1>1. CASE m \in Receivers(n)
    <2>1. inbox'[m] = Enqueue(box[m], f) /\ Len(box[m]) # Capacity
        BY <1>1 DEF Broadcast
    <2>2. Frames(m)' = {Enqueue(box[m], f)[k] : k \in 1 .. Len(Enqueue(box[m], f))}
        BY <2>1 DEF Frames
    <2>3. QueueOK(box[m])
        OBVIOUS
    <2> QED
        BY <2>1, <2>2, <2>3, EnqueueKeeps
<1>2. CASE m \notin Receivers(n)
    <2>1. inbox'[m] = box[m]
        BY <1>2 DEF Broadcast
    <2> QED
        BY <1>2, <2>1 DEF Frames
<1> QED
    BY <1>1, <1>2

\* What waits for n is the frame it reads next and what remains after that.
LEMMA PoppedKeeps ==
    ASSUME BusOK, NEW n \in Nodes, inbox[n] # <<>>, NEW m \in Nodes, NEW g \in Frames(m)
    PROVE  \/ m = n /\ g = Head(inbox[n])
           \/ g \in {Popped(n)[m][k] : k \in 1 .. Len(Popped(n)[m])}
<1>1. inbox \in [Nodes -> Seq(Frame)] /\ inbox[n] \in Seq(Frame)
    BY DEF BusOK
<1>2. /\ Len(inbox[n]) \in Nat
      /\ Head(inbox[n]) = inbox[n][1]
      /\ Len(Tail(inbox[n])) = Len(inbox[n]) - 1
      /\ \A k \in 1 .. Len(Tail(inbox[n])) : Tail(inbox[n])[k] = inbox[n][k + 1]
    BY <1>1, HeadTailProperties, EmptySeq, LenProperties
<1>3. PICK k \in 1 .. Len(inbox[m]) : g = inbox[m][k]
    BY DEF Frames
<1>4. CASE m # n
    BY <1>1, <1>3, <1>4 DEF Popped
<1>5. CASE m = n
    <2>1. Popped(n)[m] = Tail(inbox[n])
        BY <1>1, <1>5 DEF Popped
    <2>2. CASE k = 1
        BY <1>2, <1>3, <1>5, <2>2
    <2>3. CASE k # 1
        <3>1. k - 1 \in 1 .. Len(Tail(inbox[n])) /\ (k - 1) + 1 = k
            BY <1>2, <1>3, <1>5, <2>3
        <3>2. Tail(inbox[n])[k - 1] = g
            BY <1>2, <1>3, <1>5, <3>1
        <3> QED
            BY <2>1, <3>1, <3>2
    <2> QED
        BY <2>2, <2>3
<1> QED
    BY <1>4, <1>5

\* bus_recv takes the head of one queue only.
LEMMA ConsumeKeeps ==
    ASSUME BusOK, NEW n \in Nodes, inbox[n] # <<>>, Consume(n),
           NEW m \in Nodes, NEW g \in Frames(m)
    PROVE  g \in Frames(m)' \/ (m = n /\ g = Head(inbox[n]))
<1>1. inbox' = Popped(n)
    BY DEF Consume
<1>2. Frames(m)' = {Popped(n)[m][k] : k \in 1 .. Len(Popped(n)[m])}
    BY <1>1 DEF Frames
<1> QED
    BY <1>2, PoppedKeeps

\* bus_send reaches every other powered node and loses nothing that waits.
LEMMA SendKeeps ==
    ASSUME BusOK, NEW n \in Nodes, NEW f \in Frame, ~ overflowed',
           Broadcast(n, inbox, f), NEW m \in Nodes
    PROVE  /\ Frames(m) \subseteq Frames(m)'
           /\ m # n /\ Powered(m) => f \in Frames(m)'
<1>1. /\ inbox \in [Nodes -> Seq(Frame)]
      /\ \A p \in Nodes : QueueOK(inbox[p])
    BY DEF BusOK
<1>2. Frames(m) = {inbox[m][k] : k \in 1 .. Len(inbox[m])}
    BY DEF Frames
<1>3. m # n /\ Powered(m) => m \in Receivers(n)
    BY DEF Receivers
<1> QED
    BY <1>1, <1>2, <1>3, BroadcastKeeps

LEMMA AnswerKeeps ==
    ASSUME BusOK, NEW n \in Nodes, NEW f \in Frame, ~ overflowed', inbox[n] # <<>>,
           Broadcast(n, Popped(n), f), NEW m \in Nodes
    PROVE  /\ \A g \in Frames(m) : g \in Frames(m)' \/ (m = n /\ g = Head(inbox[n]))
           /\ m # n /\ Powered(m) => f \in Frames(m)'
<1>1. /\ Popped(n) \in [Nodes -> Seq(Frame)]
      /\ \A p \in Nodes : QueueOK(Popped(n)[p])
    BY PoppedType
<1> QED
    BY <1>1, BroadcastKeeps, PoppedKeeps DEF Receivers

\* Reliability once lost never returns.
LEMMA ReliableBefore ==
    ASSUME TypeOK, [Next]_vars, Reliable'
    PROVE  Reliable /\ ~ overflowed'
<1>1. ~ overflowed' /\ losses' = 0
    BY DEF Reliable
<1>2. losses \in Nat
    BY NodeAssumption DEF TypeOK
<1>3. losses' = losses \/ losses' = losses + 1
    BY DEF Next, Step, NodeBegin, NodeService, vars, faultVars, Begin, ListenRecv,
           ListenTimeout, SendClaim, ConflictYield, ConflictIgnore, ConflictTimeout,
           SendHello, SendJoin, DefendClaim, AssignId, IgnoreDuplicateJoin,
           AcceptAssign, ServiceSkip, RetryJoin, PowerOn, PowerOff, Lose, Tick
<1>4. losses = 0
    BY <1>1, <1>2, <1>3
<1>5. overflowed => overflowed'
    BY DEF Next, Step, NodeBegin, NodeService, vars, busVars, Broadcast, Consume, Begin,
           ListenRecv, ListenTimeout, SendClaim, ConflictYield, ConflictIgnore,
           ConflictTimeout, SendHello, SendJoin, DefendClaim, AssignId,
           IgnoreDuplicateJoin, AcceptAssign, ServiceSkip, RetryJoin, PowerOn,
           PowerOff, Lose, Tick
<1> QED
    BY <1>1, <1>4, <1>5 DEF Reliable

\* Nothing that waits for another node is lost.
LEMMA OthersFrames ==
    ASSUME TypeOK, ~ overflowed', NEW p \in Nodes,
           Step(p) \/ PowerOn(p) \/ PowerOff(p) \/ Lose(p),
           NEW m \in Nodes, m # p
    PROVE  Frames(m) \subseteq Frames(m)'
<1>b. BusOK
    BY TypeBus
<1>1. ASSUME inbox[p] # <<>>, Consume(p)
      PROVE  Frames(m) \subseteq Frames(m)'
    BY <1>1, <1>b, ConsumeKeeps
<1>2. ASSUME NEW f \in Frame, Broadcast(p, inbox, f)
      PROVE  Frames(m) \subseteq Frames(m)'
    BY <1>2, <1>b, SendKeeps
<1>3. ASSUME NEW f \in Frame, inbox[p] # <<>>, Broadcast(p, Popped(p), f)
      PROVE  Frames(m) \subseteq Frames(m)'
    BY <1>3, <1>b, AnswerKeeps
<1>4. random_nonce[p] \in AnyNonce /\ join_nonce[p] \in AnyNonce
      /\ next_assign_id[p] \in Id
    BY DEF TypeOK, AnyNonce
<1>5. CASE Begin(p) \/ ListenTimeout(p) \/ ConflictTimeout(p) \/ PowerOn(p)
    BY <1>5 DEF Begin, ListenTimeout, ConflictTimeout, PowerOn, busVars, Frames
<1>6. CASE \/ ListenRecv(p) \/ ConflictYield(p) \/ ConflictIgnore(p)
           \/ IgnoreDuplicateJoin(p) \/ AcceptAssign(p) \/ Lose(p)
    BY <1>1, <1>6 DEF ListenRecv, ConflictYield, ConflictIgnore, IgnoreDuplicateJoin,
                      AcceptAssign, Lose, Receiving
<1>7. CASE SendClaim(p) \/ SendHello(p) \/ RetryJoin(p)
    BY <1>2, <1>4, <1>7, FramesType DEF SendClaim, SendHello, RetryJoin
<1>8. CASE SendJoin(p)
    <2>1. PICK v \in JoinNonce : Broadcast(p, inbox, Join(v))
        BY <1>8 DEF SendJoin
    <2>2. v \in AnyNonce
        BY DEF AnyNonce
    <2> QED
        BY <1>2, <2>1, <2>2, FramesType
<1>9. CASE DefendClaim(p)
    BY <1>3, <1>4, <1>9, FramesType DEF DefendClaim, Receiving
<1>10. CASE AssignId(p)
    <2>1. inbox[p] # <<>> /\ Head(inbox[p]) \in Frame
        BY <1>10, <1>b, PoppedType DEF AssignId, Receiving
    <2>2. Head(inbox[p]).nonce \in AnyNonce
        BY <2>1 DEF Frame
    <2>3. Broadcast(p, Popped(p), Assign(next_assign_id[p], Head(inbox[p]).nonce))
        BY <1>10 DEF AssignId
    <2> QED
        BY <1>3, <1>4, <2>1, <2>2, <2>3, FramesType
<1>11. CASE ServiceSkip(p)
    BY <1>1, <1>3, <1>4, <1>11, FramesType DEF ServiceSkip
<1>12. CASE PowerOff(p)
    <2>1. inbox'[m] = inbox[m]
        BY <1>12, <1>b DEF PowerOff, BusOK
    <2> QED
        BY <2>1 DEF Frames
<1> QED
    BY <1>5, <1>6, <1>7, <1>8, <1>9, <1>10, <1>11, <1>12
    DEF Step, NodeBegin, NodeService
=============================================================================
