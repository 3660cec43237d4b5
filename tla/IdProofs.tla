------------------------------ MODULE IdProofs ------------------------------
(***************************************************************************)
(* The ids the coordinator hands out: who holds them, that they are unique *)
(* and that the boards together keep one register (Registry).  None of it  *)
(* depends on timing or on the wire: frames may be lost, delayed without   *)
(* bound and boards restarted at any point.  Only the last section, on the *)
(* answers that are under way, speaks of a bus that loses nothing.         *)
(***************************************************************************)
EXTENDS NodeProofs

InLedger(id, nonce) ==
    \E k \in 1 .. Len(ledger) : ledger[k] = [id |-> id, nonce |-> nonce]

\* A node takes a role only when it enters its service loop.
RolesOfPhases ==
    \A n \in Nodes : pc[n] \notin {"off", "service"} => role[n] = "SEEKING"

\* Every ASSIGN on its way was sent by a coordinator.
AssignsBacked ==
    \A n \in Nodes : \A f \in Frames(n) :
        f.type = "ASSIGN" => InLedger(f.id, f.nonce)

\* The inductive invariant behind MembersWereAssigned.
BackingInv == RolesOfPhases /\ AssignsBacked /\ MembersWereAssigned

\* Only AssignId adds to the history of assignments.
LEMMA LedgerStep ==
    ASSUME TypeOK, [Next]_vars
    PROVE  \/ UNCHANGED ledger
           \/ \E n \in Nodes :
                 /\ AssignId(n)
                 /\ ledger' = Append(ledger, [id |-> next_assign_id[n],
                                              nonce |-> Head(inbox[n]).nonce])
<1> USE DEF vars, coordVars
<1>1. ASSUME NEW n \in Nodes, NodeBegin(n)
      PROVE  UNCHANGED ledger
    BY <1>1 DEF NodeBegin, Begin, ListenRecv, ListenTimeout, SendClaim, ConflictYield,
                ConflictIgnore, ConflictTimeout, SendHello, SendJoin
<1>2. ASSUME NEW n \in Nodes, NodeService(n), ~ AssignId(n)
      PROVE  UNCHANGED ledger
    BY <1>2 DEF NodeService, DefendClaim, IgnoreDuplicateJoin, AcceptAssign, ServiceSkip,
                RetryJoin
<1>3. ASSUME NEW n \in Nodes, PowerOn(n) \/ PowerOff(n) \/ Lose(n)
      PROVE  UNCHANGED ledger
    BY <1>3 DEF PowerOn, PowerOff, Lose
<1>4. Tick => UNCHANGED ledger
    BY DEF Tick
<1>5. ASSUME NEW n \in Nodes, AssignId(n)
      PROVE  ledger' = Append(ledger, [id |-> next_assign_id[n],
                                       nonce |-> Head(inbox[n]).nonce])
    BY <1>5 DEF AssignId
<1> QED
    BY <1>1, <1>2, <1>3, <1>4, <1>5 DEF Next, Step

\* An assignment is appended to the history.
LEMMA AssignAppends ==
    ASSUME TypeOK, NEW n \in Nodes, AssignId(n)
    PROVE  /\ Len(ledger) \in Nat /\ Len(ledger)' = Len(ledger) + 1
           /\ ledger'[Len(ledger) + 1] = [id |-> next_assign_id[n],
                                          nonce |-> Head(inbox[n]).nonce]
           /\ \A k \in 1 .. Len(ledger) : ledger'[k] = ledger[k]
<1>1. ledger \in Seq([id : Id, nonce : AnyNonce])
    BY DEF TypeOK
<1>2. Head(inbox[n]) \in Frame
    BY TypeBus, PoppedType DEF AssignId, Receiving
<1>3. [id |-> next_assign_id[n], nonce |-> Head(inbox[n]).nonce]
         \in [id : Id, nonce : AnyNonce]
    BY <1>2 DEF Frame, TypeOK
<1>4. ledger' = Append(ledger, [id |-> next_assign_id[n],
                                nonce |-> Head(inbox[n]).nonce])
    BY DEF AssignId
<1> QED
    BY <1>1, <1>3, <1>4, AppendProperties, LenProperties

\* The history of assignments only grows.
LEMMA LedgerGrows ==
    ASSUME TypeOK, [Next]_vars
    PROVE  /\ Len(ledger) \in Nat /\ Len(ledger)' \in Nat
           /\ Len(ledger) <= Len(ledger)'
           /\ \A k \in 1 .. Len(ledger) : ledger'[k] = ledger[k]
<1>1. Len(ledger) \in Nat
    BY LenProperties DEF TypeOK
<1>2. CASE UNCHANGED ledger
    BY <1>1, <1>2
<1>3. CASE \E n \in Nodes : AssignId(n)
    <2>1. PICK n \in Nodes : AssignId(n)
        BY <1>3
    <2>2. /\ Len(ledger)' = Len(ledger) + 1
          /\ \A k \in 1 .. Len(ledger) : ledger'[k] = ledger[k]
        BY <2>1, AssignAppends
    <2> QED
        BY <1>1, <2>2
<1> QED
    BY <1>2, <1>3, LedgerStep

\* What has been handed out stays in the history.
LEMMA InLedgerStays ==
    ASSUME TypeOK, [Next]_vars, NEW i, NEW v, InLedger(i, v)
    PROVE  InLedger(i, v)'
BY LedgerGrows DEF InLedger

-----------------------------------------------------------------------------
(* A member holds an id that was handed out for its own JOIN.               *)

LEMMA BackingInit == Init => BackingInv
<1> SUFFICES ASSUME Init PROVE BackingInv
    OBVIOUS
<1>1. \A n \in Nodes : Frames(n) = {}
    BY EmptySeq DEF Init, Frames
<1>2. \A n \in Nodes : role[n] = "SEEKING"
    BY DEF Init
<1> QED
    BY <1>1, <1>2 DEF BackingInv, RolesOfPhases, AssignsBacked, MembersWereAssigned, Members

\* Only service gives a role, and only for one's own ASSIGN or a won election.
LEMMA RolesStep == TypeOK /\ RolesOfPhases /\ [Next]_vars => RolesOfPhases'
<1> SUFFICES ASSUME TypeOK, RolesOfPhases, [Next]_vars, NEW n \in Nodes,
                    pc'[n] \notin {"off", "service"}
             PROVE  role'[n] = "SEEKING"
    BY DEF RolesOfPhases
<1>1. CASE KeepsOwn(n)
    BY <1>1 DEF KeepsOwn, RolesOfPhases
<1>2. CASE NodeBegin(n)
    BY <1>2 DEF NodeBegin, Begin, ListenRecv, ListenTimeout, SendClaim, ConflictYield,
                ConflictIgnore, ConflictTimeout, BecomeCoordinator, SendHello, SendJoin,
                RolesOfPhases, TypeOK, idVars
<1>3. CASE NodeService(n)
    BY <1>3 DEF NodeService, DefendClaim, AssignId, IgnoreDuplicateJoin, AcceptAssign,
                ServiceSkip, RetryJoin, RetryDue, Receiving
<1>4. CASE EnvStep(n)
    BY <1>4 DEF EnvStep, PowerOn, PowerOff, Lose, RolesOfPhases, TypeOK, idVars
<1> QED
    BY <1>1, <1>2, <1>3, <1>4, OwnStep DEF Step

LEMMA AssignsBackedStep == TypeOK /\ AssignsBacked /\ [Next]_vars => AssignsBacked'
<1> SUFFICES ASSUME TypeOK, AssignsBacked, [Next]_vars,
                    NEW m \in Nodes, NEW f \in Frames(m)', f.type = "ASSIGN"
             PROVE  InLedger(f.id, f.nonce)'
    BY DEF AssignsBacked
<1>1. CASE f \in Frames(m)
    BY <1>1, InLedgerStays DEF AssignsBacked
<1>2. ASSUME NEW n \in Nodes, AssignId(n),
             f = Assign(next_assign_id[n], Head(inbox[n]).nonce)
      PROVE  InLedger(f.id, f.nonce)'
    BY <1>2, AssignAppends DEF InLedger, Assign, make_frame
<1> QED
    BY <1>1, <1>2, FramesStep DEF Hello, Join, Claim, make_frame

\* A node is a member after a step if it was one, or accepted its ASSIGN.
LEMMA MemberStep ==
    ASSUME TypeOK, RolesOfPhases, [Next]_vars, NEW n \in Nodes, n \in Members'
    PROVE  /\ join_nonce'[n] = join_nonce[n]
           /\ pc[n] = "service"
           /\ \/ role[n] = "MEMBER" /\ assigned_id'[n] = assigned_id[n]
              \/ AcceptAssign(n) /\ assigned_id'[n] = Head(inbox[n]).id
<1>0. pc'[n] = "service" /\ role'[n] = "MEMBER"
    BY DEF Members
<1>1. CASE KeepsOwn(n)
    BY <1>0, <1>1 DEF KeepsOwn
<1>2. CASE NodeBegin(n)
    BY <1>0, <1>2 DEF NodeBegin, Begin, ListenRecv, ListenTimeout, SendClaim,
                ConflictYield, ConflictIgnore, ConflictTimeout, BecomeCoordinator,
                SendHello, SendJoin, RolesOfPhases, TypeOK, idVars
<1>3. CASE NodeService(n)
    BY <1>0, <1>3 DEF NodeService, DefendClaim, AssignId, IgnoreDuplicateJoin,
                AcceptAssign, ServiceSkip, RetryJoin, RetryDue, Receiving, TypeOK,
                idVars, joinVars
<1>4. CASE EnvStep(n)
    BY <1>0, <1>4 DEF EnvStep, PowerOn, PowerOff, Lose, TypeOK, idVars, joinVars
<1> QED
    BY <1>1, <1>2, <1>3, <1>4, OwnStep DEF Step

LEMMA BackingStep == TypeOK /\ BackingInv /\ [Next]_vars => BackingInv'
<1> SUFFICES ASSUME TypeOK, BackingInv, [Next]_vars PROVE BackingInv'
    OBVIOUS
<1>1. RolesOfPhases'
    BY RolesStep DEF BackingInv
<1>2. AssignsBacked'
    BY AssignsBackedStep DEF BackingInv
<1>3. ASSUME NEW n \in Nodes, n \in Members'
      PROVE  InLedger(assigned_id[n], join_nonce[n])'
    <2>1. InLedger(assigned_id'[n], join_nonce'[n])
        <3>1. CASE role[n] = "MEMBER" /\ assigned_id'[n] = assigned_id[n]
            BY <1>3, <3>1, MemberStep
            DEF BackingInv, MembersWereAssigned, Members, InLedger
        <3>2. CASE AcceptAssign(n) /\ assigned_id'[n] = Head(inbox[n]).id
            <4>1. /\ Head(inbox[n]) \in Frames(n)
                  /\ Head(inbox[n]).type = "ASSIGN"
                  /\ Head(inbox[n]).nonce = join_nonce[n]
                BY <3>2, TypeBus, PoppedFrames DEF AcceptAssign, Receiving, ForMe
            <4> QED
                BY <1>3, <3>2, <4>1, MemberStep DEF BackingInv, AssignsBacked
        <3> QED
            BY <1>3, <3>1, <3>2, MemberStep DEF BackingInv
    <2>2. \A k \in 1 .. Len(ledger) : k \in 1 .. Len(ledger)' /\ ledger'[k] = ledger[k]
        BY LedgerGrows
    <2> QED
        BY <2>1, <2>2 DEF InLedger
<1>4. MembersWereAssigned'
    BY <1>3 DEF MembersWereAssigned, InLedger, Members
<1> QED
    BY <1>1, <1>2, <1>4 DEF BackingInv

\* A member's id was handed out for the JOIN of its current life, whatever is
\* lost, delayed or restarted (node.c, "Verify this ASSIGN is for us").
THEOREM MembersBacked == Spec => []MembersWereAssigned
<1>1. Init => TypeOK /\ BackingInv
    BY TypeInit, BackingInit
<1>2. TypeOK /\ BackingInv /\ [Next]_vars => TypeOK' /\ BackingInv'
    BY TypeStep, BackingStep
<1>3. BackingInv => MembersWereAssigned
    BY DEF BackingInv
<1> QED
    BY <1>1, <1>2, <1>3, PTL DEF Spec

-----------------------------------------------------------------------------
(* Roles are for life.                                                      *)

LEMMA AssignedKeeps ==
    ASSUME TypeOK, [Next]_vars, NEW n \in Assigned, pc'[n] # "off"
    PROVE  pc'[n] = "service" /\ role'[n] = role[n] /\ assigned_id'[n] = assigned_id[n]
<1>0. n \in Nodes /\ pc[n] = "service" /\ role[n] \in {"COORDINATOR", "MEMBER"}
    BY DEF Assigned, Coordinators, Members
<1>1. CASE KeepsOwn(n)
    BY <1>0, <1>1 DEF KeepsOwn
<1>2. CASE NodeBegin(n)
    BY <1>0, <1>2 DEF NodeBegin, Begin, ListenRecv, ListenTimeout, SendClaim,
                ConflictYield, ConflictIgnore, ConflictTimeout, SendHello, SendJoin
<1>3. CASE NodeService(n)
    BY <1>0, <1>3 DEF NodeService, DefendClaim, AssignId, IgnoreDuplicateJoin,
                AcceptAssign, ForMe, ServiceSkip, RetryJoin, RetryDue, idVars
<1>4. CASE EnvStep(n)
    BY <1>0, <1>4 DEF EnvStep, PowerOn, PowerOff, Lose, TypeOK, idVars
<1> QED
    BY <1>0, <1>1, <1>2, <1>3, <1>4, OwnStep DEF Step

\* A coordinator never steps down and a member never changes its id, until it
\* loses power (node.h, "Once a role is assigned, it typically doesn't change").
THEOREM RolesAreStable == Spec => RoleStable
<1>1. TypeOK /\ [Next]_vars =>
        [\A n \in Assigned :
            pc'[n] # "off" =>
               /\ pc'[n] = "service"
               /\ role'[n] = role[n]
               /\ assigned_id'[n] = assigned_id[n]]_vars
    BY AssignedKeeps
<1> QED
    BY <1>1, TypeCorrect, PTL DEF Spec, RoleStable

-----------------------------------------------------------------------------
(* Ids are unique.                                                          *)

\* Joined nodes have JOIN nonces of their own, as long as draws never repeat.
NoncesDiffer ==
    /\ \A n \in Nodes : Joined(n) => join_nonce[n] \in joinNonces
    /\ \A a, b \in Nodes :
          Joined(a) /\ Joined(b) /\ join_nonce[a] = join_nonce[b] => a = b

\* The first coordinator hands out 2, 3, ... in order.
FirstAuthority ==
    /\ elections = 0 => ledger = <<>> /\ Coordinators = {}
    /\ elections <= 1 => \A a, b \in Coordinators : a = b
    /\ \A a \in Coordinators : assigned_id[a] = 1
    /\ StableAuthority =>
          /\ \A k \in 1 .. Len(ledger) : ledger[k].id = k + 1
          /\ Len(ledger) < IdMod - 2 =>
                \A a \in Coordinators : next_assign_id[a] = Len(ledger) + 2

IdInv == BackingInv /\ NoncesDiffer /\ FirstAuthority

LEMMA IdInvUnique == TypeOK /\ IdInv => UniqueIds
<1> SUFFICES ASSUME TypeOK, IdInv, StableAuthority, NEW a \in Assigned, NEW b \in Assigned,
                    assigned_id[a] = assigned_id[b]
             PROVE  a = b
    BY DEF UniqueIds
<1>0. a \in Nodes /\ b \in Nodes
    BY DEF Assigned, Coordinators, Members
<1>1. ASSUME NEW n \in Members
      PROVE  \E k \in 1 .. Len(ledger) :
                /\ assigned_id[n] = k + 1
                /\ ledger[k].nonce = join_nonce[n]
    <2>1. PICK k \in 1 .. Len(ledger) :
                ledger[k] = [id |-> assigned_id[n], nonce |-> join_nonce[n]]
        BY DEF IdInv, BackingInv, MembersWereAssigned
    <2> QED
        BY <2>1 DEF IdInv, FirstAuthority
<1>2. \A n \in Coordinators : assigned_id[n] = 1
    BY DEF IdInv, FirstAuthority
<1>3. CASE a \in Coordinators /\ b \in Coordinators
    BY <1>3 DEF IdInv, FirstAuthority, StableAuthority
<1>4. CASE a \in Members /\ b \in Members
    <2>1. PICK j \in 1 .. Len(ledger) :
                assigned_id[a] = j + 1 /\ ledger[j].nonce = join_nonce[a]
        BY <1>1, <1>4
    <2>2. PICK k \in 1 .. Len(ledger) :
                assigned_id[b] = k + 1 /\ ledger[k].nonce = join_nonce[b]
        BY <1>1, <1>4
    <2>3. j = k
        <3>1. j \in Int /\ k \in Int
            BY LenProperties DEF TypeOK
        <3>2. j + 1 = k + 1
            BY <2>1, <2>2
        <3> QED
            BY <3>1, <3>2
    <2>4. join_nonce[a] = join_nonce[b]
        BY <2>1, <2>2, <2>3
    <2> QED
        BY <1>0, <1>4, <2>4 DEF IdInv, NoncesDiffer, Joined, Members
<1>5. ASSUME NEW c \in Coordinators, NEW n \in Members
      PROVE  assigned_id[c] # assigned_id[n]
    BY <1>1, <1>2
<1> QED
    BY <1>3, <1>4, <1>5 DEF Assigned

LEMMA IdInvInit == Init => IdInv
<1> SUFFICES ASSUME Init PROVE IdInv
    OBVIOUS
<1>1. \A n \in Nodes : pc[n] # "service"
    BY DEF Init
<1>2. ledger = <<>> /\ Len(<<>>) = 0
    BY EmptySeq DEF Init
<1>3. Coordinators = {}
    BY <1>1 DEF Coordinators
<1>4. NoncesDiffer
    BY <1>1 DEF NoncesDiffer, Joined
<1>5. FirstAuthority
    BY <1>2, <1>3 DEF FirstAuthority
<1> QED
    BY <1>4, <1>5, BackingInit DEF IdInv

LEMMA JoinNoncesStep ==
    ASSUME TypeOK, [Next]_vars
    PROVE  joinNonces \subseteq joinNonces'
<1> USE DEF vars, joinVars
<1>1. ASSUME NEW n \in Nodes, NodeBegin(n)
      PROVE  joinNonces \subseteq joinNonces'
    BY <1>1 DEF NodeBegin, Begin, ListenRecv, ListenTimeout, SendClaim, ConflictYield,
                ConflictIgnore, ConflictTimeout, SendHello, SendJoin
<1>2. ASSUME NEW n \in Nodes, NodeService(n)
      PROVE  UNCHANGED joinNonces
    BY <1>2 DEF NodeService, DefendClaim, AssignId, IgnoreDuplicateJoin, AcceptAssign,
                ServiceSkip, RetryJoin
<1>3. ASSUME NEW n \in Nodes, EnvStep(n)
      PROVE  UNCHANGED joinNonces
    BY <1>3 DEF EnvStep, PowerOn, PowerOff, Lose
<1>4. Tick => UNCHANGED joinNonces
    BY DEF Tick
<1> QED
    BY <1>1, <1>2, <1>3, <1>4 DEF Next, Step, EnvStep

\* A joined node was one already, with the same nonce, or has just drawn it.
LEMMA JoinedStep ==
    ASSUME TypeOK, [Next]_vars, NEW n \in Nodes, Joined(n)'
    PROVE  \/ Joined(n) /\ join_nonce'[n] = join_nonce[n]
           \/ SendJoin(n)
<1>0. pc'[n] = "service" /\ role'[n] # "COORDINATOR"
    BY DEF Joined
<1>1. CASE KeepsOwn(n)
    BY <1>0, <1>1 DEF KeepsOwn, Joined
<1>2. CASE NodeBegin(n)
    BY <1>0, <1>2 DEF NodeBegin, Begin, ListenRecv, ListenTimeout, SendClaim,
                ConflictYield, ConflictIgnore, ConflictTimeout, BecomeCoordinator,
                SendHello, TypeOK
<1>3. CASE NodeService(n)
    BY <1>0, <1>3 DEF NodeService, DefendClaim, AssignId, IgnoreDuplicateJoin,
                AcceptAssign, ForMe, ServiceSkip, RetryJoin, RetryDue, Receiving, Joined,
                idVars, joinVars, TypeOK
<1>4. CASE EnvStep(n)
    BY <1>0, <1>4 DEF EnvStep, PowerOn, PowerOff, Lose, Joined, TypeOK, idVars, joinVars
<1> QED
    BY <1>1, <1>2, <1>3, <1>4, OwnStep DEF Step

LEMMA NoncesStep ==
    ASSUME DistinctNonces, TypeOK, NoncesDiffer, [Next]_vars
    PROVE  NoncesDiffer'
<1>1. ASSUME NEW n \in Nodes, SendJoin(n)
      PROVE  /\ join_nonce'[n] \in joinNonces'
             /\ join_nonce'[n] \notin joinNonces
             /\ \A m \in Nodes \ {n} : ~ SendJoin(m)
    <2>1. PICK v \in JoinNonce :
            /\ v \notin joinNonces
            /\ join_nonce' = [join_nonce EXCEPT ![n] = v]
            /\ joinNonces' = joinNonces \cup {v}
        BY <1>1 DEF SendJoin
    <2>2. join_nonce'[n] = v
        BY <2>1 DEF TypeOK
    <2>3. pc[n] = "join" /\ pc' = [pc EXCEPT ![n] = "service"]
        BY <1>1 DEF SendJoin
    <2>4. ASSUME NEW m \in Nodes \ {n}, SendJoin(m) PROVE FALSE
        <3>1. pc[m] = "join" /\ pc'[m] = "service"
            BY <2>4 DEF SendJoin, TypeOK
        <3> QED
            BY <2>3, <3>1 DEF TypeOK
    <2> QED
        BY <2>1, <2>2, <2>4
<1>2. ASSUME NEW n \in Nodes, Joined(n)'
      PROVE  join_nonce'[n] \in joinNonces'
    BY <1>1, <1>2, JoinedStep, JoinNoncesStep DEF NoncesDiffer
<1>3. ASSUME NEW a \in Nodes, NEW b \in Nodes, Joined(a)', Joined(b)',
             join_nonce'[a] = join_nonce'[b]
      PROVE  a = b
    BY <1>1, <1>3, JoinedStep DEF NoncesDiffer
<1> QED
    BY <1>2, <1>3 DEF NoncesDiffer, Joined

\* Winning an election is the only way to the coordinator's role.
Wins(n) ==
    /\ pc[n] = "conflict"
    /\ BecomeCoordinator(n)
    /\ UNCHANGED <<ledger, seen_join_nonce, seen_count>>

LEMMA ElectionStep ==
    ASSUME TypeOK, RolesOfPhases, [Next]_vars
    PROVE  \/ elections' = elections /\ Coordinators' \subseteq Coordinators
           \/ \E n \in Nodes : Wins(n) /\ Coordinators' \subseteq Coordinators \cup {n}
<1> USE DEF vars, electVars
<1>1. ASSUME NEW n \in Nodes, n \in Coordinators'
      PROVE  n \in Coordinators \/ Wins(n)
    <2>0. pc'[n] = "service" /\ role'[n] = "COORDINATOR"
        BY <1>1 DEF Coordinators
    <2>1. CASE KeepsOwn(n)
        BY <2>0, <2>1 DEF KeepsOwn, Coordinators
    <2>2. CASE NodeBegin(n)
        BY <2>0, <2>2 DEF NodeBegin, Begin, ListenRecv, ListenTimeout, SendClaim,
                ConflictYield, ConflictIgnore, ConflictTimeout, SendHello, SendJoin,
                RolesOfPhases, Wins, TypeOK, idVars, coordVars
    <2>3. CASE NodeService(n)
        BY <2>0, <2>3 DEF NodeService, DefendClaim, AssignId, IgnoreDuplicateJoin,
                AcceptAssign, ServiceSkip, RetryJoin, RetryDue, Receiving, Coordinators,
                TypeOK, idVars
    <2>4. CASE EnvStep(n)
        BY <2>0, <2>4 DEF EnvStep, PowerOn, PowerOff, Lose, Coordinators, TypeOK, idVars
    <2> QED
        BY <2>1, <2>2, <2>3, <2>4, OwnStep DEF Step
<1>2. ASSUME NEW n \in Nodes, NodeBegin(n)
      PROVE  elections' = elections \/ Wins(n)
    BY <1>2 DEF NodeBegin, Begin, ListenRecv, ListenTimeout, SendClaim, ConflictYield,
                ConflictIgnore, ConflictTimeout, SendHello, SendJoin, Wins, coordVars
<1>3. ASSUME NEW n \in Nodes, NodeService(n)
      PROVE  elections' = elections
    BY <1>3 DEF NodeService, DefendClaim, AssignId, IgnoreDuplicateJoin, AcceptAssign,
                ServiceSkip, RetryJoin
<1>4. ASSUME NEW n \in Nodes, EnvStep(n)
      PROVE  elections' = elections
    BY <1>4 DEF EnvStep, PowerOn, PowerOff, Lose
<1>5. Tick => elections' = elections
    BY DEF Tick
<1>6. elections' = elections \/ \E n \in Nodes : Wins(n)
    BY <1>2, <1>3, <1>4, <1>5 DEF Next, Step, EnvStep
<1>7. ASSUME NEW n \in Nodes, Wins(n), NEW m \in Nodes, Wins(m)
      PROVE  m = n
    BY <1>7 DEF Wins, BecomeCoordinator, TypeOK
<1>8. ASSUME NEW n \in Nodes, Wins(n)
      PROVE  elections' # elections
    BY <1>8 DEF Wins, BecomeCoordinator, TypeOK
<1>9. Coordinators' \subseteq Nodes
    BY DEF Coordinators
<1> QED
    BY <1>1, <1>6, <1>7, <1>8, <1>9

\* A coordinator's id and counter change by AssignId only.
LEMMA CoordinatorStep ==
    ASSUME TypeOK, [Next]_vars, NEW a \in Coordinators, a \in Coordinators'
    PROVE  /\ assigned_id'[a] = assigned_id[a]
           /\ \/ AssignId(a)
              \/ /\ next_assign_id'[a] = next_assign_id[a]
                 /\ seen_join_nonce'[a] = seen_join_nonce[a]
                 /\ seen_count'[a] = seen_count[a]
<1>0. /\ a \in Nodes /\ pc[a] = "service" /\ role[a] = "COORDINATOR"
      /\ pc'[a] = "service"
    BY DEF Coordinators
<1>1. CASE KeepsOwn(a)
    BY <1>1 DEF KeepsOwn
<1>2. CASE NodeBegin(a)
    BY <1>0, <1>2 DEF NodeBegin, Begin, ListenRecv, ListenTimeout, SendClaim,
                ConflictYield, ConflictIgnore, ConflictTimeout, SendHello, SendJoin
<1>3. CASE NodeService(a)
    BY <1>0, <1>3 DEF NodeService, DefendClaim, IgnoreDuplicateJoin, AcceptAssign, ForMe,
                AssignId, ServiceSkip, RetryJoin, RetryDue, idVars, coordVars
<1>4. CASE EnvStep(a)
    BY <1>0, <1>4 DEF EnvStep, PowerOn, PowerOff, Lose, TypeOK, idVars, coordVars
<1> QED
    BY <1>0, <1>1, <1>2, <1>3, <1>4, OwnStep DEF Step

\* Below the modulus nothing wraps.
LEMMA SmallMod ==
    ASSUME NEW x \in Nat, NEW m \in Nat, x < m
    PROVE  x % m = x
OBVIOUS

\* One coordinator at a time assigns, and only a coordinator does.
LEMMA AssignerIsCoordinator ==
    ASSUME NEW n \in Nodes, AssignId(n)
    PROVE  n \in Coordinators
BY DEF AssignId, Receiving, Coordinators

LEMMA ElectionsGrow ==
    ASSUME TypeOK, RolesOfPhases, [Next]_vars
    PROVE  elections \in Nat /\ elections' \in Nat /\ elections <= elections'
BY ElectionStep DEF TypeOK, Wins, BecomeCoordinator

LEMMA AuthorityStep ==
    ASSUME TypeOK, RolesOfPhases, FirstAuthority, [Next]_vars
    PROVE  FirstAuthority'
<1>e. elections \in Nat /\ elections' \in Nat /\ elections <= elections'
    BY ElectionsGrow
<1>l. /\ Len(ledger) \in Nat /\ Len(ledger)' \in Nat
      /\ Len(ledger) <= Len(ledger)'
      /\ \A k \in 1 .. Len(ledger) : ledger'[k] = ledger[k]
    BY LedgerGrows
<1>n. \A a \in Coordinators : a \in Nodes
    BY DEF Coordinators
<1>1. ASSUME elections' = 0
      PROVE  ledger' = <<>> /\ Coordinators' = {}
    <2>1. elections = 0 /\ ledger = <<>> /\ Coordinators = {}
        BY <1>1, <1>e DEF FirstAuthority
    <2>2. \A n \in Nodes : ~ AssignId(n)
        BY <2>1, AssignerIsCoordinator
    <2>3. ledger' = ledger
        BY <2>2, LedgerStep
    <2>4. \A n \in Nodes : ~ Wins(n)
        BY <1>1, <1>e DEF Wins, BecomeCoordinator, TypeOK
    <2> QED
        BY <2>1, <2>3, <2>4, ElectionStep
<1>2. ASSUME elections' <= 1, NEW a \in Coordinators', NEW b \in Coordinators'
      PROVE  a = b
    <2>1. CASE Coordinators' \subseteq Coordinators
        BY <1>e, <1>2, <2>1 DEF FirstAuthority
    <2>2. ASSUME NEW n \in Nodes, Wins(n), Coordinators' \subseteq Coordinators \cup {n}
          PROVE  a = b
        <3>1. elections = 0
            BY <1>e, <1>2, <2>2 DEF Wins, BecomeCoordinator
        <3> QED
            BY <1>2, <2>2, <3>1 DEF FirstAuthority
    <2> QED
        BY <2>1, <2>2, ElectionStep
<1>3. ASSUME NEW a \in Coordinators'
      PROVE  assigned_id'[a] = 1
    <2>1. CASE a \in Coordinators
        BY <1>3, <2>1, CoordinatorStep DEF FirstAuthority
    <2>2. CASE a \in Nodes /\ Wins(a)
        BY <2>2 DEF Wins, BecomeCoordinator, TypeOK
    <2> QED
        BY <1>3, <2>1, <2>2, ElectionStep
<1>4. ASSUME StableAuthority'
      PROVE  /\ StableAuthority
             /\ \A k \in 1 .. Len(ledger) : ledger[k].id = k + 1
             /\ Len(ledger) < IdMod - 2 =>
                   \A a \in Coordinators : next_assign_id[a] = Len(ledger) + 2
    <2>1. elections' <= 1 /\ Len(ledger)' <= IdMod - 2
        BY <1>4 DEF StableAuthority
    <2>2. StableAuthority
        BY <2>1, <1>e, <1>l, ProtoAssumption DEF StableAuthority
    <2> QED
        BY <2>2 DEF FirstAuthority
<1>5. ASSUME StableAuthority', NEW n \in Nodes, AssignId(n)
      PROVE  /\ Len(ledger)' = Len(ledger) + 1
             /\ next_assign_id[n] = Len(ledger) + 2
             /\ ledger'[Len(ledger) + 1].id = Len(ledger) + 2
             /\ Len(ledger)' < IdMod - 2 => next_assign_id'[n] = Len(ledger) + 3
    <2>1. /\ Len(ledger)' = Len(ledger) + 1
          /\ ledger'[Len(ledger) + 1] = [id |-> next_assign_id[n],
                                         nonce |-> Head(inbox[n]).nonce]
        BY <1>5, AssignAppends
    <2>2. Len(ledger) < IdMod - 2
        BY <1>5, <1>l, <2>1, ProtoAssumption DEF StableAuthority
    <2>3. next_assign_id[n] = Len(ledger) + 2
        BY <1>4, <1>5, <2>2, AssignerIsCoordinator
    <2>4. next_assign_id'[n] = (Len(ledger) + 3) % IdMod
        <3>1. (next_assign_id[n] + 1) % IdMod = (Len(ledger) + 3) % IdMod
            BY <1>l, <2>3
        <3> QED
            BY <1>5, <3>1 DEF AssignId, TypeOK
    <2>5. ASSUME Len(ledger)' < IdMod - 2
          PROVE  (Len(ledger) + 3) % IdMod = Len(ledger) + 3
        <3>1. Len(ledger) + 3 \in Nat /\ Len(ledger) + 3 < IdMod
            BY <1>l, <2>1, <2>5, ProtoAssumption
        <3> QED
            BY <3>1, SmallMod, ProtoAssumption
    <2>6. ledger'[Len(ledger) + 1].id = next_assign_id[n]
        BY <2>1
    <2> QED
        BY <2>1, <2>3, <2>4, <2>5, <2>6
<1>6. ASSUME StableAuthority', NEW k \in 1 .. Len(ledger)'
      PROVE  ledger'[k].id = k + 1
    <2>1. CASE UNCHANGED ledger
        BY <1>4, <1>6, <2>1
    <2>2. CASE \E n \in Nodes : AssignId(n)
        <3>1. k \in 1 .. Len(ledger) \/ k = Len(ledger) + 1
            BY <1>5, <1>6, <1>l, <2>2
        <3> QED
            BY <1>4, <1>5, <1>6, <1>l, <2>2, <3>1
    <2> QED
        BY <2>1, <2>2, LedgerStep
<1>7. ASSUME StableAuthority', Len(ledger)' < IdMod - 2, NEW a \in Coordinators'
      PROVE  next_assign_id'[a] = Len(ledger)' + 2
    <2>1. CASE a \in Coordinators
        <3>1. CASE AssignId(a)
            BY <1>5, <1>7, <1>l, <1>n, <2>1, <3>1
        <3>2. CASE ~ AssignId(a) /\ \E n \in Nodes : AssignId(n)
            BY <1>2, <1>e, <1>7, <2>1, <3>2, AssignerIsCoordinator
            DEF StableAuthority, FirstAuthority
        <3>3. CASE \A n \in Nodes : ~ AssignId(n)
            <4>1. UNCHANGED ledger
                BY <3>3, LedgerStep
            <4>2. next_assign_id'[a] = next_assign_id[a]
                BY <1>7, <1>n, <2>1, <3>3, CoordinatorStep
            <4> QED
                BY <1>4, <1>7, <2>1, <4>1, <4>2
        <3> QED
            BY <3>1, <3>2, <3>3
    <2>2. CASE a \in Nodes /\ Wins(a)
        <3>1. elections = 0 /\ UNCHANGED ledger /\ next_assign_id'[a] = 2
            BY <1>e, <1>7, <2>2 DEF Wins, BecomeCoordinator, TypeOK, StableAuthority
        <3>2. ledger = <<>> /\ Len(<<>>) = 0
            BY <3>1, EmptySeq DEF FirstAuthority
        <3> QED
            BY <3>1, <3>2
    <2> QED
        BY <1>7, <2>1, <2>2, ElectionStep
<1> QED
    BY <1>1, <1>2, <1>3, <1>6, <1>7 DEF FirstAuthority

\* "No duplicate ID assignments" (docs/SIMULATION.md): ids are unique while one
\* coordinator has handed out fewer than a uint8_t holds, whatever the wire
\* loses and however often members restart.
THEOREM IdsAreUnique == ASSUME DistinctNonces PROVE Spec => []UniqueIds
<1>1. Init => TypeOK /\ IdInv
    BY TypeInit, IdInvInit
<1>2. TypeOK /\ IdInv /\ [Next]_vars => TypeOK' /\ IdInv'
    <2> SUFFICES ASSUME TypeOK, IdInv, [Next]_vars PROVE TypeOK' /\ IdInv'
        OBVIOUS
    <2>1. TypeOK' /\ BackingInv'
        BY TypeStep, BackingStep DEF IdInv
    <2>2. NoncesDiffer'
        BY NoncesStep DEF IdInv
    <2>3. FirstAuthority'
        BY AuthorityStep DEF IdInv, BackingInv
    <2> QED
        BY <2>1, <2>2, <2>3 DEF IdInv
<1>3. TypeOK /\ IdInv => UniqueIds
    BY IdInvUnique
<1> QED
    BY <1>1, <1>2, <1>3, PTL DEF Spec

-----------------------------------------------------------------------------
(* One id per JOIN, until the dedup table has filled.                       *)

\* A node that may yet win starts with an empty table.
TablesStartEmpty ==
    \A n \in Nodes : pc[n] \in {"listen", "claim", "conflict"} => seen_count[n] = 0

\* Until then the coordinator's table is the history.
TableIsHistory ==
    (elections <= 1 /\ Len(ledger) <= MaxDedup) =>
        \A a \in Coordinators :
            /\ seen_count[a] = Len(ledger)
            /\ \A j \in 1 .. Len(ledger) : seen_join_nonce[a][j - 1] = ledger[j].nonce

DedupInv == TablesStartEmpty /\ TableIsHistory /\ OneIdPerJoin

LEMMA DedupInit == Init => DedupInv
<1> SUFFICES ASSUME Init PROVE DedupInv
    OBVIOUS
<1>1. TablesStartEmpty
    BY DEF Init, TablesStartEmpty
<1>2. Coordinators = {}
    BY DEF Init, Coordinators
<1>3. ledger = <<>> /\ Len(<<>>) = 0
    BY EmptySeq DEF Init
<1> QED
    BY <1>1, <1>2, <1>3 DEF DedupInv, TableIsHistory, OneIdPerJoin

LEMMA TablesStartEmptyStep ==
    ASSUME TypeOK, TablesStartEmpty, [Next]_vars
    PROVE  TablesStartEmpty'
<1> SUFFICES ASSUME NEW n \in Nodes, pc'[n] \in {"listen", "claim", "conflict"}
             PROVE  seen_count'[n] = 0
    BY DEF TablesStartEmpty
<1>1. CASE KeepsOwn(n)
    BY <1>1 DEF KeepsOwn, TablesStartEmpty
<1>2. CASE NodeBegin(n)
    BY <1>2 DEF NodeBegin, Begin, ListenRecv, ListenTimeout, SendClaim, ConflictYield,
                ConflictIgnore, ConflictTimeout, BecomeCoordinator, SendHello, SendJoin,
                TablesStartEmpty, TypeOK, coordVars
<1>3. CASE NodeService(n)
    BY <1>3 DEF NodeService, DefendClaim, AssignId, IgnoreDuplicateJoin, AcceptAssign,
                ServiceSkip, RetryJoin, RetryDue, Receiving
<1>4. CASE EnvStep(n)
    BY <1>4 DEF EnvStep, PowerOn, PowerOff, Lose, TablesStartEmpty, TypeOK, coordVars
<1> QED
    BY <1>1, <1>2, <1>3, <1>4, OwnStep DEF Step

\* What an assignment does to the table while it has room.
LEMMA AssignRecords ==
    ASSUME TypeOK, NEW n \in Nodes, AssignId(n), seen_count[n] < MaxDedup
    PROVE  /\ seen_count'[n] = seen_count[n] + 1
           /\ seen_join_nonce'[n][seen_count[n]] = Head(inbox[n]).nonce
           /\ \A i \in 0 .. (seen_count[n] - 1) :
                 seen_join_nonce'[n][i] = seen_join_nonce[n][i]
<1>0. seen_count[n] \in 0 .. MaxDedup /\ seen_join_nonce[n] \in [Slot -> AnyNonce]
    BY DEF TypeOK
<1>m. MaxDedup \in Nat
    BY DedupAssumption
<1>s. seen_count[n] \in Nat /\ seen_count[n] \in 0 .. (MaxDedup - 1)
    BY <1>0, <1>m
<1>1. seen_count[n] % MaxDedup = seen_count[n]
    BY <1>s, <1>m, SmallMod
<1>2. seen_count'[n] = seen_count[n] + 1
    BY <1>s DEF AssignId, RecordedCount, TypeOK
<1>3. seen_join_nonce'[n] =
        [seen_join_nonce[n] EXCEPT ![seen_count[n]] = Head(inbox[n]).nonce]
    BY <1>1 DEF AssignId, RecordedSlots, TypeOK
<1>4. seen_count[n] \in Slot
    BY <1>s DEF Slot
<1>5. \A i \in 0 .. (seen_count[n] - 1) : i \in Slot /\ i # seen_count[n]
    BY <1>s, <1>m DEF Slot
<1> QED
    BY <1>0, <1>2, <1>3, <1>4, <1>5

LEMMA DedupStep ==
    ASSUME TypeOK, RolesOfPhases, FirstAuthority, DedupInv, [Next]_vars
    PROVE  DedupInv'
<1>e. elections \in Nat /\ elections' \in Nat /\ elections <= elections'
    BY ElectionsGrow
<1>l. /\ Len(ledger) \in Nat /\ Len(ledger)' \in Nat
      /\ Len(ledger) <= Len(ledger)'
      /\ \A k \in 1 .. Len(ledger) : ledger'[k] = ledger[k]
    BY LedgerGrows
<1>n. \A a \in Coordinators : a \in Nodes
    BY DEF Coordinators
<1>u. elections <= 1 => \A a, b \in Coordinators : a = b
    BY DEF FirstAuthority
<1>d. MaxDedup \in Nat
    BY DedupAssumption
<1>1. TablesStartEmpty'
    BY TablesStartEmptyStep DEF DedupInv
<1>2. ASSUME NEW n \in Nodes, AssignId(n)
      PROVE  /\ n \in Coordinators
             /\ Len(ledger)' = Len(ledger) + 1
             /\ ledger'[Len(ledger) + 1].nonce = Head(inbox[n]).nonce
             /\ ~ Seen(seen_join_nonce[n], seen_count[n], Head(inbox[n]).nonce)
    <2>1. /\ Len(ledger)' = Len(ledger) + 1
          /\ ledger'[Len(ledger) + 1] = [id |-> next_assign_id[n],
                                         nonce |-> Head(inbox[n]).nonce]
        BY <1>2, AssignAppends
    <2>2. ledger'[Len(ledger) + 1].nonce = Head(inbox[n]).nonce
        BY <2>1
    <2>3. ~ Seen(seen_join_nonce[n], seen_count[n], Head(inbox[n]).nonce)
        BY <1>2 DEF AssignId
    <2> QED
        BY <1>2, <2>1, <2>2, <2>3, AssignerIsCoordinator
<1>3. TableIsHistory'
    <2> SUFFICES ASSUME elections' <= 1, Len(ledger)' <= MaxDedup, NEW a \in Coordinators'
                 PROVE  /\ seen_count'[a] = Len(ledger)'
                        /\ \A j \in 1 .. Len(ledger)' :
                              seen_join_nonce'[a][j - 1] = ledger'[j].nonce
        BY DEF TableIsHistory
    <2>1. CASE a \in Coordinators
        <3>0. /\ seen_count[a] = Len(ledger)
              /\ \A j \in 1 .. Len(ledger) : seen_join_nonce[a][j - 1] = ledger[j].nonce
            BY <1>e, <1>l, <1>d, <2>1 DEF DedupInv, TableIsHistory
        <3>1. CASE AssignId(a)
            <4>1. Len(ledger)' = Len(ledger) + 1 /\ seen_count[a] < MaxDedup
                BY <1>2, <1>l, <1>d, <1>n, <2>1, <3>0, <3>1
            <4>2. /\ seen_count'[a] = seen_count[a] + 1
                  /\ seen_join_nonce'[a][seen_count[a]] = Head(inbox[a]).nonce
                  /\ \A i \in 0 .. (seen_count[a] - 1) :
                        seen_join_nonce'[a][i] = seen_join_nonce[a][i]
                BY <1>n, <2>1, <3>1, <4>1, AssignRecords
            <4>3. ledger'[Len(ledger) + 1].nonce = Head(inbox[a]).nonce
                BY <1>2, <1>n, <2>1, <3>1
            <4>4. ASSUME NEW j \in 1 .. Len(ledger)'
                  PROVE  seen_join_nonce'[a][j - 1] = ledger'[j].nonce
                <5>1. CASE j = Len(ledger) + 1
                    BY <1>l, <3>0, <4>2, <4>3, <5>1
                <5>2. CASE j \in 1 .. Len(ledger)
                    <6>1. j - 1 \in 0 .. (seen_count[a] - 1)
                        BY <1>l, <3>0, <5>2
                    <6> QED
                        BY <1>l, <3>0, <4>2, <5>2, <6>1
                <5> QED
                    BY <1>l, <4>1, <5>1, <5>2
            <4> QED
                BY <3>0, <4>1, <4>2, <4>4
        <3>2. CASE ~ AssignId(a)
            <4>1. \A n \in Nodes : ~ AssignId(n)
                BY <1>2, <1>e, <1>u, <2>1, <3>2
            <4>2. UNCHANGED ledger
                BY <4>1, LedgerStep
            <4>3. seen_join_nonce'[a] = seen_join_nonce[a] /\ seen_count'[a] = seen_count[a]
                BY <2>1, <3>2, CoordinatorStep
            <4> QED
                BY <3>0, <4>2, <4>3
        <3> QED
            BY <3>1, <3>2
    <2>2. CASE a \in Nodes /\ Wins(a)
        <3>1. elections = 0 /\ UNCHANGED ledger /\ seen_count'[a] = seen_count[a]
            BY <1>e, <2>2 DEF Wins, BecomeCoordinator
        <3>2. ledger' = <<>> /\ Len(<<>>) = 0
            BY <3>1, EmptySeq DEF FirstAuthority
        <3>3. seen_count[a] = 0
            BY <2>2 DEF DedupInv, TablesStartEmpty, Wins
        <3> QED
            BY <3>1, <3>2, <3>3
    <2> QED
        BY <2>1, <2>2, ElectionStep
<1>4. OneIdPerJoin'
    <2> SUFFICES ASSUME elections' <= 1, Len(ledger)' <= MaxDedup + 1,
                        NEW j \in 1 .. Len(ledger)', NEW k \in 1 .. Len(ledger)',
                        ledger'[j].nonce = ledger'[k].nonce
                 PROVE  j = k
        BY DEF OneIdPerJoin
    <2>0. \A p, q \in 1 .. Len(ledger) : ledger[p].nonce = ledger[q].nonce => p = q
        BY <1>e, <1>l, <1>d DEF DedupInv, OneIdPerJoin
    <2>1. CASE UNCHANGED ledger
        BY <2>0, <2>1
    <2>2. ASSUME NEW n \in Nodes, AssignId(n)
          PROVE  j = k
        <3>1. /\ Len(ledger)' = Len(ledger) + 1
              /\ Len(ledger) <= MaxDedup
              /\ n \in Coordinators
            BY <1>2, <1>l, <1>d, <2>2
        <3>2. ASSUME NEW p \in 1 .. Len(ledger)
              PROVE  ledger'[p].nonce # ledger'[Len(ledger) + 1].nonce
            <4>1. /\ seen_count[n] = Len(ledger)
                  /\ seen_join_nonce[n][p - 1] = ledger[p].nonce
                BY <1>e, <3>1 DEF DedupInv, TableIsHistory
            <4>2. p - 1 \in 0 .. (seen_count[n] - 1)
                BY <1>l, <4>1
            <4>3. seen_join_nonce[n][p - 1] # Head(inbox[n]).nonce
                BY <1>2, <2>2, <4>2 DEF Seen
            <4> QED
                BY <1>2, <1>l, <2>2, <4>1, <4>3
        <3>3. /\ j \in 1 .. Len(ledger) \/ j = Len(ledger) + 1
              /\ k \in 1 .. Len(ledger) \/ k = Len(ledger) + 1
            BY <1>l, <3>1
        <3> QED
            BY <1>l, <2>0, <3>2, <3>3
    <2> QED
        BY <2>1, <2>2, LedgerStep
<1> QED
    BY <1>1, <1>3, <1>4 DEF DedupInv

\* Retransmitted JOINs use up no ids: one coordinator answers one nonce once
\* until its table has filled (coordinator_seen_nonce).
THEOREM OneAnswerPerJoin == Spec => []OneIdPerJoin
<1> DEFINE Inv == RolesOfPhases /\ FirstAuthority /\ DedupInv
<1>1. Init => TypeOK /\ Inv
    BY TypeInit, IdInvInit, DedupInit DEF IdInv, BackingInv
<1>2. TypeOK /\ Inv /\ [Next]_vars => TypeOK' /\ Inv'
    BY TypeStep, RolesStep, AuthorityStep, DedupStep
<1>3. Inv => OneIdPerJoin
    BY DEF DedupInv
<1> QED
    BY <1>1, <1>2, <1>3, PTL DEF Spec

-----------------------------------------------------------------------------
(* One register.                                                            *)

\* Every JOIN on its way carries a nonce that was drawn.
JoinsDrawn ==
    \A n \in Nodes : \A f \in Frames(n) : f.type = "JOIN" => f.nonce \in joinNonces

RegisterInv == IdInv /\ DedupInv /\ JoinsDrawn

LEMMA RegisterInit == Init => RegisterInv
<1> SUFFICES ASSUME Init PROVE RegisterInv
    OBVIOUS
<1>1. \A n \in Nodes : Frames(n) = {}
    BY EmptySeq DEF Init, Frames
<1> QED
    BY <1>1, IdInvInit, DedupInit DEF RegisterInv, JoinsDrawn

LEMMA JoinsDrawnStep ==
    ASSUME TypeOK, NoncesDiffer, JoinsDrawn, [Next]_vars
    PROVE  JoinsDrawn'
<1> SUFFICES ASSUME NEW m \in Nodes, NEW f \in Frames(m)', f.type = "JOIN"
             PROVE  f.nonce \in joinNonces'
    BY DEF JoinsDrawn
<1>1. CASE f \in Frames(m)
    BY <1>1, JoinNoncesStep DEF JoinsDrawn
<1>2. ASSUME NEW n \in Nodes, SendJoin(n), f = Join(join_nonce'[n])
      PROVE  f.nonce \in joinNonces'
    BY <1>2 DEF SendJoin, Join, make_frame, TypeOK
<1>3. ASSUME NEW n \in Nodes, RetryDue(n), f = Join(join_nonce[n])
      PROVE  f.nonce \in joinNonces'
    <2>1. join_nonce[n] \in joinNonces
        BY <1>3 DEF RetryDue, NoncesDiffer, Joined
    <2> QED
        BY <1>3, <2>1, JoinNoncesStep DEF Join, make_frame
<1> QED
    BY <1>1, <1>2, <1>3, FramesStep DEF Hello, Claim, Assign, make_frame

LEMMA RegisterInvStep ==
    ASSUME DistinctNonces, TypeOK, RegisterInv, [Next]_vars
    PROVE  RegisterInv'
<1>1. BackingInv' /\ RolesOfPhases
    BY BackingStep DEF RegisterInv, IdInv, BackingInv
<1>2. NoncesDiffer' /\ JoinsDrawn'
    BY NoncesStep, JoinsDrawnStep DEF RegisterInv, IdInv
<1>3. FirstAuthority' /\ DedupInv'
    BY <1>1, AuthorityStep, DedupStep DEF RegisterInv, IdInv
<1> QED
    BY <1>1, <1>2, <1>3 DEF RegisterInv, IdInv

\* Once it is out of order the register stays so.
LEMMA OrderEnds ==
    ASSUME TypeOK, RolesOfPhases, [Next]_vars, InOrder'
    PROVE  InOrder
<1>1. elections \in Nat /\ elections' \in Nat /\ elections <= elections'
    BY ElectionsGrow
<1>2. Len(ledger) \in Nat /\ Len(ledger)' \in Nat /\ Len(ledger) <= Len(ledger)'
    BY LedgerGrows
<1>3. elections' <= 1 /\ Len(ledger)' <= IdMod - 2 /\ Len(ledger)' <= MaxDedup + 1
    BY DEF InOrder, StableAuthority
<1>4. elections <= 1
    BY <1>1, <1>3
<1>5. Len(ledger) <= IdMod - 2 /\ Len(ledger) <= MaxDedup + 1
    BY <1>2, <1>3, ProtoAssumption, DedupAssumption
<1> QED
    BY <1>4, <1>5 DEF InOrder, StableAuthority

\* What the register shows of n.
KeepsEntry(n) == Application(n)' = Application(n) /\ HeldId(n)' = HeldId(n)

KeepsRegister == UNCHANGED <<elections, joinNonces, ledger>>

LEMMA OutsideEntry ==
    ASSUME NEW n \in Nodes, pc[n] # "service"
    PROVE  Application(n) = {} /\ HeldId(n) = 0
BY DEF Application, Joined, HeldId, Assigned, Coordinators, Members

LEMMA SameEntry ==
    ASSUME NEW n \in Nodes, KeepsOwn(n)
    PROVE  KeepsEntry(n)
BY DEF KeepsEntry, KeepsOwn, Application, Joined, HeldId, Assigned, Coordinators, Members

\* The steps of a node that the register shows.
Shows(n) ==
    \/ SendJoin(n) \/ Wins(n) \/ AssignId(n) \/ AcceptAssign(n)
    \/ PowerOff(n) /\ pc[n] = "service"

\* All others leave it as it is.
LEMMA HiddenStep ==
    ASSUME TypeOK, NEW n \in Nodes, Step(n) \/ EnvStep(n), ~ Shows(n)
    PROVE  KeepsEntry(n) /\ KeepsRegister
<1>o. ASSUME pc[n] # "service", pc'[n] # "service"
      PROVE  KeepsEntry(n)
    <2>1. (pc[n] # "service" => Application(n) = {} /\ HeldId(n) = 0)'
        BY OutsideEntry, PTL
    <2> QED
        BY <1>o, <2>1, OutsideEntry DEF KeepsEntry
<1>1. CASE NodeBegin(n)
    <2>1. pc[n] # "service" /\ pc'[n] # "service"
        BY <1>1 DEF NodeBegin, Begin, ListenRecv, ListenTimeout, SendClaim, ConflictYield,
                ConflictIgnore, ConflictTimeout, BecomeCoordinator, SendHello, Shows, Wins,
                TypeOK, idVars, coordVars
    <2>2. KeepsRegister
        BY <1>1 DEF NodeBegin, Begin, ListenRecv, ListenTimeout, SendClaim, ConflictYield,
                ConflictIgnore, ConflictTimeout, SendHello, Shows, Wins, KeepsRegister,
                electVars, coordVars, joinVars
    <2> QED
        BY <1>o, <2>1, <2>2
<1>2. CASE NodeService(n)
    <2>1. KeepsOwn(n)
        BY <1>2 DEF NodeService, DefendClaim, IgnoreDuplicateJoin, ServiceSkip, RetryJoin,
                Shows, KeepsOwn, electVars, idVars, coordVars, joinVars
    <2>2. KeepsRegister
        BY <1>2 DEF NodeService, DefendClaim, IgnoreDuplicateJoin, ServiceSkip, RetryJoin,
                Shows, KeepsRegister, electVars, idVars, coordVars, joinVars
    <2> QED
        BY <2>1, <2>2, SameEntry
<1>3. CASE PowerOn(n)
    BY <1>3, <1>o DEF PowerOn, TypeOK, KeepsRegister
<1>4. CASE PowerOff(n)
    BY <1>4, <1>o DEF PowerOff, TypeOK, KeepsRegister, Shows, electVars, coordVars, joinVars
<1>5. CASE Lose(n)
    BY <1>5, SameEntry
    DEF Lose, KeepsOwn, KeepsRegister, electVars, idVars, coordVars, joinVars
<1> QED
    BY <1>1, <1>2, <1>3, <1>4, <1>5 DEF Step, EnvStep

\* A step of n changes at most its own entry.
LEMMA OneEntry ==
    ASSUME TypeOK, NEW n \in Nodes, Step(n) \/ EnvStep(n)
    PROVE  /\ [m \in Nodes |-> Application(m)]'
                 = [[m \in Nodes |-> Application(m)] EXCEPT ![n] = Application(n)']
           /\ [m \in Nodes |-> HeldId(m)]'
                 = [[m \in Nodes |-> HeldId(m)] EXCEPT ![n] = HeldId(n)']
<1>1. \A m \in Nodes \ {n} : KeepsEntry(m)
    BY OthersKeep, SameEntry
<1> QED
    BY <1>1 DEF KeepsEntry

LEMMA RegisterStutters ==
    ASSUME \A n \in Nodes : KeepsEntry(n), KeepsRegister
    PROVE  UNCHANGED Registered!vars
<1>1. [n \in Nodes |-> Application(n)]' = [n \in Nodes |-> Application(n)]
    BY DEF KeepsEntry
<1>2. [n \in Nodes |-> HeldId(n)]' = [n \in Nodes |-> HeldId(n)]
    BY DEF KeepsEntry
<1>3. InOrder' = InOrder /\ Granted' = Granted
    BY DEF InOrder, StableAuthority, Granted, KeepsRegister
<1> QED
    BY <1>1, <1>2, <1>3 DEF Registered!vars, KeepsRegister

LEMMA SendJoinApplies ==
    ASSUME DistinctNonces, TypeOK, RolesOfPhases, NEW n \in Nodes, SendJoin(n)
    PROVE  Registered!Apply(n)
<1>1. PICK v \in JoinNonce :
        /\ v \notin joinNonces
        /\ join_nonce' = [join_nonce EXCEPT ![n] = v]
        /\ joinNonces' = joinNonces \cup {v}
    BY DEF SendJoin
<1>2. pc[n] = "join" /\ pc'[n] = "service" /\ role'[n] = "SEEKING" /\ join_nonce'[n] = v
    BY <1>1 DEF SendJoin, idVars, TypeOK, RolesOfPhases
<1>3. Application(n) = {} /\ HeldId(n) = 0
    BY <1>2, OutsideEntry
<1>4. Application(n)' = {v}
    BY <1>2 DEF Application, Joined, Coordinators
<1>5. HeldId(n)' = 0
    BY <1>2 DEF HeldId, Assigned, Coordinators, Members
<1>6. UNCHANGED <<elections, ledger>>
    BY DEF SendJoin, electVars, coordVars
<1> QED
    BY <1>1, <1>3, <1>4, <1>5, <1>6, OneEntry
    DEF Registered!Apply, Registered!Outside, Granted, Step, NodeBegin

LEMMA WinnerLeads ==
    ASSUME TypeOK, NEW n \in Nodes, Step(n), Wins(n), elections = 0
    PROVE  Registered!Lead(n)
<1>1. /\ pc[n] = "conflict" /\ pc'[n] = "service" /\ role'[n] = "COORDINATOR"
      /\ assigned_id'[n] = 1 /\ elections' = 1 /\ UNCHANGED ledger
    BY DEF Wins, BecomeCoordinator, TypeOK
<1>2. UNCHANGED joinNonces
    BY <1>1 DEF Step, NodeBegin, Begin, ListenRecv, ListenTimeout, SendClaim, ConflictYield,
                ConflictIgnore, ConflictTimeout, SendHello, SendJoin, NodeService,
                DefendClaim, AssignId, IgnoreDuplicateJoin, AcceptAssign, ServiceSkip,
                RetryJoin, RetryDue, Receiving, joinVars
<1>3. Application(n) = {} /\ HeldId(n) = 0
    BY <1>1, OutsideEntry
<1>4. Application(n)' = {} /\ HeldId(n)' = 1
    BY <1>1 DEF Application, Joined, HeldId, Assigned, Coordinators
<1>5. [m \in Nodes |-> Application(m)]' = [m \in Nodes |-> Application(m)]
    BY <1>3, <1>4, OneEntry
<1>6. [m \in Nodes |-> HeldId(m)]' = [[m \in Nodes |-> HeldId(m)] EXCEPT ![n] = 1]
    BY <1>4, OneEntry
<1> QED
    BY <1>1, <1>2, <1>3, <1>5, <1>6 DEF Registered!Lead, Registered!Outside, Granted

LEMMA GrantedType ==
    TypeOK => /\ Granted \in Seq(AnyNonce)
              /\ Len(Granted) = Len(ledger)
              /\ \A k \in 1 .. Len(ledger) : Granted[k] = ledger[k].nonce
<1> SUFFICES ASSUME TypeOK
             PROVE  /\ Granted \in Seq(AnyNonce)
                    /\ Len(Granted) = Len(ledger)
                    /\ \A k \in 1 .. Len(ledger) : Granted[k] = ledger[k].nonce
    OBVIOUS
<1>1. /\ Len(ledger) \in Nat
      /\ \A k \in 1 .. Len(ledger) : ledger[k] \in [id : Id, nonce : AnyNonce]
    <2>1. ledger \in Seq([id : Id, nonce : AnyNonce])
        BY DEF TypeOK
    <2> QED
        BY <2>1, LenProperties
<1>2. Granted \in [1 .. Len(ledger) -> AnyNonce]
    BY <1>1 DEF Granted
<1> QED
    BY <1>1, <1>2 DEF Granted

LEMMA AssignGrants ==
    ASSUME TypeOK, FirstAuthority, TableIsHistory, JoinsDrawn, NEW n \in Nodes, AssignId(n),
           elections <= 1, Len(ledger) <= MaxDedup
    PROVE  Registered!Grant(n)
<1> DEFINE nonce == Head(inbox[n]).nonce
<1>1. n \in Coordinators
    BY AssignerIsCoordinator
<1>2. /\ Len(ledger) \in Nat /\ Len(ledger)' = Len(ledger) + 1
      /\ ledger'[Len(ledger) + 1] = [id |-> next_assign_id[n], nonce |-> nonce]
      /\ \A k \in 1 .. Len(ledger) : ledger'[k] = ledger[k]
    BY AssignAppends
<1>3. nonce \in joinNonces
    <2>1. Head(inbox[n]) \in Frames(n)
        BY TypeBus, PoppedFrames DEF AssignId, Receiving
    <2> QED
        BY <2>1 DEF AssignId, Receiving, JoinsDrawn
<1>4. ASSUME NEW k \in 1 .. Len(ledger)
      PROVE  ledger[k].nonce # nonce
    <2>1. seen_count[n] = Len(ledger) /\ seen_join_nonce[n][k - 1] = ledger[k].nonce
        BY <1>1 DEF TableIsHistory
    <2>2. k - 1 \in 0 .. (seen_count[n] - 1)
        BY <1>2, <2>1
    <2>3. ~ Seen(seen_join_nonce[n], seen_count[n], nonce)
        BY DEF AssignId
    <2> QED
        BY <2>1, <2>2, <2>3 DEF Seen
<1>5. Granted' = Append(Granted, nonce)
    <2>1. ledger'[Len(ledger) + 1].nonce = nonce
        BY <1>2
    <2>2. /\ Granted \in Seq(AnyNonce) /\ Len(Granted) = Len(ledger)
          /\ \A k \in 1 .. Len(ledger) : Granted[k] = ledger[k].nonce
        BY GrantedType
    <2>3. (TypeOK => /\ Granted \in Seq(AnyNonce) /\ Len(Granted) = Len(ledger)
                     /\ \A k \in 1 .. Len(ledger) : Granted[k] = ledger[k].nonce)'
        BY GrantedType, PTL
    <2>4. nonce \in AnyNonce
        BY TypeBus, PoppedType DEF AssignId, Receiving, Frame
    <2>5. /\ Append(Granted, nonce) \in Seq(AnyNonce)
          /\ Len(Append(Granted, nonce)) = Len(ledger) + 1
          /\ \A k \in 1 .. Len(ledger) : Append(Granted, nonce)[k] = ledger[k].nonce
          /\ Append(Granted, nonce)[Len(ledger) + 1] = nonce
        BY <2>2, <2>4, AppendProperties
    <2>6. TypeOK'
        BY TypeStep DEF Next, Step, NodeService
    <2>7. \A k \in 1 .. (Len(ledger) + 1) : Granted'[k] = Append(Granted, nonce)[k]
        BY <1>2, <2>1, <2>3, <2>5, <2>6
    <2> QED
        BY <1>2, <2>3, <2>5, <2>6, <2>7, SeqEqual
<1>6. Len(Granted) = Len(ledger) /\ \A k \in 1 .. Len(ledger) : Granted[k] = ledger[k].nonce
    BY GrantedType
<1>7. UNCHANGED <<pc, role, assigned_id, join_nonce, joinNonces, elections>>
    BY DEF AssignId, electVars, idVars, joinVars
<1>8. /\ [m \in Nodes |-> Application(m)]' = [m \in Nodes |-> Application(m)]
      /\ [m \in Nodes |-> HeldId(m)]' = [m \in Nodes |-> HeldId(m)]
    BY <1>7 DEF Application, Joined, HeldId, Assigned, Coordinators, Members
<1>9. HeldId(n) = 1
    BY <1>1 DEF HeldId, Assigned, FirstAuthority
<1> QED
    BY <1>3, <1>4, <1>5, <1>6, <1>7, <1>8, <1>9 DEF Registered!Grant

LEMMA AcceptTakes ==
    ASSUME TypeOK, AssignsBacked, FirstAuthority, StableAuthority,
           NEW n \in Nodes, AcceptAssign(n)
    PROVE  Registered!Take(n)
<1>1. /\ Head(inbox[n]).type = "ASSIGN" /\ Head(inbox[n]).nonce = join_nonce[n]
      /\ pc[n] = "service" /\ role[n] = "SEEKING"
      /\ pc'[n] = "service" /\ role'[n] = "MEMBER"
      /\ assigned_id'[n] = Head(inbox[n]).id /\ join_nonce'[n] = join_nonce[n]
    BY DEF AcceptAssign, Receiving, ForMe, joinVars, TypeOK
<1>2. Head(inbox[n]) \in Frames(n)
    BY TypeBus, PoppedFrames DEF AcceptAssign, Receiving
<1>3. PICK k \in 1 .. Len(ledger) :
            ledger[k] = [id |-> Head(inbox[n]).id, nonce |-> join_nonce[n]]
    BY <1>1, <1>2 DEF AssignsBacked, InLedger
<1>4. Head(inbox[n]).id = k + 1
    BY <1>3 DEF FirstAuthority
<1>5. Len(Granted) = Len(ledger) /\ Granted[k] = join_nonce[n]
    BY <1>3, LenProperties DEF Granted, TypeOK
<1>6. /\ Application(n) = {join_nonce[n]} /\ HeldId(n) = 0
      /\ Application(n)' = {join_nonce[n]} /\ HeldId(n)' = k + 1
    BY <1>1, <1>4 DEF Application, Joined, HeldId, Assigned, Coordinators, Members
<1>7. UNCHANGED <<elections, joinNonces, ledger>>
    BY DEF AcceptAssign, electVars, coordVars, joinVars
<1>8. [m \in Nodes |-> Application(m)]' = [m \in Nodes |-> Application(m)]
    BY <1>6, OneEntry DEF Step, NodeService
<1>9. [m \in Nodes |-> HeldId(m)]' = [[m \in Nodes |-> HeldId(m)] EXCEPT ![n] = k + 1]
    BY <1>6, OneEntry DEF Step, NodeService
<1>10. Granted' = Granted
    BY <1>7 DEF Granted
<1> QED
    BY <1>5, <1>6, <1>7, <1>8, <1>9, <1>10 DEF Registered!Take

LEMMA PowerOffLeaves ==
    ASSUME TypeOK, FirstAuthority, NEW n \in Nodes, PowerOff(n), pc[n] = "service"
    PROVE  Registered!Leave(n)
<1>1. pc'[n] = "off"
    BY DEF PowerOff, TypeOK
<1>2. (pc[n] # "service" => Application(n) = {} /\ HeldId(n) = 0)'
    BY OutsideEntry, PTL
<1>3. Application(n) # {} \/ HeldId(n) # 0
    BY DEF Application, Joined, HeldId, Assigned, Coordinators, FirstAuthority
<1>4. UNCHANGED <<elections, joinNonces, ledger>>
    BY DEF PowerOff, electVars, coordVars, joinVars
<1>5. [m \in Nodes |-> Application(m)]'
         = [[m \in Nodes |-> Application(m)] EXCEPT ![n] = {}]
    BY <1>1, <1>2, OneEntry DEF EnvStep
<1>6. [m \in Nodes |-> HeldId(m)]' = [[m \in Nodes |-> HeldId(m)] EXCEPT ![n] = 0]
    BY <1>1, <1>2, OneEntry DEF EnvStep
<1>7. Granted' = Granted
    BY <1>4 DEF Granted
<1> QED
    BY <1>3, <1>4, <1>5, <1>6, <1>7 DEF Registered!Leave, Registered!Outside

\* Every step of the boards is a step of the register or leaves it alone.
LEMMA RegisterStep ==
    ASSUME DistinctNonces, TypeOK, RegisterInv, [Next]_vars
    PROVE  [Registered!Next]_(Registered!vars)
<1>1. /\ RolesOfPhases /\ AssignsBacked /\ FirstAuthority /\ TableIsHistory
      /\ NoncesDiffer /\ JoinsDrawn
    BY DEF RegisterInv, IdInv, BackingInv, DedupInv
<1>2. CASE ~ InOrder'
    <2>1. Registered!FallApart
        BY <1>2 DEF Registered!FallApart, InOrder, StableAuthority
    <2> QED
        BY <2>1 DEF Registered!Next
<1>3. CASE InOrder'
    <2>1. InOrder' = InOrder
        BY <1>1, <1>3, OrderEnds DEF InOrder, StableAuthority
    <2>2. StableAuthority /\ elections <= 1 /\ elections' <= 1 /\ Len(ledger)' <= MaxDedup + 1
        BY <1>3, <2>1 DEF InOrder, StableAuthority
    <2>3. ASSUME NEW n \in Nodes, Step(n) \/ EnvStep(n), Shows(n)
          PROVE  Registered!Next
        <3>1. CASE SendJoin(n)
            <4>1. Registered!Apply(n)
                BY <1>1, <3>1, SendJoinApplies
            <4> QED
                BY <2>1, <4>1 DEF Registered!Next
        <3>2. CASE Wins(n) /\ Step(n)
            <4>1. elections = 0
                BY <2>2, <3>2 DEF Wins, BecomeCoordinator, TypeOK
            <4>2. Registered!Lead(n)
                BY <3>2, <4>1, WinnerLeads
            <4> QED
                BY <2>1, <4>2 DEF Registered!Next
        <3>3. CASE AssignId(n)
            <4>1. Len(ledger) <= MaxDedup
                <5>1. Len(ledger)' = Len(ledger) + 1 /\ Len(ledger) \in Nat
                    BY <3>3, AssignAppends
                <5> QED
                    BY <2>2, <5>1, DedupAssumption
            <4>2. Registered!Grant(n)
                BY <1>1, <2>2, <3>3, <4>1, AssignGrants
            <4> QED
                BY <2>1, <4>2 DEF Registered!Next
        <3>4. CASE AcceptAssign(n)
            <4>1. Registered!Take(n)
                BY <1>1, <2>2, <3>4, AcceptTakes
            <4> QED
                BY <2>1, <4>1 DEF Registered!Next
        <3>5. CASE PowerOff(n) /\ pc[n] = "service"
            <4>1. Registered!Leave(n)
                BY <1>1, <3>5, PowerOffLeaves
            <4> QED
                BY <2>1, <4>1 DEF Registered!Next
        <3>6. ASSUME EnvStep(n) PROVE ~ Wins(n)
            BY <3>6 DEF EnvStep, PowerOn, PowerOff, Lose, Wins, BecomeCoordinator, TypeOK
        <3> QED
            BY <2>3, <3>1, <3>2, <3>3, <3>4, <3>5, <3>6 DEF Shows
    <2>4. ASSUME NEW n \in Nodes, Step(n) \/ EnvStep(n), ~ Shows(n)
          PROVE  UNCHANGED Registered!vars
        <3>1. KeepsEntry(n) /\ KeepsRegister
            BY <2>4, HiddenStep
        <3>2. \A m \in Nodes : KeepsEntry(m)
            BY <2>4, <3>1, OthersKeep, SameEntry
        <3> QED
            BY <3>1, <3>2, RegisterStutters
    <2>5. CASE Tick \/ UNCHANGED vars
        <3>1. UNCHANGED <<pc, role, assigned_id, join_nonce>> /\ KeepsRegister
            BY <2>5 DEF Tick, vars, KeepsRegister, idVars, electVars, coordVars, joinVars
        <3>2. \A n \in Nodes : KeepsEntry(n)
            BY <3>1
            DEF KeepsEntry, Application, Joined, HeldId, Assigned, Coordinators, Members
        <3> QED
            BY <3>1, <3>2, RegisterStutters
    <2> QED
        BY <2>3, <2>4, <2>5 DEF Next, EnvStep
<1> QED
    BY <1>2, <1>3

\* The boards keep one register: each JOIN is answered at most once, the k-th
\* answer carries id k + 1, and only the board that asked takes it, for any number
\* of boards, any losses and delays and power cycles of any of them (node.c, Phases
\* 4 and 5 and node_service).
THEOREM BoardsKeepOneRegister == ASSUME DistinctNonces PROVE Spec => OneRegister
<1>1. Init => TypeOK /\ RegisterInv /\ Registered!Init
    <2> SUFFICES ASSUME Init PROVE Registered!Init
        BY TypeInit, RegisterInit
    <2>1. \A n \in Nodes : pc[n] # "service"
        BY DEF Init
    <2>2. \A n \in Nodes : Application(n) = {} /\ HeldId(n) = 0
        BY <2>1, OutsideEntry
    <2>3. ledger = <<>> /\ Len(<<>>) = 0 /\ elections = 0 /\ joinNonces = {}
        BY EmptySeq DEF Init
    <2>4. InOrder
        BY <2>3, ProtoAssumption, DedupAssumption DEF InOrder, StableAuthority
    <2>5. Granted = <<>>
        BY <2>3 DEF Granted
    <2> QED
        BY <2>2, <2>3, <2>4, <2>5 DEF Registered!Init
<1>2. TypeOK /\ RegisterInv /\ [Next]_vars => TypeOK' /\ RegisterInv'
    BY TypeStep, RegisterInvStep
<1>3. TypeOK /\ RegisterInv /\ [Next]_vars => [Registered!Next]_(Registered!vars)
    BY RegisterStep
<1> QED
    BY <1>1, <1>2, <1>3, PTL DEF Spec, OneRegister, Registered!Spec

-----------------------------------------------------------------------------
(* No answer is lost on its way.                                            *)

\* Only JOINs that were sent have been answered.
AnswersDrawn == \A k \in 1 .. Len(ledger) : ledger[k].nonce \in joinNonces

AnswerInv == RolesOfPhases /\ NoncesDiffer /\ JoinsDrawn /\ AnswersDrawn /\ AnswersArrive

LEMMA AnswerInit == Init => AnswerInv
<1> SUFFICES ASSUME Init PROVE AnswerInv
    OBVIOUS
<1>1. ledger = <<>> /\ Len(<<>>) = 0
    BY EmptySeq DEF Init
<1>2. RolesOfPhases /\ NoncesDiffer /\ JoinsDrawn
    BY IdInvInit, RegisterInit DEF IdInv, BackingInv, RegisterInv
<1> QED
    BY <1>1, <1>2 DEF AnswerInv, AnswersDrawn, AnswersArrive

LEMMA AnswersDrawnStep ==
    ASSUME TypeOK, JoinsDrawn, AnswersDrawn, [Next]_vars
    PROVE  AnswersDrawn'
<1>1. joinNonces \subseteq joinNonces'
    BY JoinNoncesStep
<1>2. CASE UNCHANGED ledger
    BY <1>1, <1>2 DEF AnswersDrawn
<1>3. ASSUME NEW c \in Nodes, AssignId(c)
      PROVE  AnswersDrawn'
    <2>1. /\ Len(ledger) \in Nat /\ Len(ledger)' = Len(ledger) + 1
          /\ ledger'[Len(ledger) + 1] = [id |-> next_assign_id[c],
                                         nonce |-> Head(inbox[c]).nonce]
          /\ \A k \in 1 .. Len(ledger) : ledger'[k] = ledger[k]
        BY <1>3, AssignAppends
    <2>2. ledger'[Len(ledger) + 1].nonce = Head(inbox[c]).nonce
        BY <2>1
    <2>3. Head(inbox[c]) \in Frames(c) /\ Head(inbox[c]).type = "JOIN"
        BY <1>3, TypeBus, PoppedFrames DEF AssignId, Receiving
    <2>4. Head(inbox[c]).nonce \in joinNonces
        BY <2>3 DEF JoinsDrawn
    <2>5. \A k \in 1 .. Len(ledger)' : k \in 1 .. Len(ledger) \/ k = Len(ledger) + 1
        BY <2>1
    <2> QED
        BY <1>1, <2>1, <2>2, <2>4, <2>5 DEF AnswersDrawn
<1> QED
    BY <1>2, <1>3, LedgerStep

\* The ASSIGN for a seeking node stays until the node takes it.
LEMMA AnswerStays ==
    ASSUME TypeOK, [Next]_vars, Reliable', NEW n \in Nodes,
           pc[n] = "service", role[n] = "SEEKING", pc'[n] = "service", role'[n] = "SEEKING",
           NEW f \in Frames(n), f.type = "ASSIGN", f.nonce = join_nonce[n]
    PROVE  f \in Frames(n)'
<1>b. BusOK /\ ~ overflowed' /\ losses' = 0 /\ join_nonce[n] \in AnyNonce
    BY TypeBus DEF Reliable, TypeOK, AnyNonce
<1>1. CASE UNCHANGED inbox
    BY <1>1 DEF Frames
<1>2. ASSUME NEW p \in Nodes, p # n, Step(p) \/ EnvStep(p)
      PROVE  f \in Frames(n)'
    BY <1>2, <1>b, OthersFrames DEF EnvStep
<1>3. CASE ServiceSkip(n)
    <2>1. inbox[n] # <<>> /\ f # Head(inbox[n])
        BY <1>3 DEF ServiceSkip, ForMe
    <2>2. CASE Consume(n)
        BY <1>b, <2>1, <2>2, ConsumeKeeps
    <2>3. CASE Broadcast(n, Popped(n), Join(join_nonce[n]))
        BY <1>b, <2>1, <2>3, AnswerKeeps, FramesType
    <2> QED
        BY <1>3, <2>2, <2>3 DEF ServiceSkip
<1>4. CASE RetryJoin(n)
    BY <1>4, <1>b, SendKeeps, FramesType DEF RetryJoin
<1>5. CASE Step(n)
    BY <1>5, <1>3, <1>4
    DEF Step, NodeBegin, NodeService, Begin, ListenRecv, ListenTimeout, SendClaim,
        ConflictYield, ConflictIgnore, ConflictTimeout, SendHello, SendJoin, DefendClaim,
        AssignId, IgnoreDuplicateJoin, AcceptAssign, TypeOK
<1>6. ~ EnvStep(n)
    BY <1>b, NodeAssumption DEF EnvStep, PowerOn, PowerOff, Lose, TypeOK
<1> QED
    BY <1>1, <1>2, <1>5, <1>6 DEF Next, EnvStep, Tick, vars, busVars

LEMMA AnswersArriveStep ==
    ASSUME DistinctNonces, TypeOK, AnswerInv, [Next]_vars
    PROVE  AnswersArrive'
<1> SUFFICES ASSUME Reliable', NEW n \in Nodes, NEW k \in 1 .. Len(ledger)',
                    pc'[n] = "service", role'[n] = "SEEKING",
                    ledger'[k].nonce = join_nonce'[n]
             PROVE  Assign(ledger'[k].id, join_nonce'[n]) \in Frames(n)'
    BY DEF AnswersArrive
<1>1. Reliable /\ ~ overflowed'
    BY ReliableBefore
<1>2. ~ SendJoin(n)
    <2> SUFFICES ASSUME SendJoin(n) PROVE FALSE
        OBVIOUS
    <2>1. join_nonce'[n] \notin joinNonces /\ UNCHANGED ledger
        BY DEF SendJoin, TypeOK, coordVars
    <2> QED
        BY <2>1 DEF AnswerInv, AnswersDrawn
<1>3. pc[n] = "service" /\ role[n] = "SEEKING" /\ join_nonce'[n] = join_nonce[n]
    <2>1. Joined(n) /\ join_nonce'[n] = join_nonce[n]
        BY <1>2, JoinedStep DEF Joined
    <2>2. role[n] # "MEMBER"
        BY <2>1, AssignedKeeps DEF Assigned, Members, Joined
    <2> QED
        BY <2>1, <2>2 DEF Joined, TypeOK, Role
<1>4. CASE k \in 1 .. Len(ledger)
    <2>1. ledger'[k] = ledger[k]
        BY <1>4, LedgerGrows
    <2>2. Assign(ledger[k].id, join_nonce[n]) \in Frames(n)
        BY <1>1, <1>3, <1>4, <2>1 DEF AnswerInv, AnswersArrive
    <2> QED
        BY <1>3, <2>1, <2>2, AnswerStays DEF Assign, make_frame
<1>5. ASSUME NEW c \in Nodes, AssignId(c), k = Len(ledger) + 1
      PROVE  Assign(ledger'[k].id, join_nonce'[n]) \in Frames(n)'
    <2>1. ledger'[k] = [id |-> next_assign_id[c], nonce |-> Head(inbox[c]).nonce]
        BY <1>5, AssignAppends
    <2>2. ledger'[k].id = next_assign_id[c] /\ Head(inbox[c]).nonce = join_nonce'[n]
        BY <2>1
    <2>3. /\ inbox[c] # <<>> /\ c # n
          /\ Broadcast(c, Popped(c), Assign(next_assign_id[c], Head(inbox[c]).nonce))
        BY <1>3, <1>5 DEF AssignId, Receiving
    <2>4. Assign(next_assign_id[c], Head(inbox[c]).nonce) \in Frame
        <3>1. Head(inbox[c]) \in Frame
            BY <2>3, TypeBus, PoppedType
        <3>2. Head(inbox[c]).nonce \in AnyNonce /\ next_assign_id[c] \in Id
            BY <3>1 DEF Frame, TypeOK
        <3> QED
            BY <3>2, FramesType
    <2> QED
        BY <1>1, <1>3, <2>2, <2>3, <2>4, TypeBus, AnswerKeeps DEF Powered
<1>6. \/ k \in 1 .. Len(ledger)
      \/ k = Len(ledger) + 1 /\ \E c \in Nodes : AssignId(c)
    <2>1. CASE UNCHANGED ledger
        BY <2>1
    <2>2. ASSUME NEW c \in Nodes, AssignId(c)
          PROVE  k \in 1 .. Len(ledger) \/ k = Len(ledger) + 1
        <3>1. Len(ledger) \in Nat /\ Len(ledger)' = Len(ledger) + 1
            BY <2>2, AssignAppends
        <3> QED
            BY <3>1
    <2> QED
        BY <2>1, <2>2, LedgerStep
<1> QED
    BY <1>4, <1>5, <1>6

\* As long as every frame arrives, a JOIN that was answered has its ASSIGN waiting
\* for the board that asked, whoever else joins, restarts or is elected meanwhile
\* (node_service: a known JOIN gets no second answer).
THEOREM AnswersAlwaysArrive == ASSUME DistinctNonces PROVE Spec => []AnswersArrive
<1>1. TypeOK /\ AnswerInv /\ [Next]_vars => TypeOK' /\ AnswerInv'
    <2> SUFFICES ASSUME TypeOK, AnswerInv, [Next]_vars PROVE TypeOK' /\ AnswerInv'
        OBVIOUS
    <2>1. TypeOK' /\ RolesOfPhases' /\ NoncesDiffer'
        BY TypeStep, RolesStep, NoncesStep DEF AnswerInv
    <2>2. JoinsDrawn' /\ AnswersDrawn'
        BY JoinsDrawnStep, AnswersDrawnStep DEF AnswerInv
    <2> QED
        BY <2>1, <2>2, AnswersArriveStep DEF AnswerInv
<1>2. AnswerInv => AnswersArrive
    BY DEF AnswerInv
<1> QED
    BY <1>1, <1>2, TypeInit, AnswerInit, PTL DEF Spec
=============================================================================
