--------------------------- MODULE NodeProperties ---------------------------
(***************************************************************************)
(* What the state machine of Node promises.                                *)
(***************************************************************************)
EXTENDS Node

\* Every variable keeps its shape: ids stay uint8_t, queues stay within their
\* capacity, the dedup table and its counter within NODE_MAX_DEDUP.
TypeOK ==
    /\ pc \in [Nodes -> Phase]
    /\ role \in [Nodes -> Role]
    /\ assigned_id \in [Nodes -> Id]
    /\ random_nonce \in [Nodes -> ClaimNonce \cup {0}]
    /\ next_assign_id \in [Nodes -> Id]
    /\ seen_join_nonce \in [Nodes -> [Slot -> AnyNonce]]
    /\ seen_count \in [Nodes -> 0 .. MaxDedup]
    /\ join_nonce \in [Nodes -> JoinNonce \cup {0}]
    /\ timer \in [Nodes -> Nat]
    /\ inbox \in [Nodes -> Seq(Frame)]
    /\ \A n \in Nodes : Len(inbox[n]) <= Capacity
    /\ overflowed \in BOOLEAN
    /\ losses \in 0 .. MaxLosses
    /\ powerOffs \in 0 .. MaxPowerOffs
    /\ claimNonces \subseteq ClaimNonce
    /\ joinNonces \subseteq JoinNonce
    /\ ledger \in Seq([id : Id, nonce : AnyNonce])
    /\ elections \in Nat

Frames(n) == {inbox[n][k] : k \in 1 .. Len(inbox[n])}

\* No frame has been lost, on the wire or in a full queue.
Reliable == losses = 0 /\ ~ overflowed

-----------------------------------------------------------------------------
(* Election.                                                               *)

\* "Never more than one coordinator" (docs/SIMULATION.md), as long as no frame
\* is lost: whoever wins its conflict window (node.c, Phases 2-4) is alone.
SingleCoordinator == Reliable => \A a, b \in Coordinators : a = b

\* The incumbent is never overtaken: while there is a coordinator, another
\* claimant is still at the very start of its window, and either its CLAIM is
\* waiting for the coordinator or the defence is waiting for the claimant
\* (node.c, "COORDINATOR always defends its position").
IncumbentDefends ==
    Reliable =>
        \A a \in Coordinators, b \in Nodes \ Coordinators :
            pc[b] = "conflict" =>
                /\ timer[b] = CONFLICT
                /\ \/ Claim(0, random_nonce[b]) \in Frames(a)
                   \/ Claim(1, random_nonce[a]) \in Frames(b)

\* Nobody gives way to nobody: if some node has abandoned the election to join
\* (Phase 5), then some node is coordinator or can still become it.  Boards
\* that are switched off may take the claim they made with them.
SomeoneLeads ==
    (powerOffs = 0 /\ \E n \in Nodes : pc[n] \in {"hello", "join", "service"}) =>
        \E n \in Nodes : pc[n] = "conflict" \/ n \in Coordinators

\* "Tie-break: if two claim at once, higher random nonce wins" (README.md):
\* until there is a coordinator, a claimant gives way only while a node with a
\* higher nonce is still claiming.  The node whose CLAIM it heard may itself have
\* given way by then, but only to a still higher one (Phase 3).
HighestNonceWins ==
    [][\A a \in Nodes :
          pc[a] = "conflict" /\ pc'[a] = "hello" /\ Coordinators = {} /\ powerOffs = 0 =>
             \E b \in Nodes : pc[b] = "conflict" /\ random_nonce[b] > random_nonce[a]]_vars

-----------------------------------------------------------------------------
(* Ids.                                                                     *)

\* Nodes that hold an id.
Assigned == Coordinators \cup Members

\* One coordinator so far, and it has not run out of ids: the counter has not
\* wrapped past IdMod - 1.
StableAuthority == elections <= 1 /\ Len(ledger) <= IdMod - 2

\* "No duplicate ID assignments" (docs/SIMULATION.md): however frames are
\* delayed or lost and members restarted, two nodes never hold one id while a
\* single coordinator hands out fewer ids than a uint8_t has.
UniqueIds ==
    StableAuthority =>
        \A a, b \in Assigned : assigned_id[a] = assigned_id[b] => a = b

\* A member's id was handed out for the JOIN of its current life: an ASSIGN
\* meant for another node, or for this board before a reset, is not taken
\* (node.c, "Verify this ASSIGN is for us").
MembersWereAssigned ==
    \A n \in Members :
        \E k \in 1 .. Len(ledger) :
            ledger[k] = [id |-> assigned_id[n], nonce |-> join_nonce[n]]

\* Retransmitted JOINs do not use up ids: one coordinator answers one nonce
\* once, until its table has filled (coordinator_seen_nonce).
OneIdPerJoin ==
    (elections <= 1 /\ Len(ledger) <= MaxDedup + 1) =>
        \A j, k \in 1 .. Len(ledger) : ledger[j].nonce = ledger[k].nonce => j = k

\* An answer is not lost on its way: as long as every frame arrives, the ASSIGN for
\* the JOIN of a node that still seeks is waiting for that node.  (A coordinator
\* answers once only, so nobody would send it again.)
AnswersArrive ==
    Reliable =>
        \A n \in Nodes, k \in 1 .. Len(ledger) :
            (/\ pc[n] = "service" /\ role[n] = "SEEKING"
             /\ ledger[k].nonce = join_nonce[n]) =>
                Assign(ledger[k].id, join_nonce[n]) \in Frames(n)

\* A node that has a role keeps it, with its id, until it loses power (node.h,
\* "Once a role is assigned, it typically doesn't change").
RoleStable ==
    [][\A n \in Assigned :
          pc'[n] # "off" =>
             /\ pc'[n] = "service"
             /\ role'[n] = role[n]
             /\ assigned_id'[n] = assigned_id[n]]_vars

-----------------------------------------------------------------------------
(* The boards as a whole.                                                   *)

\* Nothing has happened yet that the promises about ids exclude.
InOrder == StableAuthority /\ Len(ledger) <= MaxDedup + 1

\* n has sent its first JOIN and has not been switched off since.
Joined(n) == pc[n] = "service" /\ role[n] # "COORDINATOR"

Application(n) == IF Joined(n) THEN {join_nonce[n]} ELSE {}

\* The JOINs that were answered, in order.
Granted == [k \in 1 .. Len(ledger) |-> ledger[k].nonce]

HeldId(n) == IF n \in Assigned THEN assigned_id[n] ELSE 0

Registered == INSTANCE Registry WITH
    Boards <- Nodes,
    Applications <- JoinNonce,
    inOrder <- InOrder,
    led <- elections > 0,
    application <- [n \in Nodes |-> Application(n)],
    submitted <- joinNonces,
    granted <- Granted,
    id <- [n \in Nodes |-> HeldId(n)]

\* All boards together keep one register: whatever is lost, repeated or switched
\* off, each JOIN is answered at most once, the k-th answer carries id k + 1, and
\* it makes a member of the board that asked and of no other (node.c, Phases 4 and
\* 5 and node_service).
OneRegister == Registered!Spec

-----------------------------------------------------------------------------
(* Progress.                                                                *)

\* "All nodes eventually reach stable states" (docs/SIMULATION.md): whenever and
\* however often boards were reset on the way, once all of them stay powered each
\* becomes coordinator or member, and stays it.
EveryoneSettles ==
    (\A n \in Nodes : <>[]Powered(n)) => \A n \in Nodes : <>[](n \in Assigned)

\* The bus falls silent about the election once it is decided.  On a bus that
\* echoes this needs every late node to hear the first CLAIM: a coordinator that
\* has defended itself once answers its own answers (node.c, node_service).
ClaimInFlight == \E n \in Nodes, s \in {0, 1}, v \in ClaimNonce : Claim(s, v) \in Frames(n)

ClaimsCease == <>[] ~ ClaimInFlight
=============================================================================
