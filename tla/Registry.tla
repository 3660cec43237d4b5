------------------------------ MODULE Registry ------------------------------
(***************************************************************************)
(* What the boards together amount to, as one thing: a register of         *)
(* applications.  Each application is submitted once, by one board; it is  *)
(* granted at most once, and the k-th one granted carries id k + 1; only   *)
(* its board takes that id, and keeps it until it is switched off.  The    *)
(* first board to lead takes id 1 and grants; no second one leads.         *)
(*                                                                         *)
(* No frames, queues, retries or clocks: how an application reaches the    *)
(* leader and the grant reaches its board is what node.c is about.  The    *)
(* register holds while it is in order, and promises nothing afterwards.   *)
(***************************************************************************)
EXTENDS Sequences, Naturals

CONSTANTS Boards, Applications

VARIABLES
    inOrder,       \* the register still promises something
    led,           \* some board has become leader
    application,   \* of each board that has submitted one: {it}, else {}
    submitted,     \* all applications so far
    granted,       \* those granted, in order
    id             \* of each board that has one, else 0

vars == <<inOrder, led, application, submitted, granted, id>>

Init ==
    /\ inOrder = TRUE
    /\ led = FALSE
    /\ application = [b \in Boards |-> {}]
    /\ submitted = {}
    /\ granted = <<>>
    /\ id = [b \in Boards |-> 0]

Outside(b) == application[b] = {} /\ id[b] = 0

Apply(b) ==
    /\ Outside(b)
    /\ \E a \in Applications \ submitted :
          /\ application' = [application EXCEPT ![b] = {a}]
          /\ submitted' = submitted \cup {a}
    /\ UNCHANGED <<led, granted, id>>

Lead(b) ==
    /\ Outside(b)
    /\ ~ led
    /\ led' = TRUE
    /\ id' = [id EXCEPT ![b] = 1]
    /\ UNCHANGED <<application, submitted, granted>>

\* Leader b grants one of the applications that are still open.
Grant(b) ==
    /\ id[b] = 1
    /\ \E a \in submitted :
          /\ \A k \in 1 .. Len(granted) : granted[k] # a
          /\ granted' = Append(granted, a)
    /\ UNCHANGED <<led, application, submitted, id>>

Take(b) ==
    /\ id[b] = 0
    /\ \E k \in 1 .. Len(granted) :
          /\ application[b] = {granted[k]}
          /\ id' = [id EXCEPT ![b] = k + 1]
    /\ UNCHANGED <<led, application, submitted, granted>>

Leave(b) ==
    /\ ~ Outside(b)
    /\ application' = [application EXCEPT ![b] = {}]
    /\ id' = [id EXCEPT ![b] = 0]
    /\ UNCHANGED <<led, submitted, granted>>

\* A second leader, or more grants than there are ids or than are remembered.
FallApart == inOrder' = FALSE

Next ==
    \/ /\ UNCHANGED inOrder
       /\ \E b \in Boards : Apply(b) \/ Lead(b) \/ Grant(b) \/ Take(b) \/ Leave(b)
    \/ FallApart

Spec == Init /\ [][Next]_vars
=============================================================================
