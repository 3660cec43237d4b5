---------------------------- MODULE FrameChannel ----------------------------
(***************************************************************************)
(* What a serial link promises the node above it.  While the link is sound *)
(* frames are handed over whole, in order, each exactly once; a disturbance*)
(* cancels that promise for what is under way, and the link may become     *)
(* sound again with any later frame.                                       *)
(***************************************************************************)
EXTENDS Sequences

CONSTANT Frames    \* frames that may be sent

VARIABLES
    sound,    \* the promise holds
    owed,     \* frames sent under the promise and not handed over yet
    got       \* what the last bus_recv handed over: <<>> or <<frame>>

vars == <<sound, owed, got>>

Init == sound = FALSE /\ owed = <<>> /\ got = <<>>

Send(f) ==
    /\ sound' \in {sound, TRUE}
    /\ owed' = IF sound' THEN Append(owed, f) ELSE owed
    /\ UNCHANGED got

\* What was under way may be lost; the receiver itself may have restarted.
Disturb == sound' = FALSE /\ owed' = <<>> /\ got' \in {got, <<>>}

\* The next bus_recv begins.
Call == got # <<>> /\ got' = <<>> /\ UNCHANGED <<sound, owed>>

Deliver ==
    /\ got = <<>>
    /\ owed # <<>>
    /\ got' = <<Head(owed)>>
    /\ owed' = Tail(owed)
    /\ UNCHANGED sound

\* A link that is not sound may hand over what its validation lets through.
DeliverAnything == ~sound /\ got = <<>> /\ got' # <<>> /\ UNCHANGED <<sound, owed>>

Next ==
    \/ \E f \in Frames : Send(f)
    \/ Disturb \/ Call \/ Deliver \/ DeliverAnything

\* Nothing but the above happens.
Safety == Init /\ [][Next]_vars

\* What is owed is delivered, and somebody keeps calling bus_recv.
Fairness == WF_vars(Deliver) /\ WF_vars(Call)

Spec == Safety /\ Fairness
=============================================================================
