------------------------------- MODULE MCUart -------------------------------
(***************************************************************************)
(* Frames and disturbances for TLC.  The ASSIGN is chosen so that its      *)
(* payload contains a SOF followed by bytes that pass for a whole frame.   *)
(***************************************************************************)
EXTENDS UartBus

Hello == [type |-> 1, source |-> 0, payload |-> <<>>]
Assign == [type |-> 4, source |-> 1,
           payload |-> <<SOF>> \o u32_to_bytes(33619971)]

TwoFrames == {Hello, Assign}

\* A false SOF, an impossible length, and small lengths.
Disturbed == {SOF, 9, 1}
=============================================================================
