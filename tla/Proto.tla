------------------------------- MODULE Proto -------------------------------
(***************************************************************************)
(* The frames of the protocol, at the level node.c handles them: a message *)
(* type, the source id, and the payload already decoded.  A CLAIM or JOIN  *)
(* payload is one 32-bit nonce; an ASSIGN payload is the assigned id and   *)
(* the echoed JOIN nonce; a HELLO has none.  A field a type does not carry *)
(* is 0, as make_frame's memset leaves it.                                 *)
(***************************************************************************)
EXTENDS Naturals

CONSTANTS
    ClaimNonce,   \* what hal_random32() may return as an election nonce
    JoinNonce,    \* what hal_random32() may return as a JOIN nonce
    IdMod         \* ids are uint8_t: 256 in the code

\* Election nonces are compared with >, JOIN nonces only with ==.
ASSUME ProtoAssumption ==
    /\ ClaimNonce \subseteq Nat
    /\ IdMod \in Nat
    /\ IdMod > 2

MessageType == {"HELLO", "CLAIM", "JOIN", "ASSIGN"}

Id == 0 .. (IdMod - 1)

AnyNonce == ClaimNonce \cup JoinNonce \cup {0}

Frame == [type : MessageType, source : {0, 1}, nonce : AnyNonce, id : Id]

make_frame(type, source, nonce, id) ==
    [type |-> type, source |-> source, nonce |-> nonce, id |-> id]

Hello == make_frame("HELLO", 0, 0, 0)
Claim(source, nonce) == make_frame("CLAIM", source, nonce, 0)
Join(nonce) == make_frame("JOIN", 0, nonce, 0)
Assign(id, nonce) == make_frame("ASSIGN", 1, nonce, id)
=============================================================================
