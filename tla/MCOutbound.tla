----------------------------- MODULE MCOutbound -----------------------------
(***************************************************************************)
(* TLC instances of Outbound: two direct sends to the same peer, and one   *)
(* send of each kind.                                                      *)
(***************************************************************************)
EXTENDS Outbound, TLC

CONSTANTS d1, d2, ch1, peer1, slot1

SamePeer == (d1 :> peer1) @@ (d2 :> peer1)
Mixed    == (d1 :> peer1) @@ (ch1 :> slot1)
=============================================================================
