--------------------------- MODULE MessageStates ---------------------------
(***************************************************************************)
(* The life of an outbound message row: DeliveryState and the table of     *)
(* transitions that Store.transition_outbound (daemon/src/meshpincer/      *)
(* store.py) accepts.                                                      *)
(***************************************************************************)

OutboundStates == {"queued", "transmitted", "acknowledged", "timed_out", "failed"}

\* The table `allowed` of transition_outbound.
Allowed(state) ==
  CASE state = "queued"      -> {"transmitted", "failed"}
    [] state = "transmitted" -> {"acknowledged", "timed_out", "failed"}
    [] OTHER                 -> {}
=============================================================================
