--------------------------- MODULE MCRadioSession ---------------------------
(***************************************************************************)
(* TLC instance of RadioSession.  No symmetry: the run checks liveness,    *)
(* and the two requests have different menus.                              *)
(***************************************************************************)
EXTENDS RadioSession, TLC

CONSTANTS a, b, k1, s1, public

Op(kind, on) == [kind |-> kind, on |-> on]

\* The second request adds a contact or fills a slot; the first changes what is
\* there, or the mask, or sends an advert.
Menus ==
  a :> ([kind : {"remove", "zero_hop", "flood"}, on : {k1}]
          \cup [kind : {"rename", "clear"}, on : {s1}] \cup SettingOps
          \cup {Op("clear", public)})
  @@ b :> {Op("upsert", k1), Op("set", s1)}

\* To begin with, the contact is unknown or has a path.
MCInit == Init /\ companion.contacts[k1] # "flood"
MCSpec == MCInit /\ [][Next]_vars /\ Fairness
=============================================================================
