--------------------------- MODULE MCRepeaterAdmin ---------------------------
(***************************************************************************)
(* TLC instances of RepeaterAdmin: pairs of requests that share a repeater *)
(* or a cooldown.  No symmetry: the run checks liveness.                   *)
(***************************************************************************)
EXTENDS RepeaterAdmin, TLC

CONSTANTS r1, r2, p1, p2, v1, v2

Op(kind, peer, value) == [kind |-> kind, peer |-> peer, value |-> value]
Pair(one, two)        == (r1 :> one) @@ (r2 :> two)

\* One attempt per exchange.
Single ==
  [plan : {Pair(Op("configure", p1, v1), Op("configure", p1, v2)),
           Pair(Op("configure", p1, v1), Op("update_acl", p2, v1)),
           Pair(Op("update_acl", p1, v1), Op("update_acl", p1, v2)),
           Pair(Op("read_config", p1, v1), Op("read_config", p1, v1)),
           Pair(Op("login", p1, v1), Op("login", p1, v1)),
           Pair(Op("login", p1, v1), Op("login", p2, v1)),
           Pair(Op("status", p1, v1), Op("read_acl", p1, v1))},
   attempts : {1}]

AclBesideStatus == Pair(Op("update_acl", p1, v1), Op("status", p2, v1))

\* Repeated attempts, whose packets get in each other's way.
Repeated == [plan : {AclBesideStatus}, attempts : {2}]

Various == Single \cup Repeated
AclOnly == [plan : {AclBesideStatus}, attempts : {1}]
=============================================================================
