---------------------------- MODULE RepeaterAdmin ----------------------------
(***************************************************************************)
(* Administration of remote repeaters: the HTTP handlers under             *)
(* /v1/repeaters (daemon/src/meshpincer/app.py), the operations of         *)
(* RadioManager behind them and the request/reply exchanges of             *)
(* MeshCoreBackend (radio.py).                                             *)
(*                                                                         *)
(* A request leaves as one or more packets over a mesh that delays, loses  *)
(* and reorders packets and replies: either may stay in flight for ever,   *)
(* and outlives the request, its timeout and the daemon.  A repeater has   *)
(* two registers, the advert interval and one companion's permission.      *)
(* A step is the code between two suspension points.  Whether the radio is *)
(* connected and the contact known is RadioSession's concern and is        *)
(* nondeterministic here.  Values the HTTP models refuse never arrive.     *)
(***************************************************************************)
EXTENDS Integers, FiniteSets, Sequences

CONSTANTS
  Requests,        \* HTTP requests
  Peers,           \* public keys of repeaters
  Values,          \* what a register may hold
  Flagged,         \* permissions above 3: RepeaterAclUpdateResult has no room for them
  Setups,          \* what the requests may ask for, with the setting
                   \* repeater_command_max_attempts: records of plan and attempts
  GlobalCooldown,  \* repeater_*_global_cooldown_seconds
  PeerCooldown,    \* repeater_*_peer_cooldown_seconds
  ClockBound,      \* bound of the model: ticks
  TroubleBound,    \* bound of the model: commands and appends that fail, commands a
                   \* repeater refuses, restarts, changes by another administrator
  CollisionBound   \* bound of the model: one-byte tags drawn twice

VARIABLES
  plan,      \* what each request asks for
  setting,   \* repeater_command_max_attempts
  task,      \* each request's coroutine
  lock,      \* _operation_lock: owner first, then the waiters
  uses,      \* the _last_repeater_* time stamps
  clock,
  packets,   \* on their way to a repeater
  replies,   \* on their way back
  register,  \* the repeaters' settings
  journal,   \* the last audit event of each request
  troubles,  \* history: how many of these there were
  collided   \* history: tags drawn twice

vars == <<plan, setting, task, lock, uses, clock, packets, replies, register, journal,
          troubles, collided>>

-----------------------------------------------------------------------------
Kinds == {"configure", "update_acl", "read_config", "read_acl", "status", "login"}
Ops   == [kind : Kinds, peer : Peers, value : Values \ Flagged]

ASSUME SetupsAssumption ==
  \A s \in Setups : s.plan \in [Requests -> Ops] /\ s.attempts \in Int

ASSUME CooldownAssumption == GlobalCooldown \in Nat /\ PeerCooldown \in Nat

\* A value is not one of the other answers.
ASSUME ValuesAssumption ==
  /\ Flagged \subseteq Values
  /\ Values \cap {"OK", "refused", "report", "granted", "none"} = {}

\* The exchanges an operation is made of.
Exchanges(kind) ==
  CASE kind = "configure"   -> <<"get", "set", "get">>
    [] kind = "update_acl"  -> <<"query", "set", "query">>
    [] kind = "read_config" -> <<"get">>
    [] kind = "read_acl"    -> <<"query">>
    [] kind = "status"      -> <<"status">>
    [] kind = "login"       -> <<"login">>

Cli       == {"get", "set"}
Mutations == {"configure", "update_acl"}

\* Both mutations share one cooldown, every other operation has its own.
Class(kind) == IF kind \in Mutations THEN "mutation" ELSE kind

\* bounded_attempts; only CLI exchanges are repeated
Attempts(verb) ==
  IF verb \notin Cli \/ setting < 1 THEN 1 ELSE IF setting > 3 THEN 3 ELSE setting

Outcomes == {"succeeded", "failed", "rejected", "limited", "denied", "timed_out"}
Ids      == [by : Requests, step : 1..3, attempt : 1..3]
Packet   == [id : Ids, tag : Ids]
Says     == Values \cup {"OK", "refused", "report", "granted"}
Never    == -1

TaskRec == [pc : {"new", "queued", "asking", "pausing", "recording", "done", "dead"},
            step : 1..3, attempt : 1..3, tag : Ids,
            writes : 0..3,                    \* write_attempts
            outcome : Outcomes \cup {"none"},
            reply : Outcomes \cup {"none", "error"},
            result : Says \cup {"none"},      \* what a read reports
            started : Int,                    \* history: when, or Never
            past : BOOLEAN,                   \* history: in an earlier life of the daemon
            seen : SUBSET Values,             \* history: what its register held since
            mistook : 0..3,                   \* history: replies taken by a tag drawn twice
            foreign : BOOLEAN]                \* history: took another request's reply

Fresh(r) == [by |-> r, step |-> 1, attempt |-> 1]

New(r) == [pc |-> "new", step |-> 1, attempt |-> 1, tag |-> Fresh(r), writes |-> 0,
           outcome |-> "none", reply |-> "none", result |-> "none", started |-> Never,
           past |-> FALSE, seen |-> {}, mistook |-> 0, foreign |-> FALSE]

TypeOK ==
  /\ plan \in [Requests -> Ops]
  /\ setting \in Int
  /\ task \in [Requests -> TaskRec]
  /\ lock \in Seq(Requests)
  /\ uses \subseteq [class : {Class(k) : k \in Kinds}, peer : Peers, at : Nat]
  /\ packets \subseteq Packet
  /\ replies \subseteq [to : Packet, says : Says]
  /\ register \in [Peers \X {"interval", "permission"} -> Values]
  /\ journal \in [Requests -> Outcomes \cup {"none", "requested"}]
  /\ {clock, troubles, collided} \subseteq Nat

Init ==
  /\ \E s \in Setups : plan = s.plan /\ setting = s.attempts
  /\ task = [r \in Requests |-> New(r)]
  /\ lock = << >>
  /\ uses = {}
  /\ clock = 0
  /\ packets = {}
  /\ replies = {}
  /\ \E v \in Values :
       register = [x \in Peers \X {"interval", "permission"} |-> v]
  /\ journal = [r \in Requests |-> "none"]
  /\ troubles = 0
  /\ collided = 0

-----------------------------------------------------------------------------
Owns(r)    == lock # << >> /\ Head(lock) = r
Verb(r)    == Exchanges(plan[r].kind)[task[r].step]
Current(r) == [by |-> r, step |-> task[r].step, attempt |-> task[r].attempt]

VerbOf(pk) == Exchanges(plan[pk.id.by].kind)[pk.id.step]
PeerOf(pk) == plan[pk.id.by].peer

Trouble == troubles < TroubleBound /\ troubles' = troubles + 1

\* The register a request is about.
Place(r) ==
  <<plan[r].peer,
    IF plan[r].kind \in {"configure", "read_config"} THEN "interval" ELSE "permission">>

\* Tags a packet of request r may carry: one of its own, or by chance that of
\* a packet or reply still under way to or from the same repeater.
Tags(r, id) ==
  {id} \cup IF collided < CollisionBound
              THEN {pk.tag : pk \in {q \in packets \cup {y.to : y \in replies} :
                                       VerbOf(q) \in Cli /\ PeerOf(q) = plan[r].peer}}
              ELSE {}

\* Request r, its task now t, sends the packet of its step and attempt.
Send(r, t) ==
  LET id == [by |-> r, step |-> t.step, attempt |-> t.attempt]
  IN  \E tag \in IF Exchanges(plan[r].kind)[t.step] \in Cli THEN Tags(r, id) ELSE {id} :
        /\ task' = [task EXCEPT ![r] = [t EXCEPT !.pc = "asking", !.tag = tag]]
        /\ packets' = packets \cup {[id |-> id, tag |-> tag]}
        /\ collided' = collided + (IF tag = id THEN 0 ELSE 1)

\* The operation, its task now t, is over; leaving it releases the lock.
Conclude(r, t, outcome) ==
  /\ task' = [task EXCEPT ![r] = [t EXCEPT !.pc = "recording", !.outcome = outcome,
                                           !.tag = Fresh(r)]]
  /\ lock' = Tail(lock)
  /\ UNCHANGED <<packets, collided>>

-----------------------------------------------------------------------------
(* HTTP handlers: all six have this shape *)

\* Mutant: the handler leaves all journalling to the end.
ArriveSilently(r) ==
  /\ task[r].pc = "new"
  /\ task' = [task EXCEPT ![r].pc = "queued"]
  /\ lock' = Append(lock, r)
  /\ UNCHANGED <<plan, setting, uses, clock, packets, replies, register, journal,
                 collided, troubles>>

\* The audit event first, then a place in the queue for the lock.
Arrive(r) ==
  /\ task[r].pc = "new"
  /\ journal' = [journal EXCEPT ![r] = "requested"]
  /\ task' = [task EXCEPT ![r].pc = "queued"]
  /\ lock' = Append(lock, r)
  /\ UNCHANGED <<plan, setting, uses, clock, packets, replies, register, collided,
                 troubles>>

\* The outcome is recorded and told.
Record(r) ==
  /\ task[r].pc = "recording"
  /\ journal' = [journal EXCEPT ![r] = task[r].outcome]
  /\ task' = [task EXCEPT ![r].pc = "done", ![r].reply = task[r].outcome]
  /\ UNCHANGED <<plan, setting, lock, uses, clock, packets, replies, register,
                 collided, troubles>>

\* An append raises and the request is answered with 500: before anything was
\* done, or after everything was.
RecordFails(r) ==
  /\ task[r].pc \in {"new", "recording"}
  /\ Trouble
  /\ task' = [task EXCEPT ![r].pc = "done", ![r].reply = "error"]
  /\ UNCHANGED <<plan, setting, lock, uses, clock, packets, replies, register,
                 journal, collided>>

-----------------------------------------------------------------------------
(* RadioManager: admission *)

\* Mutant: a mutation looks only at its own repeater.
CoolingPeerOnly(op) ==
  \E u \in uses :
    u.class = Class(op.kind) /\ u.peer = op.peer /\ clock < u.at + PeerCooldown

\* Of the time stamps of a class the latest decides, so all may be kept.
Cooling(op) ==
  \E u \in uses :
    /\ u.class = Class(op.kind)
    /\ \/ clock < u.at + GlobalCooldown
       \/ u.peer = op.peer /\ clock < u.at + PeerCooldown

\* The checks under the lock: not connected, not a known repeater (or the
\* companion's own ACL entry), cooling down.
Decline(r) ==
  /\ task[r].pc = "queued"
  /\ Owns(r)
  /\ \E outcome \in {"failed", "rejected"} \cup (IF Cooling(plan[r]) THEN {"limited"} ELSE {}) :
       Conclude(r, task[r], outcome)
  /\ UNCHANGED <<plan, setting, uses, clock, replies, register, journal, troubles>>

\* The cooldown starts before the first packet leaves, whatever becomes of it.
Begin(r) ==
  /\ task[r].pc = "queued"
  /\ Owns(r)
  /\ ~Cooling(plan[r])
  /\ uses' = uses \cup {[class |-> Class(plan[r].kind), peer |-> plan[r].peer, at |-> clock]}
  /\ Send(r, [task[r] EXCEPT !.started = clock,
                             !.seen = {register[Place(r)]}])
  /\ UNCHANGED <<plan, setting, lock, clock, replies, register, journal, troubles>>

-----------------------------------------------------------------------------
(* RadioManager: what an answer leads to, the next exchange or an outcome *)

\* _parse_repeater_integer
Integer(says) == says \in Values

\* get, set, get
ConfigureAfter(r, says) ==
  CASE task[r].step = 1 -> IF Integer(says) THEN "next" ELSE "failed"
    [] task[r].step = 2 -> IF says = "OK" THEN "next" ELSE "failed"
    [] task[r].step = 3 -> IF says = plan[r].value THEN "succeeded" ELSE "failed"

\* query, setperm, query; building the result raises ValidationError, a
\* ValueError, if the permission before was above 3.
AclUpdateAfter(r, says) ==
  CASE task[r].step = 1 -> "next"
    [] task[r].step = 2 -> IF says = "OK" THEN "next" ELSE "failed"
    [] task[r].step = 3 -> IF says # plan[r].value THEN "failed"
                           ELSE IF task[r].result \in Flagged THEN "rejected" ELSE "succeeded"

ConfigReadAfter(says) == IF Integer(says) THEN "succeeded" ELSE "failed"
AclReadAfter(says)    == "succeeded"
StatusAfter(says)     == "succeeded"
LoginAfter(says)      == IF says = "granted" THEN "succeeded" ELSE "denied"

After(r, says) ==
  CASE plan[r].kind = "configure"   -> ConfigureAfter(r, says)
    [] plan[r].kind = "update_acl"  -> AclUpdateAfter(r, says)
    [] plan[r].kind = "read_config" -> ConfigReadAfter(says)
    [] plan[r].kind = "read_acl"    -> AclReadAfter(says)
    [] plan[r].kind = "status"      -> StatusAfter(says)
    [] plan[r].kind = "login"       -> LoginAfter(says)

-----------------------------------------------------------------------------
(* MeshCoreBackend: exchanges *)

\* Mutant: the reply's tag is not compared.
CliMatchesPeer(r, y) == VerbOf(y.to) \in Cli /\ PeerOf(y.to) = plan[r].peer

\* run_repeater_command takes a CLI reply of its repeater that begins with its
\* tag, whatever the command was.
CliMatches(r, y) == VerbOf(y.to) \in Cli /\ PeerOf(y.to) = plan[r].peer /\ y.to.tag = task[r].tag

\* Mutant: any repeater's answer will do.
PeerMatchesAny(r, y) == VerbOf(y.to) = Verb(r)

\* request_repeater_status and login_repeater go by the repeater alone.
PeerMatches(r, y) == VerbOf(y.to) = Verb(r) /\ PeerOf(y.to) = plan[r].peer

Matches(r, y) ==
  CASE Verb(r) \in Cli                 -> CliMatches(r, y)
    [] Verb(r) \in {"status", "login"} -> PeerMatches(r, y)
    [] Verb(r) = "query"               -> y.to.id = Current(r)

\* Mutant: write_attempts is the count of the last exchange.
HeardLast(r, y) ==
  [task[r] EXCEPT
     !.writes  = task[r].attempt,
     !.result  = IF Verb(r) = "set" THEN @ ELSE y.says,
     !.mistook = @ + (IF y.to.id # Current(r) /\ y.to.tag = task[r].tag THEN 1 ELSE 0),
     !.foreign = @ \/ y.to.id.by # r]

\* The task of r after reply y: what a write reports, what a read returns.
Heard(r, y) ==
  [task[r] EXCEPT
     !.writes  = IF Verb(r) = "set" THEN task[r].attempt ELSE @,
     !.result  = IF Verb(r) = "set" THEN @ ELSE y.says,
     !.mistook = @ + (IF y.to.id # Current(r) /\ y.to.tag = task[r].tag THEN 1 ELSE 0),
     !.foreign = @ \/ y.to.id.by # r]

Answered(r, y) ==
  /\ task[r].pc = "asking"
  /\ y \in replies
  /\ Matches(r, y)
  /\ replies' = replies \ {y}
  /\ IF After(r, y.says) = "next"
       THEN /\ Send(r, [Heard(r, y) EXCEPT !.step = @ + 1, !.attempt = 1])
            /\ UNCHANGED lock
       ELSE Conclude(r, Heard(r, y), After(r, y.says))
  /\ UNCHANGED <<plan, setting, uses, clock, register, journal, troubles>>

\* Mutant: an exchange is repeated for as long as it takes.
TimeOutForever(r) ==
  /\ task[r].pc = "asking"
  /\ IF Verb(r) \in Cli
       THEN /\ task' = [task EXCEPT ![r].pc = "pausing", ![r].tag = Fresh(r)]
            /\ UNCHANGED <<lock, packets, collided>>
       ELSE Conclude(r, task[r], "timed_out")
  /\ UNCHANGED <<plan, setting, uses, clock, replies, register, journal, troubles>>

\* A CLI exchange pauses before the next attempt; a reply that comes in the
\* pause completes a future that nobody looks at again.
TimeOut(r) ==
  /\ task[r].pc = "asking"
  /\ IF task[r].attempt < Attempts(Verb(r))
       THEN /\ task' = [task EXCEPT ![r].pc = "pausing", ![r].tag = Fresh(r)]
            /\ UNCHANGED <<lock, packets, collided>>
       ELSE Conclude(r, task[r], "timed_out")
  /\ UNCHANGED <<plan, setting, uses, clock, replies, register, journal, troubles>>

\* A new attempt has a new tag.
Retry(r) ==
  /\ task[r].pc = "pausing"
  /\ Send(r, [task[r] EXCEPT !.attempt = @ + 1])
  /\ UNCHANGED <<plan, setting, lock, uses, clock, replies, register, journal,
                 troubles>>

\* Mutant: the lock is not released when a command raises.
CommandFailsLocked(r) ==
  /\ task[r].pc = "asking"
  /\ Trouble
  /\ task' = [task EXCEPT ![r].pc = "recording", ![r].outcome = "failed"]
  /\ UNCHANGED <<plan, setting, lock, packets, uses, clock, replies, register,
                 journal, collided>>

\* The companion refuses the command, or its answer is lost after the packet
\* left: an error that is not a timeout of the exchange.
CommandFails(r) ==
  /\ task[r].pc = "asking"
  /\ Trouble
  /\ task' = [task EXCEPT ![r].pc = "recording", ![r].outcome = "failed", ![r].tag = Fresh(r)]
  /\ lock' = Tail(lock)
  /\ packets' \in {packets, {pk \in packets : pk.id # Current(r)}}
  /\ UNCHANGED <<plan, setting, uses, clock, replies, register, journal, collided>>

-----------------------------------------------------------------------------
(* The repeaters and the mesh *)

Busy(r) == task[r].pc \in {"asking", "pausing"}

\* The registers become new; requests at work have seen it.
Becomes(new) ==
  /\ register' = new
  /\ task' = [r \in Requests |->
                IF Busy(r) THEN [task[r] EXCEPT !.seen = @ \cup {new[Place(r)]}] ELSE task[r]]

Respond(pk, says) == replies' = replies \cup {[to |-> pk, says |-> says]}

\* A packet arrives, once: repeated transmissions of it are suppressed.
Execute(pk) ==
  LET r == pk.id.by
  IN  /\ pk \in packets
      /\ packets' = packets \ {pk}
      /\ \/ /\ VerbOf(pk) = "set"
            /\ UNCHANGED troubles
            /\ Becomes([register EXCEPT ![Place(r)] = plan[r].value])
            /\ Respond(pk, "OK")
         \/ /\ VerbOf(pk) \in {"get", "query"}
            /\ Respond(pk, register[Place(r)])
            /\ UNCHANGED <<register, task, troubles>>
         \/ /\ VerbOf(pk) = "status"
            /\ Respond(pk, "report")
            /\ UNCHANGED <<register, task, troubles>>
         \/ /\ VerbOf(pk) = "login"
            /\ \E says \in {"granted", "refused"} : Respond(pk, says)
            /\ UNCHANGED <<register, task, troubles>>
         \/ /\ VerbOf(pk) \in Cli      \* not an administrator, or an error
            /\ Trouble
            /\ Respond(pk, "refused")
            /\ UNCHANGED <<register, task>>
      /\ UNCHANGED <<plan, setting, lock, uses, clock, journal, collided>>

\* Somebody else administers the repeater as well.
OtherAdmin(p, v) ==
  /\ Trouble
  /\ \E r \in Requests : /\ plan[r].peer = p
                         /\ register[Place(r)] # v
                         /\ Becomes([register EXCEPT ![Place(r)] = v])
  /\ UNCHANGED <<plan, setting, lock, uses, clock, packets, replies, journal, collided>>

\* The daemon dies and starts again; packets and replies stay on their way.
Restart ==
  /\ Trouble
  /\ task' = [r \in Requests |->
                IF task[r].pc \in {"new", "done", "dead"}
                  THEN [task[r] EXCEPT !.past = @ \/ task[r].started # Never]
                  ELSE [task[r] EXCEPT !.pc = "dead", !.tag = Fresh(r), !.past = TRUE]]
  /\ lock' = << >>
  /\ uses' = {}
  /\ UNCHANGED <<plan, setting, clock, packets, replies, register, journal, collided>>

Tick ==
  /\ clock < ClockBound
  /\ clock' = clock + 1
  /\ UNCHANGED <<plan, setting, task, lock, uses, packets, replies, register, journal,
                 collided, troubles>>

-----------------------------------------------------------------------------
Answers(r) == \E y \in replies : Answered(r, y)

Proceed(r) ==
  \/ Record(r) \/ RecordFails(r) \/ Decline(r) \/ Begin(r)
  \/ Answers(r) \/ TimeOut(r) \/ Retry(r) \/ CommandFails(r)

Next ==
  \/ \E r \in Requests : Arrive(r) \/ Proceed(r)
  \/ \E pk \in packets : Execute(pk)
  \/ \E p \in Peers, v \in Values : OtherAdmin(p, v)
  \/ Restart \/ Tick

Spec == Init /\ [][Next]_vars

\* Coroutines that can go on do; every exchange has a timeout.  Nothing is
\* asked of the mesh or the repeaters.
LiveSpec == Spec /\ \A r \in Requests : WF_vars(Proceed(r))

-----------------------------------------------------------------------------
(* Properties *)

Succeeded(r, kinds) == task[r].outcome = "succeeded" /\ plan[r].kind \in kinds

\* "verified" is true: a mutation reported as successful was in force at the
\* repeater while the request was at work, although packets and replies of other
\* requests and attempts are about and tags have one byte.  It takes two
\* replies to wrong commands to be deceived.  A value read was in force during
\* the read, unless its tag was drawn twice.
VerifiedMeansHeld ==
  \A r \in Requests :
    /\ Succeeded(r, Mutations) /\ task[r].mistook <= 1 => plan[r].value \in task[r].seen
    /\ Succeeded(r, {"read_config", "read_acl"}) /\ task[r].mistook = 0 =>
         task[r].result \in task[r].seen

\* What the journal says of a request survives a crash and is what its caller
\* was told; nothing was sent that the journal does not know of, and nothing at
\* all if the request was answered with 422 or 429, a permission above 3 apart:
\* that one is found out at the end.
TrailTellsTheTruth ==
  \A r \in Requests :
    /\ task[r].outcome \in {"rejected", "limited"} =>
         task[r].started = Never \/ (Flagged # {} /\ task[r].step = 3)
    /\ task[r].reply \in Outcomes => journal[r] = task[r].reply
    /\ task[r].started # Never => journal[r] # "none"

\* Within one life of the daemon two operations of a class start GlobalCooldown
\* apart and to one repeater PeerCooldown, whether they succeed or not.
CooldownsHold ==
  \A q, r \in Requests :
    /\ q # r /\ task[q].started # Never /\ task[q].started <= task[r].started
    /\ ~task[q].past /\ ~task[r].past
    /\ Class(plan[q].kind) = Class(plan[r].kind)
    => /\ task[r].started >= task[q].started + GlobalCooldown
       /\ plan[q].peer = plan[r].peer => task[r].started >= task[q].started + PeerCooldown

\* Login answers carry no tag.  A request is told of another's login only if a
\* login to that repeater was given up before: timed out, failed or lost with
\* the daemon.
LoginAnswersOwn ==
  \A r \in Requests :
    plan[r].kind = "login" /\ task[r].foreign =>
      \E q \in Requests \ {r} :
        /\ plan[q].kind = "login" /\ plan[q].peer = plan[r].peer
        /\ task[q].pc = "dead" \/ task[q].outcome \in {"timed_out", "failed"}

\* A setting changes after its request has reported success only if the
\* request said that it wrote more than once, or was deceived by a tag.
LateWritesWereAnnounced ==
  [][\A pk \in packets :
       pk \notin packets' /\ register'[Place(pk.id.by)] # register[Place(pk.id.by)]
       /\ task[pk.id.by].outcome = "succeeded"
       => task[pk.id.by].writes > 1 \/ task[pk.id.by].mistook > 0]_vars

\* "SQLite records repeater operations and verified outcomes" (SPEC.md:107-113): a
\* mutation whose read-back shows the value asked for is a success.
VerifiedOutcomesRecorded ==
  [][\A r \in Requests :
       /\ task[r].pc = "asking" /\ plan[r].kind \in Mutations /\ task[r].step = 3
       /\ \E y \in replies \ replies' : Matches(r, y) /\ y.says = plan[r].value
       => task'[r].outcome = "succeeded"]_vars

\* A request that arrived is answered or lost with the daemon, although every
\* packet and reply may be lost.
RequestsAnswered ==
  \A r \in Requests : task[r].pc = "queued" ~> task[r].pc \in {"done", "dead"}
=============================================================================
