------------------------------ MODULE Outbound ------------------------------
(***************************************************************************)
(* One outbound message from its HTTP request to its last delivery state:  *)
(* the handlers send_direct and send_channel of daemon/src/meshpincer/     *)
(* app.py, the policy and cooldowns of RadioManager, the ACK correlation   *)
(* of MeshCoreBackend.send_direct (radio.py), the rows transition_outbound *)
(* writes, and, as environment, the companion radio and the mesh.          *)
(*                                                                         *)
(* The daemon runs on one event loop, so a step here is the code between   *)
(* two suspension points.  RadioManager._lock is only held around such a   *)
(* step; _operation_lock is an asyncio.Lock, a FIFO whose head owns it.    *)
(***************************************************************************)
EXTENDS Integers, FiniteSets, Sequences, MessageStates

CONSTANTS
  Direct,            \* requests to POST /v1/messages/direct
  Channel,           \* requests to POST /v1/messages/channel
  Targets,           \* contact keys and channel slots
  TargetOf,          \* the contact or slot each request names
  Refused,           \* slots that are Public or not allowlisted
  GlobalCooldown,    \* *_global_cooldown_seconds
  TargetCooldown,    \* direct_peer_ and channel_per_channel_cooldown_seconds
  ClockBound,        \* bound of the model: the last instant
  RestartBound       \* bound of the model: process restarts

Requests == Direct \cup Channel

ASSUME RequestsAssumption ==
  /\ Direct \cap Channel = {}
  /\ TargetOf \in [Requests -> Targets]

ASSUME CooldownAssumption == GlobalCooldown \in Nat /\ TargetCooldown \in Nat

VARIABLES
  row,        \* messages.delivery_state of each request's message
  task,       \* each request's coroutine
  lock,       \* _operation_lock: owner first, then the waiters in order
  connected,  \* a backend is there and status.connected is true
  usable,     \* the caches: contacts with path_length >= 0, configured slots
  lastSend,   \* _last_direct_send, _last_channel_send
  lastSendTo, \* _last_direct_send_by_peer, _last_channel_send_by_index
  clock,      \* loop.time()
  device,     \* per request: the companion's view of the send command
  learned,    \* what the companion really has an out_path or a key for
  air,        \* history: RF transmissions in order
  acked,      \* requests the recipient has acknowledged
  life        \* history: restarts of the process so far

vars == <<row, task, lock, connected, usable, lastSend, lastSendTo, clock,
          device, learned, air, acked, life>>

-----------------------------------------------------------------------------
Never == -1 - GlobalCooldown - TargetCooldown   \* float("-inf")

Outcomes == {"none", "acknowledged", "timed_out", "rejected", "limited",
             "unavailable"}
Replies == {"none", "transmitted", "acknowledged", "timed_out", "rejected",
            "limited", "unavailable", "error"}

TaskRec == [pc : {"new", "queued", "waiting", "sending", "marking", "awaiting",
                  "closing", "done", "dead"},
            answer : {"none", "direct", "flood", "error"},
            early : SUBSET Requests,   \* early_acks
            resolved : BOOLEAN,        \* the future `acknowledged` is done
            deaf : BOOLEAN,            \* its backend has been disconnected
            outcome : Outcomes,
            reply : Replies]

NewTask == [pc |-> "new", answer |-> "none", early |-> {}, resolved |-> FALSE,
            deaf |-> FALSE, outcome |-> "none", reply |-> "none"]

TypeOK ==
  /\ row \in [Requests -> OutboundStates \cup {"none"}]
  /\ task \in [Requests -> TaskRec]
  /\ lock \in Seq(Requests)
  /\ connected \in BOOLEAN
  /\ usable \subseteq Targets
  /\ lastSend \in [{"direct", "channel"} -> Int]
  /\ lastSendTo \in [Targets -> Int]
  /\ clock \in Nat
  /\ device \in [Requests -> {"none", "pending", "finished"}]
  /\ learned \subseteq Targets
  /\ air \in Seq([req : Requests, at : Nat, mode : {"direct", "flood"}, life : Nat])
  /\ acked \subseteq Requests
  /\ life \in Nat

KindOf(r) == IF r \in Direct THEN "direct" ELSE "channel"

Init ==
  /\ row = [r \in Requests |-> "none"]
  /\ task = [r \in Requests |-> NewTask]
  /\ lock = << >>
  /\ connected = FALSE
  /\ usable = {}
  /\ lastSend = [k \in {"direct", "channel"} |-> Never]
  /\ lastSendTo = [t \in Targets |-> Never]
  /\ clock = 0
  /\ device = [r \in Requests |-> "none"]
  /\ learned \in SUBSET Targets
  /\ air = << >>
  /\ acked = {}
  /\ life = 0

-----------------------------------------------------------------------------
(* The HTTP handler, before and after the radio *)

\* queue_outbound_direct / queue_outbound_channel commits.
Queue(r) ==
  /\ task[r].pc = "new"
  /\ row' = [row EXCEPT ![r] = "queued"]
  /\ task' = [task EXCEPT ![r].pc = "queued"]
  /\ UNCHANGED <<lock, connected, usable, lastSend, lastSendTo, clock, device,
                 learned, air, acked, life>>

\* async with self._operation_lock
Join(r) ==
  /\ task[r].pc = "queued"
  /\ task' = [task EXCEPT ![r].pc = "waiting"]
  /\ lock' = Append(lock, r)
  /\ UNCHANGED <<row, connected, usable, lastSend, lastSendTo, clock, device,
                 learned, air, acked, life>>

\* The coroutine ends with the HTTP reply.
Answer(r, reply) ==
  task' = [task EXCEPT ![r] = [NewTask EXCEPT !.pc = "done", !.reply = reply]]

FinalState(outcome) ==
  IF outcome \in {"acknowledged", "timed_out"} THEN outcome ELSE "failed"

\* Mutant: the 503 path forgets to record the failure.
CloseSilently(r) ==
  /\ task[r].pc = "closing"
  /\ FinalState(task[r].outcome) \in Allowed(row[r])
  /\ row' = IF task[r].outcome = "unavailable" THEN row
             ELSE [row EXCEPT ![r] = FinalState(task[r].outcome)]
  /\ Answer(r, task[r].outcome)
  /\ UNCHANGED <<lock, connected, usable, lastSend, lastSendTo, clock, device,
                 learned, air, acked, life>>

\* The last transition and the HTTP reply: 200, or 422/429/503 for a failure.
Close(r) ==
  /\ task[r].pc = "closing"
  /\ FinalState(task[r].outcome) \in Allowed(row[r])
  /\ row' = [row EXCEPT ![r] = FinalState(task[r].outcome)]
  /\ Answer(r, task[r].outcome)
  /\ UNCHANGED <<lock, connected, usable, lastSend, lastSendTo, clock, device,
                 learned, air, acked, life>>

\* The store raises instead (locked database, or housekeeping removed the row
\* because the message cap is small): nothing is written, the reply is a 500.
CloseFails(r) ==
  /\ task[r].pc = "closing"
  /\ Answer(r, "error")
  /\ UNCHANGED <<row, lock, connected, usable, lastSend, lastSendTo, clock,
                 device, learned, air, acked, life>>

-----------------------------------------------------------------------------
(* RadioManager.send_direct and send_channel *)

Owns(r) == lock # << >> /\ Head(lock) = r

\* Leaving the radio with an outcome releases the operation lock.
Leave(r, outcome) ==
  /\ task' = [task EXCEPT ![r].pc = "closing", ![r].outcome = outcome]
  /\ lock' = Tail(lock)

\* Mutant: the cooldown of the target is forgotten.
CoolingKind(r) == lastSend[KindOf(r)] + GlobalCooldown > clock

CoolingDown(r) ==
  \/ lastSend[KindOf(r)] + GlobalCooldown > clock
  \/ lastSendTo[TargetOf[r]] + TargetCooldown > clock

\* What the checks say before anything is sent, in their order.
Verdict(r) ==
  IF ~connected THEN "unavailable"
  ELSE IF r \in Channel /\ TargetOf[r] \in Refused THEN "limited"
  ELSE IF TargetOf[r] \notin usable THEN "rejected"
  ELSE IF CoolingDown(r) THEN "limited"
  ELSE "none"

Turn(r) == task[r].pc = "waiting" /\ Owns(r)

Decline(r) ==
  /\ Turn(r)
  /\ Verdict(r) # "none"
  /\ Leave(r, Verdict(r))
  /\ UNCHANGED <<row, connected, usable, lastSend, lastSendTo, clock, device,
                 learned, air, acked, life>>

\* Subscribes to ACK events (direct only) and issues send_msg, attempt 0, or
\* send_chan_msg.
Submit(r) ==
  /\ Turn(r)
  /\ Verdict(r) = "none"
  /\ task' = [task EXCEPT ![r].pc = "sending"]
  /\ device' = [device EXCEPT ![r] = "pending"]
  /\ UNCHANGED <<row, lock, connected, usable, lastSend, lastSendTo, clock,
                 learned, air, acked, life>>

\* Mutant: an error answer makes the daemon try once more.
SendRetries(r) ==
  /\ task[r].pc = "sending"
  /\ task[r].answer = "error" \/ (task[r].answer = "flood" /\ r \in Direct)
  /\ task' = [task EXCEPT ![r].answer = "none"]
  /\ device' = [device EXCEPT ![r] = "pending"]
  /\ UNCHANGED <<row, lock, connected, usable, lastSend, lastSendTo, clock,
                 learned, air, acked, life>>

\* Mutant: the error of the companion is passed on as an outcome of its own.
SendRaisesUnmapped(r) ==
  /\ task[r].pc = "sending"
  /\ task[r].answer = "error" \/ (task[r].answer = "flood" /\ r \in Direct)
  /\ Leave(r, task[r].answer)
  /\ UNCHANGED <<row, connected, usable, lastSend, lastSendTo, clock, device,
                 learned, air, acked, life>>

\* The command comes back as an error event, or a direct send comes back as
\* flooded: ConnectionError, before mark_transmitted.
SendRaises(r) ==
  /\ task[r].pc = "sending"
  /\ task[r].answer = "error" \/ (task[r].answer = "flood" /\ r \in Direct)
  /\ Leave(r, "unavailable")
  /\ UNCHANGED <<row, connected, usable, lastSend, lastSendTo, clock, device,
                 learned, air, acked, life>>

\* Mutant: the message type of the answer is not looked at.
SendAcceptedAnyRoute(r) ==
  /\ task[r].pc = "sending"
  /\ task[r].answer \in {"direct", "flood"}
  /\ task' = [task EXCEPT ![r].pc = "marking"]
  /\ lastSend' = [lastSend EXCEPT ![KindOf(r)] = clock]
  /\ lastSendTo' = [lastSendTo EXCEPT ![TargetOf[r]] = clock]
  /\ UNCHANGED <<row, lock, connected, usable, clock, device, learned, air,
                 acked, life>>

\* The expected ACK code is known; mark_transmitted starts both cooldowns and
\* calls into the store.
SendAccepted(r) ==
  /\ task[r].pc = "sending"
  /\ task[r].answer = (IF r \in Direct THEN "direct" ELSE "flood")
  /\ task' = [task EXCEPT ![r].pc = "marking"]
  /\ lastSend' = [lastSend EXCEPT ![KindOf(r)] = clock]
  /\ lastSendTo' = [lastSendTo EXCEPT ![TargetOf[r]] = clock]
  /\ UNCHANGED <<row, lock, connected, usable, clock, device, learned, air,
                 acked, life>>

\* Mutant: early_acks is not consulted.
MarkIgnoringEarlyAcks(r) ==
  /\ task[r].pc = "marking"
  /\ row[r] = "queued"
  /\ row' = [row EXCEPT ![r] = "transmitted"]
  /\ \/ /\ r \in Channel
        /\ Answer(r, "transmitted")
        /\ lock' = Tail(lock)
     \/ /\ r \in Direct
        /\ task' = [task EXCEPT ![r].pc = "awaiting"]
        /\ UNCHANGED lock
  /\ UNCHANGED <<connected, usable, lastSend, lastSendTo, clock, device, learned,
                 air, acked, life>>

\* transition_outbound(TRANSMITTED) commits.  A channel send is then over.  A
\* direct send looks into early_acks; with the future already done, wait_for
\* returns without suspending, otherwise the task waits.
MarkTransmitted(r) ==
  /\ task[r].pc = "marking"
  /\ row[r] = "queued"
  /\ row' = [row EXCEPT ![r] = "transmitted"]
  /\ \/ /\ r \in Channel
        /\ Answer(r, "transmitted")
        /\ lock' = Tail(lock)
     \/ /\ r \in Direct
        /\ task[r].resolved \/ r \in task[r].early
        /\ Leave(r, "acknowledged")
     \/ /\ r \in Direct
        /\ ~task[r].resolved /\ r \notin task[r].early
        /\ task' = [task EXCEPT ![r].pc = "awaiting"]
        /\ UNCHANGED lock
  /\ UNCHANGED <<connected, usable, lastSend, lastSendTo, clock, device, learned,
                 air, acked, life>>

\* Mutant: a failing store leaves the operation lock held.
MarkHangs(r) ==
  /\ task[r].pc = "marking"
  /\ task' = [task EXCEPT ![r].pc = "closing", ![r].outcome = "unavailable"]
  /\ UNCHANGED <<row, lock, connected, usable, lastSend, lastSendTo, clock, device,
                 learned, air, acked, life>>

\* The store raises inside on_transmitted: the send fails after the fact.
MarkFails(r) ==
  /\ task[r].pc = "marking"
  /\ Leave(r, "unavailable")
  /\ UNCHANGED <<row, connected, usable, lastSend, lastSendTo, clock, device,
                 learned, air, acked, life>>

Acknowledge(r) ==
  /\ task[r].pc = "awaiting"
  /\ task[r].resolved
  /\ Leave(r, "acknowledged")
  /\ UNCHANGED <<row, connected, usable, lastSend, lastSendTo, clock, device,
                 learned, air, acked, life>>

\* The timer may win against an ACK that arrived in the same loop iteration.
TimeOut(r) ==
  /\ task[r].pc = "awaiting"
  /\ Leave(r, "timed_out")
  /\ UNCHANGED <<row, connected, usable, lastSend, lastSendTo, clock, device,
                 learned, air, acked, life>>

-----------------------------------------------------------------------------
(* RadioManager._run, as far as a send depends on it *)

\* A refresh owns the operation lock from its first query to the last; the
\* caches and status.connected are replaced before anyone else runs.
Refresh ==
  /\ lock = << >>
  /\ connected' = TRUE
  /\ usable' = learned
  /\ UNCHANGED <<row, task, lock, lastSend, lastSendTo, clock, device, learned,
                 air, acked, life>>

\* _run's except clause: also reached without the lock, when start_receiving
\* raises; a send in progress keeps the backend that is being disconnected.
LinkLost ==
  /\ connected
  /\ connected' = FALSE
  /\ task' = [r \in Requests |->
       IF task[r].pc \in {"sending", "marking", "awaiting"}
         THEN [task[r] EXCEPT !.deaf = TRUE] ELSE task[r]]
  /\ UNCHANGED <<row, lock, usable, lastSend, lastSendTo, clock, device, learned,
                 air, acked, life>>

\* The process dies and restarts: coroutines, caches and cooldowns are gone.
Restart ==
  /\ life < RestartBound
  /\ life' = life + 1
  /\ task' = [r \in Requests |->
       IF task[r].pc \in {"new", "done"} THEN task[r]
       ELSE [NewTask EXCEPT !.pc = "dead"]]
  /\ lock' = << >>
  /\ connected' = FALSE
  /\ usable' = {}
  /\ lastSend' = [k \in {"direct", "channel"} |-> Never]
  /\ lastSendTo' = [t \in Targets |-> Never]
  /\ UNCHANGED <<row, clock, device, learned, air, acked>>

-----------------------------------------------------------------------------
(* The companion radio and the mesh (external) *)

\* The companion sends along the path it has now and answers; the answer is
\* lost when the coroutine has given up or its link is gone.
Transmit(r) ==
  LET mode == IF r \in Direct /\ TargetOf[r] \in learned THEN "direct" ELSE "flood"
  IN  /\ device[r] = "pending"
      /\ device' = [device EXCEPT ![r] = "finished"]
      /\ air' = Append(air, [req |-> r, at |-> clock, mode |-> mode, life |-> life])
      /\ task' = IF task[r].pc = "sending" /\ task[r].answer = "none" /\ ~task[r].deaf
                   THEN [task EXCEPT ![r].answer = mode] ELSE task
      /\ UNCHANGED <<row, lock, connected, usable, lastSend, lastSendTo, clock,
                     learned, acked, life>>

\* The companion rejects the command.
Refuse(r) ==
  /\ device[r] = "pending"
  /\ device' = [device EXCEPT ![r] = "finished"]
  /\ task' = IF task[r].pc = "sending" /\ task[r].answer = "none"
               THEN [task EXCEPT ![r].answer = "error"] ELSE task
  /\ UNCHANGED <<row, lock, connected, usable, lastSend, lastSendTo, clock,
                 learned, air, acked, life>>

\* The library gives up waiting for the answer.
CommandTimesOut(r) ==
  /\ task[r].pc = "sending"
  /\ task[r].answer = "none"
  /\ task' = [task EXCEPT ![r].answer = "error"]
  /\ UNCHANGED <<row, lock, connected, usable, lastSend, lastSendTo, clock,
                 device, learned, air, acked, life>>

PeerAcks(r) ==
  /\ r \in Direct
  /\ \E i \in DOMAIN air : air[i].req = r
  /\ acked' = acked \cup {r}
  /\ UNCHANGED <<row, task, lock, connected, usable, lastSend, lastSendTo, clock,
                 device, learned, air, life>>

Subscribed(q) ==
  /\ q \in Direct
  /\ task[q].pc \in {"sending", "marking", "awaiting"}
  /\ ~task[q].deaf

\* Mutant: on_ack resolves on any code.
AckEventAnyCode(code, q) ==
  /\ code \in acked
  /\ Subscribed(q)
  /\ task' = IF task[q].pc # "sending"
               THEN [task EXCEPT ![q].resolved = TRUE]
               ELSE [task EXCEPT ![q].early = @ \cup {code}]
  /\ UNCHANGED <<row, lock, connected, usable, lastSend, lastSendTo, clock,
                 device, learned, air, acked, life>>

\* An ACK event reaches on_ack of whoever is subscribed; it may be late, or
\* arrive twice.
AckEvent(code, q) ==
  /\ code \in acked
  /\ Subscribed(q)
  /\ task' = IF code = q /\ task[q].pc # "sending"
               THEN [task EXCEPT ![q].resolved = TRUE]
               ELSE [task EXCEPT ![q].early = @ \cup {code}]
  /\ UNCHANGED <<row, lock, connected, usable, lastSend, lastSendTo, clock,
                 device, learned, air, acked, life>>

\* The companion learns or forgets a path (an advert, a path return, a reset),
\* or a slot is configured or cleared behind the daemon's back.
PathChanges(t) ==
  /\ learned' = IF t \in learned THEN learned \ {t} ELSE learned \cup {t}
  /\ UNCHANGED <<row, task, lock, connected, usable, lastSend, lastSendTo, clock,
                 device, air, acked, life>>

Tick ==
  /\ clock < ClockBound
  /\ clock' = clock + 1
  /\ UNCHANGED <<row, task, lock, connected, usable, lastSend, lastSendTo, device,
                 learned, air, acked, life>>

-----------------------------------------------------------------------------
Proceed(r) ==
  \/ Join(r) \/ Decline(r) \/ Submit(r) \/ SendRaises(r) \/ SendAccepted(r)
  \/ MarkTransmitted(r) \/ MarkFails(r) \/ Acknowledge(r) \/ TimeOut(r)
  \/ Close(r) \/ CloseFails(r)

Companion(r) ==
  \/ Transmit(r) \/ Refuse(r) \/ CommandTimesOut(r) \/ PeerAcks(r)
  \/ \E q \in Direct : AckEvent(r, q)

Next ==
  \/ \E r \in Requests : Queue(r) \/ Proceed(r) \/ Companion(r)
  \/ Refresh \/ LinkLost \/ Restart \/ Tick
  \/ \E t \in Targets : PathChanges(t)

Spec == Init /\ [][Next]_vars

\* A runnable coroutine runs; the library answers or times out every command,
\* and wait_for bounds the wait for an ACK.
LiveSpec ==
  /\ Spec
  /\ \A r \in Requests : WF_vars(Proceed(r)) /\ WF_vars(CommandTimesOut(r))

-----------------------------------------------------------------------------
(* Properties *)

OnAir(r) == \E i \in DOMAIN air : air[i].req = r

Busy(r) == task[r].pc \in {"sending", "marking", "awaiting"}

\* Radio operations are serialized: whoever talks to the companion or waits
\* for an ACK owns the operation lock until it is through.
OneOperationAtATime == \A r \in Requests : Busy(r) => Owns(r)

\* "One transmission with no retry": no message is on the air twice, whatever
\* was lost, timed out, disconnected or restarted after the first time.
AtMostOnce ==
  \A i, j \in DOMAIN air : air[i].req = air[j].req => i = j

\* The durable state never claims more than happened: transmitted (and what
\* follows it) means on the air, directly for a direct send; acknowledged means
\* this message's recipient, and not another's, answered.
StatesAreHonest ==
  \A r \in Requests :
    /\ row[r] \in {"transmitted", "acknowledged", "timed_out"} =>
         \E i \in DOMAIN air : air[i].req = r /\ (r \in Direct => air[i].mode = "direct")
    /\ row[r] = "acknowledged" => r \in acked

\* The HTTP reply is true of row and radio, also when the last transition failed:
\* after a 422 or 429 nothing was, or will be, on the air.
RepliesMatchRows ==
  \A r \in Requests :
    LET reply == task[r].reply
    IN  /\ reply \in OutboundStates => row[r] = reply
        /\ reply \in {"rejected", "limited", "unavailable"} => row[r] = "failed"
        /\ reply = "error" => row[r] \in {"queued", "transmitted"}
        /\ reply \in {"rejected", "limited"} => ~OnAir(r) /\ device[r] = "none"

\* An ACK that overtakes the companion's answer is not lost.
EarlyAckCounts ==
  \A r \in Direct : task[r].outcome = "timed_out" => r \notin task[r].early

Transmitted(r) == row[r] \in {"transmitted", "acknowledged", "timed_out"}

\* If transmission i is of r's kind and of the present process, r may follow
\* it now.
Spaced(r, i) ==
  air[i].life = life /\ KindOf(air[i].req) = KindOf(r) =>
    /\ clock >= air[i].at + GlobalCooldown
    /\ TargetOf[air[i].req] = TargetOf[r] => clock >= air[i].at + TargetCooldown

\* r's command is handed to the companion in this step.
Submits(r) == device[r] = "none" /\ device'[r] = "pending"

\* Concurrent requests cannot beat the cooldown: after a transmission that was
\* recorded, the next command of its kind, and to its target, waits.
CooldownsHold ==
  [][\A r \in Requests : Submits(r) =>
       \A i \in DOMAIN air : Transmitted(air[i].req) => Spaced(r, i)]_vars

\* Every accepted request is answered, or its process is restarted.
RequestsAnswered ==
  \A r \in Requests : task[r].pc = "queued" ~> task[r].pc \in {"done", "dead"}

-----------------------------------------------------------------------------
(* What the documents say, and the code does not do *)

\* daemon/README.md: direct sends "perform one transmission with no retry or
\* flood fallback".
DirectSendsNeverFlood ==
  \A i \in DOMAIN air : air[i].req \in Direct => air[i].mode = "direct"

-----------------------------------------------------------------------------
\* The delivery promise, read off rows, air and recipients.
Promise == INSTANCE Delivery WITH
  Messages  <- Requests,
  state     <- row,
  onAir     <- [i \in DOMAIN air |-> air[i].req],
  confirmed <- acked

KeepsPromise == Promise!Spec
=============================================================================
