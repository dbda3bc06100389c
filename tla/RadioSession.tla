---------------------------- MODULE RadioSession ----------------------------
(***************************************************************************)
(* The serial session with the companion radio: RadioManager._run, which   *)
(* discovers, connects, refreshes and reconnects, beside the HTTP requests *)
(* that change the companion's contacts and channel slots and read the     *)
(* result back, and the process' stop (daemon/src/meshpincer/radio.py).    *)
(*                                                                         *)
(* Three copies of the companion's contact table exist: its own, the one   *)
(* the meshcore library filled at its last read, and the daemon's cache.   *)
(* A step is the code between two suspension points; _operation_lock is a  *)
(* FIFO whose head owns it.  Back-off delays and the refresh interval are  *)
(* abstracted to "some time later".                                        *)
(***************************************************************************)
EXTENDS Integers, FiniteSets, SequencesExt

CONSTANTS
  Clients,        \* concurrent HTTP requests
  Keys,           \* public keys of contacts
  Slots,          \* private channel slots the companion has
  Public,         \* slot 0
  Menu,           \* what each request may ask for
  FaultBound,     \* bound of the model: commands that fail
  LeakBound,      \* bound of the model: ports that a failure leaves open
  ChangeBound,    \* bound of the model: changes of the companion's tables
  StopBound       \* bound of the model: 1 if the process is stopped, or 0


VARIABLES
  runner,      \* where the _run task is
  session,     \* number of the last serial link opened
  open,        \* links whose port is open
  backend,     \* self._backend: its link, or 0 for None
  connected,   \* self._status.connected
  receiving,   \* the links whose message events the store is subscribed to
  seen,        \* a refresh in progress: contacts read so far, and when
  cache,       \* self._contacts and self._channels
  lib,         \* the library's copy of the contacts, for the link of backend
  lock,        \* _operation_lock: owner first, then the waiters
  task,        \* each request's coroutine
  companion,   \* the radio's own contacts, slots and auto-add flags
  recent,      \* _last_local_advert is less than 60 seconds ago
  adverts,     \* history: adverts on the air since it was set
  changes,     \* history: number of changes of the companion's tables
  faults,      \* history: commands that failed
  leaks,       \* history: ports left open without an owner by a failure
  stops        \* history: calls of stop

vars == <<runner, session, open, backend, connected, receiving, seen, cache, lib,
          lock, task, companion, recent, adverts, changes, faults, leaks, stops>>

-----------------------------------------------------------------------------
Routes   == {"absent", "flood", "direct"}
Contacts == [Keys -> Routes]
Run      == "run"      \* the _run task among the waiters for the lock
None     == 0          \* no link
Device   == "device"   \* what an operation on no contact or slot is about
Flags    == {"overwrite", "others"}   \* bit 0x01 of the auto-add mask, and the rest

ContactOps == [kind : {"upsert", "remove", "zero_hop", "flood"}, on : Keys]
ChannelOps == [kind : {"set", "rename", "clear"}, on : Slots \cup {Public}]
SettingOps == [kind : {"overwrite", "keep", "advert"}, on : {Device}]
Ops        == ContactOps \cup ChannelOps \cup SettingOps
NoOp       == [kind |-> "none", on |-> Public]

ASSUME NamesAssumption ==
  Public \notin Slots /\ Keys \cap Slots = {} /\ Run \notin Clients

ASSUME MenuAssumption == Menu \in [Clients -> SUBSET Ops]

\* An error is a 422 for what is not known, a 429 in the cooldown of adverts, or
\* a 503 when the link or a command fails.
Replies == {"none", "ok", "error"}

TaskRec == [pc : {"idle", "waiting", "probing", "writing", "reading"},
            op : Ops \cup {NoOp}, via : Nat, path : Routes, mask : SUBSET Flags,
            reply : Replies]
Idle    == [pc |-> "idle", op |-> NoOp, via |-> None, path |-> "absent", mask |-> {},
            reply |-> "none"]

TypeOK ==
  /\ runner \in {"connecting", "joining", "reading", "halfway", "subscribing",
                 "sleeping", "closing", "backoff", "stopping", "stopped"}
  /\ session \in Nat
  /\ open \subseteq 1..session
  /\ backend \in 0..session
  /\ connected \in BOOLEAN
  /\ receiving \subseteq 1..session
  /\ seen \in [contacts : Contacts, at : Nat]
  /\ cache \in [contacts : Contacts, contactsAt : Nat, slots : [Slots -> BOOLEAN],
                slotsAt : Nat, via : Nat]
  /\ lib \in Contacts
  /\ lock \in Seq(Clients \cup {Run})
  /\ task \in [Clients -> TaskRec]
  /\ companion \in [contacts : Contacts, slots : [Slots -> BOOLEAN], autoadd : SUBSET Flags]
  /\ recent \in BOOLEAN
  /\ adverts \in Nat
  /\ changes \in Nat
  /\ faults \in Nat
  /\ leaks \in Nat
  /\ stops \in Nat

NoContacts == [k \in Keys |-> "absent"]
NoSlots    == [s \in Slots |-> FALSE]

Init ==
  /\ runner = "connecting"
  /\ session = 0
  /\ open = {}
  /\ backend = None
  /\ connected = FALSE
  /\ receiving = {}
  /\ seen = [contacts |-> NoContacts, at |-> 0]
  /\ cache = [contacts |-> NoContacts, contactsAt |-> 0, slots |-> NoSlots,
              slotsAt |-> 0, via |-> None]
  /\ lib = NoContacts
  /\ lock = << >>
  /\ task = [c \in Clients |-> Idle]
  /\ companion \in [contacts : Contacts, slots : {NoSlots}, autoadd : {{"others"}}]
  /\ recent = FALSE
  /\ adverts = 0
  /\ changes = 0
  /\ faults = 0
  /\ leaks = 0
  /\ stops = 0

-----------------------------------------------------------------------------
Owns(who) == lock # << >> /\ Head(lock) = who

\* A command on link s may fail: always once its port is closed, otherwise as
\* often as the bound allows.
MayFail(s) ==
  \/ s \notin open /\ faults' = faults
  \/ s \in open /\ faults < FaultBound /\ faults' = faults + 1

radio == <<companion, adverts, changes>>

\* _disconnect of link s: stop_receiving and client.disconnect, awaited.
Closes(s) ==
  /\ open' = open \ {s}
  /\ receiving' = receiving \ {s}
  /\ UNCHANGED leaks

\* One of the two raises.  The error is logged and no more; _backend is None
\* already, and nobody will close the port if it is still open, or end the
\* subscription if that came first.
CloseFails(s) ==
  /\ s \in open
  /\ leaks < LeakBound
  /\ leaks' = leaks + 1
  /\ receiving' \in {receiving, receiving \ {s}}
  /\ UNCHANGED open

\* A connection attempt comes to nothing; the library may leave its port open.
Abandons ==
  \/ UNCHANGED <<session, open, leaks>>
  \/ /\ leaks < LeakBound
     /\ leaks' = leaks + 1
     /\ session' = session + 1
     /\ open' = open \cup {session + 1}

(* The _run task *)

\* The discoverer finds the port and the connector opens it.
Connect ==
  /\ runner = "connecting"
  /\ session' = session + 1
  /\ open' = open \cup {session + 1}
  /\ backend' = session + 1
  /\ lib' = NoContacts
  /\ runner' = "joining"
  /\ lock' = Append(lock, Run)
  /\ UNCHANGED <<connected, receiving, seen, cache, task, radio, recent, faults, leaks, stops>>

\* No device, no port, or no handshake; _backend was None already.
ConnectFails ==
  /\ runner = "connecting"
  /\ faults < FaultBound
  /\ faults' = faults + 1
  /\ connected' = FALSE
  /\ runner' = "backoff"
  /\ Abandons
  /\ UNCHANGED <<backend, receiving, seen, cache, lib, lock, task, radio, recent, stops>>

\* _refresh: read_status needs nothing the model keeps.
RefreshBegin ==
  /\ runner = "joining"
  /\ Owns(Run)
  /\ runner' = "reading"
  /\ UNCHANGED <<session, open, backend, connected, receiving, seen, cache, lib,
                 lock, task, radio, recent, faults, leaks, stops>>

\* Mutant: the lock is released as soon as the contacts have been read.
RefreshReleasesEarly ==
  /\ runner = "reading"
  /\ session \in open
  /\ lib' = companion.contacts
  /\ seen' = [contacts |-> companion.contacts, at |-> changes]
  /\ runner' = "halfway"
  /\ lock' = RemoveFirst(lock, Run)
  /\ UNCHANGED <<session, open, backend, connected, receiving, cache, task, radio, recent,
                 faults, leaks, stops>>

\* read_contacts
RefreshContacts ==
  /\ runner = "reading"
  /\ session \in open
  /\ lib' = companion.contacts
  /\ seen' = [contacts |-> companion.contacts, at |-> changes]
  /\ runner' = "halfway"
  /\ UNCHANGED <<session, open, backend, connected, receiving, cache, lock, task,
                 radio, recent, faults, leaks, stops>>

\* Mutant: the raw reading is cached, not the contacts in it.
RefreshCachesReading ==
  /\ runner = "halfway"
  /\ session \in open
  /\ connected' = TRUE
  /\ cache' = [cache EXCEPT !.contacts = seen, !.slots = companion.slots, !.via = session]
  /\ seen' = [contacts |-> NoContacts, at |-> 0]
  /\ lock' = RemoveFirst(lock, Run)
  /\ runner' = IF session \in receiving THEN "sleeping" ELSE "subscribing"
  /\ UNCHANGED <<session, open, backend, receiving, lib, task, radio, recent, faults, leaks, stops>>

\* read_channels, then status and both caches at once.  The first refresh of
\* a link goes on to subscribe.
RefreshFinish ==
  /\ runner = "halfway"
  /\ session \in open
  /\ connected' = TRUE
  /\ cache' = [contacts |-> seen.contacts, contactsAt |-> seen.at,
               slots |-> companion.slots, slotsAt |-> changes, via |-> session]
  /\ seen' = [contacts |-> NoContacts, at |-> 0]
  /\ lock' = RemoveFirst(lock, Run)
  /\ runner' = IF session \in receiving THEN "sleeping" ELSE "subscribing"
  /\ UNCHANGED <<session, open, backend, receiving, lib, task, radio, recent, faults, leaks, stops>>

\* Mutant: only the first link is subscribed.
SubscribeOnce ==
  /\ runner = "subscribing"
  /\ session \in open
  /\ receiving' = IF session = 1 THEN {session} ELSE receiving
  /\ runner' = "sleeping"
  /\ UNCHANGED <<session, open, backend, connected, seen, cache, lib, lock, task,
                 radio, recent, faults, leaks, stops>>

\* start_receiving: not under the operation lock.
Subscribe ==
  /\ runner = "subscribing"
  /\ session \in open
  /\ receiving' = receiving \cup {session}
  /\ runner' = "sleeping"
  /\ UNCHANGED <<session, open, backend, connected, seen, cache, lib, lock, task,
                 radio, recent, faults, leaks, stops>>

\* refresh_interval_seconds later
Wake ==
  /\ runner = "sleeping"
  /\ runner' = "joining"
  /\ lock' = Append(lock, Run)
  /\ UNCHANGED <<session, open, backend, connected, receiving, seen, cache, lib,
                 task, radio, recent, faults, leaks, stops>>

\* Mutant: the failure path leaves status.connected as it was.
RunFailsQuietly ==
  /\ runner \in {"reading", "halfway", "subscribing"}
  /\ MayFail(session)
  /\ backend' = None
  /\ seen' = [contacts |-> NoContacts, at |-> 0]
  /\ lock' = RemoveFirst(lock, Run)
  /\ runner' = "closing"
  /\ UNCHANGED <<session, open, connected, receiving, cache, lib, task, radio, recent, leaks,
                 stops>>

\* A command of the refresh, or start_receiving, raises: the except clause
\* marks the radio unavailable and lets go of the backend before it awaits
\* anything.  A request in progress keeps the link it captured.
RunFails ==
  /\ runner \in {"reading", "halfway", "subscribing"}
  /\ MayFail(session)
  /\ connected' = FALSE
  /\ backend' = None
  /\ seen' = [contacts |-> NoContacts, at |-> 0]
  /\ lock' = RemoveFirst(lock, Run)
  /\ runner' = "closing"
  /\ UNCHANGED <<session, open, receiving, cache, lib, task, radio, recent, leaks, stops>>

\* Mutant: the next attempt starts without waiting for the disconnect.
DisconnectLater ==
  /\ runner = "closing"
  /\ receiving' = receiving \ {session}
  /\ runner' = "backoff"
  /\ UNCHANGED <<session, open, backend, connected, seen, cache, lib, lock, task,
                 radio, recent, faults, leaks, stops>>

\* The disconnect is awaited, and its failure taken for its end.
Disconnect ==
  /\ runner = "closing"
  /\ Closes(session) \/ CloseFails(session)
  /\ runner' = "backoff"
  /\ UNCHANGED <<session, backend, connected, seen, cache, lib, lock, task, radio, recent,
                 faults, stops>>

Retry ==
  /\ runner = "backoff"
  /\ runner' = "connecting"
  /\ UNCHANGED <<session, open, backend, connected, receiving, seen, cache, lib,
                 lock, task, radio, recent, faults, leaks, stops>>

\* stop: the task is cancelled wherever it waits, a connection attempt or a
\* disconnect with it.
Stop ==
  /\ stops < StopBound
  /\ stops' = stops + 1
  /\ runner' = "stopping"
  /\ seen' = [contacts |-> NoContacts, at |-> 0]
  /\ lock' = RemoveFirst(lock, Run)
  /\ IF runner = "connecting" THEN Abandons ELSE UNCHANGED <<session, open, leaks>>
  /\ UNCHANGED <<backend, connected, receiving, cache, lib, task, radio, recent, faults>>

\* ... and then _disconnect, unless there is no backend; status.connected is
\* left alone.
StopDisconnects ==
  /\ runner = "stopping"
  /\ runner' = "stopped"
  /\ Closes(backend) \/ CloseFails(backend)
  /\ backend' = None
  /\ UNCHANGED <<session, connected, seen, cache, lib, lock, task, radio, recent, faults,
                 stops>>

-----------------------------------------------------------------------------
(* Requests that change contacts, slots or settings, or send an advert *)

run == <<runner, session, open, backend, connected, receiving, seen, leaks, stops>>

\* The coroutine ends with a reply and leaves the lock it owns.
Reply(c, reply) ==
  /\ task' = [task EXCEPT ![c] = [Idle EXCEPT !.reply = reply]]
  /\ lock' = Tail(lock)

\* A request arrives; Public is refused before the lock is asked for.
Request(c, op) ==
  /\ task[c].pc = "idle"
  /\ changes < ChangeBound
  /\ IF op.on = Public
       THEN /\ task' = [task EXCEPT ![c] = [Idle EXCEPT !.reply = "error"]]
            /\ UNCHANGED lock
       ELSE /\ task' = [task EXCEPT ![c] = [Idle EXCEPT !.pc = "waiting", !.op = op]]
            /\ lock' = Append(lock, c)
  /\ UNCHANGED <<run, recent, cache, lib, radio, faults>>

\* Removing and routing check the cache, routing the library's copy as well.
Unknown(op) ==
  \/ op.kind \in {"remove", "zero_hop", "flood"} /\ cache.contacts[op.on] = "absent"
  \/ op.kind \in {"zero_hop", "flood"} /\ lib[op.on] = "absent"

\* What _connected_backend and the checks look at.
Refused(op) ==
  \/ ~connected \/ backend = None
  \/ Unknown(op)
  \/ op.kind = "advert" /\ recent

\* The request's turn, and nothing is sent.
Decline(c) ==
  /\ task[c].pc = "waiting"
  /\ Owns(c)
  /\ Refused(task[c].op)
  /\ Reply(c, "error")
  /\ UNCHANGED <<run, recent, cache, lib, radio, faults>>

\* The path an upsert sends: the one of the library's copy of the contact.
Path(op) ==
  IF op.kind # "upsert" THEN "absent"
  ELSE IF lib[op.on] = "absent" THEN "flood" ELSE lib[op.on]

\* Mutant: an advert does not start its cooldown.
BeginUnmarked(c) ==
  LET op == task[c].op
  IN  /\ task[c].pc = "waiting"
      /\ Owns(c)
      /\ ~Refused(op)
      /\ task' = [task EXCEPT ![c].via = backend, ![c].path = Path(op),
                              ![c].pc = IF op.kind \in {"rename", "overwrite", "keep"}
                                          THEN "probing" ELSE "writing"]
      /\ UNCHANGED <<run, recent, cache, lib, radio, lock, faults>>

\* Renaming a slot and changing the auto-add mask read before they write; an
\* advert starts its cooldown before it is sent.
Begin(c) ==
  LET op == task[c].op
  IN  /\ task[c].pc = "waiting"
      /\ Owns(c)
      /\ ~Refused(op)
      /\ task' = [task EXCEPT ![c].via = backend, ![c].path = Path(op),
                              ![c].pc = IF op.kind \in {"rename", "overwrite", "keep"}
                                          THEN "probing" ELSE "writing"]
      /\ recent' = (recent \/ op.kind = "advert")
      /\ UNCHANGED <<run, cache, lib, radio, lock, faults>>

\* The mask that is asked for, made of the one that was read.
Wanted(t, mask) ==
  IF t.op.kind = "overwrite" THEN mask \cup {"overwrite"} ELSE mask \ {"overwrite"}

\* set_overwrite_oldest_non_favorite reads the mask, and writes it unless it is
\* as wanted already.
ProbeMask(c) ==
  LET mask == companion.autoadd
      new  == Wanted(task[c], mask)
  IN  /\ task[c].pc = "probing" /\ task[c].op \in SettingOps
      /\ task[c].via \in open
      /\ task' = [task EXCEPT ![c].mask = new,
                              ![c].pc = IF new = mask THEN "reading" ELSE "writing"]
      /\ UNCHANGED <<run, recent, cache, lib, radio, lock, faults>>

\* rename_channel reads the slot's secret; there must be one.
ProbeSlot(c) ==
  /\ task[c].pc = "probing" /\ task[c].op \in ChannelOps
  /\ task[c].via \in open
  /\ IF companion.slots[task[c].op.on]
       THEN task' = [task EXCEPT ![c].pc = "writing"] /\ UNCHANGED lock
       ELSE Reply(c, "error")
  /\ UNCHANGED <<run, recent, cache, lib, radio, faults>>

\* The companion's tables after the command of t.  The path an upsert was sent
\* with replaces the companion's.
Changed(t) ==
  LET op == t.op IN
  CASE op.kind = "upsert"   -> [companion EXCEPT !.contacts[op.on] = t.path]
    [] op.kind = "remove"   -> [companion EXCEPT !.contacts[op.on] = "absent"]
    [] op.kind = "zero_hop" -> [companion EXCEPT !.contacts[op.on] = "direct"]
    [] op.kind = "flood"    -> [companion EXCEPT !.contacts[op.on] = "flood"]
    [] op.kind = "clear"    -> [companion EXCEPT !.slots[op.on] = FALSE]
    [] op.kind \in {"set", "rename"} -> [companion EXCEPT !.slots[op.on] = TRUE]
    [] op.kind \in {"overwrite", "keep"} -> [companion EXCEPT !.autoadd = t.mask]
    [] op.kind = "advert"   -> companion

\* The companion refuses commands about a contact it no longer has.
Refuses(op) ==
  op.kind \in {"remove", "zero_hop", "flood"} /\ companion.contacts[op.on] = "absent"

\* The companion carries the command out.
Apply(t) ==
  /\ ~Refuses(t.op)
  /\ companion' = Changed(t)
  /\ IF t.op.kind = "advert"
       THEN adverts' = adverts + 1 /\ UNCHANGED changes
       ELSE changes' = changes + 1 /\ UNCHANGED adverts

Write(c) ==
  /\ task[c].pc = "writing"
  /\ task[c].via \in open
  /\ Apply(task[c])
  /\ IF task[c].op.kind = "advert"
       THEN Reply(c, "ok")
       ELSE task' = [task EXCEPT ![c].pc = "reading"] /\ UNCHANGED lock
  /\ UNCHANGED <<run, recent, cache, lib, faults>>

\* Mutant: a request whose command failed keeps the operation lock.
WriteFailsLocked(c) ==
  /\ task[c].pc \in {"probing", "writing"}
  /\ MayFail(task[c].via)
  /\ task' = [task EXCEPT ![c] = [Idle EXCEPT !.reply = "error"]]
  /\ UNCHANGED <<run, recent, cache, lib, lock, radio>>

\* The command fails: before, or (its answer lost) after it was carried out,
\* or the companion refuses it.
WriteFails(c) ==
  /\ task[c].pc \in {"probing", "writing"}
  /\ \/ MayFail(task[c].via) /\ UNCHANGED radio
     \/ /\ task[c].pc = "writing" /\ task[c].via \in open
        /\ MayFail(task[c].via) /\ Apply(task[c])
     \/ /\ task[c].pc = "writing" /\ task[c].via \in open
        /\ Refuses(task[c].op)
        /\ UNCHANGED <<radio, faults>>
  /\ Reply(c, "error")
  /\ UNCHANGED <<run, recent, cache, lib>>

\* What the read-back must show.
Confirmed(op) ==
  CASE op.kind = "upsert"   -> companion.contacts[op.on] # "absent"
    [] op.kind = "remove"   -> companion.contacts[op.on] = "absent"
    [] op.kind = "zero_hop" -> companion.contacts[op.on] = "direct"
    [] op.kind = "flood"    -> companion.contacts[op.on] = "flood"
    [] op.kind = "overwrite" -> "overwrite" \in companion.autoadd
    [] op.kind = "keep"     -> "overwrite" \notin companion.autoadd
    [] OTHER                -> TRUE

\* Mutant: the cache is edited instead of read back.
ReadBackFromMemory(c) ==
  LET op == task[c].op
  IN  /\ task[c].pc = "reading"
      /\ task[c].via \in open
      /\ CASE op \in ChannelOps ->
               cache' = [cache EXCEPT !.slots[op.on] = (op.kind # "clear"), !.slotsAt = changes]
           [] op \in ContactOps ->
               cache' = [cache EXCEPT !.contacts[op.on] = IF op.kind = "remove" THEN "absent"
                           ELSE IF op.kind = "flood" THEN "flood" ELSE "direct",
                           !.contactsAt = changes]
           [] OTHER -> UNCHANGED cache
      /\ UNCHANGED lib
      /\ Reply(c, "ok")
      /\ UNCHANGED <<run, recent, radio, faults>>

\* Contacts, all slots or the mask are read back.  A contact or a mask that is
\* not as requested is an error and leaves the cache as it was, although newer
\* records are at hand.  A slot is reported as it is.
ReadBack(c) ==
  LET op == task[c].op
  IN  /\ task[c].pc = "reading"
      /\ task[c].via \in open
      /\ lib' = IF op \in ContactOps /\ task[c].via = backend THEN companion.contacts ELSE lib
      /\ cache' = CASE op \in ChannelOps ->
                        [cache EXCEPT !.slots = companion.slots, !.slotsAt = changes]
                    [] op \in ContactOps /\ Confirmed(op) ->
                        [cache EXCEPT !.contacts = companion.contacts, !.contactsAt = changes]
                    [] OTHER -> cache
      /\ Reply(c, IF Confirmed(op) THEN "ok" ELSE "error")
      /\ UNCHANGED <<run, recent, radio, faults>>

ReadBackFails(c) ==
  /\ task[c].pc = "reading"
  /\ MayFail(task[c].via)
  /\ Reply(c, "error")
  /\ UNCHANGED <<run, recent, cache, lib, radio>>

-----------------------------------------------------------------------------
\* The companion hears an advert, learns or loses a path, or evicts a contact.
Heard(k, route) ==
  /\ changes < ChangeBound
  /\ route # companion.contacts[k]
  /\ companion' = [companion EXCEPT !.contacts[k] = route]
  /\ changes' = changes + 1
  /\ UNCHANGED <<run, recent, adverts, cache, lib, lock, task, faults>>

\* Sixty seconds have passed.  The library gives up a command long before.
MinuteOver ==
  /\ recent
  /\ \A c \in Clients : task[c].pc = "writing" => task[c].op.kind # "advert"
  /\ recent' = FALSE
  /\ adverts' = 0
  /\ UNCHANGED <<run, cache, lib, lock, task, companion, changes, faults>>

RunStep ==
  \/ Connect \/ RefreshBegin \/ RefreshContacts \/ RefreshFinish \/ Subscribe
  \/ Wake \/ Disconnect \/ Retry \/ StopDisconnects

RunFault == ConnectFails \/ RunFails

Proceed(c) == Decline(c) \/ Begin(c) \/ ProbeMask(c) \/ ProbeSlot(c) \/ Write(c) \/ ReadBack(c)

Fault(c) == WriteFails(c) \/ ReadBackFails(c)

Next ==
  \/ RunStep \/ RunFault \/ Stop \/ MinuteOver
  \/ \E c \in Clients : Proceed(c) \/ Fault(c)
  \/ \E c \in Clients : \E op \in Menu[c] : Request(c, op)
  \/ \E k \in Keys, route \in Routes : Heard(k, route)

Spec == Init /\ [][Next]_vars

\* Every task that can go on does; each command is answered or fails.
Fairness ==
  /\ WF_vars(RunStep)
  /\ \A c \in Clients : WF_vars(Proceed(c) \/ Fault(c))

LiveSpec == Spec /\ Fairness

-----------------------------------------------------------------------------
(* Properties *)

\* The port is opened again only after the disconnect of the old link has ended,
\* whatever failed and whoever still uses that link: beyond one, each open port
\* was left behind by a disconnect or a handshake that itself failed.
SingleLink == Cardinality(open) <= 1 + leaks

\* While the daemon runs and says it is connected, commands go to an open
\* link, and caches come from that link, not from the one before.
ConnectedMeansFresh ==
  connected /\ stops = 0 =>
    backend # None /\ backend \in open /\ cache.via = backend

\* A cache is never replaced by an older reading: the read-back of a request
\* and a refresh that started before it cannot cross.
CachesNeverGoBack ==
  [][/\ cache'.contactsAt >= cache.contactsAt
     /\ cache'.slotsAt >= cache.slotsAt]_vars

\* Answered(c, reply): this step answers c.
Answered(c, reply) ==
  task[c].pc # "idle" /\ task'[c].pc = "idle" /\ task'[c].reply = reply

\* An ok to a change of a contact or of the auto-add mask is what the radio
\* itself says at that moment: what was asked for, for a contact with the whole
\* table, for the mask with all its other bits.
OkIsVerified ==
  [][\A c \in Clients : Answered(c, "ok") =>
       /\ Confirmed(task[c].op)
       /\ task[c].op \in ContactOps => cache'.contacts = companion.contacts
       /\ "others" \in companion.autoadd]_vars

\* "local advertisement cooldown": no two adverts within a minute, also when the
\* first was reported as failed.
AdvertsSpaced == adverts <= 1

\* After the last failure the daemon gets connected and subscribed again by
\* itself, unless it is stopped, or a port was left open: what a second open of
\* the same port does is the operating system's.
Recovers ==
  <>[](stops = 0 /\ leaks = 0 => connected /\ backend \in receiving)

\* Every request that waits for the radio is answered.
RequestsReturn ==
  \A c \in Clients : task[c].pc = "waiting" ~> task[c].pc = "idle"
=============================================================================
