----------------------------- MODULE EventStore -----------------------------
(***************************************************************************)
(* The SQLite store of the MeshPincer daemon (daemon/src/meshpincer/       *)
(* store.py): an append-only event journal, the messages whose delivery    *)
(* state it narrates, one read cursor per consumer, and the housekeeping   *)
(* that prunes the journal's oldest prefix while all of them are in use.   *)
(*                                                                         *)
(* Every method of class Store opens its own connection and does its work  *)
(* in one BEGIN IMMEDIATE transaction, so each is one action here.  The    *)
(* exception is run_housekeeping: it reads the clock, computes its cutoff  *)
(* in a first transaction that it rolls back, deletes in a loop of further *)
(* transactions, and any other call may commit between two of them.        *)
(*                                                                         *)
(* Time is counted in days, the unit of the two windows.                   *)
(***************************************************************************)
EXTENDS Integers, FiniteSets, FiniteSetsExt, Functions, TLC, MessageStates

CONSTANTS
  Consumers,       \* consumer ids that call the cursor endpoints
  Runs,            \* concurrent callers of run_housekeeping
  Keys,            \* dedupe keys of the inbound messages the radio delivers
  RetentionDays,   \* Settings.retention_days
  IdleDays,        \* Settings.cursor_max_idle_days
  MaxMessages,     \* Settings.max_messages
  BatchSize,       \* events deleted per housekeeping transaction (1000)
  Skew,            \* days a writer's time stamp may lag behind its commit
  EventBound,      \* bound of the model: event ids handed out
  MessageBound,    \* bound of the model: message ids handed out
  ClockBound       \* bound of the model: days that pass

\* Settings.__post_init__ rejects anything smaller than one.
ASSUME SettingsAssumption ==
  /\ RetentionDays \in Nat \ {0}
  /\ IdleDays \in Nat \ {0}
  /\ MaxMessages \in Nat \ {0}
  /\ BatchSize \in Nat \ {0}

ASSUME BoundAssumption ==
  /\ Skew \in Nat
  /\ EventBound \in Nat
  /\ MessageBound \in Nat
  /\ ClockBound \in Nat

ASSUME ConsumersAssumption == IsFiniteSet(Consumers)

VARIABLES
  events,       \* table events: id -> kind, message id and recorded_at
  lastEvent,    \* the AUTOINCREMENT sequence of table events
  messages,     \* table messages: id -> its row
  lastMessage,  \* the AUTOINCREMENT sequence of table messages
  cursors,      \* table consumer_cursors
  pruned,       \* housekeeping_state.pruned_through_event_id, 0 without a row
  clock,        \* wall clock
  run,          \* local variables of each run_housekeeping call
  revived       \* history: consumers, idle or unknown to a call that is
                \* pruning, that came back after it planned its cutoff

vars == <<events, lastEvent, messages, lastMessage, cursors, pruned, clock,
          run, revived>>

-----------------------------------------------------------------------------
Kinds == OutboundStates \cup {"received", "audit"}

NoMessage == 0   \* an audit event's message id
NoKey     == 0   \* dedupe_key NULL
NoGap     == 0   \* history_gap_before NULL; a stored boundary is at least 2

EventRec   == [kind : Kinds, msg : Nat, at : Nat]
MessageRec == [key : Keys \cup {NoKey}, state : OutboundStates \cup {"received"},
               event : Nat]
CursorRec  == [known : BOOLEAN, event : Nat, updated : Nat, gap : Nat,
               expired : BOOLEAN]
RunRec     == [pc : {"idle", "begun", "pruning"}, current : Nat, prune : Nat]

NoCursor == [known |-> FALSE, event |-> 0, updated |-> 0, gap |-> NoGap,
             expired |-> FALSE]
IdleRun  == [pc |-> "idle", current |-> 0, prune |-> 0]

TypeOK ==
  /\ lastEvent \in Nat
  /\ lastMessage \in Nat
  /\ pruned \in Nat
  /\ clock \in Nat
  /\ DOMAIN events \subseteq 1..lastEvent
  /\ events \in [DOMAIN events -> EventRec]
  /\ DOMAIN messages \subseteq 1..lastMessage
  /\ messages \in [DOMAIN messages -> MessageRec]
  /\ cursors \in [Consumers -> CursorRec]
  /\ run \in [Runs -> RunRec]
  /\ revived \in [Runs -> SUBSET Consumers]

-----------------------------------------------------------------------------
EventIds == DOMAIN events

\* Mutant: MAX(events.id) alone, which forgets pruned history.
LatestOfRowsOnly == Max({0} \cup EventIds)

\* "Latest event" as last_event_id, advance_cursor and run_housekeeping
\* compute it: the larger of MAX(events.id) and the prune boundary.
Latest == Max({0, pruned} \cup EventIds)

\* recorded_at is taken before the transaction waits for the write lock.
Stamps == {t \in (clock - Skew)..clock : t >= 0}

\* A table with the row `id' inserted.
Inserted(table, id, row) ==
  [i \in DOMAIN table \cup {id} |-> IF i = id THEN row ELSE table[i]]

\* The journal with one more event.
Journal(kind, msg, at) ==
  Inserted(events, lastEvent + 1, [kind |-> kind, msg |-> msg, at |-> at])

Init ==
  /\ events = << >>
  /\ lastEvent = 0
  /\ messages = << >>
  /\ lastMessage = 0
  /\ cursors = [c \in Consumers |-> NoCursor]
  /\ pruned = 0
  /\ clock = 0
  /\ run = [h \in Runs |-> IdleRun]
  /\ revived = [h \in Runs |-> {}]

-----------------------------------------------------------------------------
(* Writers of the journal *)

\* append_event: the audit trail of the HTTP handlers.
AppendEvent(at) ==
  /\ lastEvent < EventBound
  /\ events' = Journal("audit", NoMessage, at)
  /\ lastEvent' = lastEvent + 1
  /\ UNCHANGED <<messages, lastMessage, cursors, pruned, clock, run, revived>>

\* A new message row and the event that announces it, in one transaction.
InsertMessage(key, state, at) ==
  /\ lastEvent < EventBound
  /\ lastMessage < MessageBound
  /\ messages' = Inserted(messages, lastMessage + 1,
                          [key |-> key, state |-> state, event |-> lastEvent + 1])
  /\ lastMessage' = lastMessage + 1
  /\ events' = Journal(state, lastMessage + 1, at)
  /\ lastEvent' = lastEvent + 1
  /\ UNCHANGED <<cursors, pruned, clock, run, revived>>

\* Mutant: a plain INSERT, without the unique dedupe key.
RecordWithoutDedupe(key, at) == InsertMessage(key, "received", at)

\* record_inbound: INSERT OR IGNORE on the unique dedupe key; a redelivery
\* writes nothing.
RecordInbound(key, at) ==
  /\ \A m \in DOMAIN messages : messages[m].key # key
  /\ InsertMessage(key, "received", at)

\* queue_outbound_direct and queue_outbound_channel.
QueueOutbound(at) == InsertMessage(NoKey, "queued", at)

\* Mutant: the row keeps pointing at its previous event.
TransitionKeepingEvent(m, state, at) ==
  /\ lastEvent < EventBound
  /\ messages[m].state \in OutboundStates
  /\ state \in Allowed(messages[m].state)
  /\ messages' = [messages EXCEPT ![m].state = state]
  /\ events' = Journal(state, m, at)
  /\ lastEvent' = lastEvent + 1
  /\ UNCHANGED <<lastMessage, cursors, pruned, clock, run, revived>>

\* Mutant: the table of allowed transitions is not consulted.
TransitionAnywhere(m, state, at) ==
  /\ lastEvent < EventBound
  /\ messages[m].state \in OutboundStates
  /\ messages' = [messages EXCEPT ![m].state = state, ![m].event = lastEvent + 1]
  /\ events' = Journal(state, m, at)
  /\ lastEvent' = lastEvent + 1
  /\ UNCHANGED <<lastMessage, cursors, pruned, clock, run, revived>>

\* transition_outbound: a missing row or a transition outside `allowed`
\* rolls back, anything else moves the message to its new event.
TransitionOutbound(m, state, at) ==
  /\ lastEvent < EventBound
  /\ messages[m].state \in OutboundStates
  /\ state \in Allowed(messages[m].state)
  /\ messages' = [messages EXCEPT ![m].state = state, ![m].event = lastEvent + 1]
  /\ events' = Journal(state, m, at)
  /\ lastEvent' = lastEvent + 1
  /\ UNCHANGED <<lastMessage, cursors, pruned, clock, run, revived>>

-----------------------------------------------------------------------------
(* Consumers *)

\* Mutant: a strict comparison, so that a cursor touched exactly at the limit
\* is neither active nor expired.
ActiveStrictlyAfter(now, c) ==
  cursors[c].known /\ cursors[c].updated > now - IdleDays

\* updated_at >= active_after, with active_after taken from the call's clock.
ActiveAt(now, c) == cursors[c].known /\ cursors[c].updated >= now - IdleDays

\* The history a write of c's row leaves with the calls that are pruning.
Revive(c) ==
  revived' = [h \in Runs |->
    IF run[h].pc = "pruning" /\ ~ActiveAt(run[h].current, c)
      THEN revived[h] \cup {c} ELSE revived[h]]

\* get_cursor: creates the row on first use, always refreshes updated_at.
GetCursor(c) ==
  /\ cursors' = [cursors EXCEPT ![c] =
       IF @.known
         THEN [@ EXCEPT !.updated = clock]
         ELSE [known |-> TRUE, event |-> 0, updated |-> clock,
               gap |-> IF pruned > 0 THEN pruned + 1 ELSE NoGap,
               expired |-> FALSE]]
  /\ Revive(c)
  /\ UNCHANGED <<events, lastEvent, messages, lastMessage, pruned, clock, run>>

\* Mutant: the id is stored without MAX.
AdvancedWithoutMax(old, id, at) ==
  [known |-> TRUE, event |-> id, updated |-> at, gap |-> NoGap, expired |-> FALSE]

\* Mutant: the conflict clause forgets to clear the gap.
AdvancedKeepingGap(old, id, at) ==
  CASE ~old.known ->
         [known |-> TRUE, event |-> id, updated |-> at, gap |-> NoGap, expired |-> FALSE]
    [] old.known /\ id >= old.event -> [old EXCEPT !.event = id, !.updated = at]
    [] OTHER -> old

\* The upsert of advance_cursor.
Advanced(old, id, at) ==
  CASE ~old.known ->
         [known |-> TRUE, event |-> id, updated |-> at, gap |-> NoGap, expired |-> FALSE]
    [] old.known /\ id >= old.event ->
         [old EXCEPT !.event = id, !.updated = at, !.gap = NoGap, !.expired = FALSE]
    [] OTHER -> old

\* Mutant: an id beyond the latest event is accepted.
AdvanceUnbounded(c, id, at) ==
  /\ cursors' = [cursors EXCEPT ![c] = Advanced(@, id, at)]
  /\ UNCHANGED <<events, lastEvent, messages, lastMessage, pruned, clock, run,
                 revived>>

\* advance_cursor: an id beyond the latest event is rejected.
AdvanceCursor(c, id, at) ==
  /\ id <= Latest
  /\ cursors' = [cursors EXCEPT ![c] = Advanced(@, id, at)]
  /\ IF Advanced(cursors[c], id, at) = cursors[c]
       THEN UNCHANGED revived ELSE Revive(c)
  /\ UNCHANGED <<events, lastEvent, messages, lastMessage, pruned, clock, run>>

-----------------------------------------------------------------------------
(* Housekeeping *)

\* Mutant: stop one short of the slowest consumer, below zero for a new one.
SafeBelow(now) ==
  LET active == {c \in Consumers : ActiveAt(now, c)}
  IN  IF active = {} THEN Latest ELSE Min({cursors[c].event : c \in active}) - 1

\* safe_through: the slowest active consumer, or everything without one.
SafeThrough(now) ==
  LET active == {c \in Consumers : ActiveAt(now, c)}
  IN  IF active = {} THEN Latest ELSE Min({cursors[c].event : c \in active})

\* age_cutoff: everything before the first event inside the window.
AgeCutoff(now, safe) ==
  LET recent == {i \in EventIds : i <= safe /\ events[i].at >= now - RetentionDays}
  IN  IF recent = {} THEN safe ELSE Min(recent) - 1

\* Mutant: OFFSET prune_count instead of prune_count - 1.
CapCutoffOffByOne(safe) ==
  LET eligible == {e \in {messages[m].event : m \in DOMAIN messages} : e <= safe}
      overflow == Max({Cardinality(DOMAIN messages) - MaxMessages, 0})
      count    == Min({overflow + 1, Cardinality(eligible)})
  IN  IF overflow = 0 \/ count = 0 THEN 0
      ELSE Min({e \in eligible : Cardinality({x \in eligible : x <= e}) >= count})

\* cap_cutoff: the last of the oldest messages above the cap.
CapCutoff(safe) ==
  LET eligible == {e \in {messages[m].event : m \in DOMAIN messages} : e <= safe}
      overflow == Max({Cardinality(DOMAIN messages) - MaxMessages, 0})
      count    == Min({overflow, Cardinality(eligible)})
  IN  IF count = 0 THEN 0
      ELSE Min({e \in eligible : Cardinality({x \in eligible : x <= e}) >= count})

PruneThrough(now) ==
  LET safe == SafeThrough(now)
  IN  Min({Max({AgeCutoff(now, safe), CapCutoff(safe)}), safe})

\* `current` is read before the connection is opened.
HousekeepingBegin(h) ==
  /\ run[h].pc = "idle"
  /\ run' = [run EXCEPT ![h] = [pc |-> "begun", current |-> clock, prune |-> 0]]
  /\ UNCHANGED <<events, lastEvent, messages, lastMessage, cursors, pruned, clock,
                 revived>>

\* The planning transaction; it is rolled back, so only prune_through
\* survives it.  A dry run returns here.
HousekeepingPlan(h) ==
  /\ run[h].pc = "begun"
  /\ run' = [run EXCEPT ![h].pc = "pruning",
                        ![h].prune = PruneThrough(run[h].current)]
  /\ revived' = [revived EXCEPT ![h] = {}]
  /\ UNCHANGED <<events, lastEvent, messages, lastMessage, cursors, pruned, clock>>

\* The rows a deleting transaction selects, and the id it deletes through.
Doomed(h) == {i \in EventIds : i <= run[h].prune}
BatchThrough(h) ==
  Max({i \in Doomed(h) : Cardinality({j \in Doomed(h) : j <= i}) <= BatchSize})

\* The UPDATE of consumer_cursors: skip every idle cursor that is behind.
Expired(h, through, old) ==
  IF old.known /\ old.updated < run[h].current - IdleDays /\ old.event < through
    THEN [old EXCEPT !.event = through, !.gap = through + 1, !.expired = TRUE]
    ELSE old

\* Mutant: the boundary is left to the closing transaction.
BatchWithoutBoundary(h) ==
  /\ run[h].pc = "pruning"
  /\ Doomed(h) # {}
  /\ LET through == BatchThrough(h)
     IN  /\ messages' = Restrict(messages, {m \in DOMAIN messages : messages[m].event > through})
         /\ events' = Restrict(events, {i \in EventIds : i > through})
         /\ cursors' = [c \in Consumers |-> Expired(h, through, cursors[c])]
  /\ UNCHANGED <<lastEvent, lastMessage, pruned, clock, run, revived>>

\* Mutant: DELETE ... WHERE id < batch_through, which leaves the last row for
\* the loop to find again.
BatchLeavingLastRow(h) ==
  /\ run[h].pc = "pruning"
  /\ Doomed(h) # {}
  /\ LET through == BatchThrough(h)
     IN  /\ messages' = Restrict(messages, {m \in DOMAIN messages : messages[m].event > through})
         /\ events' = Restrict(events, {i \in EventIds : i >= through})
         /\ cursors' = [c \in Consumers |-> Expired(h, through, cursors[c])]
         /\ pruned' = Max({pruned, through})
  /\ UNCHANGED <<lastEvent, lastMessage, clock, run, revived>>

\* One deleting transaction.
HousekeepingBatch(h) ==
  /\ run[h].pc = "pruning"
  /\ Doomed(h) # {}
  /\ LET through == BatchThrough(h)
     IN  /\ messages' = Restrict(messages, {m \in DOMAIN messages : messages[m].event > through})
         /\ events' = Restrict(events, {i \in EventIds : i > through})
         /\ cursors' = [c \in Consumers |-> Expired(h, through, cursors[c])]
         /\ pruned' = Max({pruned, through})
  /\ UNCHANGED <<lastEvent, lastMessage, clock, run, revived>>

\* The loop finds nothing more (or prune_through was 0) and the closing
\* transaction records the boundary again.
HousekeepingFinish(h) ==
  /\ run[h].pc = "pruning"
  /\ Doomed(h) = {}
  /\ pruned' = Max({pruned, run[h].prune})
  /\ run' = [run EXCEPT ![h] = IdleRun]
  /\ revived' = [revived EXCEPT ![h] = {}]
  /\ UNCHANGED <<events, lastEvent, messages, lastMessage, cursors, clock>>

-----------------------------------------------------------------------------
(* The environment *)

Tick ==
  /\ clock < ClockBound
  /\ clock' = clock + 1
  /\ UNCHANGED <<events, lastEvent, messages, lastMessage, cursors, pruned, run,
                 revived>>

\* The process dies: tables survive, the calls in progress do not.
Crash ==
  /\ run' = [h \in Runs |-> IdleRun]
  /\ revived' = [h \in Runs |-> {}]
  /\ UNCHANGED <<events, lastEvent, messages, lastMessage, cursors, pruned, clock>>

Write(at) ==
  \/ AppendEvent(at)
  \/ \E key \in Keys : RecordInbound(key, at)
  \/ QueueOutbound(at)
  \/ \E m \in DOMAIN messages, state \in OutboundStates :
       TransitionOutbound(m, state, at)

Consume(c) ==
  \/ GetCursor(c)
  \/ \E id \in 0..(lastEvent + 1), at \in Stamps : AdvanceCursor(c, id, at)

Housekeeping(h) ==
  \/ HousekeepingBegin(h)
  \/ HousekeepingPlan(h)
  \/ HousekeepingBatch(h)
  \/ HousekeepingFinish(h)

Next ==
  \/ \E at \in Stamps : Write(at)
  \/ \E c \in Consumers : Consume(c)
  \/ \E h \in Runs : Housekeeping(h)
  \/ Tick
  \/ Crash

Spec == Init /\ [][Next]_vars

\* Once called, run_housekeeping keeps going: nothing in its loop waits for
\* another caller.
LiveSpec ==
  /\ Spec
  /\ \A h \in Runs : WF_vars(HousekeepingPlan(h) \/ HousekeepingBatch(h)
                             \/ HousekeepingFinish(h))

-----------------------------------------------------------------------------
(* Properties *)

\* The retained events are exactly the ids after the prune boundary, at every
\* commit and so also after a crash between two deleting transactions: the
\* boundary get_cursor reports as a gap is never behind or ahead of the data.
EventsFollowBoundary == EventIds = (pruned + 1)..lastEvent

\* "Latest" never regresses to an id a consumer has already passed, whatever
\* was pruned: it always is the last id handed out.  advance_cursor and the
\* safe prefix of run_housekeeping rest on it.
LatestIsLastHandedOut == Latest = lastEvent

\* No consumer is ever moved, by itself or by an expiry, past the newest
\* recorded event: it would skip events that are still to come.
CursorsWithinJournal == \A c \in Consumers : cursors[c].event <= lastEvent

\* A recorded gap tells the truth: all events between the cursor and the
\* boundary are gone, and the consumer has not moved past the boundary.
GapsAreTruthful ==
  \A c \in Consumers : cursors[c].gap # NoGap =>
    /\ cursors[c].event < cursors[c].gap
    /\ \A i \in EventIds : i > cursors[c].event => i >= cursors[c].gap

\* Every message row points at a retained event that is its own, says its
\* state, and is its newest: transition, journal and pruning stay together.
MessagesMatchJournal ==
  \A m \in DOMAIN messages :
    /\ messages[m].event \in EventIds
    /\ events[messages[m].event].msg = m
    /\ events[messages[m].event].kind = messages[m].state
    /\ \A i \in EventIds : events[i].msg = m => i <= messages[m].event

\* What a consumer reads of one message is a legal delivery history, and no
\* message is announced as received twice while its row is retained.
JournalTellsLegalHistories ==
  \A i, j \in EventIds :
    (/\ i < j /\ events[i].msg = events[j].msg /\ events[i].msg # NoMessage
     /\ \A k \in EventIds : i < k /\ k < j => events[k].msg # events[i].msg)
    => events[j].kind \in Allowed(events[i].kind)

\* A redelivery is announced once: as long as the journal retains the event of
\* an inbound message its row, which deduplicates, is retained too, and no
\* other retained event announces the same key.
ReceivedOnce ==
  \A i, j \in {i \in EventIds : events[i].kind = "received"} :
    /\ events[i].msg \in DOMAIN messages
    /\ i # j => messages[events[i].msg].key # messages[events[j].msg].key

\* Cursor movement is monotonic, for an advance, a late or repeated advance
\* and an expiry alike, and a consumer that is known stays known.
CursorsMonotone ==
  [][\A c \in Consumers : cursors[c].known =>
       cursors'[c].known /\ cursors'[c].event >= cursors[c].event]_vars

\* Rows are pruned for a reason: a deleted message is older than the window,
\* or a full cap of messages remains.  Two calls that plan from the same
\* overflow must not both take it out.
PruneJustified ==
  [][\A m \in DOMAIN messages \ DOMAIN messages' :
       \/ events[messages[m].event].at < clock - RetentionDays
       \/ Cardinality(DOMAIN messages') >= MaxMessages]_vars

\* c loses events it has not read in this step and is told where they ended.
ToldOfLoss(c) ==
  /\ cursors'[c].event = pruned'
  /\ cursors'[c].gap = pruned' + 1
  /\ cursors'[c].expired

\* A step that deletes events a known consumer has not passed moves it to the
\* boundary and marks the gap, except for a consumer that had been idle, or
\* unknown, and came back while that housekeeping call was pruning.
LossIsMarked ==
  [][\A c \in Consumers :
       cursors[c].known /\ pruned' > pruned /\ cursors[c].event < pruned'
       => ToldOfLoss(c) \/ \E h \in Runs : c \in revived[h]]_vars

\* A housekeeping call ends although writers append and consumers move while
\* it runs.
HousekeepingEnds == \A h \in Runs : run[h].pc = "pruning" ~> run[h].pc = "idle"

-----------------------------------------------------------------------------
(* What the documents say, and the code does not do *)

\* README.md: housekeeping "removes only a contiguous event prefix already
\* passed by every active consumer".  LossIsMarked without its exception: an
\* active consumer is never behind what a step deletes.
PrunesOnlyWhatActiveConsumersPassed ==
  [][\A c \in Consumers :
       ActiveAt(clock, c) /\ pruned' > pruned => cursors[c].event >= pruned']_vars
=============================================================================
