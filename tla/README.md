# Verification of MeshPincer in TLA+

MeshPincer connects a MeshCore companion radio to an agent gateway. A Python
daemon (`src/daemon/src/meshpincer/`) owns the serial port, keeps an SQLite
journal of everything it hears and does, and offers an authenticated HTTP
interface. A TypeScript plugin (`src/openclaw-plugin/src/`) reads that journal
through a durable cursor, hands requests to the agent and sends the answers.

This directory holds TLA+ modules of the parts in which ordering, failure and
restarts matter, TLC configurations that check them on small instances, and
TLAPS proofs for every value of the constants. Line numbers below are of the
files under `src/daemon/src/meshpincer/` and `src/openclaw-plugin/src/`.

Contents: [1 inventory](#1-inventory), [2 modules](#2-modules),
[3 runs](#3-runs-and-what-they-show), [4 fairness](#4-fairness),
[5 proofs](#5-proofs), [6 divergences](#6-where-the-code-and-its-documents-disagree),
[7 not modelled](#7-what-is-not-modelled), [8 plan](#8-plan).

## 1. Inventory

| Component | State | Operations | Talks to |
|---|---|---|---|
| Event store (`store.py`) | tables `events`, `messages`, `consumer_cursors`, `housekeeping_state` | `append_event`, `record_inbound`, `queue_outbound_*`, `transition_outbound`, `get_cursor`, `advance_cursor`, `run_housekeeping`, readers | called by the HTTP handlers, the inbound handler and the daily task, each on a connection of its own |
| Outbound delivery (`app.py` 380-482, `radio.py` 397-446, 844-928) | the message row, `_operation_lock`, cooldown time stamps, the ACK future and `early_acks` | `send_direct`, `send_channel`, ACK handler | store (row and events), radio session (backend, caches), companion radio |
| Radio session (`radio.py` 651-842, 1299-1460) | `_run` task, `_backend`, `_status`, contact and channel caches, the subscription | discover, connect, refresh, subscribe, disconnect, back-off, stop | companion radio over serial; everything that sends uses its backend and caches |
| Contact and channel management (`radio.py` 232-330, 735-842) | companion's tables, the library's copy, the daemon's cache | upsert, remove, route, set, rename, clear, auto-add flags, each read back; local advert with its cooldown | shares lock and link with refresh and sends |
| Repeater administration (`radio.py` 458-650, 930-1297; `app.py` 498-718) | tag of the exchange in progress, cooldown time stamps per class and repeater, request and outcome events | status, ACL, login, configuration: read; change and read back | companion radio, remote repeater over an unreliable mesh, store |
| Inbound path (`radio.py` 332-396, `app.py`) | subscription, dedupe key | message event to `record_inbound` | companion radio to store |
| HTTP surface (`app.py`, `models.py`) | none of its own | validation, audit events, mapping of errors to 4xx/5xx | store and radio |
| Native channel (`channel.ts`) | consumer cursor (in the daemon), `initialized`, node name | `initialize`, `pumpOnce`, `processEvent`, `startAccount` | daemon over HTTP, agent |
| Reply policy (`channel.ts` 400-488) | none | byte budgets, fallback notice, mention parsing | native channel |
| Operator tools and inbox (`tools.ts`) | unread cursor | one HTTP request per tool; unread view acknowledges on the next call | daemon over HTTP |
| Start-up (`config.py`, `main.py`, `discovery.py`, `login_cli.py`) | none | environment, USB enumeration | - |

What is hard about them:

* **Store.** Each method is one `BEGIN IMMEDIATE` transaction, except
  `run_housekeeping` (548): it plans in a transaction that it rolls back and
  deletes in a loop of further ones, while writers, consumers and a second
  housekeeping call go on and the process may die in between. Correct means:
  the journal is contiguous behind a known boundary, cursors only move forward
  and never past the journal, rows and events agree, and a consumer that lost
  events can tell.
* **Outbound.** ACKs overtake the companion's answer, come late or twice; the
  answer to a send command is lost; the link or the process goes away; the
  store may fail after the message is on the air. Correct means: at most one
  transmission, no state that claims more than happened, cooldowns that
  concurrent requests cannot beat, and an answer to every request.
* **Session.** Failures reach `_run` inside and outside of the operation lock
  while requests use the link it is about to close, and the disconnect may fail
  as well. Correct means: the port is not opened again before the disconnect
  has ended, caches that are never replaced by older readings, answers that the
  radio itself confirms, and recovery without help.
* **Repeaters.** Packets and replies are lost or late, also behind their own
  repetition; tags have one byte and login and status answers have none; a change
  is read, made and read back while another administrator is at it. Correct
  means: what is reported as verified was so, late writes were announced, the
  journal knows of every request before the radio does, and cooldowns hold for
  failures too.
* **Plugin.** Each await can fail, the gateway may crash or run an aborted
  account beside its successor, and cursor and answers live in different
  processes. Correct means: no direct request passed over, requests answered in
  order, few repeats, and a cursor that eventually drains.

`PROJECT.json` lists these hazards one by one, at the line where each bites,
with the properties that cover it.

## 2. Modules

| Module | Models | Extends / uses |
|---|---|---|
| `MessageStates` | `DeliveryState` and the `allowed` table of `transition_outbound` | - |
| `EventStore` | `store.py` | `MessageStates` |
| `DataFacts` | lemmas on `Min` and `Max` of sets of numbers and on the queues that stand for locks | - |
| `EventStoreProofs` | theorems about `EventStore`: journal, cursors, housekeeping | `EventStore`, `DataFacts` |
| `MessageProofs` | theorems about `EventStore`: message rows and their events | `EventStoreProofs` |
| `Delivery` | abstract promise about an outbound message | `MessageStates` |
| `Outbound` | sends from request to last delivery state | `MessageStates`, instance of `Delivery` |
| `OutboundProofs` | theorems about `Outbound`, the refinement of `Delivery` included | `Outbound` |
| `RadioSession` | `_run`, link, caches and requests that change the radio | - |
| `RadioSessionProofs` | theorems about `RadioSession` | `RadioSession`, `DataFacts` |
| `RepeaterAdmin` | operations on remote repeaters from request event to outcome event | - |
| `RepeaterAdminProofs` | theorems about `RepeaterAdmin` | `RepeaterAdmin`, `DataFacts` |
| `EventPump` | native channel of the plugin | - |
| `EventPumpProofs` | theorems about `EventPump` | `EventPump` |
| `ReplyPolicy` | what the plugin makes of a draft, with theorems | - |
| `MC*` | constants and symmetry for TLC | the module they are named after |

Definitions named `Mutant: ...` in a comment are not part of any specification.
Each is a plausible bug in the definition that follows it; substituting it makes
TLC find the property it belongs to violated.

### EventStore

`events`, `messages` and `cursors` are the tables as functions from ids to
rows; `lastEvent` and `lastMessage` are their AUTOINCREMENT sequences; `pruned`
is `housekeeping_state.pruned_through_event_id`. `run[h]` holds the local
variables of housekeeping call `h` (`current` and `prune_through`). Time is
counted in days, the unit of both windows. `Skew` lets a writer's `recorded_at`
lag behind its commit, because it is taken before the transaction waits for the
write lock.

| Action | Code |
|---|---|
| `AppendEvent`, `RecordInbound`, `QueueOutbound`, `TransitionOutbound` | 131, 143, 233-314, 316 |
| `GetCursor`, `AdvanceCursor` | 394, 440 |
| `HousekeepingBegin` | `current = ...` read before the connection is opened |
| `HousekeepingPlan` | the first transaction with `safe_through`, `age_cutoff`, `cap_cutoff` |
| `HousekeepingBatch` | one iteration of the deleting loop |
| `HousekeepingFinish` | the transaction that closes the call |
| `Crash` | the process dies: tables stay, calls do not |

`revived` is a history variable: for each housekeeping call, the consumers that
were not active when it planned and called since. `LossIsMarked` needs it to
say exactly which losses go unmarked.

### Outbound and Delivery

A step is the code between two suspension points of the event loop.
`_operation_lock` is an asyncio lock, a queue whose head owns it. A request's
coroutine is `task[r].pc`:
`new, queued, waiting, sending, marking, awaiting, closing, done`, and `dead`
after a restart. `device[r]` is the companion's view of the command, `learned`
what it really has a path or a key for, `usable` what the daemon's caches say
of it. `air` records transmissions, `acked` what recipients acknowledged.
`Decline` and `Submit` are the checks in their order (`Verdict`);
`SendAccepted` starts the cooldowns; `MarkTransmitted` is the commit of
`transmitted` and the look into `early_acks`; `Close` is the last transition
and the HTTP reply. `MarkFails` and `CloseFails` are a store that raises: locked,
or the row pruned by a small message cap.

`Delivery` has neither locks nor handlers: a message is enqueued, transmitted
at most once, confirmed by its recipient and reported. `Outbound` implements it
under the mapping `state <- row`, `onAir <-` the requests in `air`,
`confirmed <- acked` (property `KeepsPromise`). It promises nothing about a
transmission that comes after the daemon has given up: the companion may still
send a command whose answer timed out.

### RadioSession

`session` numbers the serial links, `open` is the set whose port is open,
`backend` the one in `self._backend`. There are three copies of the contact
table: `companion.contacts`, `lib` (the meshcore library's) and
`cache.contacts`. `cache.contactsAt` and `slotsAt` date a reading by the number
of changes the radio's tables had seen, which is how `CachesNeverGoBack` can
speak of older readings. `runner` is where `_run` is:

    connecting -> joining -> reading -> halfway -> subscribing -> sleeping
         ^                      |          |            |            |
         |                      +----------+------------+   joining <+
      backoff <- closing <------------ RunFails

`Disconnect` and `StopDisconnects` end well (`Closes`) or fail (`CloseFails`):
`MeshCoreBackend.disconnect` (620) awaits `stop_receiving` first, and
`RadioManager._disconnect` (1447) forgets the backend before it awaits that and
swallows what it raises. A failure of the first leaves port and subscription, a
failure of the second leaves the port, and nobody owns either any more. In the
same way a connection attempt that fails or is cancelled may leave its port open
(`Abandons`): what `create_serial` does then is the library's. `leaks` counts
these ports, `LeakBound` bounds them, and `SingleLink` says that no other port
is open beside the one in use: `Cardinality(open) <= 1 + leaks`. A link whose
port is left open goes on serving a request that captured it; whether the
operating system lets a port be opened twice is not the daemon's, so the model
lets it. `receiving` is the set of links with a subscription, since that of an
abandoned link lives on with it.

A client's request is `waiting -> (probing ->) writing -> reading -> idle`; it
keeps the link it captured (`via`) when the session is replaced under it, and an
upsert keeps the path (`path`) it took from the library's copy before it sent
anything; `lib` is the copy of the link in `backend` only.
`Decline` and `Begin` are the checks at the head of the lock's queue,
`ProbeSlot` and `ProbeMask` what `rename_channel` and the auto-add update read
first. `Menu` gives each client the operations it may ask for: those on a
contact, on a slot, and those on the device (`overwrite`, `keep` for the
auto-add flags, `advert`). `companion.autoadd` is the flag byte as a set: the bit
a request is about and the other bits, which it must write back as it read
them. `recent` says that `_last_local_advert` is less than a minute old; it is
set before the command is sent and so also counts an advert that failed.
`adverts`, a history variable, counts the adverts within one such minute.
`MinuteOver` waits until no advert is under way: a command of the library times
out after seconds, long before the minute does. Replies are `none`, `ok` and
`error`: which of the 4xx and 5xx an error becomes is data.

### RepeaterAdmin

`plan[r]` is what request `r` asks of which repeater; `task[r]` its coroutine:
`new`, `queued`, `asking` (an exchange is on the mesh), `pausing` between two
attempts, `recording` (the outcome event), `done`, and `dead` after a restart.
An operation is a sequence of exchanges (`Verb`): `login`, `status`, `query` of
an ACL, and the CLI's `get` and `set`. A configuration change is get, set, get;
an ACL change query, set, query. `packets` and `replies` are on the mesh: a packet
stays until its repeater executes it and a reply until it is heard, which may be
late, out of order or never, and after its request or the daemon is gone.
`register` is what the repeaters hold, `journal` the last audit event of each
request, `uses` the time stamps of the cooldowns, `lock` the operation lock,
`setting` the configured number of attempts.

| Action | Code |
|---|---|
| `Arrive` | the handler's `*.requested` event, then a place in the lock's queue |
| `Decline`, `Begin` | connection, contact and cooldown checks; the time stamp, before anything is sent; the first exchange |
| `Answered` | a reply that matches: by tag and repeater (CLI), by repeater (status, login), or by the request (ACL query) |
| `TimeOut`, `Retry` | the wait ends; a CLI exchange is repeated with a new tag until its attempts are spent |
| `CommandFails` | the companion refuses the command or its answer is lost |
| `Record`, `RecordFails` | the outcome event and the reply; a store that raises |
| `Execute` | external: a repeater receives a packet |
| `OtherAdmin`, `Restart`, `Tick` | another administrator, the process, the clock |

`task[r].seen` collects what the repeater held while `r` was at work,
`mistook` counts replies taken for another command's, `foreign` notes a reply to
another request: history, for the properties. A status answer is matched by the
repeater's prefix in both transports the code tries, which are therefore one
exchange. Values that the HTTP models refuse never get to a handler and are not
in `Values`.

### EventPump

The journal is a sequence of kinds (`other`, `exact`, `chat`, `mention`), an
event's id is its index. A pump is one run of `startAccount`:
`starting`, then rounds of `polling`, the baseline (`heading`, `baselining`),
and for each event of a batch `next`, `replying` or `dispatching`, `advancing`.
Each await may fail (`GoesWrong`); where the daemon acts before its answer is
lost, both outcomes are there (`BaselineUnanswered`, `ReplyUncertain`,
`AdvanceFails`). `Abort` leaves a run at work until it looks at its signal
between two rounds, so that `Start` may run a successor beside it. The agent's
turn is external and answers at most once. `served`, `aired`, `installed` and
`base` are history.

### ReplyPolicy

A text is its length in bytes: all the code decides, it decides by length.
`repaired` is what the compression pass returned, 0 if it failed. The module has
no state; it is proved for all lengths and stands in no run.

## 3. Runs and what they show

State counts are distinct states; all runs are exhaustive.

| Run | Instance | Shows |
|---|---|---|
| `store_consumers` | 2 consumers, 1 housekeeping call, 3 events, batch of 1 | `EventsFollowBoundary`, `LatestIsLastHandedOut`, `CursorsWithinJournal`, `GapsAreTruthful`, `CursorsMonotone`, `LossIsMarked`, and `HousekeepingEnds` |
| `store_messages` | 2 overlapping housekeeping calls, 3 messages, 4 events, time stamps that lag a day; 971k states | `MessagesMatchJournal`, `JournalTellsLegalHistories`, `ReceivedOnce`, `PruneJustified` |
| `outbound_direct` | 2 sends to one peer, a restart; 1.05M states | `AtMostOnce`, `StatesAreHonest`, `RepliesMatchRows`, `EarlyAckCounts`, `CooldownsHold`, and the refinement `KeepsPromise` |
| `outbound_live` | one send of each kind, the slot refused, a restart | `RequestsAnswered` |
| `session` | 2 requests (an upsert or a new slot beside anything else), 1 contact, 1 slot, one fault, one port left open, one change, one stop; 494k states | `SingleLink`, `ConnectedMeansFresh`, `CachesNeverGoBack`, `OkIsVerified`, `AdvertsSpaced`, `Recovers`, `RequestsReturn` |
| `repeater` | 2 requests in the pairs below, 2 repeaters, 2 values, one trouble, one doubled tag; 552k states | `VerifiedMeansHeld`, `TrailTellsTheTruth`, `CooldownsHold`, `LoginAnswersOwn`, `LateWritesWereAnnounced`, `RequestsAnswered` |
| `pump_overlap` | 2 pumps, an abort, a fault, 3 events in batches of 2; 906k states | `NothingSkipped`, `InOrder` |
| `pump_live` | 1 pump, 2 faults, an abort, a crash; 218k states | `RepeatsArePaidFor`, `Drains` |
| `store_active_loss` | 1 consumer, 1 call | a violation, see [6](#6-where-the-code-and-its-documents-disagree) |
| `outbound_flood` | 2 direct sends | a violation |
| `pump_baseline` | 1 pump, 1 event, 1 crash | a violation |
| `repeater_acl` | an ACL change of an entry above 3, beside a status request | a violation |

Each module's type invariant is checked in its first run.

### Why the bounds are enough

* *Store.* `EventBound` 3 with a batch of 1 lets a call delete two batches with
  others in between and leave an event behind. Two consumers are one active and
  one idle. One housekeeping call is enough for what `store_consumers` asks
  because the theorems below hold for any number; `store_messages`, which looks
  for what two calls do to each other's rows, has two. A window of one day and a clock that
  reaches two gives the three cases before, at and after each limit.
* *Outbound.* The hazards need two requests: one that owns the lock and one
  that queues. One restart separates the lives of cooldowns and rows. Cooldown
  0 with a per-target cooldown of 1 tells the two apart; the theorems hold for
  all of these numbers.
* *Session.* One fault may hit any command; after it a closed link fails every
  command without counting. One change beside two requests is enough for two
  readings to differ; `ChangeBound` counts requests' changes as well, so that
  two requests that arrive before the first change still both happen. `Menu`
  lets the second client add the contact or fill the slot and the first one ask
  for anything else, so that each operation on a contact or slot meets one that
  reads and writes the same. To begin with the contact is unknown or has a path
  (`MCSpec`). One port that is left open is enough for a second open beside it;
  the theorems hold for any number.
* *Repeaters.* `Setups` are pairs of requests with the attempts a CLI exchange
  has. With one attempt: two configuration changes of one repeater, a
  configuration and an ACL change of two, two ACL changes, two reads of
  one configuration, two logins at one repeater and at two, a status beside an ACL read. With
  two: an ACL change beside a status request. A second attempt is needed only
  where a packet can be late behind its own repetition; it multiplies packets and
  replies, so the other pairs do without. One trouble is a failed command, a
  failed append, a refusal, a restart or another administrator's change; one
  collision is a tag drawn twice, of 256, and `VerifiedMeansHeld` says what
  more of them could do. Both cooldowns are 1 in this run, so TLC does not tell
  the global cooldown from a longer one per repeater; the theorem
  `CooldownsAlwaysHold` does, for any two numbers.
* *Pump.* Batches hold 100 events; `Limit` 2 has a full batch, a rest and an
  empty one in a journal of 3. `AirCap` lets the count of answers saturate above
  what the fault bounds can reach.

`CHECK_DEADLOCK FALSE` appears in `session`, whose daemon can be stopped, and in
`repeater` and `repeater_acl`, where all requests end and the clock stops.
Symmetry is used only in runs without temporal liveness properties.
`FetchNothing` of the pump is a poll that changes nothing and stands in the
next-state relation to say that a pump at the end of its journal is idle and not
stuck.

## 4. Fairness

* `HousekeepingPlan`, `HousekeepingBatch`, `HousekeepingFinish`: a call, once
  its transactions begin, waits for no other caller beyond SQLite's write lock,
  which each caller holds for one transaction. `HousekeepingBegin` is not fair:
  nobody has to call.
* `Outbound.LiveSpec`: runnable coroutines run (asyncio's ready queue is a
  FIFO); the library answers or times out every command; `wait_for` bounds the
  wait for an ACK. Nothing of the mesh is fair: no ACK need ever arrive.
* `RadioSession.Fairness`: `_run` and the requests go on when they can, and
  each command is answered or fails. Weak fairness on the disjunction does not
  force the good outcome; faults end because `FaultBound` does. `Recovers` is
  stated for runs in which no port was left open: whether a port opens again
  beside one of the same process is beyond the code.
* `RepeaterAdmin.LiveSpec`: a coroutine that can go on does, since every
  exchange has a timeout and every attempt a number. Nothing of the mesh, the
  repeaters or another administrator is fair.
* `EventPump.LiveSpec`: the gateway runs the account again after it ended, each
  request is answered or fails, a turn ends. `Drains` therefore says: once
  failures stop, the cursor reaches every event. It says nothing about a reply
  the daemon refuses for ever (see section 6).

## 5. Proofs

`EventStoreProofs` proves, for any finite set of consumers, any number of
housekeeping calls, all settings `Settings.__post_init__` accepts and all
bounds:

| Theorem | Statement |
|---|---|
| `TypeCorrect` | `Spec => []TypeOK` |
| `JournalIsContiguous` | `Spec => []EventsFollowBoundary` |
| `LatestNeverRegresses` | `Spec => []LatestIsLastHandedOut` |
| `CursorsStayWithinJournal` | `Spec => []CursorsWithinJournal` |
| `GapsTellTheTruth` | `Spec => []GapsAreTruthful` |
| `CursorsNeverMoveBack` | `Spec => CursorsMonotone` |
| `LossIsAlwaysMarked` | `Spec => LossIsMarked` |

Assumptions: `SettingsAssumption` (each setting is at least one),
`BoundAssumption` (the model's bounds are natural numbers) and
`ConsumersAssumption` (finitely many consumers). TLC evaluates all three.

The inductive invariant is `Journaled`:

* `TypeOK` and `EventsFollowBoundary` hold of each other's account: the deleting
  transaction computes its boundary as the maximum of the ids it selected, and
  that maximum exists and lies in the journal because the ids are contiguous;
* `BoundaryWithinJournal`: `pruned <= lastEvent`. `EventsFollowBoundary` alone
  does not say it, since a range whose lower end is far above its upper end is
  as empty as one just above it;
* `CursorsWithinJournal`: an advance is bounded by `Latest`, and an expiry by
  the batch;
* `PlansWithinJournal`: the cutoff a call carries from its planning transaction
  does not exceed the last id, however many writers came in between. Without it
  `HousekeepingFinish`, which writes the cutoff without looking at the journal,
  could move the boundary past it;
* `GapsAtBoundary`: a gap lies beyond its cursor and at most one past the
  boundary, so that with contiguity every event between them is gone;
* `PlansSpareTheActive`: while a call is pruning, each known consumer is past its
  cutoff, or is old enough for this call to expire it, or is in `revived`. This is
  the fact that the planning transaction establishes and that nothing re-checks
  in the deleting ones; `LossIsMarked` is what remains true because of it, and
  its exception is the run `store_active_loss`.

The proof has a lemma per action, each with one step per conjunct it can
disturb, and the facts about `Latest`, `SafeThrough`, `AgeCutoff`, `CapCutoff`
and `BatchThrough` in lemmas of their own. `DataFacts` derives what `Min` and
`Max` of the community modules return from the well-foundedness of `<`, and what
joining, passing on and leaving do to a queue in which each waiter stands once.

`MessageProofs` proves, under the same assumptions:

| Theorem | Statement |
|---|---|
| `RowsMatchJournal` | `Spec => []MessagesMatchJournal` |
| `HistoriesAreLegal` | `Spec => []JournalTellsLegalHistories` |
| `RedeliveriesAnnouncedOnce` | `Spec => []ReceivedOnce` |
| `DeletionsHaveReasons` | `Spec => PruneJustified` |

`Journaled` is the base. `Narrated` adds what the first three need: a row goes
only with all its events, so each event that is left and names a message has its
row (`EventsHaveRows`); the event of a received message is its row's only one
(`ReceivedIsNewest`); and the dedupe keys of two received rows differ
(`ReceivedKeysDiffer`). `Planned` is for `PruneJustified`, which looks at a deleting
transaction whose reasons were found in an earlier one: whatever rows call `h`
may still take are old by the time `h` began, or a full cap of messages lies
beyond its cutoff. Rows are added only above the cutoff and never leave from
above it by `h`; that another call's deletion does not spoil it follows because
deletions take prefixes.

`OutboundProofs` proves, for any sets of direct and channel sends, any
targets, both cooldowns and all bounds:

| Theorem | Statement |
|---|---|
| `TypeCorrect` | `Spec => []TypeOK` |
| `OperationsAreSerial` | `Spec => []OneOperationAtATime` |
| `OneTransmission` | `Spec => []AtMostOnce` |
| `RowsAreHonest` | `Spec => []StatesAreHonest` |
| `RepliesTellTheTruth` | `Spec => []RepliesMatchRows` |
| `EarlyAcksCount` | `Spec => []EarlyAckCounts` |
| `CooldownsAlwaysHold` | `Spec => CooldownsHold` |
| `ImplementsDelivery` | `Spec => KeepsPromise`, that is `Delivery!Spec` under the mapping |

Assumptions: `RequestsAssumption` (direct and channel sends are disjoint, each
has a target) and `CooldownAssumption` (natural numbers). The inductive
invariant is `Coherent`:

* `Sound(r)` says for each request what its `pc` tells of its row, its outcome,
  the companion's view of the command, the answer, the ACKs and the reply. It is
  what makes the honest rows inductive: a row becomes `transmitted` steps after
  the transmission, and only the `pc` in between remembers it.
* `OneOperationAtATime` is needed because a refresh, a link loss and another
  request's end change the lock and the caches under a coroutine. From it follows
  the lemma `OneCoroutine`: a step of one request disturbs only what is said of
  that request.
* `OnAirMeansFinished` and `AtMostOnce`: a request is in `air` only when the
  companion is through with it, hence never twice, also after a restart.
* `AirIsPast` and `CooldownsStarted`: no transmission lies in the future, and
  each recorded one of this process started the time stamps that `CoolingDown`
  reads. With them `CooldownsHold` follows at `Submit`.

The refinement is one lemma per kind of step: `TransmitsOnce` maps to
`Delivery`'s transmission, `ReportsAllowed` shows that the handlers make only
the changes `Allowed` lists, and steps that leave rows, air and recipients alone
are stutters.

`RadioSessionProofs` proves, for any clients and menus, any contacts and slots
and all bounds:

| Theorem | Statement |
|---|---|
| `AlwaysOrderly`, `TypeCorrect` | `Spec => []Orderly`, `Spec => []TypeOK` |
| `OneLinkAtATime` | `Spec => []SingleLink` |
| `ConnectionIsFresh` | `Spec => []ConnectedMeansFresh` |
| `AdvertsAreSpaced` | `Spec => []AdvertsSpaced` |
| `CachesMoveForward` | `Spec => CachesNeverGoBack` |
| `OksAreVerified` | `Spec => OkIsVerified` |

Assumptions: `NamesAssumption` (kinds of names are disjoint, and `Run`, which stands
in the lock's queue for the `_run` task, is no client) and `MenuAssumption`. The
inductive invariant is `Orderly`: who stands in the queue of the lock and that
whoever is past it owns it (`Serial`); which link goes with each phase of `_run`
(`Linked`: the ports open beside that of the newest session are no more than
`leaks`, while connecting and backing off no port is open beyond those, and
`backend` is the newest session's while a phase with a link lasts); from when a cache or a half-done
reading is (`Dated`); that an advert about to be sent has started its cooldown
(`Advertised`); and that a mask about to be written keeps the bits it was read
with (`MaskKept`). `CachesNeverGoBack` needs `Serial`: it is the lock, not the
event loop, that keeps a reading from being overtaken by a request's.

`EventPumpProofs` proves, for any number of pumps, any `Limit`, any kinds of event
and all bounds:

| Theorem | Statement |
|---|---|
| `AlwaysSteady`, `TypeCorrect` | `Spec => []Steady`, `Spec => []TypeOK` |
| `NothingIsSkipped` | `Spec => []NothingSkipped` |
| `AnswersInOrder` | `Spec => InOrder` |
| `RepeatsAreAlwaysPaid` | `Spec => []RepeatsArePaidFor` |

Assumptions: `PumpAssumption` (`StartAtLatest` is a switch, a batch has at least one
event) and `BoundsAssumption`. The inductive invariant is `Steady`. `WorksThrough`
says that a run has nothing to do below its own place, which is why the cursor
that it then writes may pass those events although another run moved it
meanwhile. Before the first abort one run is up at most (`Alone`) and it works at
the event after the cursor (`AtCursor`). `Paid` counts with one more than
`RepeatsArePaidFor` says: if the next event was answered and the run is not past
doing so again, that repetition is already paid for by the failure or crash that
led there. Without this credit the count is not inductive.

`RepeaterAdminProofs` proves, for any requests, repeaters, values, cooldowns and
attempts, and any number of losses, troubles and doubled tags:

| Theorem | Statement |
|---|---|
| `AlwaysSound`, `TypeCorrect` | `Spec => []Sound`, `Spec => []TypeOK` |
| `TrailIsTrue` | `Spec => []TrailTellsTheTruth` |
| `CooldownsAlwaysHold` | `Spec => []CooldownsHold` |
| `LoginsAnswerOwn` | `Spec => []LoginAnswersOwn` |
| `VerifiedWasHeld` | `Spec => []VerifiedMeansHeld` |
| `LateWritesAnnounced` | `Spec => LateWritesWereAnnounced` |

Assumptions: `SetupsAssumption` (each request asks for an operation with a value
that the HTTP models let through; the attempts are an integer),
`CooldownAssumption` (the settings are not negative) and `ValuesAssumption` (a value
is none of the other answers: `_parse_repeater_integer` refuses whatever is not an
integer). The inductive invariant is `Sound`:

* `Serial` and `Shaped` tie lock, phase, step and attempt together. That a request
  mistakes at most one reply per exchange (`mistook < step` while one is out) is
  what bounds the attempts and counters in `TypeOK`;
* `Trail` and `Cooled` are `TrailTellsTheTruth` and `CooldownsHold` with what a request
  on its way needs: it is in the journal, and each operation of this life of the
  daemon has left its time stamp in `uses`, of which `~Cooling` speaks at the next
  `Begin`;
* `Sent`: what is under way was sent by a request that began, at a step and attempt
  it has reached, under an id of its own; a packet that was answered is gone. From
  it follows that a reply under the current id is the answer to the current
  packet;
* `Loose`: a login packet or reply belongs to the login that is being asked, unless
  a login to that repeater was given up;
* `Witnessed`: an `OK` to a request at work means that its value was in force
  meanwhile, and a value read was. A configuration that got to its read-back has
  had its value in force or was deceived by a tag once, hence the two deceptions
  in `VerifiedMeansHeld`;
* `Late`: a write still under way when its request reads back is one of several,
  or its `OK` was another's.

`ReplyPolicy` proves for all lengths of label, draft and compressed draft that
replies fit 160 bytes and are not empty (`RepliesFit`), that the last check
before a POST leaves them alone (`LastCheckKeepsReplies`), that the notice of an
overlong answer replaces none that fits (`NoticeIsLastResort`), and that the label
counts inside the target (`TargetIncludesLabel`).

Every invariant, every action property and the refinement that a passing run
checks is thus proved. Only model-checked is what is out of the prover's reach:
liveness under fairness (`HousekeepingEnds`, `RequestsAnswered` of both modules,
`Recovers`, `RequestsReturn`, `Drains`), which needs `ENABLED`. The four runs that
expect a violation need no proof: they show a counterexample. No module uses a
recursive operator, and none is proved about by induction over data. TLC has
checked each inductive invariant on its module's run before its proof.

## 6. Where the code and its documents disagree

With a run that shows it:

* `store_active_loss`: housekeeping promises to remove "only a contiguous event
  prefix already passed by every active consumer" (`README.md:94`,
  `SPEC.md:131`). The cutoff is planned in a transaction of its own (`store.py:659`);
  a consumer that comes back before the deletion is active again, is not expired
  because its row is fresh, and loses unread events without a gap.
* `outbound_flood`: direct sends "perform one transmission with no retry or flood
  fallback" (`daemon/README.md:86`). The route is checked in the contact cache
  (`radio.py:426`); if the companion forgot the path since the last refresh it
  has flooded the message before its answer is looked at.
* `pump_baseline`: "at-least-once delivery across restarts" (`README.md:89-91`).
  `initialize` (`channel.ts:229`) takes a cursor of 0 for a new consumer, so an
  installation that began with an empty journal and restarts before its first
  advance skips what was recorded in between.
* `repeater_acl`: the journal records "repeater operations and verified outcomes"
  (`SPEC.md:107-113`). `previous_permissions` is limited to 3 in the response model
  (`models.py:211`), although a repeater may report any byte (`models.py:192`). If
  it reports more, the model's `ValidationError`, a `ValueError`, turns a change
  that was carried out and read back into a 422 and an audit event
  `repeater.acl.update.rejected` (`radio.py:1053-1107`, `app.py:683-716`).

Observed while modelling, without a run of their own:

* `advance_cursor` as a consumer's first call after pruning creates its row
  without a gap (`store.py:463`), although "a new consumer after pruning also
  sees the retained-history boundary" (`SPEC.md:134`); only `get_cursor` writes
  it. `GapsAreTruthful` is unaffected: it is about gaps that are there.
* A transmission the daemon did not record, because it was flooded or its answer
  was lost, starts no cooldown (`radio.py:878`), although the cooldowns are
  stated per transmission (`daemon/README.md:88-90`). `CooldownsHold` speaks of
  recorded transmissions only.
* `upsert_contact` sends the library's copy of the contact, its path included
  (`radio.py:252`), and so undoes a path that the companion learned since the last
  reading; `test_radio.py:1348` expects the route to be preserved.
* A disconnect that raises is logged and forgotten (`radio.py:1447-1453`), and
  `MeshCoreBackend.disconnect` does not get to `client.disconnect()` if
  `stop_receiving` raises (`radio.py:620-622`). The port stays open without an
  owner and `_run` opens it again; no document or test says what should happen
  then. `SingleLink` and the theorem `OneLinkAtATime` hold with the
  exception of such ports and of those that a failed handshake leaves.
* `README.md:28-30` says of channel set, rename and clear that they are "verified by
  immediate radio read-back", `SPEC.md:96-97` of all mutations that the daemon "returns
  only verified read-back state". They are read back, but the record is returned
  without a look at whether it is what was asked for (`radio.py:815-842`), unlike
  contacts and the auto-add mask; `OkIsVerified` therefore leaves slots out.
* `stop()` during the disconnect that `_run` awaits after a failure cancels that
  disconnect; `_backend` is `None` already, and the port stays open
  (`radio.py:702`, `1447`; compare `test_radio.py:333`).
* `startAccount` reads the node name once (`channel.ts:670`). A run that begins
  before the radio was read keeps the placeholder for its whole life and does
  not recognise mentions, although "genuine user requests never disappear
  silently" (`README.md:132`). `NothingSkipped` excludes mentions for this reason.
* A reply the daemon refuses every time, such as one to a slot that only the
  plugin's allowlist has (`channel.ts:702`), throws at every poll and blocks the
  events after it.
* The native channel "does not ... auto-retry" an uncertain transmission
  (`openclaw-plugin/README.md:100-101`). A failed exact reply leaves `processEvent`
  (`channel.ts:820`), the cursor stays, and the next poll sends it again, also
  when the first one was on the air. `RepeatsArePaidFor` bounds these repeats by
  the failures.

## 7. What is not modelled

* **Reads without effect**: `list_messages`, `list_events`, `database_status`,
  dry runs of housekeeping, and the WAL checkpoint.
* **The meshcore library and the companion's firmware** are environment: a
  command is answered, refused, or times out after or before it was carried
  out. The library pops a received message from the companion before the handler
  commits it (`radio.py:354`); what a crash loses there happens outside `src/`.
* **Request validation, response shapes, authentication, text**: names, secrets,
  bodies, coordinates, radio parameters, mention parsing. The repeater models
  take a value as a token that parses or does not.
* **The operator tools** beyond what they ask of the store: the unread view is one of
  `EventStore`'s consumers, its acknowledgement an `AdvanceCursor` and its read a
  `GetCursor`; all other tools are one HTTP request each.
* **The composition of the dedupe key** (`store.py:748`), which contains the peer's
  key as the contact table knew it at delivery: `EventStore` has one key per
  delivery.
* **Start-up, settings and device discovery**: sequential input and output. That a
  discovery finds a device or fails is part of `RadioSession`.

Composition is by interface and not by one product of all modules: `Outbound`
takes from `RadioSession` that a refresh replaces caches under the lock and that
the link may drop at any time; `EventPump` takes from `EventStore` that a cursor
never moves back or past the journal (proved), and from `Outbound` the outcomes
of a send, an unanswered transmission included.

## 8. Plan

Done: the store, outbound delivery with its abstract specification, the session
with contact, channel and device management, repeater administration, the event
pump and the reply policy, each with proofs of its safety properties for all
values of the constants.

Next, in this order:

1. An abstract specification of what the store promises a consumer (events in
   order, each once, gaps marked but for the known exception), with the proof that
   `EventStore` implements it; `EventPump` rests on that promise.
2. The same for a repeater operation, whose promise is the conjunction of
   `VerifiedMeansHeld` and `LateWritesWereAnnounced`.
3. The inbound path with the dedupe key's dependence on the contact cache.
