----------------------------- MODULE EventPump ------------------------------
(***************************************************************************)
(* The native MeshCore channel of the OpenClaw plugin: MeshCoreEventPump   *)
(* reads the daemon's journal through a consumer cursor, answers or        *)
(* dispatches each event and advances the cursor after it                  *)
(* (openclaw-plugin/src/channel.ts).                                       *)
(*                                                                         *)
(* A step is the code between two awaits.  The daemon is reduced to its    *)
(* journal and the consumer's cursor (EventStore has the rest, pruning     *)
(* included) and to the outcome of a send (Outbound).  The poll interval   *)
(* is "some time later".                                                   *)
(***************************************************************************)
EXTENDS Integers, FiniteSets, Sequences

CONSTANTS
  Pumps,           \* runs of startAccount, the gateway's old and new one
  Incoming,        \* kinds of event the radio records
  StartAtLatest,   \* the account's option
  Limit,           \* events per request
  EventBound,      \* bound of the model: length of the journal
  FaultBound,      \* bound of the model: requests and turns that fail
  AbortBound,      \* bound of the model: aborted runs
  CrashBound       \* bound of the model: crashes of the gateway

\* other: nothing for the agent.  exact: a direct "Reply X".  chat: any other
\* direct message of an allowed peer.  mention: "@node" in an allowed channel.
Kinds == {"other", "exact", "chat", "mention"}

ASSUME PumpAssumption ==
  /\ Incoming \subseteq Kinds
  /\ StartAtLatest \in BOOLEAN
  /\ Limit \in Nat \ {0}

ASSUME BoundsAssumption ==
  /\ EventBound \in Nat \ {0}
  /\ {FaultBound, AbortBound, CrashBound} \subseteq Nat

VARIABLES
  journal,     \* kinds of the recorded events; an event's id is its index
  cursor,      \* the consumer's row in the daemon; no row counts as 0
  named,       \* the daemon knows the radio's node name
  pump,        \* the pumps
  installed,   \* history: a pump has taken its baseline
  base,        \* history: newest event skipped by a baseline
  served,      \* history: events answered, or dispatched to the agent
  aired,       \* history: answers on the air for each event
  faults,      \* history: failed requests and turns
  aborts,      \* history: aborted runs
  crashes      \* history: crashes of the gateway

vars == <<journal, cursor, named, pump, installed, base, served, aired,
          faults, aborts, crashes>>

-----------------------------------------------------------------------------
Down == [pc |-> "down", stop |-> FALSE, initialized |-> FALSE, named |-> FALSE,
         head |-> 0, at |-> 0, last |-> 0, replied |-> FALSE]

\* at..last: what is left of the batch.  head: last_event_id of the status read.
PumpRec ==
  [pc : {"down", "starting", "polling", "heading", "baselining", "next",
         "replying", "dispatching", "advancing"},
   stop : BOOLEAN, initialized : BOOLEAN, named : BOOLEAN,
   head : 0..EventBound, at : 0..EventBound + 1, last : 0..EventBound,
   replied : BOOLEAN]

AirCap == FaultBound + AbortBound + CrashBound + 2     \* bound of the model: counts saturate

\* A batch the pump works on lies in the journal, and it goes on from there.
TypeOK ==
  /\ journal \in Seq(Kinds)
  /\ cursor \in 0..Len(journal)
  /\ named \in BOOLEAN
  /\ pump \in [Pumps -> PumpRec]
  /\ \A p \in Pumps :
       pump[p].pc \in {"replying", "dispatching", "advancing"} =>
         pump[p].at \in 1..pump[p].last /\ pump[p].last <= Len(journal)
  /\ installed \in BOOLEAN
  /\ base \in 0..Len(journal)
  /\ served \subseteq 1..Len(journal)
  /\ aired \in [1..EventBound -> 0..AirCap]
  /\ faults \in 0..FaultBound
  /\ aborts \in 0..AbortBound
  /\ crashes \in 0..CrashBound

\* A first installation: whatever was recorded before, no row for the consumer.
Init ==
  /\ journal \in {<< >>} \cup {<<k>> : k \in Incoming}
  /\ cursor = 0
  /\ named \in BOOLEAN
  /\ pump = [p \in Pumps |-> Down]
  /\ installed = FALSE
  /\ base = 0
  /\ served = {}
  /\ aired = [e \in 1..EventBound |-> 0]
  /\ faults = 0
  /\ aborts = 0
  /\ crashes = 0

-----------------------------------------------------------------------------
daemon  == <<journal, cursor, named>>
history == <<installed, base, served, aired>>
stops   == <<aborts, crashes>>

Fault == faults < FaultBound /\ faults' = faults + 1

\* pumpOnce throws: onError, and the loop goes on after the interval.
Fails(p) == pump' = [pump EXCEPT ![p].pc = "polling"]

Goes(p, pc) == pump' = [pump EXCEPT ![p].pc = pc]

(* The gateway and the radio *)

\* A message or an audit record is journalled.  The radio receives messages
\* only once the daemon has read its status, name included.
Record(kind) ==
  /\ Len(journal) < EventBound
  /\ kind # "other" => named
  /\ journal' = Append(journal, kind)
  /\ UNCHANGED <<cursor, named, pump, history, faults, stops>>

RadioReports ==
  /\ ~named
  /\ named' = TRUE
  /\ UNCHANGED <<journal, cursor, pump, history, faults, stops>>

\* The gateway starts the account when no run of it is left but aborted ones.
Start(p) ==
  /\ pump[p].pc = "down"
  /\ \A q \in Pumps : pump[q].pc # "down" => pump[q].stop
  /\ Goes(p, "starting")
  /\ UNCHANGED <<daemon, history, faults, stops>>

\* abortSignal: seen by run only between two rounds.
Abort(p) ==
  /\ aborts < AbortBound
  /\ pump[p].pc # "down" /\ ~pump[p].stop
  /\ pump' = [pump EXCEPT ![p].stop = TRUE]
  /\ aborts' = aborts + 1
  /\ UNCHANGED <<daemon, history, faults, crashes>>

\* The gateway process dies, all its runs with it.
Crash ==
  /\ crashes < CrashBound
  /\ \E p \in Pumps : pump[p].pc # "down"
  /\ pump' = [p \in Pumps |-> Down]
  /\ crashes' = crashes + 1
  /\ UNCHANGED <<daemon, history, faults, aborts>>

(* startAccount and initialize *)

\* The status is read once; the node name in it is kept for the whole run.
Begin(p) ==
  /\ pump[p].pc = "starting"
  /\ pump' = [pump EXCEPT ![p].pc = "polling", ![p].named = named]
  /\ UNCHANGED <<daemon, history, faults, stops>>

BeginFails(p) ==
  /\ pump[p].pc = "starting"
  /\ Fault
  /\ pump' = [pump EXCEPT ![p] = Down]
  /\ UNCHANGED <<daemon, history, stops>>

RunEnds(p) ==
  /\ pump[p].pc = "polling"
  /\ pump[p].stop
  /\ pump' = [pump EXCEPT ![p] = Down]
  /\ UNCHANGED <<daemon, history, faults, stops>>

\* A round: the loop saw no abort.
Polls(p) == pump[p].pc = "polling" /\ ~pump[p].stop

\* initialize reads the cursor; 0 is taken for a new consumer.
ReadCursor(p) ==
  /\ Polls(p)
  /\ ~pump[p].initialized
  /\ pump' = IF cursor = 0 /\ StartAtLatest
               THEN [pump EXCEPT ![p].pc = "heading"]
               ELSE [pump EXCEPT ![p].initialized = TRUE]
  /\ UNCHANGED <<daemon, history, faults, stops>>

ReadHead(p) ==
  /\ pump[p].pc = "heading"
  /\ pump' = [pump EXCEPT ![p].pc = "baselining", ![p].head = Len(journal)]
  /\ UNCHANGED <<daemon, history, faults, stops>>

\* The daemon's advance_cursor: never backwards, never beyond the journal.
Advanced(id) == IF id > cursor THEN id ELSE cursor

\* PUT of the baseline, carried out ...
PutBaseline(p) ==
  /\ pump[p].pc = "baselining"
  /\ cursor' = Advanced(pump[p].head)
  /\ base' = IF pump[p].head > cursor THEN pump[p].head ELSE base
  /\ installed' = TRUE
  /\ UNCHANGED <<journal, named, served, aired, stops>>

\* ... and answered, or its answer lost.
Baseline(p) ==
  /\ PutBaseline(p)
  /\ pump' = [pump EXCEPT ![p].pc = "polling", ![p].initialized = TRUE]
  /\ UNCHANGED faults

BaselineUnanswered(p) ==
  /\ PutBaseline(p)
  /\ Fails(p)
  /\ Fault

(* pumpOnce *)

\* consumer_events: the first Limit events after the cursor.
Fetch(p) ==
  /\ Polls(p)
  /\ pump[p].initialized
  /\ cursor < Len(journal)
  /\ pump' = [pump EXCEPT ![p].pc = "next",
                          ![p].at = cursor + 1,
                          ![p].last = IF cursor + Limit < Len(journal)
                                        THEN cursor + Limit ELSE Len(journal)]
  /\ UNCHANGED <<daemon, history, faults, stops>>

\* An empty batch.
FetchNothing(p) ==
  /\ Polls(p)
  /\ pump[p].initialized
  /\ cursor = Len(journal)
  /\ UNCHANGED vars

\* A GET fails, or the PUT of the baseline before it was carried out.
RequestFails(p) ==
  /\ Polls(p) \/ pump[p].pc \in {"heading", "baselining"}
  /\ Fault
  /\ Fails(p)
  /\ UNCHANGED <<daemon, history, stops>>

\* processEvent up to its first await.  A mention's "Reply X" is answered by
\* sendChannel at once; it is modelled with the turns, which may fail like it.
Route(p) ==
  LET kind == journal[pump[p].at]
  IN  IF kind = "exact" THEN "replying"
      ELSE IF kind = "chat" \/ (kind = "mention" /\ pump[p].named) THEN "dispatching"
      ELSE "advancing"

\* Mutant: the loop over the batch runs once too often.
NextUnchecked(p) ==
  /\ pump[p].pc = "next"
  /\ pump' = [pump EXCEPT ![p].pc =
                IF pump[p].at > pump[p].last + 1 THEN "polling"
                ELSE IF pump[p].at > Len(journal) THEN "advancing" ELSE Route(p),
                          ![p].replied = FALSE]
  /\ UNCHANGED <<daemon, history, faults, stops>>

\* The loop over the batch.
NextEvent(p) ==
  /\ pump[p].pc = "next"
  /\ pump' = [pump EXCEPT ![p].pc = IF pump[p].at > pump[p].last THEN "polling" ELSE Route(p),
                          ![p].replied = FALSE]
  /\ UNCHANGED <<daemon, history, faults, stops>>

OnAir(e) == aired' = [aired EXCEPT ![e] = IF @ < AirCap THEN @ + 1 ELSE @]

\* Mutant: an answer without an acknowledgement counts as failed.
ReplyRequiringAck(p) ==
  /\ pump[p].pc = "replying"
  /\ OnAir(pump[p].at)
  /\ \/ Goes(p, "advancing") /\ served' = served \cup {pump[p].at}
     \/ Fails(p) /\ UNCHANGED served
  /\ UNCHANGED <<daemon, installed, base, faults, stops>>

\* sendDirect(..., false): transmitted, and acknowledged or timed out, which
\* is the same to the pump.
Reply(p) ==
  /\ pump[p].pc = "replying"
  /\ OnAir(pump[p].at)
  /\ served' = served \cup {pump[p].at}
  /\ Goes(p, "advancing")
  /\ UNCHANGED <<daemon, installed, base, faults, stops>>

\* Mutant: an event whose answer failed is passed over.
ReplySkipped(p) ==
  /\ pump[p].pc = "replying"
  /\ Fault
  /\ Goes(p, "advancing")
  /\ UNCHANGED <<daemon, history, stops>>

\* The daemon refuses (route, cooldown, no radio): nothing was sent.
ReplyRefused(p) ==
  /\ pump[p].pc = "replying"
  /\ Fault
  /\ Fails(p)
  /\ UNCHANGED <<daemon, history, stops>>

\* Transmitted, but the daemon answers 503 or goes away.
ReplyUncertain(p) ==
  /\ pump[p].pc = "replying"
  /\ Fault
  /\ OnAir(pump[p].at)
  /\ Fails(p)
  /\ UNCHANGED <<daemon, installed, base, served, stops>>

\* The agent's turn delivers its answer; the model has one per turn.
AgentAnswers(p) ==
  /\ pump[p].pc = "dispatching"
  /\ ~pump[p].replied
  /\ OnAir(pump[p].at)
  /\ pump' = [pump EXCEPT ![p].replied = TRUE]
  /\ UNCHANGED <<daemon, installed, base, served, faults, stops>>

\* The turn is over: a deliver that failed was reported to onError.
DispatchReturns(p) ==
  /\ pump[p].pc = "dispatching"
  /\ served' = served \cup {pump[p].at}
  /\ Goes(p, "advancing")
  /\ UNCHANGED <<daemon, installed, base, aired, faults, stops>>

\* Mutant: a turn that failed is logged, and the loop goes on.
DispatchSkipped(p) ==
  /\ pump[p].pc = "dispatching"
  /\ Fault
  /\ Goes(p, "advancing")
  /\ UNCHANGED <<daemon, history, stops>>

DispatchThrows(p) ==
  /\ pump[p].pc = "dispatching"
  /\ Fault
  /\ Fails(p)
  /\ UNCHANGED <<daemon, history, stops>>

\* Mutant: the cursor is advanced once, at the end of the batch.
AdvanceAtEnd(p) ==
  /\ pump[p].pc = "advancing"
  /\ cursor' = IF pump[p].at = pump[p].last THEN Advanced(pump[p].at) ELSE cursor
  /\ pump' = [pump EXCEPT ![p].pc = "next", ![p].at = @ + 1]
  /\ UNCHANGED <<journal, named, history, faults, stops>>

\* PUT of the event's id, then the next event of the batch.
Advance(p) ==
  /\ pump[p].pc = "advancing"
  /\ cursor' = Advanced(pump[p].at)
  /\ pump' = [pump EXCEPT ![p].pc = "next", ![p].at = @ + 1]
  /\ UNCHANGED <<journal, named, history, faults, stops>>

\* The PUT fails, or only its answer is lost.
AdvanceFails(p) ==
  /\ pump[p].pc = "advancing"
  /\ Fault
  /\ cursor' \in {cursor, Advanced(pump[p].at)}
  /\ Fails(p)
  /\ UNCHANGED <<journal, named, history, stops>>

-----------------------------------------------------------------------------
Proceeds(p) ==
  \/ Begin(p) \/ RunEnds(p) \/ ReadCursor(p) \/ ReadHead(p) \/ Baseline(p) \/ Fetch(p)
  \/ NextEvent(p) \/ Reply(p) \/ DispatchReturns(p) \/ Advance(p)

GoesWrong(p) ==
  \/ BeginFails(p) \/ BaselineUnanswered(p) \/ RequestFails(p) \/ ReplyRefused(p)
  \/ ReplyUncertain(p) \/ DispatchThrows(p) \/ AdvanceFails(p)

Next ==
  \/ \E kind \in Incoming : Record(kind)
  \/ RadioReports
  \/ Crash
  \/ \E p \in Pumps : \/ Start(p) \/ Abort(p) \/ Proceeds(p) \/ GoesWrong(p)
                      \/ AgentAnswers(p) \/ FetchNothing(p)

Spec == Init /\ [][Next]_vars

\* The gateway keeps the account running; every request is answered or fails,
\* and an agent's turn ends.
LiveSpec ==
  /\ Spec
  /\ \A p \in Pumps : WF_vars(Start(p)) /\ WF_vars(Proceeds(p) \/ GoesWrong(p))

-----------------------------------------------------------------------------
(* Properties *)

\* Nothing left to do for e: skipped by a baseline, served, or no request.
Covered(e) == e <= base \/ e \in served \/ journal[e] = "other"

\* The cursor passes a direct request only after it was answered or given to
\* the agent, whatever fails, and with an aborted run still at work beside
\* its successor.  Mentions are not included: a run that began before the
\* radio was read does not recognise them.
NothingSkipped == \A e \in 1..cursor : Covered(e) \/ journal[e] = "mention"

\* Requests are answered in the order of their recording: the first answer to
\* an event goes out when all earlier direct requests are served.
InOrder ==
  [][\A e \in DOMAIN aired : aired[e] = 0 /\ aired'[e] > 0 =>
       \A d \in 1..e - 1 : Covered(d) \/ journal[d] = "mention"]_vars

\* The answers to each event after its first one.
Repeats == {x \in (1..EventBound) \X (2..AirCap) : x[2] <= aired[x[1]]}

\* While no run was aborted, hence with one run at a time, each failure or crash
\* costs one repeated answer at most: whole batches are never replayed.
RepeatsArePaidFor ==
  aborts = 0 => Cardinality(Repeats) <= faults + crashes

\* Once failures and restarts end, every recorded event is passed, even if no
\* answer is ever acknowledged.
Drains == \A e \in 1..EventBound : Len(journal) >= e ~> cursor >= e

-----------------------------------------------------------------------------
(* What the docs say, and the code does not always do *)

\* At-least-once delivery across restarts: after the installation's baseline
\* the cursor passes no request that was not served.
AtLeastOnce ==
  [][installed => \A e \in cursor + 1..cursor' :
       e \in served \/ journal[e] \in {"other", "mention"}]_vars
=============================================================================
