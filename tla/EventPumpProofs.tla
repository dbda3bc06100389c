--------------------------- MODULE EventPumpProofs ---------------------------
(***************************************************************************)
(* Proofs about EventPump: for any number of runs, any kinds of event, any *)
(* length of a batch and of the journal, any number of failures, aborted   *)
(* runs and crashes.                                                       *)
(*                                                                         *)
(* Steady is inductive.  InRange says where in the journal a batch lies;   *)
(* WorksThrough, that a run has nothing left to do below its place: this   *)
(* is what lets the shared cursor pass.  The rest is about the time before *)
(* the first abort: then one run is up at most (Alone), it works at the    *)
(* event after the cursor and nothing beyond was answered (AtCursor), and  *)
(* whatever is on the air twice, or would be if this event were answered   *)
(* once more, is paid for by a failure or a crash (Paid).                  *)
(***************************************************************************)
EXTENDS EventPump, FiniteSetTheorems, SequenceTheorems, TLAPS

\* Phases with an event of a batch at hand; with one that there is.
Working == {"next", "replying", "dispatching", "advancing"}
Handling == {"replying", "dispatching", "advancing"}

Placed(t) ==
  /\ t.head <= Len(journal) /\ t.last <= Len(journal)
  /\ t.pc \in Working => t.at \in 1..t.last + 1
  /\ t.pc \in Handling => t.at \in 1..t.last

InRange ==
  /\ Len(journal) <= EventBound
  /\ base <= cursor
  /\ \A p \in Pumps : Placed(pump[p])

Passed(e) == Covered(e) \/ journal[e] = "mention"

WorksThrough ==
  \A p \in Pumps :
    /\ pump[p].pc \in Working => \A e \in 1..pump[p].at - 1 : Passed(e)
    /\ pump[p].pc = "advancing" => Passed(pump[p].at)

Alone ==
  aborts = 0 =>
    /\ \A p \in Pumps : ~pump[p].stop
    /\ \A p, q \in Pumps : pump[p].pc # "down" /\ pump[q].pc # "down" => p = q

AtCursor ==
  aborts = 0 =>
    /\ \A p \in Pumps : pump[p].pc \in Working => pump[p].at = cursor + 1
    /\ \A e \in 1..EventBound : e > cursor + 1 => aired[e] = 0

\* A run that has answered its event and will not do so again.
Settled(p) ==
  \/ pump[p].pc = "advancing"
  \/ pump[p].pc = "dispatching" /\ pump[p].replied

\* The next event was answered, and will be answered once more.
Exposed ==
  /\ cursor < EventBound /\ aired[cursor + 1] > 0
  /\ \A p \in Pumps : ~Settled(p)

Paid ==
  aborts = 0 =>
    Cardinality(Repeats) + (IF Exposed THEN 1 ELSE 0) <= faults + crashes

Steady == TypeOK /\ InRange /\ NothingSkipped /\ WorksThrough /\ Alone /\ AtCursor /\ Paid
-----------------------------------------------------------------------------
(* Types and places *)

\* What the gateway or run p itself does with it.
Acts(p) ==
  Start(p) \/ Abort(p) \/ Proceeds(p) \/ GoesWrong(p) \/ AgentAnswers(p) \/ FetchNothing(p)

Phases == {"down", "starting", "polling", "heading", "baselining"} \cup Working

LEMMA DownPlaced ==
  ASSUME TypeOK
  PROVE  Down \in PumpRec /\ Placed(Down) /\ Down.pc = "down" /\ ~Down.stop
<1>1. journal \in Seq(Kinds) /\ Len(journal) \in Nat
  BY LenProperties DEF TypeOK
<1>2. QED
  BY <1>1, BoundsAssumption DEF Down, PumpRec, Placed, Working, Handling

LEMMA JournalKept ==
  ASSUME NEW p \in Pumps, Acts(p)
  PROVE  UNCHANGED journal
BY DEF Acts, Proceeds, GoesWrong, Start, Abort, AgentAnswers, FetchNothing, Begin, RunEnds,
       ReadCursor, ReadHead, Baseline, PutBaseline, Fetch, NextEvent, Reply, DispatchReturns,
       Advance, BeginFails, BaselineUnanswered, RequestFails, ReplyRefused, ReplyUncertain,
       DispatchThrows, AdvanceFails, daemon, vars

\* A step of p leaves the other runs alone, and p at a place in the journal.
LEMMA PumpStep ==
  ASSUME TypeOK, InRange, NEW p \in Pumps, Acts(p)
  PROVE  \E t \in PumpRec : pump' = [pump EXCEPT ![p] = t] /\ Placed(t)
<1> DEFINE Goal == \E t \in PumpRec : pump' = [pump EXCEPT ![p] = t] /\ Placed(t)
<1>1. /\ journal \in Seq(Kinds) /\ Len(journal) \in Nat /\ Len(journal) <= EventBound
      /\ cursor \in 0..Len(journal) /\ named \in BOOLEAN
      /\ pump \in [Pumps -> PumpRec] /\ pump[p] \in PumpRec /\ Placed(pump[p])
      /\ EventBound \in Nat /\ Limit \in Nat \ {0} /\ Len(journal) \in 0..EventBound
  BY LenProperties, BoundsAssumption, PumpAssumption DEF TypeOK, InRange
<1>2. ASSUME NEW t \in PumpRec, pump' = [pump EXCEPT ![p] = t], Placed(t) PROVE Goal
  BY <1>2
<1>3. ASSUME NEW pc \in Phases \ Working, pump' = [pump EXCEPT ![p].pc = pc] PROVE Goal
  <2> DEFINE t == [pump[p] EXCEPT !.pc = pc]
  <2>1. t \in PumpRec /\ Placed(t)
    BY <1>1, <1>3 DEF PumpRec, Placed, Phases, Working, Handling
  <2>2. pump' = [pump EXCEPT ![p] = t]
    BY <1>1, <1>3
  <2> HIDE DEF t
  <2>3. QED
    BY <2>1, <2>2
<1>4. ASSUME pump[p].pc \in Handling, pump' = [pump EXCEPT ![p].pc = "advancing"] PROVE Goal
  <2> DEFINE t == [pump[p] EXCEPT !.pc = "advancing"]
  <2>1. t \in PumpRec /\ Placed(t)
    BY <1>1, <1>4 DEF PumpRec, Placed, Working, Handling
  <2>2. pump' = [pump EXCEPT ![p] = t]
    BY <1>1, <1>4
  <2> HIDE DEF t
  <2>3. QED
    BY <2>1, <2>2
<1>5. ASSUME pump' = pump PROVE Goal
  <2>1. pump' = [pump EXCEPT ![p] = pump[p]]
    BY <1>1, <1>5
  <2>2. QED
    BY <1>1, <2>1
<1>6. ASSUME pump' = [pump EXCEPT ![p] = Down] PROVE Goal
  BY <1>6, DownPlaced
<1>7. CASE Start(p) \/ RequestFails(p) \/ ReplyRefused(p) \/ ReplyUncertain(p) \/ DispatchThrows(p)
           \/ AdvanceFails(p) \/ BaselineUnanswered(p)
  BY <1>3, <1>7
     DEF Start, Goes, RequestFails, ReplyRefused, ReplyUncertain, DispatchThrows, AdvanceFails,
         BaselineUnanswered, Fails, Phases, Working
<1>8. CASE Reply(p) \/ DispatchReturns(p)
  BY <1>4, <1>8 DEF Reply, DispatchReturns, Goes, Handling
<1>9. CASE RunEnds(p) \/ BeginFails(p)
  BY <1>6, <1>9 DEF RunEnds, BeginFails
<1>10. CASE FetchNothing(p)
  BY <1>5, <1>10 DEF FetchNothing, vars
<1>11. CASE Abort(p)
  <2> DEFINE t == [pump[p] EXCEPT !.stop = TRUE]
  <2>1. t \in PumpRec /\ Placed(t)
    BY <1>1 DEF PumpRec, Placed, Working, Handling
  <2>2. pump' = [pump EXCEPT ![p] = t]
    BY <1>1, <1>11 DEF Abort
  <2> HIDE DEF t
  <2>3. QED
    BY <2>1, <2>2
<1>12. CASE AgentAnswers(p)
  <2> DEFINE t == [pump[p] EXCEPT !.replied = TRUE]
  <2>1. t \in PumpRec /\ Placed(t)
    BY <1>1 DEF PumpRec, Placed, Working, Handling
  <2>2. pump' = [pump EXCEPT ![p] = t]
    BY <1>1, <1>12 DEF AgentAnswers
  <2> HIDE DEF t
  <2>3. QED
    BY <2>1, <2>2
<1>13. CASE Begin(p)
  <2> DEFINE t == [pump[p] EXCEPT !.pc = "polling", !.named = named]
  <2>1. t \in PumpRec /\ Placed(t)
    BY <1>1 DEF PumpRec, Placed, Working, Handling
  <2>2. pump' = [pump EXCEPT ![p] = t]
    BY <1>1, <1>13 DEF Begin
  <2> HIDE DEF t
  <2>3. QED
    BY <2>1, <2>2
<1>14. CASE ReadCursor(p)
  <2>1. CASE cursor = 0 /\ StartAtLatest
    <3>1. pump' = [pump EXCEPT ![p].pc = "heading"]
      BY <1>14, <2>1 DEF ReadCursor
    <3>2. QED
      BY <1>3, <3>1 DEF Phases, Working
  <2>2. CASE ~(cursor = 0 /\ StartAtLatest)
    <3> DEFINE t == [pump[p] EXCEPT !.initialized = TRUE]
    <3>1. t \in PumpRec /\ Placed(t)
      BY <1>1 DEF PumpRec, Placed, Working, Handling
    <3>2. pump' = [pump EXCEPT ![p] = t]
      BY <1>1, <1>14, <2>2 DEF ReadCursor
    <3> HIDE DEF t
    <3>3. QED
      BY <3>1, <3>2
  <2>3. QED
    BY <2>1, <2>2
<1>15. CASE ReadHead(p)
  <2> DEFINE head == Len(journal)
             t    == [pump[p] EXCEPT !.pc = "baselining", !.head = head]
  <2>1. pump' = [pump EXCEPT ![p] = t]
    BY <1>1, <1>15 DEF ReadHead
  <2>2. head \in 0..EventBound /\ head <= Len(journal) /\ pump[p].last <= Len(journal)
    BY <1>1 DEF Placed
  <2> HIDE DEF head
  <2>3. t \in PumpRec /\ t.head = head /\ t.last = pump[p].last /\ t.pc = "baselining"
    BY <1>1, <2>2 DEF PumpRec
  <2> HIDE DEF t
  <2>4. Placed(t)
    BY <2>2, <2>3 DEF Placed, Working, Handling
  <2>5. QED
    BY <2>1, <2>3, <2>4
<1>16. CASE Baseline(p)
  <2> DEFINE t == [pump[p] EXCEPT !.pc = "polling", !.initialized = TRUE]
  <2>1. t \in PumpRec /\ Placed(t)
    BY <1>1 DEF PumpRec, Placed, Working, Handling
  <2>2. pump' = [pump EXCEPT ![p] = t]
    BY <1>1, <1>16 DEF Baseline
  <2> HIDE DEF t
  <2>3. QED
    BY <2>1, <2>2
<1>17. CASE Fetch(p)
  <2> DEFINE end == IF cursor + Limit < Len(journal) THEN cursor + Limit ELSE Len(journal)
             at  == cursor + 1
             t   == [pump[p] EXCEPT !.pc = "next", !.at = at, !.last = end]
  <2>1. /\ end \in 1..Len(journal) /\ at \in 1..end
        /\ end \in 0..EventBound /\ at \in 0..EventBound + 1
    BY <1>1, <1>17 DEF Fetch
  <2>2. pump' = [pump EXCEPT ![p] = t]
    BY <1>1, <1>17 DEF Fetch
  <2> HIDE DEF end, at
  <2>3. t \in PumpRec
    BY <1>1, <2>1 DEF PumpRec
  <2>4. t.head = pump[p].head /\ t.last = end /\ t.at = at /\ t.pc = "next"
    BY <1>1 DEF PumpRec
  <2> HIDE DEF t
  <2>5. Placed(t)
    BY <1>1, <2>1, <2>4 DEF Placed, Working, Handling
  <2>6. QED
    BY <2>2, <2>3, <2>5
<1>18. CASE NextEvent(p)
  <2> DEFINE pc == IF pump[p].at > pump[p].last THEN "polling" ELSE Route(p)
             t  == [pump[p] EXCEPT !.pc = pc, !.replied = FALSE]
  <2>1. pc = "polling" \/ (pc \in Handling /\ pump[p].at <= pump[p].last)
    BY <1>1 DEF Route, Handling, PumpRec
  <2>2. pump' = [pump EXCEPT ![p] = t]
    BY <1>1, <1>18 DEF NextEvent
  <2>3. pump[p].at \in 1..pump[p].last + 1
    BY <1>1, <1>18 DEF NextEvent, Placed, Working
  <2> HIDE DEF pc
  <2>4. t \in PumpRec
    BY <1>1, <2>1 DEF PumpRec, Handling
  <2>5. t.head = pump[p].head /\ t.last = pump[p].last /\ t.at = pump[p].at /\ t.pc = pc
    BY <1>1 DEF PumpRec
  <2> HIDE DEF t
  <2>6. Placed(t)
    BY <1>1, <2>1, <2>3, <2>5 DEF Placed, Working, Handling, PumpRec
  <2>7. QED
    BY <2>2, <2>4, <2>6
<1>19. CASE Advance(p)
  <2> DEFINE at == pump[p].at + 1
             t  == [pump[p] EXCEPT !.pc = "next", !.at = at]
  <2>1. /\ at \in 1..pump[p].last + 1 /\ at \in 0..EventBound + 1
        /\ pump[p].head <= Len(journal) /\ pump[p].last <= Len(journal)
    <3>1. pump[p].at \in 1..pump[p].last /\ pump[p].last \in 0..EventBound
      BY <1>1, <1>19 DEF Advance, Placed, Handling, PumpRec
    <3>2. QED
      BY <1>1, <3>1 DEF Placed
  <2>2. pump' = [pump EXCEPT ![p] = t]
    BY <1>1, <1>19 DEF Advance
  <2> HIDE DEF at
  <2>3. t \in PumpRec
    BY <1>1, <2>1 DEF PumpRec
  <2>4. t.head = pump[p].head /\ t.last = pump[p].last /\ t.at = at /\ t.pc = "next"
    BY <1>1 DEF PumpRec
  <2> HIDE DEF t
  <2>5. Placed(t)
    BY <2>1, <2>4 DEF Placed, Working, Handling
  <2>6. QED
    BY <2>2, <2>3, <2>5
<1>20. QED
  BY <1>7, <1>8, <1>9, <1>10, <1>11, <1>12, <1>13, <1>14, <1>15, <1>16, <1>17, <1>18, <1>19
     DEF Acts, Proceeds, GoesWrong

\* What a step of p does to the cursor and to the records of what was done.
LEMMA HistoryStep ==
  ASSUME NEW p \in Pumps, Acts(p)
  PROVE  /\ \/ UNCHANGED <<cursor, base>>
            \/ pump[p].pc = "baselining" /\ PutBaseline(p)
            \/ pump[p].pc = "advancing" /\ cursor' = Advanced(pump[p].at) /\ UNCHANGED base
         /\ \/ UNCHANGED served
            \/ pump[p].pc \in {"replying", "dispatching"} /\ served' = served \cup {pump[p].at}
         /\ \/ UNCHANGED aired
            \/ pump[p].pc \in {"replying", "dispatching"} /\ OnAir(pump[p].at)
         /\ UNCHANGED <<named, crashes>> /\ installed' \in {installed, TRUE}
         /\ UNCHANGED aborts \/ (aborts < AbortBound /\ aborts' = aborts + 1)
         /\ UNCHANGED faults \/ Fault
<1>1. CASE Start(p) \/ Abort(p) \/ AgentAnswers(p) \/ FetchNothing(p)
  BY <1>1 DEF Start, Abort, AgentAnswers, FetchNothing, daemon, history, stops, vars
<1>2. CASE Begin(p) \/ RunEnds(p) \/ ReadCursor(p) \/ ReadHead(p) \/ Fetch(p) \/ NextEvent(p)
  BY <1>2 DEF Begin, RunEnds, ReadCursor, ReadHead, Fetch, NextEvent, daemon, history, stops
<1>3. CASE Baseline(p) \/ BaselineUnanswered(p)
  BY <1>3 DEF Baseline, BaselineUnanswered, PutBaseline, stops
<1>4. CASE Reply(p) \/ DispatchReturns(p) \/ Advance(p) \/ AdvanceFails(p)
  BY <1>4 DEF Reply, DispatchReturns, Advance, AdvanceFails, daemon, history, stops
<1>5. CASE \/ BeginFails(p) \/ RequestFails(p) \/ ReplyRefused(p) \/ ReplyUncertain(p)
           \/ DispatchThrows(p)
  BY <1>5 DEF BeginFails, RequestFails, ReplyRefused, ReplyUncertain, DispatchThrows, daemon,
              history, stops
<1>6. QED
  BY <1>1, <1>2, <1>3, <1>4, <1>5 DEF Acts, Proceeds, GoesWrong

\* The cursor moves forward, and the baseline is never ahead of it.
LEMMA CursorStep ==
  ASSUME TypeOK, InRange, NEW p \in Pumps, Acts(p)
  PROVE  /\ cursor' \in cursor..Len(journal)
         /\ base' \in base..cursor'
<1>1. /\ Len(journal) \in Nat /\ cursor \in 0..Len(journal) /\ base \in 0..cursor
      /\ pump[p] \in PumpRec /\ Placed(pump[p])
  BY LenProperties DEF TypeOK, InRange
<1>2. pump[p].head \in Nat /\ pump[p].head <= Len(journal)
  BY <1>1, BoundsAssumption DEF PumpRec, Placed
<1>3. CASE UNCHANGED <<cursor, base>>
  BY <1>1, <1>3
<1>4. CASE PutBaseline(p)
  BY <1>1, <1>2, <1>4 DEF PutBaseline, Advanced
<1>5. CASE pump[p].pc = "advancing" /\ cursor' = Advanced(pump[p].at) /\ UNCHANGED base
  <2>1. pump[p].at \in 1..Len(journal)
    BY <1>1, <1>5, BoundsAssumption DEF PumpRec, Placed, Handling
  <2>2. QED
    BY <1>1, <1>5, <2>1 DEF Advanced
<1>6. QED
  BY <1>3, <1>4, <1>5, HistoryStep

LEMMA NextTyped ==
  ASSUME TypeOK, InRange, [Next]_vars
  PROVE  TypeOK' /\ InRange'
<1> DEFINE Goal == TypeOK' /\ InRange'
<1>1. /\ journal \in Seq(Kinds) /\ Len(journal) \in Nat /\ Len(journal) <= EventBound
      /\ cursor \in 0..Len(journal) /\ base \in 0..Len(journal) /\ base <= cursor
      /\ pump \in [Pumps -> PumpRec] /\ served \subseteq 1..Len(journal)
      /\ \A p \in Pumps : Placed(pump[p])
      /\ aired \in [1..EventBound -> 0..AirCap]
      /\ faults \in 0..FaultBound /\ aborts \in 0..AbortBound /\ crashes \in 0..CrashBound
      /\ EventBound \in Nat /\ FaultBound \in Nat /\ AbortBound \in Nat /\ CrashBound \in Nat
      /\ named \in BOOLEAN /\ installed \in BOOLEAN
  BY LenProperties, BoundsAssumption DEF TypeOK, InRange
\* Places stay places while the journal grows.
<1>2. ASSUME journal' \in Seq(Kinds), Len(journal') \in Nat, Len(journal') <= EventBound,
             cursor' \in 0..Len(journal'), base' \in 0..cursor', served' \subseteq 1..Len(journal'),
             pump' \in [Pumps -> PumpRec], \A p \in Pumps : Placed(pump[p])',
             aired' \in [1..EventBound -> 0..AirCap],
             faults' \in 0..FaultBound, aborts' \in 0..AbortBound, crashes' \in 0..CrashBound,
             named' \in BOOLEAN, installed' \in BOOLEAN
      PROVE  Goal
  <2>1. base' \in 0..Len(journal') /\ base' <= cursor'
    BY <1>2
  <2>2. \A p \in Pumps : pump'[p].pc \in Handling =>
          pump'[p].at \in 1..pump'[p].last /\ pump'[p].last <= Len(journal')
    BY <1>2 DEF Placed
  <2>3. QED
    BY <1>2, <2>1, <2>2 DEF TypeOK, InRange, Handling
<1>3. ASSUME NEW kind \in Incoming, Record(kind) PROVE Goal
  <2>1. /\ journal' = Append(journal, kind) /\ kind \in Kinds /\ Len(journal) < EventBound
        /\ UNCHANGED <<cursor, named, pump, installed, base, served, aired, faults, aborts, crashes>>
    BY <1>3, PumpAssumption DEF Record, history, stops
  <2>2. journal' \in Seq(Kinds) /\ Len(journal') = Len(journal) + 1
    BY <1>1, <2>1, AppendProperties
  <2>3. \A p \in Pumps : Placed(pump[p])'
    <3>1. SUFFICES ASSUME NEW p \in Pumps PROVE Placed(pump[p])'
      OBVIOUS
    <3>2. Placed(pump[p]) /\ pump[p].head \in Nat /\ pump[p].last \in Nat
      BY <1>1 DEF PumpRec
    <3>3. QED
      BY <1>1, <2>1, <2>2, <3>2 DEF Placed
  <2>4. Len(journal') <= EventBound /\ Len(journal') \in Nat
    BY <1>1, <2>1, <2>2
  <2>5. cursor' \in 0..Len(journal') /\ base' \in 0..cursor' /\ served' \subseteq 1..Len(journal')
    BY <1>1, <2>1, <2>2
  <2>6. QED
    BY <1>1, <1>2, <2>1, <2>2, <2>3, <2>4, <2>5
<1>4. CASE Crash
  <2>1. /\ pump' = [p \in Pumps |-> Down] /\ crashes' = crashes + 1 /\ crashes < CrashBound
        /\ UNCHANGED <<journal, cursor, named, installed, base, served, aired, faults, aborts>>
    BY <1>4 DEF Crash, daemon, history
  <2>2. pump' \in [Pumps -> PumpRec] /\ \A p \in Pumps : Placed(pump[p])'
    BY <2>1, DownPlaced DEF Placed
  <2>3. crashes' \in 0..CrashBound
    BY <1>1, <2>1
  <2>4. base' \in 0..cursor'
    BY <1>1, <2>1
  <2>5. QED
    BY <1>1, <1>2, <2>1, <2>2, <2>3, <2>4
<1>5. ASSUME NEW p \in Pumps, Acts(p) PROVE Goal
  <2>1. UNCHANGED journal
    BY <1>5, JournalKept
  <2>2. pump' \in [Pumps -> PumpRec] /\ \A q \in Pumps : Placed(pump[q])'
    <3>1. PICK t \in PumpRec : pump' = [pump EXCEPT ![p] = t] /\ Placed(t)
      BY <1>5, PumpStep
    <3>2. \A q \in Pumps : Placed(pump'[q])
      BY <1>1, <3>1
    <3>3. QED
      BY <1>1, <2>1, <3>1, <3>2 DEF Placed
  <2>3. cursor' \in 0..Len(journal') /\ base' \in 0..cursor'
    BY <1>1, <1>5, <2>1, CursorStep
  <2>4. ASSUME pump[p].pc \in {"replying", "dispatching"} PROVE pump[p].at \in 1..Len(journal)
    <3>1. Placed(pump[p]) /\ pump[p].last \in Nat
      BY <1>1 DEF PumpRec
    <3>2. QED
      BY <1>1, <2>4, <3>1 DEF Placed, Handling
  <2>5. served' \subseteq 1..Len(journal')
    <3>1. CASE UNCHANGED served
      BY <1>1, <2>1, <3>1
    <3>2. CASE /\ pump[p].pc \in {"replying", "dispatching"}
               /\ served' = served \cup {pump[p].at}
      BY <1>1, <2>1, <2>4, <3>2
    <3>3. QED
      BY <1>5, <3>1, <3>2, HistoryStep
  <2>6. aired' \in [1..EventBound -> 0..AirCap]
    <3>1. AirCap \in Nat
      BY <1>1 DEF AirCap
    <3>2. ASSUME NEW e, OnAir(e) PROVE aired' \in [1..EventBound -> 0..AirCap]
      <4> DEFINE n == IF aired[e] < AirCap THEN aired[e] + 1 ELSE aired[e]
      <4>1. aired' = [aired EXCEPT ![e] = n]
        BY <3>2 DEF OnAir
      <4>2. e \in 1..EventBound => n \in 0..AirCap
        BY <1>1, <3>1
      <4> HIDE DEF n
      <4>3. QED
        BY <1>1, <4>1, <4>2
    <3>3. QED
      BY <1>1, <1>5, <3>2, HistoryStep
  <2>7. faults' \in 0..FaultBound /\ aborts' \in 0..AbortBound /\ crashes' \in 0..CrashBound
    <3>1. faults' = faults \/ (faults < FaultBound /\ faults' = faults + 1)
      BY <1>5, HistoryStep DEF Fault
    <3>2. aborts' = aborts \/ (aborts < AbortBound /\ aborts' = aborts + 1)
      BY <1>5, HistoryStep
    <3>3. crashes' = crashes
      BY <1>5, HistoryStep
    <3>4. faults' \in 0..FaultBound
      BY <1>1, <3>1
    <3>5. aborts' \in 0..AbortBound
      BY <1>1, <3>2
    <3>6. QED
      BY <1>1, <3>3, <3>4, <3>5
  <2>8. named' \in BOOLEAN /\ installed' \in BOOLEAN
    BY <1>1, <1>5, HistoryStep
  <2>9. journal' \in Seq(Kinds) /\ Len(journal') \in Nat /\ Len(journal') <= EventBound
    BY <1>1, <2>1
  <2>10. QED
    BY <1>2, <2>2, <2>3, <2>5, <2>6, <2>7, <2>8, <2>9
<1>6. CASE RadioReports \/ UNCHANGED vars
  <2>1. /\ UNCHANGED <<journal, cursor, pump, installed, base, served, aired, faults, aborts, crashes>>
        /\ named' \in BOOLEAN
    BY <1>1, <1>6 DEF RadioReports, history, stops, vars
  <2>2. \A p \in Pumps : Placed(pump[p])'
    BY <1>1, <2>1 DEF Placed
  <2>3. base' \in 0..cursor'
    BY <1>1, <2>1
  <2>4. QED
    BY <1>1, <1>2, <2>1, <2>2, <2>3
<1>7. QED
  BY <1>3, <1>4, <1>5, <1>6 DEF Next, Acts

-----------------------------------------------------------------------------
(* What is passed stays passed *)

LEMMA PassedStays ==
  ASSUME TypeOK, InRange, [Next]_vars, NEW e \in 1..Len(journal), Passed(e)
  PROVE  Passed(e)'
<1>1. /\ journal \in Seq(Kinds) /\ Len(journal) \in Nat
      /\ cursor \in 0..Len(journal) /\ base \in 0..cursor
  BY LenProperties DEF TypeOK, InRange
<1>2. ASSUME base' \in base..cursor', served \subseteq served', UNCHANGED journal
      PROVE  Passed(e)'
  BY <1>1, <1>2 DEF Passed, Covered
<1>3. ASSUME UNCHANGED <<journal, base, served>> PROVE Passed(e)'
  BY <1>3 DEF Passed, Covered
<1>4. ASSUME NEW kind \in Incoming, Record(kind) PROVE Passed(e)'
  <2>1. journal' = Append(journal, kind) /\ UNCHANGED <<base, served>> /\ kind \in Kinds
    BY <1>4, PumpAssumption DEF Record, history
  <2>2. journal'[e] = journal[e]
    BY <1>1, <2>1, AppendProperties
  <2>3. QED
    BY <2>1, <2>2 DEF Passed, Covered
<1>5. ASSUME NEW p \in Pumps, Acts(p) PROVE Passed(e)'
  <2>1. base' \in base..cursor' /\ served \subseteq served' /\ UNCHANGED journal
    BY <1>5, CursorStep, HistoryStep, JournalKept
  <2>2. QED
    BY <1>2, <2>1
<1>6. CASE RadioReports \/ Crash \/ UNCHANGED vars
  BY <1>3, <1>6 DEF RadioReports, Crash, daemon, history, vars
<1>7. QED
  BY <1>4, <1>5, <1>6 DEF Next, Acts

LEMMA OthersStay ==
  ASSUME TypeOK, InRange, NEW p \in Pumps, Acts(p)
  PROVE  \A q \in Pumps \ {p} : pump'[q] = pump[q]
<1>1. pump \in [Pumps -> PumpRec]
  BY DEF TypeOK
<1>2. QED
  BY <1>1, PumpStep

\* Where a step of p leaves it: outside a batch, at the event it was at, at the
\* first event of a batch, or at the next.
LEMMA PlaceStep ==
  ASSUME TypeOK, InRange, NEW p \in Pumps, Acts(p)
  PROVE  \/ pump'[p].pc \notin Working
         \/ /\ pump[p].pc \in Working /\ pump'[p].at = pump[p].at /\ UNCHANGED cursor
            /\ pump'[p].pc = "advancing" =>
                 \/ pump[p].pc = "advancing"
                 \/ pump[p].at \in served'
                 \/ pump[p].at \in 1..Len(journal) /\ Passed(pump[p].at)
         \/ /\ pump[p].pc = "advancing" /\ pump'[p].pc = "next"
            /\ pump'[p].at = pump[p].at + 1 /\ cursor' = Advanced(pump[p].at)
         \/ /\ pump[p].pc = "polling" /\ pump'[p].pc = "next"
            /\ pump'[p].at = cursor + 1 /\ UNCHANGED cursor
<1> DEFINE Goal ==
         \/ pump'[p].pc \notin Working
         \/ /\ pump[p].pc \in Working /\ pump'[p].at = pump[p].at /\ UNCHANGED cursor
            /\ pump'[p].pc = "advancing" =>
                 \/ pump[p].pc = "advancing"
                 \/ pump[p].at \in served'
                 \/ pump[p].at \in 1..Len(journal) /\ Passed(pump[p].at)
         \/ /\ pump[p].pc = "advancing" /\ pump'[p].pc = "next"
            /\ pump'[p].at = pump[p].at + 1 /\ cursor' = Advanced(pump[p].at)
         \/ /\ pump[p].pc = "polling" /\ pump'[p].pc = "next"
            /\ pump'[p].at = cursor + 1 /\ UNCHANGED cursor
<1>1. /\ pump \in [Pumps -> PumpRec] /\ pump[p] \in PumpRec /\ Placed(pump[p])
      /\ journal \in Seq(Kinds) /\ Len(journal) \in Nat
  BY LenProperties DEF TypeOK, InRange
<1>3. ASSUME NEW pc, pc \notin Working, pump' = [pump EXCEPT ![p].pc = pc] PROVE Goal
  <2>1. pump'[p].pc = pc
    BY <1>1, <1>3 DEF PumpRec
  <2>2. QED
    BY <1>3, <2>1
<1>4. CASE Start(p) \/ RequestFails(p) \/ ReplyRefused(p) \/ ReplyUncertain(p) \/ DispatchThrows(p)
           \/ AdvanceFails(p) \/ BaselineUnanswered(p)
  <2>1. \E pc \in {"starting", "polling"} : pump' = [pump EXCEPT ![p].pc = pc]
    BY <1>4
       DEF Start, Goes, RequestFails, ReplyRefused, ReplyUncertain, DispatchThrows, AdvanceFails,
           BaselineUnanswered, Fails
  <2>2. QED
    BY <1>3, <2>1 DEF Working
<1>5. CASE RunEnds(p) \/ BeginFails(p)
  <2>1. pump'[p] = Down
    BY <1>1, <1>5 DEF RunEnds, BeginFails
  <2>2. QED
    BY <2>1 DEF Down, Working
<1>6. CASE Begin(p) \/ ReadCursor(p) \/ ReadHead(p) \/ Baseline(p) \/ FetchNothing(p)
  <2>1. pump'[p].pc \in {"polling", "heading", "baselining"}
    <3>1. CASE Begin(p) \/ ReadHead(p) \/ Baseline(p)
      BY <1>1, <3>1 DEF Begin, ReadHead, Baseline, PumpRec
    <3>2. CASE ReadCursor(p) \/ FetchNothing(p)
      BY <1>1, <3>2 DEF ReadCursor, FetchNothing, Polls, PumpRec, vars
    <3>3. QED
      BY <1>6, <3>1, <3>2
  <2>2. QED
    BY <2>1 DEF Working
<1>7. CASE Abort(p) \/ AgentAnswers(p)
  <2>1. pump'[p].pc = pump[p].pc /\ pump'[p].at = pump[p].at /\ UNCHANGED cursor
    BY <1>1, <1>7 DEF Abort, AgentAnswers, daemon, PumpRec
  <2>2. QED
    BY <2>1
<1>8. CASE Reply(p) \/ DispatchReturns(p)
  <2>1. /\ pump[p].pc \in Working /\ pump'[p].pc = "advancing" /\ pump'[p].at = pump[p].at
        /\ UNCHANGED cursor /\ pump[p].at \in served'
    BY <1>1, <1>8 DEF Reply, DispatchReturns, Goes, Working, daemon, PumpRec
  <2>2. QED
    BY <2>1 DEF Passed, Covered
<1>9. CASE NextEvent(p)
  <2>1. /\ pump[p].pc = "next" /\ UNCHANGED <<cursor, journal>> /\ pump'[p].at = pump[p].at
        /\ pump'[p].pc = IF pump[p].at > pump[p].last THEN "polling" ELSE Route(p)
    BY <1>1, <1>9 DEF NextEvent, daemon, PumpRec
  <2>2. CASE pump[p].at > pump[p].last
    BY <2>1, <2>2 DEF Working
  <2>3. CASE ~(pump[p].at > pump[p].last)
    <3>1. pump[p].at \in 1..Len(journal)
      BY <1>1, <2>1, <2>3, BoundsAssumption DEF Placed, Working, PumpRec
    <3>2. journal[pump[p].at] \in Kinds
      BY <1>1, <3>1, ElementOfSeq
    <3>3. Route(p) = "advancing" => journal[pump[p].at] \in {"other", "mention"}
      BY <3>2 DEF Route, Kinds
    <3>4. QED
      BY <2>1, <2>3, <3>1, <3>3 DEF Passed, Covered, Working
  <2>4. QED
    BY <2>2, <2>3
<1>10. CASE Fetch(p)
  <2>1. pump'[p].pc = "next" /\ pump'[p].at = cursor + 1 /\ UNCHANGED cursor
    BY <1>1, <1>10 DEF Fetch, daemon, PumpRec
  <2>2. QED
    BY <1>10, <2>1 DEF Fetch, Polls
<1>11. CASE Advance(p)
  BY <1>1, <1>11 DEF Advance, PumpRec
<1>12. QED
  BY <1>4, <1>5, <1>6, <1>7, <1>8, <1>9, <1>10, <1>11 DEF Acts, Proceeds, GoesWrong

LEMMA NextPassed ==
  ASSUME TypeOK, InRange, NothingSkipped, WorksThrough, [Next]_vars
  PROVE  NothingSkipped' /\ WorksThrough'
<1>1. /\ Len(journal) \in Nat /\ cursor \in 0..Len(journal)
      /\ pump \in [Pumps -> PumpRec]
      /\ \A e \in 1..cursor : Passed(e)
  BY LenProperties DEF TypeOK, NothingSkipped, Passed
<1>2. ASSUME NEW p \in Pumps, pump[p].pc \in Working
      PROVE  /\ pump[p].at - 1 \in 0..Len(journal)
             /\ pump[p].pc = "advancing" => pump[p].at \in 1..Len(journal)
             /\ \A e \in 1..pump[p].at - 1 : Passed(e)'
             /\ \A e : pump[p].pc = "advancing" /\ e = pump[p].at => Passed(e)'
  <2>1. /\ Placed(pump[p]) /\ pump[p].last \in Nat
    BY <1>1, BoundsAssumption DEF InRange, PumpRec
  <2>2. /\ pump[p].at - 1 \in 0..Len(journal)
        /\ pump[p].pc = "advancing" => pump[p].at \in 1..Len(journal)
    BY <1>1, <1>2, <2>1 DEF Placed, Working, Handling
  <2>3. \A e \in 1..pump[p].at - 1 : e \in 1..Len(journal) /\ Passed(e)
    BY <1>1, <1>2, <2>2 DEF WorksThrough
  <2>4. pump[p].pc = "advancing" => Passed(pump[p].at)
    BY DEF WorksThrough
  <2>5. \A e \in 1..pump[p].at - 1 : Passed(e)'
    BY <2>3, PassedStays
  <2>6. ASSUME NEW e, pump[p].pc = "advancing", e = pump[p].at PROVE Passed(e)'
    BY <2>2, <2>4, <2>6, PassedStays
  <2>7. QED
    BY <2>2, <2>5, <2>6
<1>3. \A e \in 1..cursor : Passed(e)'
  BY <1>1, PassedStays
<1>4. ASSUME \A e \in 1..cursor' : Passed(e)' PROVE NothingSkipped'
  BY <1>4 DEF NothingSkipped, Passed
<1>5. ASSUME UNCHANGED <<cursor, pump>> PROVE NothingSkipped' /\ WorksThrough'
  <2>1. NothingSkipped'
    BY <1>3, <1>4, <1>5
  <2>2. WorksThrough'
    BY <1>2, <1>5 DEF WorksThrough, Working
  <2>3. QED
    BY <2>1, <2>2
<1>6. ASSUME NEW p \in Pumps, Acts(p) PROVE NothingSkipped' /\ WorksThrough'
  <2>1. \A e \in 1..cursor' : Passed(e)'
    <3>1. CASE UNCHANGED cursor
      BY <1>3, <3>1
    <3>2. CASE PutBaseline(p)
      <4>1. pump[p].head \in Nat
        BY <1>1, BoundsAssumption DEF PumpRec
      <4>2. \A e \in 1..cursor' : e \in 1..cursor \/ e <= base'
        BY <1>1, <3>2, <4>1 DEF PutBaseline, Advanced
      <4>3. QED
        BY <1>3, <4>2 DEF Passed, Covered
    <3>3. CASE pump[p].pc = "advancing" /\ cursor' = Advanced(pump[p].at)
      <4>1. pump[p].at \in 1..Len(journal)
        BY <1>2, <3>3 DEF Working
      <4>2. \A e \in 1..cursor' : e \in 1..cursor \/ e \in 1..pump[p].at - 1 \/ e = pump[p].at
        BY <1>1, <3>3, <4>1 DEF Advanced
      <4>3. QED
        BY <1>2, <1>3, <3>3, <4>2 DEF Working
    <3>4. QED
      BY <1>6, <3>1, <3>2, <3>3, HistoryStep
  <2>2. ASSUME NEW q \in Pumps
        PROVE  /\ pump'[q].pc \in Working => \A e \in 1..pump'[q].at - 1 : Passed(e)'
               /\ \A e : pump'[q].pc = "advancing" /\ e = pump'[q].at => Passed(e)'
    <3>1. CASE q # p
      <4>1. pump'[q] = pump[q]
        BY <1>6, <3>1, OthersStay
      <4>2. QED
        BY <1>2, <4>1 DEF Working
    <3>2. CASE q = p
      <4>1. CASE pump'[p].pc \notin Working
        BY <3>2, <4>1 DEF Working
      <4>2. CASE /\ pump[p].pc \in Working /\ pump'[p].at = pump[p].at
                 /\ pump'[p].pc = "advancing" =>
                      \/ pump[p].pc = "advancing"
                      \/ pump[p].at \in served'
                      \/ pump[p].at \in 1..Len(journal) /\ Passed(pump[p].at)
        <5>1. ASSUME NEW e, pump'[p].pc = "advancing", e = pump'[p].at PROVE Passed(e)'
          <6>1. CASE pump[p].pc = "advancing"
            BY <1>2, <4>2, <5>1, <6>1
          <6>2. CASE pump[p].at \in served'
            BY <4>2, <5>1, <6>2 DEF Passed, Covered
          <6>3. CASE pump[p].at \in 1..Len(journal) /\ Passed(pump[p].at)
            BY <4>2, <5>1, <6>3, PassedStays
          <6>4. QED
            BY <4>2, <5>1, <6>1, <6>2, <6>3
        <5>2. QED
          BY <1>2, <3>2, <4>2, <5>1
      <4>3. CASE /\ pump[p].pc = "advancing" /\ pump'[p].pc = "next"
                 /\ pump'[p].at = pump[p].at + 1
        <5>1. pump[p].at \in 1..Len(journal)
          BY <1>2, <4>3 DEF Working
        <5>2. \A e \in 1..pump'[p].at - 1 : e \in 1..pump[p].at - 1 \/ e = pump[p].at
          BY <1>1, <4>3, <5>1
        <5>3. QED
          BY <1>2, <3>2, <4>3, <5>2 DEF Working
      <4>4. CASE pump'[p].pc = "next" /\ pump'[p].at = cursor + 1
        <5>1. pump'[p].at - 1 = cursor
          BY <1>1, <4>4
        <5>2. QED
          BY <1>3, <3>2, <4>4, <5>1
      <4>5. QED
        BY <1>6, <4>1, <4>2, <4>3, <4>4, PlaceStep
    <3>3. QED
      BY <3>1, <3>2
  <2>3. WorksThrough'
    BY <2>2 DEF WorksThrough
  <2>4. QED
    BY <1>4, <2>1, <2>3
<1>7. CASE Crash
  <2>1. UNCHANGED cursor /\ \A p \in Pumps : pump'[p].pc = "down"
    BY <1>7, DownPlaced DEF Crash, daemon
  <2>2. WorksThrough'
    BY <2>1 DEF WorksThrough, Working
  <2>3. QED
    BY <1>3, <1>4, <2>1, <2>2
<1>8. CASE RadioReports \/ UNCHANGED vars \/ \E kind \in Incoming : Record(kind)
  BY <1>5, <1>8 DEF RadioReports, Record, vars
<1>9. QED
  BY <1>6, <1>7, <1>8 DEF Next, Acts

\* The first answer to an event goes out when nothing is left to do before it.
LEMMA FirstAnswerInOrder ==
  ASSUME TypeOK, InRange, WorksThrough, [Next]_vars,
         NEW e \in DOMAIN aired, aired[e] = 0, aired'[e] > 0
  PROVE  \A d \in 1..e - 1 : Passed(d)
<1>1. aired \in [1..EventBound -> 0..AirCap]
  BY DEF TypeOK
<1> DEFINE n == aired'[e]
<1>2. n > 0 /\ aired[e] = 0
  OBVIOUS
<1>3. n # 0
  <2> HIDE DEF n
  <2>1. QED
    BY <1>2
<1>4. ~UNCHANGED aired
  BY <1>2, <1>3
<1>5. PICK p \in Pumps : Acts(p)
  BY <1>4 DEF Next, Acts, Record, RadioReports, Crash, history, vars
<1>6. pump[p].pc \in {"replying", "dispatching"} /\ OnAir(pump[p].at)
  BY <1>4, <1>5, HistoryStep
<1>7. e = pump[p].at
  BY <1>1, <1>2, <1>3, <1>6 DEF OnAir
<1>8. QED
  BY <1>6, <1>7 DEF WorksThrough, Working

-----------------------------------------------------------------------------
(* Before the first abort *)

LEMMA AbortsGrow ==
  ASSUME TypeOK, [Next]_vars, aborts' = 0
  PROVE  aborts = 0 /\ \A p \in Pumps : ~Abort(p)
<1>1. aborts \in Nat
  BY BoundsAssumption DEF TypeOK
<1>2. \A p \in Pumps : ~Abort(p)
  BY <1>1 DEF Abort
<1>3. ASSUME NEW p \in Pumps, Acts(p) PROVE aborts = 0
  <2>1. aborts' = aborts \/ aborts' = aborts + 1
    BY <1>3, HistoryStep
  <2>2. QED
    BY <1>1, <2>1
<1>4. CASE UNCHANGED aborts
  BY <1>2, <1>4
<1>5. QED
  BY <1>2, <1>3, <1>4 DEF Next, Acts, Record, RadioReports, Crash, stops, vars

\* A run comes up by Start only, and is told to stop by Abort only.
LEMMA UpStep ==
  ASSUME TypeOK, NEW p \in Pumps, Acts(p)
  PROVE  /\ pump[p].pc = "down" => Start(p) \/ UNCHANGED vars
         /\ pump'[p].stop => pump[p].stop \/ Abort(p)
<1>1. pump \in [Pumps -> PumpRec] /\ pump[p] \in PumpRec
  BY DEF TypeOK
<1>2. CASE Start(p) \/ Abort(p) \/ FetchNothing(p)
  BY <1>1, <1>2 DEF Start, Goes, Abort, FetchNothing, PumpRec, vars
<1>3. CASE RunEnds(p) \/ BeginFails(p)
  BY <1>1, <1>3 DEF RunEnds, BeginFails, Down, PumpRec
<1>4. CASE \/ Begin(p) \/ ReadHead(p) \/ Baseline(p) \/ Fetch(p) \/ NextEvent(p) \/ Advance(p)
           \/ AgentAnswers(p)
  <2>1. pump[p].pc # "down"
    BY <1>4 DEF Begin, ReadHead, Baseline, PutBaseline, Fetch, Polls, NextEvent, Advance,
                AgentAnswers
  <2>2. pump'[p].stop = pump[p].stop
    BY <1>1, <1>4 DEF Begin, ReadHead, Baseline, Fetch, NextEvent, Advance, AgentAnswers, PumpRec
  <2>3. QED
    BY <2>1, <2>2
<1>5. CASE ReadCursor(p)
  BY <1>1, <1>5 DEF ReadCursor, Polls, PumpRec
<1>6. CASE Reply(p) \/ DispatchReturns(p)
  BY <1>1, <1>6 DEF Reply, DispatchReturns, Goes, PumpRec
<1>7. CASE \/ BaselineUnanswered(p) \/ RequestFails(p) \/ ReplyRefused(p) \/ ReplyUncertain(p)
           \/ DispatchThrows(p) \/ AdvanceFails(p)
  BY <1>1, <1>7 DEF BaselineUnanswered, PutBaseline, RequestFails, Polls, ReplyRefused,
                    ReplyUncertain, DispatchThrows, AdvanceFails, Fails, PumpRec
<1>8. QED
  BY <1>2, <1>3, <1>4, <1>5, <1>6, <1>7 DEF Acts, Proceeds, GoesWrong

LEMMA NextAlone ==
  ASSUME TypeOK, InRange, Alone, [Next]_vars
  PROVE  Alone'
<1>1. SUFFICES ASSUME aborts' = 0
               PROVE  /\ \A p \in Pumps : ~pump'[p].stop
                      /\ \A p, q \in Pumps : pump'[p].pc # "down" /\ pump'[q].pc # "down" => p = q
  BY DEF Alone
<1>2. /\ \A p \in Pumps : ~Abort(p) /\ ~pump[p].stop
      /\ \A p, q \in Pumps : pump[p].pc # "down" /\ pump[q].pc # "down" => p = q
  BY <1>1, AbortsGrow DEF Alone
<1>3. CASE UNCHANGED pump
  BY <1>2, <1>3
<1>4. CASE Crash
  BY <1>4, DownPlaced DEF Crash
<1>5. ASSUME NEW p \in Pumps, Acts(p), ~UNCHANGED vars
      PROVE  /\ \A q \in Pumps : ~pump'[q].stop
             /\ \A q, r \in Pumps : pump'[q].pc # "down" /\ pump'[r].pc # "down" => q = r
  <2>1. \A q \in Pumps \ {p} : pump'[q] = pump[q]
    BY <1>5, OthersStay
  <2>2. ~pump'[p].stop
    BY <1>2, <1>5, UpStep
  <2>3. pump[p].pc = "down" => \A q \in Pumps : pump[q].pc = "down"
    BY <1>2, <1>5, UpStep DEF Start
  <2>4. QED
    BY <1>2, <2>1, <2>2, <2>3
<1>6. QED
  BY <1>3, <1>4, <1>5 DEF Next, Acts, Record, RadioReports, vars

LEMMA NextAtCursor ==
  ASSUME TypeOK, InRange, Alone, AtCursor, [Next]_vars
  PROVE  AtCursor'
<1>1. SUFFICES ASSUME aborts' = 0
               PROVE  /\ \A p \in Pumps : pump'[p].pc \in Working => pump'[p].at = cursor' + 1
                      /\ \A e \in 1..EventBound : e > cursor' + 1 => aired'[e] = 0
  BY DEF AtCursor
<1>2. /\ \A p \in Pumps : pump[p].pc \in Working => pump[p].at = cursor + 1
      /\ \A e \in 1..EventBound : e > cursor + 1 => aired[e] = 0
      /\ \A p, q \in Pumps : pump[p].pc # "down" /\ pump[q].pc # "down" => p = q
  BY <1>1, AbortsGrow DEF Alone, AtCursor
<1>3. /\ cursor \in Nat /\ Len(journal) \in Nat /\ aired \in [1..EventBound -> 0..AirCap]
  BY LenProperties DEF TypeOK
<1>4. CASE UNCHANGED <<pump, cursor, aired>>
  BY <1>2, <1>4
<1>5. CASE Crash
  BY <1>2, <1>5, DownPlaced DEF Crash, daemon, history, Working
<1>6. ASSUME NEW p \in Pumps, Acts(p), ~UNCHANGED vars
      PROVE  /\ \A q \in Pumps : pump'[q].pc \in Working => pump'[q].at = cursor' + 1
             /\ \A e \in 1..EventBound : e > cursor' + 1 => aired'[e] = 0
  <2>1. ASSUME NEW q \in Pumps \ {p}, pump'[q].pc \in Working PROVE pump'[q].at = cursor' + 1
    <3>1. pump'[q] = pump[q]
      BY <1>6, OthersStay
    <3>2. pump[p].pc = "down"
      BY <1>2, <2>1, <3>1 DEF Working
    <3>3. UNCHANGED cursor
      BY <1>6, <3>2, UpStep DEF Start, daemon
    <3>4. QED
      BY <1>2, <2>1, <3>1, <3>3
  <2>2. ASSUME pump'[p].pc \in Working PROVE pump'[p].at = cursor' + 1
    <3>1. CASE pump[p].pc \in Working /\ pump'[p].at = pump[p].at /\ UNCHANGED cursor
      BY <1>2, <3>1
    <3>2. CASE /\ pump[p].pc = "advancing" /\ pump'[p].pc = "next"
               /\ pump'[p].at = pump[p].at + 1 /\ cursor' = Advanced(pump[p].at)
      <4>1. pump[p].at = cursor + 1
        BY <1>2, <3>2 DEF Working
      <4>2. QED
        BY <1>3, <3>2, <4>1 DEF Advanced
    <3>3. CASE pump'[p].at = cursor + 1 /\ UNCHANGED cursor
      BY <3>3
    <3>4. QED
      BY <1>6, <2>2, <3>1, <3>2, <3>3, PlaceStep
  <2>3. \A e \in 1..EventBound : e > cursor' + 1 => aired'[e] = 0
    <3>1. cursor' \in Nat /\ cursor' >= cursor
      BY <1>3, <1>6, CursorStep
    <3>2. ASSUME NEW e \in 1..EventBound, e > cursor' + 1 PROVE e > cursor + 1
      <4> DEFINE n == cursor'
      <4>1. n \in Nat /\ n >= cursor /\ e > n + 1
        BY <3>1, <3>2
      <4> HIDE DEF n
      <4>2. QED
        BY <1>3, <4>1
    <3>3. CASE UNCHANGED aired
      BY <1>2, <3>2, <3>3
    <3>4. CASE pump[p].pc \in {"replying", "dispatching"} /\ OnAir(pump[p].at)
      <4>1. pump[p].at = cursor + 1
        BY <1>2, <3>4 DEF Working
      <4>2. \A e \in 1..EventBound : e # cursor + 1 => aired'[e] = aired[e]
        BY <1>3, <3>4, <4>1 DEF OnAir
      <4>3. \A e \in 1..EventBound : e > cursor + 1 => e # cursor + 1
        BY <1>3
      <4>4. QED
        BY <1>2, <3>2, <4>2, <4>3
    <3>5. QED
      BY <1>6, <3>3, <3>4, HistoryStep
  <2>4. QED
    BY <2>1, <2>2, <2>3
<1>7. QED
  BY <1>4, <1>5, <1>6 DEF Next, Acts, Record, RadioReports, history, vars

LEMMA RepeatsFinite ==
  ASSUME TypeOK
  PROVE  /\ IsFiniteSet(Repeats) /\ Cardinality(Repeats) \in Nat
         /\ AirCap \in Nat /\ AirCap # 0
<1>1. /\ EventBound \in Nat /\ AirCap \in Nat /\ AirCap # 0
  BY BoundsAssumption DEF AirCap
<1>2. IsFiniteSet(1..EventBound) /\ IsFiniteSet(2..AirCap)
  BY <1>1, FS_Interval
<1>3. IsFiniteSet((1..EventBound) \X (2..AirCap))
  BY <1>2, FS_Product
<1>4. Repeats \in SUBSET ((1..EventBound) \X (2..AirCap))
  BY DEF Repeats
<1>5. QED
  BY <1>1, <1>3, <1>4, FS_Subset, FS_CardinalityType

\* One more answer makes one pair more at most, and none if it is the first.
LEMMA RepeatsStep ==
  ASSUME TypeOK, NEW e \in 1..EventBound, OnAir(e)
  PROVE  /\ Cardinality(Repeats') \in Nat
         /\ Cardinality(Repeats') <= Cardinality(Repeats) + 1
         /\ aired[e] = 0 => Cardinality(Repeats') = Cardinality(Repeats)
<1>1. /\ aired \in [1..EventBound -> 0..AirCap] /\ EventBound \in Nat
      /\ AirCap \in Nat /\ AirCap # 0
      /\ IsFiniteSet(Repeats) /\ Cardinality(Repeats) \in Nat
  BY BoundsAssumption, RepeatsFinite DEF TypeOK
<1>2. CASE aired[e] = AirCap
  <2>1. aired' = aired
    BY <1>1, <1>2 DEF OnAir
  <2>2. Repeats' = Repeats /\ aired[e] # 0
    BY <1>1, <1>2, <2>1 DEF Repeats
  <2>3. QED
    BY <1>1, <2>2
<1>3. CASE aired[e] # AirCap
  <2> DEFINE n == aired[e] + 1
  <2>1. n \in 1..AirCap /\ aired' = [aired EXCEPT ![e] = n]
    <3>1. aired[e] \in 0..AirCap /\ aired[e] < AirCap
      BY <1>1, <1>3
    <3>2. QED
      BY <1>1, <3>1 DEF OnAir
  <2>2. \A d \in 1..EventBound : d # e => aired'[d] = aired[d]
    BY <1>1, <2>1
  <2>3. aired'[e] = n
    BY <1>1, <2>1
  <2>4. \A i \in 2..AirCap : i <= n <=> i <= aired[e] \/ i = n
    BY <1>1
  <2>5. CASE aired[e] = 0
    <3>1. \A i \in 2..AirCap : ~(i <= n) /\ ~(i <= aired[e])
      BY <1>1, <2>5
    <3>2. Repeats' = Repeats
      <4> HIDE DEF n
      <4>1. \A x \in (1..EventBound) \X (2..AirCap) : x[2] <= aired'[x[1]] <=> x[2] <= aired[x[1]]
        <5>1. SUFFICES ASSUME NEW d \in 1..EventBound, NEW i \in 2..AirCap
                       PROVE  i <= aired'[d] <=> i <= aired[d]
          OBVIOUS
        <5>2. CASE d = e
          BY <2>3, <3>1, <5>2
        <5>3. CASE d # e
          BY <2>2, <5>3
        <5>4. QED
          BY <5>2, <5>3
      <4>2. AirCap' = AirCap
        BY DEF AirCap
      <4>3. QED
        BY <4>1, <4>2 DEF Repeats
    <3>3. QED
      BY <1>1, <3>2
  <2>6. CASE aired[e] # 0
    <3>1. n \in 2..AirCap
      BY <1>1, <2>1, <2>6
    <3>2. Repeats' = Repeats \cup {<<e, n>>}
      <4> HIDE DEF n
      <4>1. \A x \in (1..EventBound) \X (2..AirCap) :
              x[2] <= aired'[x[1]] <=> x[2] <= aired[x[1]] \/ x = <<e, n>>
        <5>1. SUFFICES ASSUME NEW d \in 1..EventBound, NEW i \in 2..AirCap
                       PROVE  i <= aired'[d] <=> i <= aired[d] \/ <<d, i>> = <<e, n>>
          OBVIOUS
        <5>2. CASE d = e
          BY <2>3, <2>4, <5>2
        <5>3. CASE d # e
          BY <2>2, <5>3
        <5>4. QED
          BY <5>2, <5>3
      <4>2. <<e, n>> \in (1..EventBound) \X (2..AirCap)
        BY <3>1
      <4>3. QED
        BY <4>1, <4>2 DEF Repeats
    <3>3. Cardinality(Repeats \cup {<<e, n>>}) \in {Cardinality(Repeats), Cardinality(Repeats) + 1}
      BY <1>1, FS_AddElement
    <3>4. QED
      BY <1>1, <2>6, <3>2, <3>3
  <2>7. QED
    BY <2>5, <2>6
<1>4. QED
  BY <1>2, <1>3

\* A run is settled once it has answered or let the agent answer, and leaves that
\* state by an advance, which moves the cursor, or by a failure.
LEMMA SettledStays ==
  ASSUME TypeOK, NEW p \in Pumps, Acts(p), Settled(p), ~Advance(p), UNCHANGED faults
  PROVE  Settled(p)'
<1>1. pump \in [Pumps -> PumpRec] /\ pump[p] \in PumpRec /\ faults \in Nat
  BY BoundsAssumption DEF TypeOK
<1>2. ~Fault
  BY <1>1 DEF Fault
<1>3. pump[p].pc \in {"advancing", "dispatching"}
  BY DEF Settled
<1>4. CASE Abort(p)
  BY <1>1, <1>4 DEF Abort, Settled, PumpRec
<1>5. CASE DispatchReturns(p)
  BY <1>1, <1>5 DEF DispatchReturns, Goes, Settled, PumpRec
<1>6. CASE AgentAnswers(p)
  BY <1>1, <1>6 DEF AgentAnswers, Settled, PumpRec
<1>7. QED
  BY <1>2, <1>3, <1>4, <1>5, <1>6
     DEF Acts, Proceeds, GoesWrong, Start, FetchNothing, Begin, RunEnds, ReadCursor, ReadHead,
         Baseline, PutBaseline, Fetch, NextEvent, Reply, BeginFails, BaselineUnanswered,
         RequestFails, ReplyRefused, ReplyUncertain, DispatchThrows, AdvanceFails, Polls

LEMMA NextPaid ==
  ASSUME TypeOK, InRange, Alone, AtCursor, Paid, [Next]_vars
  PROVE  Paid'
<1> DEFINE cost  == IF Exposed THEN 1 ELSE 0
           n     == Cardinality(Repeats)
<1>1. SUFFICES ASSUME aborts' = 0
               PROVE  n' + (IF Exposed' THEN 1 ELSE 0) <= faults' + crashes'
  BY DEF Paid
<1>2. /\ \A p \in Pumps : pump[p].pc \in Working => pump[p].at = cursor + 1
      /\ \A e \in 1..EventBound : e > cursor + 1 => aired[e] = 0
      /\ \A p, q \in Pumps : pump[p].pc # "down" /\ pump[q].pc # "down" => p = q
      /\ n + cost <= faults + crashes
      /\ \A p \in Pumps : ~Abort(p)
  BY <1>1, AbortsGrow DEF Alone, AtCursor, Paid
<1>3. /\ cursor \in Nat /\ Len(journal) \in Nat /\ Len(journal) <= EventBound
      /\ EventBound \in Nat /\ cursor <= Len(journal)
      /\ faults \in Nat /\ crashes \in Nat /\ n \in Nat /\ cost \in {0, 1}
      /\ aired \in [1..EventBound -> 0..AirCap] /\ AirCap \in Nat
      /\ pump \in [Pumps -> PumpRec]
  <2>1. n \in Nat /\ AirCap \in Nat /\ cost \in {0, 1}
    BY RepeatsFinite
  <2>2. faults \in Nat /\ crashes \in Nat /\ EventBound \in Nat
    BY BoundsAssumption DEF TypeOK
  <2> HIDE DEF n, cost
  <2>3. /\ cursor \in Nat /\ Len(journal) \in Nat /\ Len(journal) <= EventBound
        /\ cursor <= Len(journal)
    BY LenProperties DEF TypeOK, InRange
  <2>4. QED
    BY <2>1, <2>2, <2>3 DEF TypeOK
<1>4. UNCHANGED aired => n' = n
  BY DEF Repeats
<1> HIDE DEF n, cost
<1>5. ASSUME UNCHANGED <<aired, faults, crashes>>, Exposed' => Exposed
      PROVE  n' + (IF Exposed' THEN 1 ELSE 0) <= faults' + crashes'
  BY <1>2, <1>3, <1>4, <1>5 DEF cost
<1>6. ASSUME UNCHANGED aired, faults' + crashes' = faults + crashes + 1
      PROVE  n' + (IF Exposed' THEN 1 ELSE 0) <= faults' + crashes'
  <2>1. n <= faults + crashes
    BY <1>2, <1>3
  <2>2. (IF Exposed' THEN 1 ELSE 0) \in {0, 1}
    OBVIOUS
  <2>3. QED
    BY <1>3, <1>4, <1>6, <2>1, <2>2
<1>7. CASE Crash
  BY <1>3, <1>6, <1>7 DEF Crash, history
<1>8. CASE RadioReports \/ UNCHANGED vars \/ \E kind \in Incoming : Record(kind)
  <2>1. UNCHANGED <<aired, faults, crashes, cursor, pump>>
    BY <1>8 DEF RadioReports, Record, history, stops, vars
  <2>2. QED
    BY <1>5, <2>1 DEF Exposed, Settled
<1>9. ASSUME NEW p \in Pumps, Acts(p), ~UNCHANGED vars
      PROVE  n' + (IF Exposed' THEN 1 ELSE 0) <= faults' + crashes'
  <2>1. /\ crashes' = crashes
        /\ faults' = faults \/ faults' = faults + 1
        /\ cursor' \in Nat /\ cursor' >= cursor
    <3>1. crashes' = crashes /\ (faults' = faults \/ faults' = faults + 1)
      BY <1>9, HistoryStep DEF Fault
    <3>2. cursor' \in cursor..Len(journal)
      BY <1>9, CursorStep
    <3>3. QED
      BY <1>3, <3>1, <3>2
  <2>2. CASE UNCHANGED aired /\ faults' = faults + 1
    BY <1>3, <1>6, <2>1, <2>2
  <2>3. CASE UNCHANGED aired /\ UNCHANGED faults
    <3>1. CASE cursor' # cursor
      <4>1. ASSUME cursor' < EventBound PROVE aired[cursor' + 1] = 0
        <5> DEFINE c == cursor'
        <5>1. c \in Nat /\ c >= cursor /\ c # cursor /\ c < EventBound
          BY <2>1, <3>1, <4>1
        <5> HIDE DEF c
        <5>2. c + 1 \in 1..EventBound /\ c + 1 > cursor + 1
          BY <1>3, <5>1
        <5>3. aired[c + 1] = 0
          BY <1>2, <5>2
        <5>4. QED
          BY <5>3 DEF c
      <4>2. ~Exposed'
        BY <2>3, <4>1 DEF Exposed
      <4>3. QED
        BY <1>5, <2>1, <2>3, <4>2
    <3>2. CASE cursor' = cursor
      <4>1. ~Advance(p)
        <5>1. ASSUME Advance(p) PROVE FALSE
          <6>1. pump[p].at = cursor + 1 /\ cursor' = Advanced(pump[p].at)
            BY <1>2, <5>1 DEF Advance, Working
          <6>2. QED
            BY <1>3, <3>2, <6>1 DEF Advanced
        <5>2. QED
          BY <5>1
      <4>2. \A q \in Pumps : Settled(q) => Settled(q)'
        BY <1>9, <2>3, <4>1, SettledStays, OthersStay DEF Settled
      <4>3. Exposed' => Exposed
        BY <2>3, <3>2, <4>2 DEF Exposed
      <4>4. QED
        BY <1>5, <2>1, <2>3, <4>3
    <3>3. QED
      BY <3>1, <3>2
  <2>4. CASE pump[p].pc \in {"replying", "dispatching"} /\ OnAir(pump[p].at) /\ ~UNCHANGED aired
    <3> DEFINE e == cursor + 1
    <3>1. pump[p].at = e
      BY <1>2, <2>4 DEF Working
    <3>2. e \in 1..EventBound /\ cursor < EventBound
      <4>1. Placed(pump[p]) /\ pump[p].last \in Nat
        BY <1>3 DEF InRange, PumpRec
      <4>2. pump[p].at <= pump[p].last /\ pump[p].last <= Len(journal)
        BY <1>3, <2>4, <4>1 DEF Placed, Handling
      <4>3. QED
        BY <1>3, <3>1, <4>1, <4>2
    <3>3. Reply(p) \/ ReplyUncertain(p) \/ AgentAnswers(p)
      BY <1>2, <1>9, <2>4
         DEF Acts, Proceeds, GoesWrong, Start, Begin, RunEnds, ReadCursor, ReadHead, Baseline,
             PutBaseline, Fetch, NextEvent, DispatchReturns, Advance, BeginFails,
             BaselineUnanswered, RequestFails, ReplyRefused, DispatchThrows, AdvanceFails,
             FetchNothing, history, vars
    <3>4. ~Settled(p)
      BY <3>3 DEF Reply, ReplyUncertain, AgentAnswers, Settled
    <3>5. \A q \in Pumps : ~Settled(q)
      <4>1. pump[p].pc # "down"
        BY <2>4
      <4>2. QED
        BY <1>2, <3>4, <4>1 DEF Settled
    <3>6. aired[e] # 0 => Exposed
      <4>1. aired[e] \in Nat
        BY <1>3, <3>2
      <4>2. QED
        BY <3>2, <3>5, <4>1 DEF Exposed
    <3>7. /\ n' \in Nat /\ n' <= n + 1
          /\ aired[e] = 0 => n' = n
      BY <2>4, <3>1, <3>2, RepeatsStep DEF n
    <3>8. n' <= n + cost
      BY <1>3, <3>6, <3>7 DEF cost
    <3> DEFINE m == n'
               f == faults'
               x == IF Exposed' THEN 1 ELSE 0
    <3>9. /\ m \in Nat /\ m <= n + cost /\ n + cost <= faults + crashes
          /\ crashes' = crashes
      BY <1>2, <2>1, <3>7, <3>8
    <3>10. SUFFICES m + x <= f + crashes
      BY <2>1
    <3>11. CASE ReplyUncertain(p)
      <4>1. f = faults + 1
        BY <3>11 DEF ReplyUncertain, Fault
      <4>2. x \in {0, 1}
        OBVIOUS
      <4> HIDE DEF m, f, x
      <4>3. QED
        BY <1>3, <3>9, <4>1, <4>2
    <3>12. CASE Reply(p) \/ AgentAnswers(p)
      <4>1. Settled(p)'
        BY <1>3, <3>12 DEF Reply, AgentAnswers, Goes, Settled, PumpRec
      <4>2. x = 0
        BY <4>1 DEF Exposed
      <4>3. f = faults
        BY <3>12 DEF Reply, AgentAnswers
      <4> HIDE DEF m, f, x
      <4>4. QED
        BY <1>3, <3>9, <4>2, <4>3
    <3>13. QED
      BY <3>3, <3>11, <3>12
  <2>5. QED
    BY <1>9, <2>1, <2>2, <2>3, <2>4, HistoryStep
<1>10. QED
  BY <1>7, <1>8, <1>9 DEF Next, Acts

-----------------------------------------------------------------------------
(* The theorems *)

LEMMA InitSteady == Init => Steady
<1> SUFFICES ASSUME Init PROVE Steady
  OBVIOUS
<1>1. journal \in Seq(Kinds) /\ Len(journal) \in 0..1
  <2>1. CASE journal = << >>
    BY <2>1
  <2>2. CASE \E k \in Incoming : journal = <<k>>
    BY <2>2, PumpAssumption
  <2>3. QED
    BY <2>1, <2>2 DEF Init
<1>2. /\ cursor = 0 /\ base = 0 /\ served = {} /\ faults = 0 /\ aborts = 0 /\ crashes = 0
      /\ aired = [e \in 1..EventBound |-> 0] /\ pump = [p \in Pumps |-> Down]
  BY DEF Init
<1>3. /\ EventBound \in Nat \ {0} /\ FaultBound \in Nat /\ AbortBound \in Nat /\ CrashBound \in Nat
      /\ AirCap \in Nat
  BY BoundsAssumption DEF AirCap
<1>4. /\ Down \in PumpRec /\ Down.pc = "down" /\ ~Down.stop /\ Down.head = 0 /\ Down.last = 0
  BY <1>3 DEF Down, PumpRec
<1>5. TypeOK
  <2>1. pump \in [Pumps -> PumpRec] /\ \A p \in Pumps : pump[p].pc = "down"
    BY <1>2, <1>4
  <2>2. aired \in [1..EventBound -> 0..AirCap]
    BY <1>2, <1>3
  <2>3. /\ cursor \in 0..Len(journal) /\ base \in 0..Len(journal)
        /\ faults \in 0..FaultBound /\ aborts \in 0..AbortBound /\ crashes \in 0..CrashBound
    BY <1>1, <1>2, <1>3
  <2>4. served \subseteq 1..Len(journal)
    BY <1>2
  <2>5. named \in BOOLEAN /\ installed \in BOOLEAN
    BY DEF Init
  <2>6. QED
    BY <1>1, <2>1, <2>2, <2>3, <2>4, <2>5 DEF TypeOK
<1>6. InRange
  <2>1. Len(journal) <= EventBound /\ base <= cursor
    BY <1>1, <1>2, <1>3
  <2>2. Placed(Down)
    BY <1>1, <1>4 DEF Placed, Working, Handling
  <2>3. QED
    BY <1>2, <2>1, <2>2 DEF InRange
<1>7. NothingSkipped
  BY <1>2 DEF NothingSkipped
<1>8. WorksThrough /\ Alone /\ AtCursor
  BY <1>2, <1>4 DEF WorksThrough, Working, Alone, AtCursor
<1>9. Paid
  <2>1. ~Exposed
    BY <1>2, <1>3 DEF Exposed
  <2>2. Repeats = {}
    <3>1. \A x \in (1..EventBound) \X (2..AirCap) : ~(x[2] <= aired[x[1]])
      <4>1. SUFFICES ASSUME NEW e \in 1..EventBound, NEW i \in 2..AirCap PROVE ~(i <= aired[e])
        OBVIOUS
      <4>2. QED
        BY <1>2
    <3>2. QED
      BY <3>1 DEF Repeats
  <2>3. Cardinality(Repeats) = 0
    BY <2>2, FS_EmptySet
  <2>4. QED
    BY <1>2, <2>1, <2>3 DEF Paid
<1>10. QED
  BY <1>5, <1>6, <1>7, <1>8, <1>9 DEF Steady

LEMMA NextSteady ==
  ASSUME Steady, [Next]_vars
  PROVE  Steady'
<1>1. TypeOK /\ InRange /\ NothingSkipped /\ WorksThrough /\ Alone /\ AtCursor /\ Paid
  BY DEF Steady
<1>2. TypeOK' /\ InRange'
  BY <1>1, NextTyped
<1>3. NothingSkipped' /\ WorksThrough'
  BY <1>1, NextPassed
<1>4. Alone' /\ AtCursor' /\ Paid'
  BY <1>1, NextAlone, NextAtCursor, NextPaid
<1>5. QED
  BY <1>2, <1>3, <1>4 DEF Steady

\* Every state of the journal, the cursor and any number of runs of the channel is
\* steady: what a run has left behind it is served, also while an aborted run works
\* on, and repeated answers are paid for as long as none was aborted.
THEOREM AlwaysSteady == Spec => []Steady
<1>1. Steady /\ [Next]_vars => Steady'
  BY NextSteady
<1>2. QED
  BY <1>1, InitSteady, PTL DEF Spec

\* The cursor, the baseline and every batch in progress lie within the journal.
THEOREM TypeCorrect == Spec => []TypeOK
<1>1. Steady => TypeOK
  BY DEF Steady
<1>2. QED
  BY <1>1, AlwaysSteady, PTL

\* The shared cursor passes a direct request only after it was answered or given to
\* the agent, whatever fails, crashes or is aborted, and however many runs overlap.
THEOREM NothingIsSkipped == Spec => []NothingSkipped
<1>1. Steady => NothingSkipped
  BY DEF Steady
<1>2. QED
  BY <1>1, AlwaysSteady, PTL

\* A first answer to an event goes out only when every earlier direct request is
\* served: no run, old or new, overtakes another's unfinished work.
THEOREM AnswersInOrder == Spec => InOrder
<1> DEFINE Ordered == \A e \in DOMAIN aired : aired[e] = 0 /\ aired'[e] > 0 =>
                        \A d \in 1..e - 1 : Covered(d) \/ journal[d] = "mention"
<1>1. Steady /\ [Next]_vars => [Ordered]_vars
  BY FirstAnswerInOrder DEF Steady, Passed
<1>2. QED
  BY <1>1, AlwaysSteady, PTL DEF Spec, InOrder

\* Until a run is aborted, the answers sent more than once are no more than the
\* failed requests, failed turns and crashes: pumpOnce advances the cursor event by
\* event, so that nothing answered earlier in the batch is answered again.
THEOREM RepeatsAreAlwaysPaid == Spec => []RepeatsArePaidFor
<1>1. ASSUME Steady PROVE RepeatsArePaidFor
  <2>1. SUFFICES ASSUME aborts = 0 PROVE Cardinality(Repeats) <= faults + crashes
    BY DEF RepeatsArePaidFor
  <2>2. Cardinality(Repeats) \in Nat /\ faults \in Nat /\ crashes \in Nat
    BY <1>1, RepeatsFinite, BoundsAssumption DEF Steady, TypeOK
  <2>3. Cardinality(Repeats) + (IF Exposed THEN 1 ELSE 0) <= faults + crashes
    BY <1>1, <2>1 DEF Steady, Paid
  <2>4. QED
    BY <2>2, <2>3
<1>2. QED
  BY <1>1, AlwaysSteady, PTL
=============================================================================
