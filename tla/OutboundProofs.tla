--------------------------- MODULE OutboundProofs ---------------------------
(***************************************************************************)
(* Proofs about Outbound: for any set of requests and targets, any         *)
(* cooldowns, any number of restarts.                                      *)
(*                                                                         *)
(* The properties follow from one inductive invariant, Coherent: what the  *)
(* coroutine of a request, its row, its command at the companion and the   *)
(* transmissions on the air may say of each other.  Most of it is local to *)
(* a request (Sound); requests meet in the operation lock and in the time  *)
(* stamps of the cooldowns.                                                *)
(***************************************************************************)
EXTENDS Outbound, SequenceTheorems, TLAPS

RowFollows(r) ==
  /\ row[r] = "none" <=> task[r].pc = "new"
  /\ task[r].pc \in {"queued", "waiting", "sending", "marking"} => row[r] = "queued"
  /\ task[r].pc = "awaiting" => row[r] = "transmitted"
  /\ task[r].pc = "closing" => row[r] \in {"queued", "transmitted"}

OutcomeFollows(r) ==
  /\ task[r].outcome # "none" => task[r].pc = "closing"
  /\ task[r].reply # "none" => task[r].pc = "done"

DeviceFollows(r) ==
  device[r] # "none" =>
    /\ task[r].pc \notin {"new", "queued", "waiting"}
    /\ task[r].outcome \notin {"rejected", "limited"}
    /\ task[r].reply \notin {"rejected", "limited"}

\* What the companion answers, it has done.
AnswerIsTrue(r) ==
  /\ task[r].answer \in {"direct", "flood"} =>
       \E i \in DOMAIN air : air[i].req = r /\ air[i].mode = task[r].answer
  /\ task[r].pc = "marking" =>
       task[r].answer = (IF r \in Direct THEN "direct" ELSE "flood")

RowIsHonest(r) ==
  /\ Transmitted(r) =>
       \E i \in DOMAIN air : air[i].req = r /\ (r \in Direct => air[i].mode = "direct")
  /\ row[r] = "acknowledged" => r \in acked

AcksAreReal(r) ==
  /\ task[r].early \subseteq acked
  /\ task[r].resolved => r \in acked
  /\ task[r].outcome = "acknowledged" => r \in acked

ReplyMatchesRow(r) ==
  /\ task[r].reply \in OutboundStates => row[r] = task[r].reply
  /\ task[r].reply \in {"rejected", "limited", "unavailable"} => row[r] = "failed"
  /\ task[r].reply = "error" => row[r] \in {"queued", "transmitted"}

NoAckMissed(r) ==
  task[r].pc = "awaiting" \/ task[r].outcome = "timed_out" => r \notin task[r].early

Sound(r) ==
  /\ RowFollows(r)
  /\ OutcomeFollows(r)
  /\ DeviceFollows(r)
  /\ AnswerIsTrue(r)
  /\ RowIsHonest(r)
  /\ AcksAreReal(r)
  /\ ReplyMatchesRow(r)
  /\ NoAckMissed(r)

OnAirMeansFinished == \A i \in DOMAIN air : device[air[i].req] = "finished"

AirIsPast == \A i \in DOMAIN air : air[i].at <= clock /\ air[i].life <= life

\* The daemon knows of r's transmission.
Recorded(r) == task[r].pc = "marking" \/ Transmitted(r)

\* Both time stamps are at or after each known transmission of this process.
CooldownsStarted ==
  \A i \in DOMAIN air : air[i].life = life /\ Recorded(air[i].req) =>
    /\ lastSend[KindOf(air[i].req)] >= air[i].at
    /\ lastSendTo[TargetOf[air[i].req]] >= air[i].at

Coherent ==
  /\ TypeOK
  /\ OneOperationAtATime
  /\ \A r \in Requests : Sound(r)
  /\ OnAirMeansFinished
  /\ AtMostOnce
  /\ AirIsPast
  /\ CooldownsStarted

-----------------------------------------------------------------------------
(* Types *)

Phases == {"new", "queued", "waiting", "sending", "marking", "awaiting",
           "closing", "done", "dead"}

Transmissions == [req : Requests, at : Nat, mode : {"direct", "flood"}, life : Nat]

LEMMA KindsAndTargets ==
  ASSUME NEW r \in Requests
  PROVE  KindOf(r) \in {"direct", "channel"} /\ TargetOf[r] \in Targets
BY RequestsAssumption DEF KindOf

LEMMA OnAirTyped ==
  ASSUME TypeOK
  PROVE  \A i \in DOMAIN air :
           /\ air[i].req \in Requests /\ air[i].at \in Nat /\ air[i].life \in Nat
           /\ air[i].mode \in {"direct", "flood"}
<1>1. air \in Seq(Transmissions)
  BY DEF TypeOK, Transmissions
<1>2. \A i \in DOMAIN air : air[i] \in Transmissions
  BY <1>1
<1>3. QED
  BY <1>2 DEF Transmissions

LEMMA NewTaskTyped == NewTask \in TaskRec
BY DEF NewTask, TaskRec, Outcomes, Replies

LEMMA PhaseTyped ==
  ASSUME NEW t \in TaskRec, NEW p \in Phases
  PROVE  [t EXCEPT !.pc = p] \in TaskRec
BY DEF TaskRec, Phases

LEMMA OutcomeTyped ==
  ASSUME NEW t \in TaskRec, NEW o \in Outcomes
  PROVE  [t EXCEPT !.pc = "closing", !.outcome = o] \in TaskRec
BY DEF TaskRec

LEMMA AnswerTyped ==
  ASSUME NEW t \in TaskRec, NEW a \in {"none", "direct", "flood", "error"}
  PROVE  [t EXCEPT !.answer = a] \in TaskRec
BY DEF TaskRec

LEMMA DeafTyped ==
  ASSUME NEW t \in TaskRec
  PROVE  LET d == [t EXCEPT !.deaf = TRUE]
         IN  /\ d \in TaskRec
             /\ d.pc = t.pc /\ d.answer = t.answer /\ d.early = t.early
             /\ d.resolved = t.resolved /\ d.outcome = t.outcome /\ d.reply = t.reply
BY DEF TaskRec

\* The coroutine of r goes on to phase p.
LEMMA Proceeds ==
  ASSUME TypeOK, NEW r \in Requests, NEW p \in Phases,
         task' = [task EXCEPT ![r].pc = p]
  PROVE  /\ task' \in [Requests -> TaskRec]
         /\ task'[r] = [task[r] EXCEPT !.pc = p]
         /\ \A q \in Requests \ {r} : task'[q] = task[q]
<1>1. [task[r] EXCEPT !.pc = p] \in TaskRec
  BY PhaseTyped DEF TypeOK
<1>2. QED
  BY <1>1 DEF TypeOK

LEMMA Leaves ==
  ASSUME TypeOK, OneOperationAtATime,
         NEW r \in Requests, NEW o \in Outcomes, Owns(r), Leave(r, o)
  PROVE  /\ task' \in [Requests -> TaskRec]
         /\ task'[r] = [task[r] EXCEPT !.pc = "closing", !.outcome = o]
         /\ \A q \in Requests \ {r} : task'[q] = task[q]
         /\ lock' \in Seq(Requests)
         /\ OneOperationAtATime'
<1>1. [task[r] EXCEPT !.pc = "closing", !.outcome = o] \in TaskRec
  BY OutcomeTyped DEF TypeOK
<1>2. /\ task' \in [Requests -> TaskRec]
      /\ task'[r] = [task[r] EXCEPT !.pc = "closing", !.outcome = o]
      /\ \A q \in Requests \ {r} : task'[q] = task[q]
  BY <1>1 DEF TypeOK, Leave
<1>3. lock' \in Seq(Requests)
  BY DEF TypeOK, Leave, Owns
<1>4. \A q \in Requests : ~Busy(q)'
  <2>1. task'[r].pc = "closing"
    BY <1>2 DEF TypeOK, TaskRec
  <2>2. \A q \in Requests \ {r} : ~Busy(q)
    BY DEF OneOperationAtATime, Owns
  <2>3. QED
    BY <1>2, <2>1, <2>2 DEF Busy
<1>5. QED
  BY <1>2, <1>3, <1>4 DEF OneOperationAtATime

LEMMA Answers ==
  ASSUME TypeOK, NEW r \in Requests, NEW reply \in Replies, Answer(r, reply)
  PROVE  /\ task' \in [Requests -> TaskRec]
         /\ task'[r] = [NewTask EXCEPT !.pc = "done", !.reply = reply]
         /\ \A q \in Requests \ {r} : task'[q] = task[q]
<1>1. [NewTask EXCEPT !.pc = "done", !.reply = reply] \in TaskRec
  BY DEF NewTask, TaskRec, Outcomes, Replies
<1>2. QED
  BY <1>1 DEF TypeOK, Answer

-----------------------------------------------------------------------------
(* Steps of one coroutine *)

\* A coroutine disturbs what is said of its own request only.
LEMMA OneCoroutine ==
  ASSUME Coherent, NEW r \in Requests,
         TypeOK', OneOperationAtATime', Sound(r)', CooldownsStarted',
         \A q \in Requests \ {r} :
           task'[q] = task[q] /\ row'[q] = row[q] /\ device'[q] = device[q],
         device[r] = "finished" => device'[r] = "finished",
         UNCHANGED <<air, acked, clock, life>>
  PROVE  Coherent'
<1>1. \A q \in Requests \ {r} : Sound(q)'
  BY DEF Coherent, Sound, RowFollows, OutcomeFollows, DeviceFollows, AnswerIsTrue,
         RowIsHonest, AcksAreReal, ReplyMatchesRow, NoAckMissed, Transmitted
<1>2. OnAirMeansFinished'
  <2>1. \A i \in DOMAIN air : air[i].req \in Requests /\ device[air[i].req] = "finished"
    BY OnAirTyped DEF Coherent, OnAirMeansFinished
  <2>2. \A q \in Requests : device[q] = "finished" => device'[q] = "finished"
    OBVIOUS
  <2>3. QED
    BY <2>1, <2>2 DEF OnAirMeansFinished
<1>3. AtMostOnce' /\ AirIsPast'
  BY DEF Coherent, AtMostOnce, AirIsPast
<1>4. QED
  BY <1>1, <1>2, <1>3 DEF Coherent

\* Only SendAccepted makes the daemon know of a transmission.
LEMMA CooldownsUntouched ==
  ASSUME Coherent, NEW r \in Requests,
         Recorded(r)' => Recorded(r),
         \A q \in Requests \ {r} : task'[q] = task[q] /\ row'[q] = row[q],
         UNCHANGED <<air, life, lastSend, lastSendTo>>
  PROVE  CooldownsStarted'
<1>1. \A q \in Requests : Recorded(q)' => Recorded(q)
  BY DEF Recorded, Transmitted
<1>2. \A q \in Requests : KindOf(q)' = KindOf(q)
  BY DEF KindOf
<1>3. \A i \in DOMAIN air : air[i].req \in Requests
  BY OnAirTyped DEF Coherent
<1>4. QED
  BY <1>1, <1>2, <1>3 DEF Coherent, CooldownsStarted

LEMMA KeepsQueue ==
  ASSUME Coherent, NEW r \in Requests, Queue(r)
  PROVE  Coherent'
<1>1. /\ task' \in [Requests -> TaskRec]
      /\ task'[r] = [task[r] EXCEPT !.pc = "queued"]
      /\ \A q \in Requests \ {r} : task'[q] = task[q]
  BY Proceeds DEF Coherent, Queue, Phases
<1>2. TypeOK'
  BY <1>1 DEF Coherent, TypeOK, Queue, OutboundStates
<1>3. OneOperationAtATime'
  BY <1>1 DEF Coherent, TypeOK, TaskRec, Queue, OneOperationAtATime, Busy, Owns
<1>4. Sound(r)'
  BY <1>1 DEF Coherent, TypeOK, TaskRec, Queue, Sound, RowFollows, OutcomeFollows,
    DeviceFollows, AnswerIsTrue, RowIsHonest, AcksAreReal, ReplyMatchesRow, NoAckMissed,
    Transmitted, OutboundStates
<1>5. CooldownsStarted'
  BY <1>1, CooldownsUntouched DEF Coherent, TypeOK, TaskRec, Queue, Recorded, Transmitted
<1>6. QED
  BY <1>1, <1>2, <1>3, <1>4, <1>5, OneCoroutine DEF Coherent, TypeOK, Queue

LEMMA KeepsDecline ==
  ASSUME Coherent, NEW r \in Requests, Decline(r)
  PROVE  Coherent'
<1>1. Verdict(r) \in Outcomes \ {"none", "acknowledged", "timed_out"}
  BY DEF Decline, Verdict, Outcomes
<1>2. /\ task' \in [Requests -> TaskRec]
      /\ task'[r] = [task[r] EXCEPT !.pc = "closing", !.outcome = Verdict(r)]
      /\ \A q \in Requests \ {r} : task'[q] = task[q]
      /\ lock' \in Seq(Requests)
      /\ OneOperationAtATime'
  BY <1>1, Leaves DEF Coherent, Decline, Turn
<1>3. TypeOK'
  BY <1>2 DEF Coherent, TypeOK, Decline
<1>4. Sound(r)'
  BY <1>1, <1>2 DEF Coherent, TypeOK, TaskRec, Decline, Turn, Sound, RowFollows, OutcomeFollows,
    DeviceFollows, AnswerIsTrue, RowIsHonest, AcksAreReal, ReplyMatchesRow, NoAckMissed,
    Transmitted, OutboundStates
<1>5. CooldownsStarted'
  BY <1>2, CooldownsUntouched DEF Coherent, TypeOK, TaskRec, Decline, Recorded, Transmitted
<1>6. QED
  BY <1>2, <1>3, <1>4, <1>5, OneCoroutine DEF Coherent, TypeOK, Decline

LEMMA KeepsJoin ==
  ASSUME Coherent, NEW r \in Requests, Join(r)
  PROVE  Coherent'
<1>1. /\ task' \in [Requests -> TaskRec]
      /\ task'[r] = [task[r] EXCEPT !.pc = "waiting"]
      /\ \A q \in Requests \ {r} : task'[q] = task[q]
  BY Proceeds DEF Coherent, Join, Phases
<1>2. TypeOK'
  BY <1>1 DEF Coherent, TypeOK, Join
<1>3. OneOperationAtATime'
  <2>1. \A q \in Requests : Busy(q)' => Busy(q)
    BY <1>1 DEF Coherent, TypeOK, TaskRec, Join, Busy
  <2>2. \A q \in Requests : Owns(q) => Owns(q)'
    BY DEF Coherent, TypeOK, Join, Owns
  <2>3. QED
    BY <2>1, <2>2 DEF Coherent, OneOperationAtATime
<1>4. Sound(r)'
  BY <1>1 DEF Coherent, TypeOK, TaskRec, Join, Sound, RowFollows, OutcomeFollows,
    DeviceFollows, AnswerIsTrue, RowIsHonest, AcksAreReal, ReplyMatchesRow, NoAckMissed,
    Transmitted, OutboundStates
<1>5. CooldownsStarted'
  BY <1>1, CooldownsUntouched DEF Coherent, TypeOK, TaskRec, Join, Recorded, Transmitted
<1>6. QED
  BY <1>1, <1>2, <1>3, <1>4, <1>5, OneCoroutine DEF Coherent, TypeOK, Join

LEMMA KeepsSubmit ==
  ASSUME Coherent, NEW r \in Requests, Submit(r)
  PROVE  Coherent'
<1>1. /\ task' \in [Requests -> TaskRec]
      /\ task'[r] = [task[r] EXCEPT !.pc = "sending"]
      /\ \A q \in Requests \ {r} : task'[q] = task[q]
  BY Proceeds DEF Coherent, Submit, Phases
<1>2. TypeOK'
  BY <1>1 DEF Coherent, TypeOK, Submit
<1>3. OneOperationAtATime'
  BY <1>1 DEF Coherent, TypeOK, TaskRec, Submit, OneOperationAtATime, Busy, Owns, Turn
<1>4. Sound(r)'
  BY <1>1 DEF Coherent, TypeOK, TaskRec, Submit, Turn, Sound, RowFollows, OutcomeFollows,
    DeviceFollows, AnswerIsTrue, RowIsHonest, AcksAreReal, ReplyMatchesRow, NoAckMissed,
    Transmitted, OutboundStates
<1>5. CooldownsStarted'
  BY <1>1, CooldownsUntouched DEF Coherent, TypeOK, TaskRec, Submit, Recorded, Transmitted
<1>6. device[r] = "none" /\ \A q \in Requests \ {r} : device'[q] = device[q]
  BY DEF Coherent, TypeOK, Submit, Turn, Sound, DeviceFollows
<1>7. QED
  BY <1>1, <1>2, <1>3, <1>4, <1>5, <1>6, OneCoroutine DEF Coherent, Submit

LEMMA KeepsSendRaises ==
  ASSUME Coherent, NEW r \in Requests, SendRaises(r)
  PROVE  Coherent'
<1>1. Owns(r)
  BY DEF Coherent, SendRaises, OneOperationAtATime, Busy
<1>2. /\ task' \in [Requests -> TaskRec]
      /\ task'[r] = [task[r] EXCEPT !.pc = "closing", !.outcome = "unavailable"]
      /\ \A q \in Requests \ {r} : task'[q] = task[q]
      /\ lock' \in Seq(Requests)
      /\ OneOperationAtATime'
  BY <1>1, Leaves DEF Coherent, SendRaises, Outcomes
<1>3. TypeOK'
  BY <1>2 DEF Coherent, TypeOK, SendRaises
<1>4. Sound(r)'
  BY <1>2 DEF Coherent, TypeOK, TaskRec, SendRaises, Sound, RowFollows, OutcomeFollows,
    DeviceFollows, AnswerIsTrue, RowIsHonest, AcksAreReal, ReplyMatchesRow, NoAckMissed,
    Transmitted, OutboundStates
<1>5. CooldownsStarted'
  BY <1>2, CooldownsUntouched DEF Coherent, TypeOK, TaskRec, SendRaises, Recorded, Transmitted
<1>6. QED
  BY <1>2, <1>3, <1>4, <1>5, OneCoroutine DEF Coherent, TypeOK, SendRaises

LEMMA KeepsMarkFails ==
  ASSUME Coherent, NEW r \in Requests, MarkFails(r)
  PROVE  Coherent'
<1>1. Owns(r)
  BY DEF Coherent, MarkFails, OneOperationAtATime, Busy
<1>2. /\ task' \in [Requests -> TaskRec]
      /\ task'[r] = [task[r] EXCEPT !.pc = "closing", !.outcome = "unavailable"]
      /\ \A q \in Requests \ {r} : task'[q] = task[q]
      /\ lock' \in Seq(Requests)
      /\ OneOperationAtATime'
  BY <1>1, Leaves DEF Coherent, MarkFails, Outcomes
<1>3. TypeOK'
  BY <1>2 DEF Coherent, TypeOK, MarkFails
<1>4. Sound(r)'
  <2>1. (RowFollows(r) /\ OutcomeFollows(r) /\ DeviceFollows(r))'
    BY <1>2 DEF Coherent, TypeOK, TaskRec, MarkFails, Sound, RowFollows,
      OutcomeFollows, DeviceFollows
  <2>2. (AnswerIsTrue(r) /\ RowIsHonest(r))'
    BY <1>2 DEF Coherent, TypeOK, TaskRec, MarkFails, Sound, AnswerIsTrue,
      RowIsHonest, AcksAreReal, Transmitted
  <2>3. (AcksAreReal(r) /\ ReplyMatchesRow(r) /\ NoAckMissed(r))'
    BY <1>2 DEF Coherent, TypeOK, TaskRec, MarkFails, Sound, RowFollows,
      OutcomeFollows, AcksAreReal, ReplyMatchesRow, NoAckMissed, OutboundStates
  <2>4. QED
    BY <2>1, <2>2, <2>3 DEF Sound
<1>5. CooldownsStarted'
  BY <1>2, CooldownsUntouched DEF Coherent, TypeOK, TaskRec, MarkFails, Recorded, Transmitted
<1>6. QED
  BY <1>2, <1>3, <1>4, <1>5, OneCoroutine DEF Coherent, TypeOK, MarkFails

LEMMA KeepsAcknowledge ==
  ASSUME Coherent, NEW r \in Requests, Acknowledge(r)
  PROVE  Coherent'
<1>1. Owns(r)
  BY DEF Coherent, Acknowledge, OneOperationAtATime, Busy
<1>2. /\ task' \in [Requests -> TaskRec]
      /\ task'[r] = [task[r] EXCEPT !.pc = "closing", !.outcome = "acknowledged"]
      /\ \A q \in Requests \ {r} : task'[q] = task[q]
      /\ lock' \in Seq(Requests)
      /\ OneOperationAtATime'
  BY <1>1, Leaves DEF Coherent, Acknowledge, Outcomes
<1>3. TypeOK'
  BY <1>2 DEF Coherent, TypeOK, Acknowledge
<1>4. Sound(r)'
  <2>1. (RowFollows(r) /\ OutcomeFollows(r) /\ DeviceFollows(r))'
    BY <1>2 DEF Coherent, TypeOK, TaskRec, Acknowledge, Sound, RowFollows,
      OutcomeFollows, DeviceFollows
  <2>2. (AnswerIsTrue(r) /\ RowIsHonest(r))'
    BY <1>2 DEF Coherent, TypeOK, TaskRec, Acknowledge, Sound, AnswerIsTrue,
      RowIsHonest, AcksAreReal, Transmitted
  <2>3. (AcksAreReal(r) /\ ReplyMatchesRow(r) /\ NoAckMissed(r))'
    BY <1>2 DEF Coherent, TypeOK, TaskRec, Acknowledge, Sound, RowFollows,
      OutcomeFollows, AcksAreReal, ReplyMatchesRow, NoAckMissed, OutboundStates
  <2>4. QED
    BY <2>1, <2>2, <2>3 DEF Sound
<1>5. CooldownsStarted'
  BY <1>2, CooldownsUntouched DEF Coherent, TypeOK, TaskRec, Acknowledge, Recorded, Transmitted
<1>6. QED
  BY <1>2, <1>3, <1>4, <1>5, OneCoroutine DEF Coherent, TypeOK, Acknowledge

LEMMA KeepsTimeOut ==
  ASSUME Coherent, NEW r \in Requests, TimeOut(r)
  PROVE  Coherent'
<1>1. Owns(r)
  BY DEF Coherent, TimeOut, OneOperationAtATime, Busy
<1>2. /\ task' \in [Requests -> TaskRec]
      /\ task'[r] = [task[r] EXCEPT !.pc = "closing", !.outcome = "timed_out"]
      /\ \A q \in Requests \ {r} : task'[q] = task[q]
      /\ lock' \in Seq(Requests)
      /\ OneOperationAtATime'
  BY <1>1, Leaves DEF Coherent, TimeOut, Outcomes
<1>3. TypeOK'
  BY <1>2 DEF Coherent, TypeOK, TimeOut
<1>4. Sound(r)'
  <2>1. (RowFollows(r) /\ OutcomeFollows(r) /\ DeviceFollows(r))'
    BY <1>2 DEF Coherent, TypeOK, TaskRec, TimeOut, Sound, RowFollows,
      OutcomeFollows, DeviceFollows
  <2>2. (AnswerIsTrue(r) /\ RowIsHonest(r))'
    BY <1>2 DEF Coherent, TypeOK, TaskRec, TimeOut, Sound, AnswerIsTrue,
      RowIsHonest, AcksAreReal, Transmitted
  <2>3. (AcksAreReal(r) /\ ReplyMatchesRow(r) /\ NoAckMissed(r))'
    BY <1>2 DEF Coherent, TypeOK, TaskRec, TimeOut, Sound, RowFollows,
      OutcomeFollows, AcksAreReal, ReplyMatchesRow, NoAckMissed, OutboundStates
  <2>4. QED
    BY <2>1, <2>2, <2>3 DEF Sound
<1>5. CooldownsStarted'
  BY <1>2, CooldownsUntouched DEF Coherent, TypeOK, TaskRec, TimeOut, Recorded, Transmitted
<1>6. QED
  BY <1>2, <1>3, <1>4, <1>5, OneCoroutine DEF Coherent, TypeOK, TimeOut

LEMMA KeepsClose ==
  ASSUME Coherent, NEW r \in Requests, Close(r)
  PROVE  Coherent'
<1>1. task[r].outcome \in Replies
  BY DEF Coherent, TypeOK, TaskRec, Outcomes, Replies
<1>2. /\ task' \in [Requests -> TaskRec]
      /\ task'[r] = [NewTask EXCEPT !.pc = "done", !.reply = task[r].outcome]
      /\ \A q \in Requests \ {r} : task'[q] = task[q]
  BY <1>1, Answers DEF Coherent, Close
<1>3. /\ row'[r] \in {"acknowledged", "timed_out", "failed"}
      /\ row'[r] # "failed" => row[r] = "transmitted" /\ task[r].outcome = row'[r]
      /\ row'[r] = "failed" => task[r].outcome \notin {"acknowledged", "timed_out"}
  BY DEF Coherent, TypeOK, Close, FinalState, Allowed
<1>4. TypeOK'
  BY <1>2, <1>3 DEF Coherent, TypeOK, Close, OutboundStates
<1>5. OneOperationAtATime'
  BY <1>2 DEF Coherent, TypeOK, TaskRec, Close, NewTask, OneOperationAtATime, Busy, Owns
<1>6. Sound(r)'
  <2>1. (RowFollows(r) /\ OutcomeFollows(r) /\ DeviceFollows(r))'
    BY <1>1, <1>2, <1>3 DEF Coherent, TypeOK, TaskRec, Close, NewTask, Sound, RowFollows,
      OutcomeFollows, DeviceFollows
  <2>2. AnswerIsTrue(r)'
    BY <1>1, <1>2 DEF NewTask, TaskRec, AnswerIsTrue
  <2>3. RowIsHonest(r)'
    BY <1>3 DEF Coherent, Close, Sound, RowIsHonest, AcksAreReal, Transmitted
  <2>4. (AcksAreReal(r) /\ ReplyMatchesRow(r) /\ NoAckMissed(r))'
    BY <1>1, <1>2, <1>3 DEF Coherent, TypeOK, TaskRec, Close, NewTask, Outcomes, AcksAreReal,
      ReplyMatchesRow, NoAckMissed, OutboundStates
  <2>5. QED
    BY <2>1, <2>2, <2>3, <2>4 DEF Sound
<1>7. CooldownsStarted'
  BY <1>2, <1>3, CooldownsUntouched DEF Coherent, TypeOK, TaskRec, Close, NewTask, Recorded,
    Transmitted
<1>8. QED
  BY <1>2, <1>4, <1>5, <1>6, <1>7, OneCoroutine DEF Coherent, TypeOK, Close

LEMMA KeepsCloseFails ==
  ASSUME Coherent, NEW r \in Requests, CloseFails(r)
  PROVE  Coherent'
<1>1. "error" \in Replies
  BY DEF Coherent, TypeOK, TaskRec, Outcomes, Replies
<1>2. /\ task' \in [Requests -> TaskRec]
      /\ task'[r] = [NewTask EXCEPT !.pc = "done", !.reply = "error"]
      /\ \A q \in Requests \ {r} : task'[q] = task[q]
  BY <1>1, Answers DEF Coherent, CloseFails
<1>3. TypeOK'
  BY <1>2 DEF Coherent, TypeOK, CloseFails
<1>4. OneOperationAtATime'
  BY <1>2 DEF Coherent, TypeOK, TaskRec, CloseFails, NewTask, OneOperationAtATime, Busy, Owns
<1>5. Sound(r)'
  BY <1>1, <1>2 DEF Coherent, TypeOK, TaskRec, CloseFails, NewTask, Outcomes, Sound,
    RowFollows, OutcomeFollows, DeviceFollows, AnswerIsTrue, RowIsHonest, AcksAreReal, ReplyMatchesRow, NoAckMissed,
    Transmitted, OutboundStates
<1>6. CooldownsStarted'
  BY <1>2, CooldownsUntouched DEF Coherent, TypeOK, TaskRec, CloseFails, NewTask, Recorded,
    Transmitted
<1>7. QED
  BY <1>2, <1>3, <1>4, <1>5, <1>6, OneCoroutine DEF Coherent, TypeOK, CloseFails

\* The time stamps go to the present, which no transmission is ahead of.
LEMMA KeepsSendAccepted ==
  ASSUME Coherent, NEW r \in Requests, SendAccepted(r)
  PROVE  Coherent'
<1>1. /\ task' \in [Requests -> TaskRec]
      /\ task'[r] = [task[r] EXCEPT !.pc = "marking"]
      /\ \A q \in Requests \ {r} : task'[q] = task[q]
  BY Proceeds DEF Coherent, SendAccepted, Phases
<1>2. TypeOK'
  BY <1>1, KindsAndTargets DEF Coherent, TypeOK, SendAccepted
<1>3. OneOperationAtATime'
  BY <1>1 DEF Coherent, TypeOK, TaskRec, SendAccepted, OneOperationAtATime, Busy, Owns
<1>4. Sound(r)'
  <2>1. /\ Sound(r)
        /\ task[r] \in TaskRec
        /\ task[r].pc = "sending"
        /\ task[r].answer = (IF r \in Direct THEN "direct" ELSE "flood")
        /\ row' = row /\ device' = device /\ air' = air /\ acked' = acked
    BY DEF Coherent, TypeOK, SendAccepted
  <2>2. /\ task'[r].pc = "marking"
        /\ task'[r].answer = task[r].answer
        /\ task'[r].early = task[r].early
        /\ task'[r].resolved = task[r].resolved
        /\ task'[r].outcome = task[r].outcome
        /\ task'[r].reply = task[r].reply
    BY <1>1, <2>1 DEF TaskRec
  <2>3. RowFollows(r)'
    BY <2>1, <2>2 DEF Sound, RowFollows
  <2>4. OutcomeFollows(r)'
    BY <2>1, <2>2 DEF Sound, OutcomeFollows
  <2>5. DeviceFollows(r)'
    BY <2>1, <2>2 DEF Sound, DeviceFollows
  <2>6. AnswerIsTrue(r)'
    BY <2>1, <2>2 DEF Sound, AnswerIsTrue
  <2>7. RowIsHonest(r)'
    BY <2>1 DEF Sound, RowIsHonest, Transmitted
  <2>8. AcksAreReal(r)'
    BY <2>1, <2>2 DEF Sound, AcksAreReal
  <2>9. ReplyMatchesRow(r)'
    BY <2>1, <2>2 DEF Sound, ReplyMatchesRow
  <2>10. NoAckMissed(r)'
    BY <2>1, <2>2 DEF Sound, OutcomeFollows, NoAckMissed
  <2>11. QED
    BY <2>3, <2>4, <2>5, <2>6, <2>7, <2>8, <2>9, <2>10 DEF Sound
<1>5. CooldownsStarted'
  <2> SUFFICES ASSUME NEW i \in DOMAIN air, air[i].life = life, Recorded(air[i].req)'
               PROVE  /\ lastSend'[KindOf(air[i].req)] >= air[i].at
                      /\ lastSendTo'[TargetOf[air[i].req]] >= air[i].at
    BY DEF SendAccepted, CooldownsStarted, KindOf
  <2> DEFINE q == air[i].req
  <2>1. q \in Requests /\ air[i].at \in Nat /\ air[i].at <= clock
    BY OnAirTyped DEF Coherent, AirIsPast
  <2>2. KindOf(q) \in {"direct", "channel"} /\ TargetOf[q] \in Targets
    BY <2>1, KindsAndTargets
  <2>3. q # r => Recorded(q)
    BY <1>1, <2>1 DEF SendAccepted, Recorded, Transmitted
  <2>4. q # r => lastSend[KindOf(q)] >= air[i].at /\ lastSendTo[TargetOf[q]] >= air[i].at
    BY <2>3 DEF Coherent, CooldownsStarted
  <2>5. lastSend'[KindOf(q)] = clock \/ (q # r /\ lastSend'[KindOf(q)] = lastSend[KindOf(q)])
    BY <2>2 DEF SendAccepted, Coherent, TypeOK
  <2>6. \/ lastSendTo'[TargetOf[q]] = clock
        \/ q # r /\ lastSendTo'[TargetOf[q]] = lastSendTo[TargetOf[q]]
    BY <2>2 DEF SendAccepted, Coherent, TypeOK
  <2>7. clock \in Nat
    BY DEF Coherent, TypeOK
  <2>8. QED
    BY <2>1, <2>4, <2>5, <2>6, <2>7
<1>6. QED
  BY <1>1, <1>2, <1>3, <1>4, <1>5, OneCoroutine DEF Coherent, TypeOK, SendAccepted

LEMMA KeepsMarkTransmitted ==
  ASSUME Coherent, NEW r \in Requests, MarkTransmitted(r)
  PROVE  Coherent'
<1>1. /\ task[r].pc = "marking" /\ row[r] = "queued" /\ Busy(r) /\ Owns(r)
      /\ row' = [row EXCEPT ![r] = "transmitted"]
      /\ UNCHANGED <<connected, usable, lastSend, lastSendTo, clock, device, learned, air,
                     acked, life>>
  BY DEF Coherent, MarkTransmitted, Busy, OneOperationAtATime
<1>2. /\ row' \in [Requests -> OutboundStates \cup {"none"}]
      /\ row'[r] = "transmitted" /\ \A q \in Requests \ {r} : row'[q] = row[q]
  BY <1>1 DEF Coherent, TypeOK, OutboundStates
<1>3. RowIsHonest(r)'
  BY <1>1, <1>2 DEF Coherent, Sound, AnswerIsTrue, RowIsHonest, Transmitted
<1>4. CASE r \in Channel /\ Answer(r, "transmitted") /\ lock' = Tail(lock)
  <2>1. /\ task' \in [Requests -> TaskRec]
        /\ task'[r] = [NewTask EXCEPT !.pc = "done", !.reply = "transmitted"]
        /\ \A q \in Requests \ {r} : task'[q] = task[q]
    BY <1>4, Answers DEF Coherent, Replies
  <2>2. lock' \in Seq(Requests)
    BY <1>1, <1>4 DEF Coherent, TypeOK, Owns
  <2>3. TypeOK'
    BY <1>1, <1>2, <2>1, <2>2 DEF Coherent, TypeOK
  <2>4. OneOperationAtATime'
    <3>1. \A q \in Requests \ {r} : ~Busy(q)
      BY <1>1 DEF Coherent, OneOperationAtATime, Owns
    <3>2. QED
      BY <2>1, <3>1 DEF OneOperationAtATime, Busy, NewTask
  <2>5. (RowFollows(r) /\ OutcomeFollows(r) /\ DeviceFollows(r) /\ AnswerIsTrue(r))'
    BY <1>2, <2>1 DEF NewTask, RowFollows, OutcomeFollows, DeviceFollows, AnswerIsTrue
  <2>6. (AcksAreReal(r) /\ ReplyMatchesRow(r) /\ NoAckMissed(r))'
    BY <1>2, <2>1 DEF NewTask, AcksAreReal, ReplyMatchesRow, NoAckMissed, OutboundStates
  <2>7. CooldownsStarted'
    BY <1>1, <1>2, <2>1, CooldownsUntouched DEF Recorded
  <2>8. QED
    BY <1>1, <1>2, <1>3, <2>1, <2>3, <2>4, <2>5, <2>6, <2>7, OneCoroutine DEF Sound
<1>5. CASE r \in Direct /\ (task[r].resolved \/ r \in task[r].early) /\ Leave(r, "acknowledged")
  <2>1. /\ task' \in [Requests -> TaskRec]
        /\ task'[r] = [task[r] EXCEPT !.pc = "closing", !.outcome = "acknowledged"]
        /\ \A q \in Requests \ {r} : task'[q] = task[q]
        /\ lock' \in Seq(Requests)
        /\ OneOperationAtATime'
    BY <1>1, <1>5, Leaves DEF Coherent, Outcomes
  <2>2. TypeOK'
    BY <1>1, <1>2, <2>1 DEF Coherent, TypeOK
  <2>3. r \in acked /\ task[r].reply = "none"
    BY <1>1, <1>5 DEF Coherent, Sound, AcksAreReal, OutcomeFollows
  <2>4. (RowFollows(r) /\ OutcomeFollows(r) /\ DeviceFollows(r) /\ AnswerIsTrue(r))'
    BY <1>1, <1>2, <2>1 DEF Coherent, TypeOK, TaskRec, Sound, RowFollows, OutcomeFollows,
      DeviceFollows, AnswerIsTrue
  <2>5. (AcksAreReal(r) /\ ReplyMatchesRow(r) /\ NoAckMissed(r))'
    BY <1>1, <1>2, <2>1, <2>3 DEF Coherent, TypeOK, TaskRec, Sound, OutcomeFollows, AcksAreReal,
      ReplyMatchesRow, NoAckMissed, OutboundStates
  <2>6. CooldownsStarted'
    BY <1>1, <1>2, <2>1, CooldownsUntouched DEF Recorded
  <2>7. QED
    BY <1>1, <1>2, <1>3, <2>1, <2>2, <2>4, <2>5, <2>6, OneCoroutine DEF Sound
<1>6. CASE /\ r \in Direct /\ ~task[r].resolved /\ r \notin task[r].early
           /\ task' = [task EXCEPT ![r].pc = "awaiting"]
           /\ UNCHANGED lock
  <2>1. /\ task' \in [Requests -> TaskRec]
        /\ task'[r] = [task[r] EXCEPT !.pc = "awaiting"]
        /\ \A q \in Requests \ {r} : task'[q] = task[q]
    BY <1>6, Proceeds DEF Coherent, Phases
  <2>2. TypeOK'
    BY <1>1, <1>2, <1>6, <2>1 DEF Coherent, TypeOK
  <2>3. OneOperationAtATime'
    BY <1>1, <1>6, <2>1 DEF Coherent, OneOperationAtATime, Busy, Owns
  <2>4. (RowFollows(r) /\ OutcomeFollows(r) /\ DeviceFollows(r) /\ AnswerIsTrue(r))'
    BY <1>1, <1>2, <2>1 DEF Coherent, TypeOK, TaskRec, Sound, RowFollows, OutcomeFollows,
      DeviceFollows, AnswerIsTrue
  <2>5. (AcksAreReal(r) /\ ReplyMatchesRow(r) /\ NoAckMissed(r))'
    BY <1>1, <1>2, <1>6, <2>1 DEF Coherent, TypeOK, TaskRec, Sound, OutcomeFollows, AcksAreReal,
      ReplyMatchesRow, NoAckMissed, OutboundStates
  <2>6. CooldownsStarted'
    BY <1>1, <1>2, <2>1, CooldownsUntouched DEF Recorded
  <2>7. QED
    BY <1>1, <1>2, <1>3, <2>1, <2>2, <2>3, <2>4, <2>5, <2>6, OneCoroutine DEF Sound
<1>7. QED
  BY <1>4, <1>5, <1>6 DEF MarkTransmitted

LEMMA KeepsCommandTimesOut ==
  ASSUME Coherent, NEW r \in Requests, CommandTimesOut(r)
  PROVE  Coherent'
<1>1. [task[r] EXCEPT !.answer = "error"] \in TaskRec
  BY AnswerTyped DEF Coherent, TypeOK
<1>2. /\ task' \in [Requests -> TaskRec]
      /\ task'[r] = [task[r] EXCEPT !.answer = "error"]
      /\ \A q \in Requests \ {r} : task'[q] = task[q]
  BY <1>1 DEF Coherent, TypeOK, CommandTimesOut
<1>3. TypeOK'
  BY <1>2 DEF Coherent, TypeOK, CommandTimesOut
<1>4. OneOperationAtATime'
  BY <1>2 DEF Coherent, TypeOK, TaskRec, CommandTimesOut, OneOperationAtATime, Busy, Owns
<1>5. Sound(r)'
  BY <1>2 DEF Coherent, TypeOK, TaskRec, CommandTimesOut, Sound, RowFollows, OutcomeFollows,
    DeviceFollows, AnswerIsTrue, RowIsHonest, AcksAreReal, ReplyMatchesRow, NoAckMissed,
    Transmitted, OutboundStates
<1>6. CooldownsStarted'
  BY <1>2, CooldownsUntouched DEF Coherent, TypeOK, TaskRec, CommandTimesOut, Recorded, Transmitted
<1>7. QED
  BY <1>2, <1>3, <1>4, <1>5, <1>6, OneCoroutine DEF Coherent, TypeOK, CommandTimesOut

LEMMA KeepsAckEvent ==
  ASSUME Coherent, NEW code \in Requests, NEW r \in Direct, AckEvent(code, r)
  PROVE  Coherent'
<1>1. /\ r \in Requests /\ task[r] \in TaskRec /\ code \in acked /\ Subscribed(r)
      /\ UNCHANGED <<row, lock, connected, usable, lastSend, lastSendTo, clock, device,
                     learned, air, acked, life>>
  BY DEF Requests, Coherent, TypeOK, AckEvent
<1>2. CASE code = r /\ task[r].pc # "sending"
  <2>1. [task[r] EXCEPT !.resolved = TRUE] \in TaskRec
    BY <1>1 DEF TaskRec
  <2>2. /\ task' \in [Requests -> TaskRec]
        /\ task'[r] = [task[r] EXCEPT !.resolved = TRUE]
        /\ \A q \in Requests \ {r} : task'[q] = task[q]
    BY <1>1, <1>2, <2>1 DEF Coherent, TypeOK, AckEvent
  <2>3. TypeOK'
    BY <1>1, <2>2 DEF Coherent, TypeOK
  <2>4. OneOperationAtATime'
    BY <1>1, <2>2 DEF Coherent, TypeOK, TaskRec, OneOperationAtATime, Busy, Owns
  <2>5. Sound(r)'
    BY <1>1, <1>2, <2>2 DEF Coherent, TaskRec, Sound, RowFollows, OutcomeFollows,
      DeviceFollows, AnswerIsTrue, RowIsHonest, AcksAreReal, ReplyMatchesRow, NoAckMissed,
      Transmitted, OutboundStates
  <2>6. CooldownsStarted'
    BY <1>1, <2>2, CooldownsUntouched DEF TaskRec, Recorded, Transmitted
  <2>7. QED
    BY <1>1, <2>2, <2>3, <2>4, <2>5, <2>6, OneCoroutine
<1>3. CASE ~(code = r /\ task[r].pc # "sending")
  <2>1. [task[r] EXCEPT !.early = @ \cup {code}] \in TaskRec
    BY <1>1 DEF TaskRec
  <2>2. /\ task' \in [Requests -> TaskRec]
        /\ task'[r] = [task[r] EXCEPT !.early = @ \cup {code}]
        /\ \A q \in Requests \ {r} : task'[q] = task[q]
    BY <1>1, <1>3, <2>1 DEF Coherent, TypeOK, AckEvent
  <2>3. TypeOK'
    BY <1>1, <2>2 DEF Coherent, TypeOK
  <2>4. OneOperationAtATime'
    BY <1>1, <2>2 DEF Coherent, TypeOK, TaskRec, OneOperationAtATime, Busy, Owns
  <2>5. (RowFollows(r) /\ OutcomeFollows(r) /\ DeviceFollows(r) /\ AnswerIsTrue(r)
         /\ RowIsHonest(r) /\ ReplyMatchesRow(r))'
    BY <1>1, <2>2 DEF Coherent, TaskRec, Sound, RowFollows, OutcomeFollows,
      DeviceFollows, AnswerIsTrue, RowIsHonest, ReplyMatchesRow, Transmitted, OutboundStates
  <2>6. (AcksAreReal(r) /\ NoAckMissed(r))'
    BY <1>1, <1>3, <2>2 DEF Coherent, TaskRec, Sound, Subscribed, OutcomeFollows, AcksAreReal,
      NoAckMissed
  <2>7. CooldownsStarted'
    BY <1>1, <2>2, CooldownsUntouched DEF TaskRec, Recorded, Transmitted
  <2>8. QED
    BY <1>1, <2>2, <2>3, <2>4, <2>5, <2>6, <2>7, OneCoroutine DEF Sound
<1>4. QED
  BY <1>2, <1>3

-----------------------------------------------------------------------------
(* Steps of the companion and the mesh *)

LEMMA KeepsRefuse ==
  ASSUME Coherent, NEW r \in Requests, Refuse(r)
  PROVE  Coherent'
<1>1. /\ device[r] = "pending" /\ device'[r] = "finished"
      /\ device' \in [Requests -> {"none", "pending", "finished"}]
      /\ \A q \in Requests \ {r} : device'[q] = device[q]
      /\ UNCHANGED <<row, lock, connected, usable, lastSend, lastSendTo, clock,
                     learned, air, acked, life>>
  BY DEF Refuse, Coherent, TypeOK
<1>2. [task[r] EXCEPT !.answer = "error"] \in TaskRec /\ task[r] \in TaskRec
  BY AnswerTyped DEF Coherent, TypeOK
<1>3. /\ task' \in [Requests -> TaskRec]
      /\ \A q \in Requests \ {r} : task'[q] = task[q]
      /\ \/ task'[r] = task[r]
         \/ task'[r] = [task[r] EXCEPT !.answer = "error"]
  BY <1>2 DEF Refuse, Coherent, TypeOK
<1>4. task'[r].pc = task[r].pc
  BY <1>2, <1>3 DEF TaskRec
<1>5. TypeOK'
  BY <1>1, <1>3 DEF Coherent, TypeOK
<1>6. OneOperationAtATime'
  BY <1>1, <1>3, <1>4 DEF Coherent, OneOperationAtATime, Busy, Owns
<1>7. Sound(r)'
  <2>1. (RowFollows(r) /\ OutcomeFollows(r) /\ DeviceFollows(r))'
    BY <1>1, <1>2, <1>3 DEF Coherent, TaskRec, Sound, RowFollows, OutcomeFollows, DeviceFollows
  <2>2. (AnswerIsTrue(r) /\ RowIsHonest(r))'
    <3>1. task'[r].answer \in {"direct", "flood"} => task'[r].answer = task[r].answer
      BY <1>2, <1>3 DEF TaskRec
    <3>2. task[r].pc # "marking"
      BY <1>1, OnAirTyped DEF Coherent, Sound, AnswerIsTrue, OnAirMeansFinished
    <3>3. QED
      BY <1>1, <1>4, <3>1, <3>2 DEF Coherent, Sound, AnswerIsTrue, RowIsHonest, Transmitted
  <2>3. (AcksAreReal(r) /\ ReplyMatchesRow(r) /\ NoAckMissed(r))'
    BY <1>1, <1>2, <1>3 DEF Coherent, TaskRec, Sound, AcksAreReal, ReplyMatchesRow, NoAckMissed,
      OutboundStates
  <2>4. QED
    BY <2>1, <2>2, <2>3 DEF Sound
<1>8. CooldownsStarted'
  BY <1>1, <1>3, <1>4, CooldownsUntouched DEF Recorded, Transmitted
<1>9. QED
  BY <1>1, <1>3, <1>5, <1>6, <1>7, <1>8, OneCoroutine

\* The air grows by one transmission of r, the first of this message.
LEMMA AirGrows ==
  ASSUME Coherent, NEW r \in Requests, Transmit(r)
  PROVE  /\ air' \in Seq(Transmissions)
         /\ DOMAIN air' = DOMAIN air \cup {Len(air) + 1} /\ Len(air) + 1 \notin DOMAIN air
         /\ \A i \in DOMAIN air : air'[i] = air[i] /\ air[i].req # r
         /\ air'[Len(air) + 1].req = r
         /\ air'[Len(air) + 1].at = clock
         /\ air'[Len(air) + 1].life = life
         /\ air'[Len(air) + 1].mode =
              IF r \in Direct /\ TargetOf[r] \in learned THEN "direct" ELSE "flood"
<1> DEFINE new == [req |-> r, at |-> clock, life |-> life,
                   mode |-> IF r \in Direct /\ TargetOf[r] \in learned THEN "direct" ELSE "flood"]
<1>1. air \in Seq(Transmissions) /\ new \in Transmissions
  BY DEF Coherent, TypeOK, Transmissions
<1>2. air' = Append(air, new)
  BY DEF Transmit
<1>3. \A i \in DOMAIN air : air[i].req # r
  BY DEF Coherent, OnAirMeansFinished, Transmit
<1>4. /\ new.req = r /\ new.at = clock /\ new.life = life
      /\ new.mode = IF r \in Direct /\ TargetOf[r] \in learned THEN "direct" ELSE "flood"
  OBVIOUS
<1> HIDE DEF new
<1>5. /\ air' \in Seq(Transmissions)
      /\ DOMAIN air' = DOMAIN air \cup {Len(air) + 1} /\ Len(air) + 1 \notin DOMAIN air
      /\ \A i \in DOMAIN air : air'[i] = air[i]
      /\ air'[Len(air) + 1] = new
  BY <1>1, <1>2
<1>6. QED
  BY <1>3, <1>4, <1>5

LEMMA KeepsTransmit ==
  ASSUME Coherent, NEW r \in Requests, Transmit(r)
  PROVE  Coherent'
<1> DEFINE mode == IF r \in Direct /\ TargetOf[r] \in learned THEN "direct" ELSE "flood"
           n == Len(air) + 1
<1>1. /\ device[r] = "pending" /\ device'[r] = "finished"
      /\ device' \in [Requests -> {"none", "pending", "finished"}]
      /\ \A q \in Requests \ {r} : device'[q] = device[q]
      /\ UNCHANGED <<row, lock, connected, usable, lastSend, lastSendTo, clock,
                     learned, acked, life>>
  BY DEF Transmit, Coherent, TypeOK
<1>2. [task[r] EXCEPT !.answer = mode] \in TaskRec /\ task[r] \in TaskRec
  BY AnswerTyped DEF Coherent, TypeOK
<1>3. /\ task' \in [Requests -> TaskRec]
      /\ \A q \in Requests \ {r} : task'[q] = task[q]
      /\ \/ task'[r] = task[r]
         \/ task'[r] = [task[r] EXCEPT !.answer = mode] /\ task[r].pc = "sending"
  BY <1>2 DEF Transmit, Coherent, TypeOK
<1>4. task'[r].pc = task[r].pc
  BY <1>2, <1>3 DEF TaskRec
<1>5. /\ air' \in Seq(Transmissions) /\ DOMAIN air' = DOMAIN air \cup {n} /\ n \notin DOMAIN air
      /\ \A i \in DOMAIN air : air'[i] = air[i] /\ air[i].req # r
      /\ air'[n].req = r /\ air'[n].at = clock /\ air'[n].life = life /\ air'[n].mode = mode
  BY AirGrows
<1> HIDE DEF n
<1>6. TypeOK'
  BY <1>1, <1>3, <1>5 DEF Coherent, TypeOK, Transmissions
<1>7. OneOperationAtATime'
  BY <1>1, <1>3, <1>4 DEF Coherent, OneOperationAtATime, Busy, Owns
<1>8. \A q \in Requests : Sound(q)'
  <2> SUFFICES ASSUME NEW q \in Requests PROVE Sound(q)'
    OBVIOUS
  <2>1. (RowFollows(q) /\ OutcomeFollows(q) /\ DeviceFollows(q))'
    BY <1>1, <1>2, <1>3 DEF Coherent, TaskRec, Sound, RowFollows, OutcomeFollows, DeviceFollows
  <2>2. AnswerIsTrue(q)'
    BY <1>2, <1>3, <1>5 DEF Coherent, TaskRec, Sound, AnswerIsTrue
  <2>3. RowIsHonest(q)'
    BY <1>1, <1>5 DEF Coherent, Sound, RowIsHonest, Transmitted
  <2>4. (AcksAreReal(q) /\ ReplyMatchesRow(q) /\ NoAckMissed(q))'
    BY <1>1, <1>2, <1>3 DEF Coherent, TaskRec, Sound, AcksAreReal, ReplyMatchesRow, NoAckMissed,
      OutboundStates
  <2>5. QED
    BY <2>1, <2>2, <2>3, <2>4 DEF Sound
<1>9. OnAirMeansFinished'
  <2>1. \A i \in DOMAIN air : air[i].req \in Requests \ {r} /\ device[air[i].req] = "finished"
    BY <1>5, OnAirTyped DEF Coherent, OnAirMeansFinished
  <2>2. QED
    BY <1>1, <1>5, <2>1 DEF OnAirMeansFinished
<1>10. AtMostOnce'
  BY <1>5 DEF Coherent, AtMostOnce
<1>11. AirIsPast'
  <2>1. clock \in Nat /\ life \in Nat
    BY DEF Coherent, TypeOK
  <2>2. QED
    BY <1>1, <1>5, <2>1 DEF Coherent, AirIsPast
<1>12. CooldownsStarted'
  <2>1. ~Recorded(r)'
    BY <1>1, <1>3, <1>4, <1>5 DEF Coherent, Sound, AnswerIsTrue, RowIsHonest, Recorded, Transmitted
  <2>2. \A i \in DOMAIN air : Recorded(air[i].req)' => Recorded(air[i].req)
    BY <1>1, <1>3, <1>5, OnAirTyped DEF Coherent, Recorded, Transmitted
  <2>3. QED
    BY <1>1, <1>5, <2>1, <2>2 DEF Coherent, CooldownsStarted, KindOf
<1>13. QED
  BY <1>6, <1>7, <1>8, <1>9, <1>10, <1>11, <1>12 DEF Coherent

LEMMA KeepsPeerAcks ==
  ASSUME Coherent, NEW r \in Requests, PeerAcks(r)
  PROVE  Coherent'
<1> USE DEF Coherent, PeerAcks
<1>1. TypeOK'
  BY DEF TypeOK
<1>2. OneOperationAtATime'
  BY DEF OneOperationAtATime, Busy, Owns
<1>3. \A q \in Requests : Sound(q)'
  BY DEF Sound, RowFollows, OutcomeFollows, DeviceFollows, AnswerIsTrue, RowIsHonest,
    AcksAreReal, ReplyMatchesRow, NoAckMissed, Transmitted
<1>4. (OnAirMeansFinished /\ AtMostOnce /\ AirIsPast /\ CooldownsStarted)'
  BY DEF OnAirMeansFinished, AtMostOnce, AirIsPast, CooldownsStarted, Recorded, Transmitted, KindOf
<1>5. QED
  BY <1>1, <1>2, <1>3, <1>4

LEMMA KeepsPathChanges ==
  ASSUME Coherent, NEW t \in Targets, PathChanges(t)
  PROVE  Coherent'
<1> USE DEF Coherent, PathChanges
<1>1. TypeOK'
  BY DEF TypeOK
<1>2. OneOperationAtATime'
  BY DEF OneOperationAtATime, Busy, Owns
<1>3. \A q \in Requests : Sound(q)'
  BY DEF Sound, RowFollows, OutcomeFollows, DeviceFollows, AnswerIsTrue, RowIsHonest,
    AcksAreReal, ReplyMatchesRow, NoAckMissed, Transmitted
<1>4. (OnAirMeansFinished /\ AtMostOnce /\ AirIsPast /\ CooldownsStarted)'
  BY DEF OnAirMeansFinished, AtMostOnce, AirIsPast, CooldownsStarted, Recorded, Transmitted, KindOf
<1>5. QED
  BY <1>1, <1>2, <1>3, <1>4

LEMMA KeepsTick ==
  ASSUME Coherent, Tick
  PROVE  Coherent'
<1> USE DEF Coherent, Tick
<1>1. TypeOK'
  BY DEF TypeOK
<1>2. OneOperationAtATime'
  BY DEF OneOperationAtATime, Busy, Owns
<1>3. \A q \in Requests : Sound(q)'
  BY DEF Sound, RowFollows, OutcomeFollows, DeviceFollows, AnswerIsTrue, RowIsHonest,
    AcksAreReal, ReplyMatchesRow, NoAckMissed, Transmitted
<1>4. (OnAirMeansFinished /\ AtMostOnce /\ CooldownsStarted)'
  BY DEF OnAirMeansFinished, AtMostOnce, CooldownsStarted, Recorded, Transmitted, KindOf
<1>5. AirIsPast'
  <2>1. clock \in Nat /\ \A i \in DOMAIN air : air[i].at \in Nat
    BY OnAirTyped DEF TypeOK
  <2>2. QED
    BY <2>1 DEF AirIsPast
<1>6. QED
  BY <1>1, <1>2, <1>3, <1>4, <1>5

-----------------------------------------------------------------------------
(* Steps of RadioManager._run and of the process *)

LEMMA KeepsRefresh ==
  ASSUME Coherent, Refresh
  PROVE  Coherent'
<1> USE DEF Coherent, Refresh
<1>1. TypeOK'
  BY DEF TypeOK
<1>2. OneOperationAtATime'
  BY DEF OneOperationAtATime, Busy, Owns
<1>3. \A q \in Requests : Sound(q)'
  BY DEF Sound, RowFollows, OutcomeFollows, DeviceFollows, AnswerIsTrue, RowIsHonest,
    AcksAreReal, ReplyMatchesRow, NoAckMissed, Transmitted
<1>4. (OnAirMeansFinished /\ AtMostOnce /\ AirIsPast /\ CooldownsStarted)'
  BY DEF OnAirMeansFinished, AtMostOnce, AirIsPast, CooldownsStarted, Recorded, Transmitted, KindOf
<1>5. QED
  BY <1>1, <1>2, <1>3, <1>4

LEMMA KeepsLinkLost ==
  ASSUME Coherent, LinkLost
  PROVE  Coherent'
<1>1. UNCHANGED <<row, lock, usable, lastSend, lastSendTo, clock, device, learned, air, acked,
                 life>>
  BY DEF LinkLost
<1>2. \A q \in Requests : task[q] \in TaskRec /\ [task[q] EXCEPT !.deaf = TRUE] \in TaskRec
  BY DeafTyped DEF Coherent, TypeOK
<1>3. \A q \in Requests : task'[q] = task[q] \/ task'[q] = [task[q] EXCEPT !.deaf = TRUE]
  BY DEF LinkLost
<1>4. task' \in [Requests -> TaskRec]
  BY <1>2 DEF LinkLost
<1>5. \A q \in Requests :
        /\ task'[q].pc = task[q].pc /\ task'[q].answer = task[q].answer
        /\ task'[q].early = task[q].early /\ task'[q].resolved = task[q].resolved
        /\ task'[q].outcome = task[q].outcome /\ task'[q].reply = task[q].reply
  BY <1>2, <1>3, DeafTyped
<1>6. TypeOK'
  BY <1>1, <1>4 DEF Coherent, TypeOK, LinkLost
<1>7. OneOperationAtATime'
  BY <1>1, <1>5 DEF Coherent, OneOperationAtATime, Busy, Owns
<1>8. \A q \in Requests : Sound(q)'
  BY <1>1, <1>5 DEF Coherent, Sound, RowFollows, OutcomeFollows, DeviceFollows, AnswerIsTrue,
    RowIsHonest, AcksAreReal, ReplyMatchesRow, NoAckMissed, Transmitted
<1>9. (OnAirMeansFinished /\ AtMostOnce /\ AirIsPast)'
  BY <1>1 DEF Coherent, OnAirMeansFinished, AtMostOnce, AirIsPast
<1>10. CooldownsStarted'
  <2>1. \A i \in DOMAIN air : air[i].req \in Requests
    BY OnAirTyped DEF Coherent
  <2>2. QED
    BY <1>1, <1>5, <2>1 DEF Coherent, CooldownsStarted, Recorded, Transmitted, KindOf
<1>11. QED
  BY <1>6, <1>7, <1>8, <1>9, <1>10 DEF Coherent

\* No coroutine survives, and no transmission is of the new process.
LEMMA KeepsRestart ==
  ASSUME Coherent, Restart
  PROVE  Coherent'
<1>1. /\ UNCHANGED <<row, clock, device, learned, air, acked>>
      /\ life \in Nat /\ life' = life + 1 /\ lock' = << >> /\ connected' = FALSE /\ usable' = {}
  BY DEF Coherent, TypeOK, Restart
<1>2. [NewTask EXCEPT !.pc = "dead"] \in TaskRec
  BY NewTaskTyped, PhaseTyped DEF Phases
<1>3. task' \in [Requests -> TaskRec]
  BY <1>2 DEF Coherent, TypeOK, Restart
<1>4. \A q \in Requests :
        \/ task[q].pc \in {"new", "done"} /\ task'[q] = task[q]
        \/ task[q].pc \notin {"new", "done"} /\ task'[q] = [NewTask EXCEPT !.pc = "dead"]
  BY DEF Restart
<1>5. TypeOK'
  <2>1. Never \in Int
    BY CooldownAssumption DEF Never
  <2>2. lastSend' \in [{"direct", "channel"} -> Int] /\ lastSendTo' \in [Targets -> Int]
    BY <2>1 DEF Restart
  <2>3. lock' \in Seq(Requests) /\ life' \in Nat
    BY <1>1
  <2>4. QED
    BY <1>1, <1>3, <2>2, <2>3 DEF Coherent, TypeOK
<1>6. OneOperationAtATime'
  BY <1>4 DEF OneOperationAtATime, Busy, NewTask
<1>7. \A q \in Requests : Sound(q)'
  <2> SUFFICES ASSUME NEW q \in Requests PROVE Sound(q)'
    OBVIOUS
  <2>1. CASE task'[q] = task[q]
    BY <1>1, <2>1 DEF Coherent, Sound, RowFollows, OutcomeFollows, DeviceFollows, AnswerIsTrue,
      RowIsHonest, AcksAreReal, ReplyMatchesRow, NoAckMissed, Transmitted
  <2>2. CASE task[q].pc \notin {"new", "done"} /\ task'[q] = [NewTask EXCEPT !.pc = "dead"]
    <3>1. (RowFollows(q) /\ OutcomeFollows(q) /\ DeviceFollows(q) /\ AnswerIsTrue(q))'
      BY <1>1, <2>2 DEF Coherent, Sound, NewTask, RowFollows, OutcomeFollows, DeviceFollows,
        AnswerIsTrue
    <3>2. (RowIsHonest(q) /\ AcksAreReal(q) /\ ReplyMatchesRow(q) /\ NoAckMissed(q))'
      BY <1>1, <2>2 DEF Coherent, Sound, NewTask, RowIsHonest, AcksAreReal, ReplyMatchesRow,
        NoAckMissed, Transmitted, OutboundStates
    <3>3. QED
      BY <3>1, <3>2 DEF Sound
  <2>3. QED
    BY <1>4, <2>1, <2>2
<1>8. (OnAirMeansFinished /\ AtMostOnce)'
  BY <1>1 DEF Coherent, OnAirMeansFinished, AtMostOnce
<1>9. \A i \in DOMAIN air : air[i].life \in Nat /\ air[i].life <= life
  BY OnAirTyped DEF Coherent, AirIsPast
<1>10. (AirIsPast /\ CooldownsStarted)'
  BY <1>1, <1>9 DEF Coherent, AirIsPast, CooldownsStarted
<1>11. QED
  BY <1>5, <1>6, <1>7, <1>8, <1>10 DEF Coherent

-----------------------------------------------------------------------------
(* The invariant, and what follows from it *)

LEMMA StartsCoherent == Init => Coherent
<1> SUFFICES ASSUME Init PROVE Coherent
  OBVIOUS
<1>1. \A r \in Requests : task[r] = NewTask /\ row[r] = "none" /\ device[r] = "none"
  BY DEF Init
<1>2. DOMAIN air = {}
  BY DEF Init
<1>3. TypeOK
  <2>1. Never \in Int
    BY CooldownAssumption DEF Never
  <2>2. lastSend \in [{"direct", "channel"} -> Int] /\ lastSendTo \in [Targets -> Int]
    BY <2>1 DEF Init
  <2>3. lock \in Seq(Requests) /\ air \in Seq(Transmissions)
    BY DEF Init
  <2>4. task \in [Requests -> TaskRec]
    BY NewTaskTyped DEF Init
  <2>5. QED
    BY <2>2, <2>3, <2>4 DEF Init, TypeOK, Transmissions
<1>4. OneOperationAtATime
  BY <1>1 DEF OneOperationAtATime, Busy, NewTask
<1>5. \A r \in Requests : Sound(r)
  BY <1>1 DEF Sound, NewTask, RowFollows, OutcomeFollows, DeviceFollows, AnswerIsTrue,
    RowIsHonest, AcksAreReal, ReplyMatchesRow, NoAckMissed, Transmitted, OutboundStates
<1>6. OnAirMeansFinished /\ AtMostOnce /\ AirIsPast /\ CooldownsStarted
  BY <1>2 DEF OnAirMeansFinished, AtMostOnce, AirIsPast, CooldownsStarted
<1>7. QED
  BY <1>3, <1>4, <1>5, <1>6 DEF Coherent

LEMMA StaysCoherent == Coherent /\ [Next]_vars => Coherent'
<1> SUFFICES ASSUME Coherent, [Next]_vars PROVE Coherent'
  OBVIOUS
<1>1. CASE UNCHANGED vars
  <2> USE <1>1 DEF Coherent, vars
  <2>1. (TypeOK /\ OneOperationAtATime)'
    BY DEF TypeOK, OneOperationAtATime, Busy, Owns
  <2>2. \A q \in Requests : Sound(q)'
    BY DEF Sound, RowFollows, OutcomeFollows, DeviceFollows, AnswerIsTrue, RowIsHonest,
      AcksAreReal, ReplyMatchesRow, NoAckMissed, Transmitted
  <2>3. (OnAirMeansFinished /\ AtMostOnce /\ AirIsPast /\ CooldownsStarted)'
    BY DEF OnAirMeansFinished, AtMostOnce, AirIsPast, CooldownsStarted, Recorded, Transmitted,
      KindOf
  <2>4. QED
    BY <2>1, <2>2, <2>3
<1>2. ASSUME NEW r \in Requests, Queue(r) \/ Proceed(r)
      PROVE  Coherent'
  BY <1>2, KeepsQueue, KeepsJoin, KeepsDecline, KeepsSubmit, KeepsSendRaises, KeepsSendAccepted,
    KeepsMarkTransmitted, KeepsMarkFails, KeepsAcknowledge, KeepsTimeOut, KeepsClose,
    KeepsCloseFails DEF Proceed
<1>3. ASSUME NEW r \in Requests, Companion(r)
      PROVE  Coherent'
  BY <1>3, KeepsTransmit, KeepsRefuse, KeepsCommandTimesOut, KeepsPeerAcks, KeepsAckEvent
    DEF Companion
<1>4. CASE Refresh \/ LinkLost \/ Restart \/ Tick \/ \E t \in Targets : PathChanges(t)
  BY <1>4, KeepsRefresh, KeepsLinkLost, KeepsRestart, KeepsTick, KeepsPathChanges
<1>5. QED
  BY <1>1, <1>2, <1>3, <1>4 DEF Next

\* The invariant holds of every behaviour.
THEOREM AlwaysCoherent == Spec => []Coherent
BY StartsCoherent, StaysCoherent, PTL DEF Spec

\* Every variable keeps its type.
THEOREM TypeCorrect == Spec => []TypeOK
<1>1. Coherent => TypeOK
  BY DEF Coherent
<1>2. QED
  BY <1>1, AlwaysCoherent, PTL

\* Whoever talks to the companion or waits for an ACK owns _operation_lock.
THEOREM OperationsAreSerial == Spec => []OneOperationAtATime
<1>1. Coherent => OneOperationAtATime
  BY DEF Coherent
<1>2. QED
  BY <1>1, AlwaysCoherent, PTL

\* No message is on the air twice, whatever failed or was restarted.
THEOREM OneTransmission == Spec => []AtMostOnce
<1>1. Coherent => AtMostOnce
  BY DEF Coherent
<1>2. QED
  BY <1>1, AlwaysCoherent, PTL

\* The row never claims more than happened on the air and at the recipient.
THEOREM RowsAreHonest == Spec => []StatesAreHonest
<1>1. Coherent => StatesAreHonest
  BY DEF Coherent, Sound, RowIsHonest, StatesAreHonest, Transmitted
<1>2. QED
  BY <1>1, AlwaysCoherent, PTL

\* The HTTP reply and the row agree, and after a 422 or 429 the message is not
\* on the air, and never will be.
THEOREM RepliesTellTheTruth == Spec => []RepliesMatchRows
<1>1. ASSUME Coherent, NEW r \in Requests, task[r].reply \in {"rejected", "limited"}
      PROVE  ~OnAir(r) /\ device[r] = "none"
  <2>1. device[r] = "none"
    BY <1>1 DEF Coherent, Sound, DeviceFollows
  <2>2. QED
    BY <1>1, <2>1 DEF Coherent, OnAirMeansFinished, OnAir
<1>2. Coherent => RepliesMatchRows
  BY <1>1 DEF Coherent, Sound, ReplyMatchesRow, RepliesMatchRows
<1>3. QED
  BY <1>2, AlwaysCoherent, PTL

\* An ACK that overtakes the companion's answer is never reported as a timeout.
THEOREM EarlyAcksCount == Spec => []EarlyAckCounts
<1>1. Coherent => EarlyAckCounts
  BY DEF Coherent, Sound, NoAckMissed, EarlyAckCounts, Requests
<1>2. QED
  BY <1>1, AlwaysCoherent, PTL

\* Only Submit hands a command over, and it looks at both time stamps, which are
\* at or after each recorded transmission.
LEMMA SubmitsWhenSpaced ==
  ASSUME Coherent, [Next]_vars, NEW r \in Requests, Submits(r),
         NEW i \in DOMAIN air, Transmitted(air[i].req)
  PROVE  Spaced(r, i)
<1>1. Submit(r)
  <2>1. /\ device \in [Requests -> {"none", "pending", "finished"}]
        /\ device[r] = "none" /\ device'[r] = "pending"
    BY DEF Coherent, TypeOK, Submits
  <2>2. ASSUME NEW q \in Requests, Submit(q) PROVE q = r
    BY <2>1, <2>2 DEF Submit
  <2>3. ASSUME NEW q \in Requests, Queue(q) \/ Proceed(q) PROVE Submit(r)
    BY <2>1, <2>2, <2>3 DEF Proceed, Queue, Join, Decline, SendRaises, SendAccepted,
      MarkTransmitted, MarkFails, Acknowledge, TimeOut, Close, CloseFails
  <2>4. ASSUME NEW q \in Requests PROVE ~Companion(q)
    BY <2>1 DEF Companion, Transmit, Refuse, CommandTimesOut, PeerAcks, AckEvent
  <2>5. ~(Refresh \/ LinkLost \/ Restart \/ Tick \/ \E t \in Targets : PathChanges(t))
    BY <2>1 DEF Refresh, LinkLost, Restart, Tick, PathChanges
  <2>6. ~UNCHANGED vars
    BY <2>1 DEF vars
  <2>7. QED
    BY <2>3, <2>4, <2>5, <2>6 DEF Next
<1>2. ~CoolingDown(r)
  BY <1>1 DEF Submit, Verdict
<1>3. SUFFICES ASSUME air[i].life = life, KindOf(air[i].req) = KindOf(r)
               PROVE  /\ clock >= air[i].at + GlobalCooldown
                      /\ TargetOf[air[i].req] = TargetOf[r] => clock >= air[i].at + TargetCooldown
  BY DEF Spaced
<1>4. /\ lastSend[KindOf(r)] >= air[i].at
      /\ TargetOf[air[i].req] = TargetOf[r] => lastSendTo[TargetOf[r]] >= air[i].at
  BY <1>3 DEF Coherent, CooldownsStarted, Recorded
<1>5. /\ air[i].at \in Nat /\ clock \in Nat
      /\ lastSend[KindOf(r)] \in Int /\ lastSendTo[TargetOf[r]] \in Int
  BY OnAirTyped, KindsAndTargets DEF Coherent, TypeOK
<1>6. QED
  BY <1>2, <1>4, <1>5, CooldownAssumption DEF CoolingDown

\* Concurrent requests cannot beat the cooldowns, whatever their values.
THEOREM CooldownsAlwaysHold == Spec => CooldownsHold
<1>1. Coherent /\ [Next]_vars =>
        [\A r \in Requests : Submits(r) =>
           \A i \in DOMAIN air : Transmitted(air[i].req) => Spaced(r, i)]_vars
  BY SubmitsWhenSpaced
<1>2. QED
  BY <1>1, AlwaysCoherent, PTL DEF Spec, CooldownsHold

-----------------------------------------------------------------------------
(* Outbound implements Delivery *)

\* What the refinement takes for onAir.
Aired == [i \in DOMAIN air |-> air[i].req]

LEMMA AiredIsOnAir ==
  ASSUME NEW r, OnAir(r)
  PROVE  r \in Promise!Range(Aired)
BY DEF OnAir, Aired, Promise!Range

LEMMA AiredMeansOnAir ==
  ASSUME NEW r, r \in Promise!Range(Aired)
  PROVE  OnAir(r)
BY DEF OnAir, Aired, Promise!Range

LEMMA StutterUnlessRowsMove ==
  ASSUME UNCHANGED <<row, air, acked>>
  PROVE  UNCHANGED Promise!vars
BY DEF Promise!vars

\* A step of the row is one Delivery allows.
LEMMA ReportsAllowed ==
  ASSUME Coherent, NEW r \in Requests, Close(r) \/ MarkTransmitted(r)
  PROVE  Promise!Next
<1>1. /\ UNCHANGED <<air, acked>>
      /\ row' = [row EXCEPT ![r] = row'[r]]
      /\ row'[r] \in Promise!Allowed(row[r])
      /\ row'[r] \in Promise!OutboundStates
      /\ row'[r] = "acknowledged" => task[r].outcome = "acknowledged"
  BY DEF Close, MarkTransmitted, Coherent, TypeOK, FinalState, Promise!Allowed, Allowed,
     Promise!OutboundStates
<1>2. row'[r] # "failed" => OnAir(r)
  <2>1. CASE Close(r)
    BY <2>1 DEF Close, Coherent, TypeOK, FinalState, Allowed, Sound, RowIsHonest, Transmitted, OnAir
  <2>2. CASE MarkTransmitted(r)
    BY <2>2 DEF MarkTransmitted, Coherent, Sound, AnswerIsTrue, OnAir
  <2>3. QED
    BY <2>1, <2>2
<1>3. row'[r] = "acknowledged" => r \in acked
  BY <1>1 DEF Coherent, Sound, AcksAreReal
<1>4. Promise!Report(r, row'[r])
  BY <1>1, <1>2, <1>3, AiredIsOnAir DEF Promise!Report, Aired
<1>5. QED
  BY <1>1, <1>4 DEF Promise!Next

LEMMA TransmitsOnce ==
  ASSUME Coherent, NEW r \in Requests, Transmit(r)
  PROVE  Promise!Next
<1>1. row[r] # "none"
  BY DEF Transmit, Coherent, Sound, DeviceFollows, RowFollows
<1>2. ~OnAir(r)
  BY DEF Transmit, Coherent, OnAirMeansFinished, OnAir
<1>3. Aired' = Append(Aired, r)
  <2>1. air \in Seq(Transmissions)
    BY DEF Coherent, TypeOK, Transmissions
  <2>2. DOMAIN air = 1 .. Len(air) /\ Len(air) \in Nat
    BY <2>1
  <2>3. Aired \in Seq(Requests) /\ Len(Aired) = Len(air)
    BY <2>2, OnAirTyped DEF Aired, Coherent
  <2>4. /\ DOMAIN Append(Aired, r) = 1 .. Len(air) + 1
        /\ \A i \in 1 .. Len(air) : Append(Aired, r)[i] = Aired[i]
        /\ Append(Aired, r)[Len(air) + 1] = r
    BY <2>3
  <2>5. /\ DOMAIN air' = DOMAIN air \cup {Len(air) + 1}
        /\ \A i \in DOMAIN air : air'[i] = air[i]
        /\ air'[Len(air) + 1].req = r
    BY AirGrows
  <2>6. DOMAIN Aired' = 1 .. Len(air) + 1
    BY <2>2, <2>5 DEF Aired
  <2>7. \A i \in 1 .. Len(air) + 1 : Aired'[i] = Append(Aired, r)[i]
    BY <2>2, <2>4, <2>5 DEF Aired
  <2>8. Aired' \in Seq(Requests) /\ Append(Aired, r) \in Seq(Requests)
    <3>1. Aired' = [i \in 1 .. Len(air) + 1 |-> Aired'[i]]
      BY <2>6 DEF Aired
    <3>2. \A i \in 1 .. Len(air) + 1 : Aired'[i] \in Requests
      BY <2>2, <2>3, <2>4, <2>7
    <3>3. QED
      BY <2>2, <2>3, <3>1, <3>2
  <2>9. QED
    BY <2>2, <2>4, <2>6, <2>7, <2>8, SeqEqual
<1>4. QED
  BY <1>1, <1>2, <1>3, AiredMeansOnAir DEF Promise!Next, Promise!Transmit, Aired, Transmit

LEMMA StepsKeepPromise == Coherent /\ [Next]_vars => [Promise!Next]_(Promise!vars)
<1> SUFFICES ASSUME Coherent, [Next]_vars PROVE Promise!Next \/ UNCHANGED Promise!vars
  OBVIOUS
<1>1. ASSUME NEW r \in Requests, Queue(r) PROVE Promise!Next
  <2>1. row[r] = "none"
    BY <1>1 DEF Queue, Coherent, Sound, RowFollows
  <2>2. QED
    BY <1>1, <2>1 DEF Queue, Promise!Next, Promise!Enqueue
<1>2. ASSUME NEW r \in Requests, Proceed(r) PROVE Promise!Next \/ UNCHANGED Promise!vars
  <2>1. CASE Close(r) \/ MarkTransmitted(r)
    BY <2>1, ReportsAllowed
  <2>2. CASE Join(r) \/ Decline(r) \/ Submit(r) \/ SendRaises(r) \/ SendAccepted(r)
             \/ MarkFails(r) \/ Acknowledge(r) \/ TimeOut(r) \/ CloseFails(r)
    BY <2>2, StutterUnlessRowsMove DEF Join, Decline, Submit, SendRaises, SendAccepted, MarkFails,
      Acknowledge, TimeOut, CloseFails
  <2>3. QED
    BY <1>2, <2>1, <2>2 DEF Proceed
<1>3. ASSUME NEW r \in Requests, Companion(r) PROVE Promise!Next \/ UNCHANGED Promise!vars
  <2>1. CASE Transmit(r)
    BY <2>1, TransmitsOnce
  <2>2. CASE PeerAcks(r)
    <3>1. OnAir(r)
      BY <2>2 DEF PeerAcks, OnAir
    <3>2. QED
      BY <2>2, <3>1, AiredIsOnAir DEF PeerAcks, Promise!Next, Promise!Confirm, Aired
  <2>3. CASE Refuse(r) \/ CommandTimesOut(r) \/ \E q \in Direct : AckEvent(r, q)
    BY <2>3, StutterUnlessRowsMove DEF Refuse, CommandTimesOut, AckEvent
  <2>4. QED
    BY <1>3, <2>1, <2>2, <2>3 DEF Companion
<1>4. CASE \/ Refresh \/ LinkLost \/ Restart \/ Tick \/ \E t \in Targets : PathChanges(t)
           \/ UNCHANGED vars
  BY <1>4, StutterUnlessRowsMove DEF Refresh, LinkLost, Restart, Tick, PathChanges, vars
<1>5. QED
  BY <1>1, <1>2, <1>3, <1>4 DEF Next

LEMMA StartsPromised == Init => Promise!Init
<1> SUFFICES ASSUME Init PROVE Promise!Init
  OBVIOUS
<1>1. [i \in DOMAIN air |-> air[i].req] = << >>
  BY DEF Init
<1>2. QED
  BY <1>1 DEF Init, Promise!Init

\* Outbound implements the abstract promise of Delivery: every step is one of
\* Delivery's, or leaves rows, air and recipients alone.
THEOREM ImplementsDelivery == Spec => KeepsPromise
BY StartsPromised, StepsKeepPromise, AlwaysCoherent, PTL DEF Spec, KeepsPromise, Promise!Spec
=============================================================================
