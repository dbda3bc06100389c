------------------------- MODULE RadioSessionProofs -------------------------
(***************************************************************************)
(* Proofs about RadioSession: for any number of concurrent requests with   *)
(* any menus, any contacts and slots, any number of failures.              *)
(*                                                                         *)
(* The properties follow from one inductive invariant, Orderly, in parts   *)
(* that are proved one after the other: who stands in the queue of the     *)
(* operation lock (Serial), which link a phase of the _run task goes with  *)
(* (Linked), from when the caches and a reading in progress are (Dated),   *)
(* what an advert on its way says of the cooldown (Advertised) and what a  *)
(* mask about to be written keeps of the one it was made of (MaskKept).    *)
(***************************************************************************)
EXTENDS RadioSession, DataFacts

\* The phases in which the _run task has a link, and in which it owns the
\* operation lock or waits for it.
Working == {"joining", "reading", "halfway", "subscribing", "sleeping"}
Locking == {"joining", "reading", "halfway"}

Serial ==
  /\ IsInjective(lock)
  /\ ToSet(lock) = {c \in Clients : task[c].pc # "idle"}
                     \cup (IF runner \in Locking THEN {Run} ELSE {})
  /\ runner \in {"reading", "halfway"} => Owns(Run)
  /\ \A c \in Clients : task[c].pc \in {"probing", "writing", "reading"} => Owns(c)

\* The requests that read before they write.
Probing == {"rename", "overwrite", "keep"}

AskedKnown ==
  \A c \in Clients :
    /\ task[c].pc # "idle" => task[c].op \in Ops
    /\ task[c].pc = "probing" => task[c].op.kind \in Probing

\* Besides the port of the newest link, only those that a failure left open; the
\* newest link is one of these by the time _run connects again.
Linked ==
  /\ Cardinality(open \ {session}) <= leaks
  /\ backend \in {None, session}
  /\ runner \in Working => session \in open /\ backend = session
  /\ runner \in {"connecting", "backoff"} => Cardinality(open) <= leaks
  /\ runner \in {"connecting", "backoff", "closing"} => ~connected /\ backend = None
  /\ stops # 0 => runner \in {"stopping", "stopped"}
  /\ runner \in {"stopping", "stopped"} => stops # 0
  /\ connected /\ runner \in Working => cache.via = session

Dated ==
  /\ cache.contactsAt <= changes
  /\ cache.slotsAt <= changes
  /\ runner = "halfway" => cache.contactsAt <= seen.at /\ seen.at <= changes

\* c has begun an advert, and has not sent it yet.
Advertising(c) == task[c].pc = "writing" /\ task[c].op.kind = "advert"

Advertised ==
  /\ adverts # 0 => adverts = 1 /\ recent
  /\ \A c \in Clients : Advertising(c) => recent /\ adverts = 0

MaskKept ==
  /\ "others" \in companion.autoadd
  /\ \A c \in Clients :
       task[c].pc = "writing" /\ task[c].op.kind \in {"overwrite", "keep"}
       => "others" \in task[c].mask

Orderly == TypeOK /\ Serial /\ AskedKnown /\ Linked /\ Dated /\ Advertised /\ MaskKept

-----------------------------------------------------------------------------
(* What a step does to one request *)

\* A step of c's coroutine: how its record changes, and with it the queue.
Moves(c, t) ==
  /\ task' = [task EXCEPT ![c] = t]
  /\ UNCHANGED <<run, lock>>

GoesOn(c, t) ==
  /\ t.pc \in {"probing", "writing", "reading"}
  /\ t.pc = "probing" => t.op.kind \in Probing
  /\ t.op = task[c].op
  /\ Moves(c, t)

Ends(c, reply) ==
  /\ Reply(c, reply)
  /\ UNCHANGED run

LEMMA IdleTyped ==
  /\ Idle \in TaskRec /\ Idle.pc = "idle" /\ Idle.reply = "none"
  /\ \A reply \in Replies : /\ [Idle EXCEPT !.reply = reply] \in TaskRec
                            /\ [Idle EXCEPT !.reply = reply].pc = "idle"
                            /\ [Idle EXCEPT !.reply = reply].reply = reply
BY DEF Idle, TaskRec, NoOp, None, Routes, Replies

LEMMA PathTyped ==
  ASSUME TypeOK, NEW op \in Ops \cup {NoOp}
  PROVE  Path(op) \in Routes
<1>1. op.kind = "upsert" => op.on \in Keys
  BY DEF Ops, ContactOps, ChannelOps, SettingOps, NoOp
<1>2. lib \in Contacts
  BY DEF TypeOK
<1>3. QED
  BY <1>1, <1>2 DEF Path, Contacts, Routes

\* The owner of the lock passes it on; nobody else held it.
LEMMA OwnerLeaves ==
  ASSUME TypeOK, Serial, NEW c \in Clients, Owns(c), NEW reply \in Replies, Ends(c, reply)
  PROVE  Serial'
<1>1. /\ lock \in Seq(Clients \cup {Run}) /\ lock # << >> /\ Head(lock) = c
      /\ task \in [Clients -> TaskRec]
  BY DEF TypeOK, Owns
<1>2. /\ lock' = Tail(lock) /\ runner' = runner
      /\ task'[c].pc = "idle"
      /\ \A d \in Clients : d # c => task'[d] = task[d]
  BY <1>1, IdleTyped DEF Ends, Reply, run
<1>3. IsInjective(lock') /\ ToSet(lock') = ToSet(lock) \ {c}
  BY <1>1, <1>2, PassQueue DEF Serial
<1>4. c # Run
  BY NamesAssumption
<1>5. ToSet(lock') = {d \in Clients : task'[d].pc # "idle"}
                       \cup (IF runner' \in Locking THEN {Run} ELSE {})
  BY <1>2, <1>3, <1>4 DEF Serial
<1>6. runner' \notin {"reading", "halfway"}
  BY <1>1, <1>2, <1>4 DEF Serial, Owns
<1>7. \A d \in Clients : task'[d].pc \notin {"probing", "writing", "reading"}
  BY <1>1, <1>2 DEF Serial, Owns
<1>8. QED
  BY <1>3, <1>5, <1>6, <1>7 DEF Serial

\* The owner goes on.
LEMMA OwnerMoves ==
  ASSUME TypeOK, Serial, NEW c \in Clients, Owns(c), NEW t, t.pc # "idle", Moves(c, t),
         task[c].pc # "idle"
  PROVE  Serial'
<1>1. /\ task \in [Clients -> TaskRec]
      /\ lock' = lock /\ runner' = runner
      /\ task'[c] = t /\ \A d \in Clients : d # c => task'[d] = task[d]
  BY DEF TypeOK, Moves, run
<1>2. {d \in Clients : task'[d].pc # "idle"} = {d \in Clients : task[d].pc # "idle"}
  BY <1>1
<1>3. QED
  BY <1>1, <1>2 DEF Serial, Owns

\* The _run task leaves the queue, or was not in it.
LEMMA RunLeaves ==
  ASSUME TypeOK, Serial, lock' = RemoveFirst(lock, Run), UNCHANGED task,
         runner' \notin Locking
  PROVE  Serial'
<1>1. /\ lock \in Seq(Clients \cup {Run})
      /\ IsInjective(lock)
  BY DEF TypeOK, Serial
<1>2. /\ IsInjective(lock') /\ ToSet(lock') = ToSet(lock) \ {Run}
      /\ lock # << >> /\ Head(lock) # Run => lock' # << >> /\ Head(lock') = Head(lock)
  BY <1>1, LeaveQueue
<1>3. ToSet(lock') = {c \in Clients : task'[c].pc # "idle"}
  BY <1>2, NamesAssumption DEF Serial
<1>4. \A c \in Clients : task'[c].pc \in {"probing", "writing", "reading"} => Owns(c)'
  BY <1>2, NamesAssumption DEF Serial, Owns
<1>5. QED
  BY <1>2, <1>3, <1>4 DEF Serial, Locking

\* The _run task asks for the lock.
LEMMA RunJoins ==
  ASSUME TypeOK, Serial, runner \notin Locking, runner' = "joining",
         lock' = Append(lock, Run), UNCHANGED task
  PROVE  Serial'
<1>1. lock \in Seq(Clients \cup {Run}) /\ IsInjective(lock) /\ Run \notin ToSet(lock)
  BY NamesAssumption DEF TypeOK, Serial
<1>2. /\ IsInjective(lock') /\ ToSet(lock') = ToSet(lock) \cup {Run} /\ lock' # << >>
      /\ lock # << >> => Head(lock') = Head(lock)
  BY <1>1, JoinQueue
<1>3. \A c \in Clients : task'[c].pc \in {"probing", "writing", "reading"} => Owns(c)'
  BY <1>2 DEF Serial, Owns
<1>4. QED
  BY <1>2, <1>3 DEF Serial, Locking

\* A request asks for the lock.
LEMMA RequestJoins ==
  ASSUME TypeOK, Serial, NEW c \in Clients, task[c].pc = "idle",
         NEW op, task' = [task EXCEPT ![c] = [Idle EXCEPT !.pc = "waiting", !.op = op]],
         lock' = Append(lock, c), UNCHANGED run
  PROVE  Serial'
<1>1. /\ lock \in Seq(Clients \cup {Run}) /\ IsInjective(lock) /\ c \notin ToSet(lock)
      /\ task \in [Clients -> TaskRec]
  BY NamesAssumption DEF TypeOK, Serial
<1>2. /\ IsInjective(lock') /\ ToSet(lock') = ToSet(lock) \cup {c} /\ lock' # << >>
      /\ lock # << >> => Head(lock') = Head(lock)
  BY <1>1, JoinQueue
<1>3. /\ task'[c].pc = "waiting" /\ runner' = runner
      /\ \A d \in Clients : d # c => task'[d] = task[d]
  BY <1>1 DEF Idle, run
<1>4. ToSet(lock') = {d \in Clients : task'[d].pc # "idle"}
                       \cup (IF runner' \in Locking THEN {Run} ELSE {})
  BY <1>2, <1>3 DEF Serial
<1>5. /\ runner' \in {"reading", "halfway"} => Owns(Run)'
      /\ \A d \in Clients : task'[d].pc \in {"probing", "writing", "reading"} => Owns(d)'
  BY <1>2, <1>3 DEF Serial, Owns
<1>6. QED
  BY <1>2, <1>4, <1>5 DEF Serial

\* A coroutine that has the lock ends with a reply, or goes on with the same
\* request.
LEMMA ClientStep ==
  ASSUME TypeOK, Serial, NEW c \in Clients, Proceed(c) \/ Fault(c)
  PROVE  /\ Owns(c) /\ task[c].pc # "idle"
         /\ \/ \E reply \in Replies : Ends(c, reply)
            \/ \E t \in TaskRec : GoesOn(c, t)
<1> DEFINE Continues == \E t \in TaskRec : GoesOn(c, t)
           Finishes  == \E reply \in Replies : Ends(c, reply)
<1>1. /\ task \in [Clients -> TaskRec] /\ task[c] \in TaskRec
      /\ backend \in Nat /\ companion.autoadd \subseteq Flags
      /\ "ok" \in Replies /\ "error" \in Replies
  BY DEF TypeOK, Replies
<1>2. Owns(c) /\ task[c].pc # "idle"
  BY DEF Proceed, Fault, Decline, Begin, ProbeMask, ProbeSlot, Write, ReadBack, WriteFails,
         ReadBackFails, Serial
<1>3. ASSUME NEW p \in {"writing", "reading"}, UNCHANGED <<run, lock>>,
             task' = [task EXCEPT ![c].pc = p]
      PROVE  Continues
  <2> DEFINE t == [task[c] EXCEPT !.pc = p]
  <2>1. t \in TaskRec /\ t.pc = p /\ t.op = task[c].op
    BY <1>1 DEF TaskRec
  <2>2. task' = [task EXCEPT ![c] = t]
    BY <1>1, <1>3
  <2> HIDE DEF t
  <2>3. GoesOn(c, t)
    BY <1>3, <2>1, <2>2 DEF GoesOn, Moves
  <2>4. QED
    BY <2>1, <2>3
<1>4. CASE Decline(c) \/ WriteFails(c) \/ ReadBackFails(c)
  BY <1>1, <1>2, <1>4 DEF Decline, WriteFails, ReadBackFails, Ends
<1>5. CASE Begin(c)
  <2> DEFINE p == IF task[c].op.kind \in {"rename", "overwrite", "keep"} THEN "probing" ELSE "writing"
             path == Path(task[c].op)
             t == [task[c] EXCEPT !.via = backend, !.path = path, !.pc = p]
  <2>1. path \in Routes
    BY <1>1, PathTyped DEF TaskRec
  <2>2. task' = [task EXCEPT ![c] = t] /\ UNCHANGED <<run, lock>>
    BY <1>1, <1>5 DEF Begin
  <2> HIDE DEF path
  <2>3. t \in TaskRec /\ t.pc = p /\ t.op = task[c].op
    BY <1>1, <2>1 DEF TaskRec
  <2> HIDE DEF t
  <2>4. GoesOn(c, t)
    BY <2>2, <2>3 DEF GoesOn, Moves, Probing
  <2>5. QED
    BY <1>2, <2>3, <2>4
<1>6. CASE ProbeMask(c)
  <2> DEFINE mask == companion.autoadd
             new  == Wanted(task[c], mask)
             p    == IF new = mask THEN "reading" ELSE "writing"
             t    == [task[c] EXCEPT !.mask = new, !.pc = p]
  <2>1. new \in SUBSET Flags
    BY <1>1 DEF Wanted, Flags
  <2>2. task' = [task EXCEPT ![c] = t] /\ UNCHANGED <<run, lock>>
    BY <1>1, <1>6 DEF ProbeMask
  <2> HIDE DEF new
  <2>3. t \in TaskRec /\ t.pc = p /\ t.op = task[c].op
    BY <1>1, <2>1 DEF TaskRec
  <2> HIDE DEF t
  <2>4. GoesOn(c, t)
    BY <2>2, <2>3 DEF GoesOn, Moves
  <2>5. QED
    BY <1>2, <2>3, <2>4
<1>7. CASE ProbeSlot(c)
  <2>1. CASE companion.slots[task[c].op.on]
    BY <1>2, <1>3, <1>7, <2>1 DEF ProbeSlot
  <2>2. CASE ~companion.slots[task[c].op.on]
    BY <1>1, <1>2, <1>7, <2>2 DEF ProbeSlot, Ends
  <2>3. QED
    BY <2>1, <2>2
<1>8. CASE Write(c)
  <2>1. CASE task[c].op.kind = "advert"
    BY <1>1, <1>2, <1>8, <2>1 DEF Write, Ends
  <2>2. CASE task[c].op.kind # "advert"
    BY <1>2, <1>3, <1>8, <2>2 DEF Write
  <2>3. QED
    BY <2>1, <2>2
<1>9. CASE ReadBack(c)
  BY <1>1, <1>2, <1>9 DEF ReadBack, Ends
<1>10. QED
  BY <1>4, <1>5, <1>6, <1>7, <1>8, <1>9 DEF Proceed, Fault

\* A request that is refused at once, or that joins the queue.
LEMMA RequestStep ==
  ASSUME TypeOK, Serial, NEW c \in Clients, NEW op \in Menu[c], Request(c, op)
  PROVE  /\ Serial' /\ op \in Ops
         /\ task[c].pc = "idle" /\ \A d \in Clients : d # c => task'[d] = task[d]
         /\ task'[c] \in TaskRec
         /\ task'[c].pc \in {"idle", "waiting"}
         /\ task'[c].pc = "waiting" => task'[c].op = op
         /\ task' \in [Clients -> TaskRec] /\ lock' \in Seq(Clients \cup {Run})
<1>1. /\ task \in [Clients -> TaskRec] /\ op \in Ops /\ lock \in Seq(Clients \cup {Run})
      /\ task[c].pc = "idle"
  BY MenuAssumption DEF TypeOK, Request
<1>2. CASE op.on = Public
  <2> DEFINE t == [Idle EXCEPT !.reply = "error"]
  <2>1. t \in TaskRec /\ t.pc = "idle"
    BY IdleTyped DEF Replies
  <2>2. task' = [task EXCEPT ![c] = t] /\ UNCHANGED <<lock, run>>
    BY <1>2 DEF Request
  <2> HIDE DEF t
  <2>3. /\ task'[c] = t /\ \A d \in Clients : d # c => task'[d] = task[d]
        /\ task' \in [Clients -> TaskRec]
    BY <1>1, <2>1, <2>2
  <2>4. Serial'
    <3>1. {d \in Clients : task'[d].pc # "idle"} = {d \in Clients : task[d].pc # "idle"}
      BY <1>1, <2>1, <2>3
    <3>2. QED
      BY <2>1, <2>2, <2>3, <3>1 DEF Serial, Owns, run
  <2>5. QED
    BY <1>1, <2>1, <2>2, <2>3, <2>4
<1>3. CASE op.on # Public
  <2> DEFINE t == [Idle EXCEPT !.pc = "waiting", !.op = op]
  <2>1. t \in TaskRec /\ t.pc = "waiting" /\ t.op = op
    BY <1>1 DEF Idle, TaskRec, None, Routes, Replies
  <2>2. /\ task' = [task EXCEPT ![c] = t] /\ lock' = Append(lock, c) /\ UNCHANGED run
    BY <1>3 DEF Request
  <2>3. Serial'
    BY <1>1, <2>2, RequestJoins
  <2> HIDE DEF t
  <2>4. /\ task'[c] = t /\ \A d \in Clients : d # c => task'[d] = task[d]
        /\ task' \in [Clients -> TaskRec]
    BY <1>1, <2>1, <2>2
  <2>5. lock' \in Seq(Clients \cup {Run})
    BY <1>1, <2>2, AppendProperties
  <2>6. QED
    BY <1>1, <2>1, <2>3, <2>4, <2>5
<1>4. QED
  BY <1>2, <1>3

LEMMA NextSerial ==
  ASSUME TypeOK, Serial, [Next]_vars
  PROVE  Serial'
<1>1. CASE UNCHANGED <<runner, lock, task>>
  BY <1>1 DEF Serial, Owns
<1>2. ASSUME UNCHANGED <<lock, task>>, runner \notin Locking, runner' \notin Locking
      PROVE  Serial'
  BY <1>2 DEF Serial, Owns, Locking
<1>3. CASE RunStep
  <2>1. CASE Connect \/ Wake
    BY <2>1, RunJoins DEF Connect, Wake, Locking
  <2>2. CASE RefreshBegin
    BY <2>2, NamesAssumption DEF RefreshBegin, Serial, Owns, Locking
  <2>3. CASE RefreshContacts
    BY <2>3 DEF RefreshContacts, Serial, Owns, Locking
  <2>4. CASE RefreshFinish
    BY <2>4, RunLeaves DEF RefreshFinish, Locking
  <2>5. CASE Subscribe \/ Disconnect \/ Retry \/ StopDisconnects
    BY <1>2, <2>5 DEF Subscribe, Disconnect, Retry, StopDisconnects, Locking
  <2>6. QED
    BY <1>3, <2>1, <2>2, <2>3, <2>4, <2>5 DEF RunStep
<1>4. CASE RunFault
  <2>1. CASE ConnectFails
    BY <1>2, <2>1 DEF ConnectFails, Locking
  <2>2. CASE RunFails
    BY <2>2, RunLeaves DEF RunFails, Locking
  <2>3. QED
    BY <1>4, <2>1, <2>2 DEF RunFault
<1>5. CASE Stop
  BY <1>5, RunLeaves DEF Stop, Locking
<1>6. ASSUME NEW c \in Clients, Proceed(c) \/ Fault(c) PROVE Serial'
  <2>1. /\ Owns(c) /\ task[c].pc # "idle"
        /\ \/ \E reply \in Replies : Ends(c, reply)
           \/ \E t \in TaskRec : GoesOn(c, t)
    BY <1>6, ClientStep
  <2>2. ASSUME NEW reply \in Replies, Ends(c, reply) PROVE Serial'
    BY <2>1, <2>2, OwnerLeaves
  <2>3. ASSUME NEW t \in TaskRec, GoesOn(c, t) PROVE Serial'
    BY <2>1, <2>3, OwnerMoves DEF GoesOn
  <2>4. QED
    BY <2>1, <2>2, <2>3
<1>7. ASSUME NEW c \in Clients, NEW op \in Menu[c], Request(c, op) PROVE Serial'
  BY <1>7, RequestStep
<1>8. CASE MinuteOver \/ \E k \in Keys, route \in Routes : Heard(k, route)
  BY <1>1, <1>8 DEF MinuteOver, Heard, run
<1>9. CASE UNCHANGED vars
  BY <1>1, <1>9 DEF vars
<1>10. QED
  BY <1>3, <1>4, <1>5, <1>6, <1>7, <1>8, <1>9 DEF Next

-----------------------------------------------------------------------------
(* Types *)

CompanionRec == [contacts : Contacts, slots : [Slots -> BOOLEAN], autoadd : SUBSET Flags]
CacheRec     == [contacts : Contacts, contactsAt : Nat, slots : [Slots -> BOOLEAN],
                 slotsAt : Nat, via : Nat]

\* A command leaves the companion with tables of the same shape, and none but
\* the two that write the mask touch it.
LEMMA ChangedTyped ==
  ASSUME TypeOK, NEW t \in TaskRec, t.op \in Ops
  PROVE  /\ Changed(t) \in CompanionRec
         /\ t.op.kind \notin {"overwrite", "keep"} => Changed(t).autoadd = companion.autoadd
         /\ t.op.kind \in {"overwrite", "keep"} => Changed(t).autoadd = t.mask
<1>1. companion \in CompanionRec /\ t.mask \in SUBSET Flags /\ t.path \in Routes
  BY DEF TypeOK, CompanionRec, TaskRec
<1>2. t.op.on \in Keys \/ t.op.kind \notin {"upsert", "remove", "zero_hop", "flood"}
  BY DEF Ops, ContactOps, ChannelOps, SettingOps
<1>3. t.op.kind \in {"upsert", "remove", "zero_hop", "flood", "set", "rename", "clear",
                     "overwrite", "keep", "advert"}
  BY DEF Ops, ContactOps, ChannelOps, SettingOps
<1>4. ASSUME NEW route \in Routes, NEW k
      PROVE  /\ [companion EXCEPT !.contacts[k] = route] \in CompanionRec
             /\ [companion EXCEPT !.contacts[k] = route].autoadd = companion.autoadd
  BY <1>1 DEF CompanionRec, Contacts
<1>5. ASSUME NEW b \in BOOLEAN, NEW k
      PROVE  /\ [companion EXCEPT !.slots[k] = b] \in CompanionRec
             /\ [companion EXCEPT !.slots[k] = b].autoadd = companion.autoadd
  BY <1>1 DEF CompanionRec
<1>6. /\ [companion EXCEPT !.autoadd = t.mask] \in CompanionRec
      /\ [companion EXCEPT !.autoadd = t.mask].autoadd = t.mask
  BY <1>1 DEF CompanionRec
<1>7. CASE t.op.kind = "upsert"
  <2>1. \E route \in Routes : Changed(t) = [companion EXCEPT !.contacts[t.op.on] = route]
    BY <1>1, <1>7 DEF Changed
  <2>2. QED
    BY <1>4, <1>7, <2>1
<1>8. CASE t.op.kind \in {"remove", "zero_hop", "flood"}
  <2>1. \E route \in Routes : Changed(t) = [companion EXCEPT !.contacts[t.op.on] = route]
    BY <1>8 DEF Changed, Routes
  <2>2. QED
    BY <1>4, <1>8, <2>1
<1>9. CASE t.op.kind \in {"set", "rename", "clear"}
  <2>1. \E b \in BOOLEAN : Changed(t) = [companion EXCEPT !.slots[t.op.on] = b]
    BY <1>9 DEF Changed
  <2>2. QED
    BY <1>5, <1>9, <2>1
<1>10. CASE t.op.kind \in {"overwrite", "keep"}
  <2>1. Changed(t) = [companion EXCEPT !.autoadd = t.mask]
    BY <1>10 DEF Changed
  <2>2. QED
    BY <1>6, <1>10, <2>1
<1>11. CASE t.op.kind = "advert"
  BY <1>1, <1>11 DEF Changed
<1>12. QED
  BY <1>3, <1>7, <1>8, <1>9, <1>10, <1>11

\* What a coroutine may change besides its own record and the lock.
LEMMA ClientTypes ==
  ASSUME TypeOK, Serial, AskedKnown, NEW c \in Clients, Proceed(c) \/ Fault(c)
  PROVE  TypeOK'
<1>1. /\ task[c] \in TaskRec /\ task[c].op \in Ops /\ task[c].pc # "idle"
      /\ task \in [Clients -> TaskRec] /\ lock \in Seq(Clients \cup {Run}) /\ Owns(c)
      /\ companion \in CompanionRec /\ cache \in CacheRec /\ lib \in Contacts
      /\ changes \in Nat /\ adverts \in Nat /\ faults \in Nat
  BY ClientStep DEF TypeOK, AskedKnown, CompanionRec, CacheRec
<1>2. task' \in [Clients -> TaskRec] /\ lock' \in Seq(Clients \cup {Run})
  <2>1. CASE \E reply \in Replies : Ends(c, reply)
    <3>1. PICK reply \in Replies : Ends(c, reply)
      BY <2>1
    <3>2. [Idle EXCEPT !.reply = reply] \in TaskRec
      BY IdleTyped
    <3>3. lock # << >>
      BY <1>1 DEF Owns
    <3>4. Tail(lock) \in Seq(Clients \cup {Run})
      BY <1>1, <3>3, HeadTailProperties
    <3>5. QED
      BY <1>1, <3>1, <3>2, <3>4 DEF Ends, Reply
  <2>2. CASE \E t \in TaskRec : GoesOn(c, t)
    BY <1>1, <2>2 DEF GoesOn, Moves
  <2>3. QED
    BY <2>1, <2>2, ClientStep
<1>3. UNCHANGED run
  BY ClientStep DEF GoesOn, Moves, Ends
<1>4. ASSUME Apply(task[c])
      PROVE  companion' \in CompanionRec /\ changes' \in Nat /\ adverts' \in Nat
  BY <1>1, <1>4, ChangedTyped DEF Apply
<1>5. ASSUME MayFail(task[c].via) PROVE faults' \in Nat
  BY <1>1, <1>5 DEF MayFail
<1>6. companion' \in CompanionRec /\ changes' \in Nat /\ adverts' \in Nat /\ faults' \in Nat
  BY <1>1, <1>4, <1>5
     DEF Proceed, Fault, Decline, Begin, ProbeMask, ProbeSlot, Write, ReadBack, WriteFails,
         ReadBackFails, radio
<1>7. lib' \in Contacts /\ cache' \in CacheRec /\ recent' \in BOOLEAN
  <2>1. CASE UNCHANGED <<lib, cache, recent>>
    BY <1>1, <2>1 DEF TypeOK
  <2>2. CASE Begin(c)
    BY <1>1, <2>2 DEF Begin, TypeOK
  <2>3. CASE ReadBack(c)
    <3>1. lib' \in Contacts /\ recent' \in BOOLEAN
      BY <1>1, <2>3 DEF ReadBack, TypeOK
    <3>2. /\ [cache EXCEPT !.slots = companion.slots, !.slotsAt = changes] \in CacheRec
          /\ [cache EXCEPT !.contacts = companion.contacts, !.contactsAt = changes] \in CacheRec
      BY <1>1 DEF CacheRec, CompanionRec
    <3>3. \/ cache' = [cache EXCEPT !.slots = companion.slots, !.slotsAt = changes]
          \/ cache' = [cache EXCEPT !.contacts = companion.contacts, !.contactsAt = changes]
          \/ cache' = cache
      BY <2>3 DEF ReadBack
    <3>4. QED
      BY <1>1, <3>1, <3>2, <3>3
  <2>4. QED
    BY <2>1, <2>2, <2>3
       DEF Proceed, Fault, Decline, ProbeMask, ProbeSlot, Write, WriteFails, ReadBackFails
<1>8. QED
  BY <1>2, <1>3, <1>6, <1>7 DEF TypeOK, run, CompanionRec, CacheRec

\* The part of TypeOK that is about links.
Linking ==
  /\ session \in Nat
  /\ open \subseteq 1..session
  /\ backend \in 0..session
  /\ receiving \subseteq 1..session
  /\ leaks \in Nat

LEMMA AbandonsTyped ==
  ASSUME TypeOK, Abandons, UNCHANGED <<backend, receiving>>
  PROVE  Linking'
<1>1. /\ session \in Nat /\ open \subseteq 1..session /\ leaks \in Nat
      /\ backend \in 0..session /\ receiving \subseteq 1..session
  BY DEF TypeOK
<1>2. CASE UNCHANGED <<session, open, leaks>>
  BY <1>1, <1>2 DEF Linking
<1>3. CASE /\ leaks' = leaks + 1 /\ session' = session + 1
           /\ open' = open \cup {session + 1}
  BY <1>1, <1>3 DEF Linking
<1>4. QED
  BY <1>2, <1>3 DEF Abandons

LEMMA NextTypeOK ==
  ASSUME TypeOK, Serial, AskedKnown, [Next]_vars
  PROVE  TypeOK'
<1> DEFINE empty == [contacts |-> NoContacts, at |-> 0]
<1>1. /\ lock \in Seq(Clients \cup {Run}) /\ IsInjective(lock) /\ session \in Nat
      /\ RemoveFirst(lock, Run) \in Seq(Clients \cup {Run})
      /\ Append(lock, Run) \in Seq(Clients \cup {Run})
  BY LeaveQueue, AppendProperties DEF TypeOK, Serial
<1>2. empty \in [contacts : Contacts, at : Nat] /\ NoContacts \in Contacts
  BY DEF NoContacts, Contacts, Routes
<1> HIDE DEF empty
<1>3. ASSUME MayFail(session) PROVE faults' \in Nat
  BY <1>3 DEF MayFail, TypeOK
<1>4. CASE RunStep
  <2>1. CASE Connect
    BY <1>1, <1>2, <2>1 DEF Connect, TypeOK, radio
  <2>2. CASE RefreshBegin \/ Wake
    BY <1>1, <2>2 DEF RefreshBegin, Wake, TypeOK, radio
  <2>3. CASE RefreshContacts
    BY <2>3 DEF RefreshContacts, TypeOK, radio
  <2>4. CASE RefreshFinish
    BY <1>1, <1>2, <2>4 DEF RefreshFinish, TypeOK, radio, empty
  <2>5. CASE Subscribe \/ Disconnect \/ Retry
    <3>1. /\ open' \subseteq open /\ leaks' \in Nat
          /\ receiving' \subseteq receiving \cup open
      BY <2>5 DEF Subscribe, Disconnect, Retry, Closes, CloseFails, TypeOK
    <3>2. runner' \in {"sleeping", "backoff", "connecting"}
      BY <2>5 DEF Subscribe, Disconnect, Retry
    <3>3. /\ UNCHANGED <<session, backend, connected, seen, cache, lib, lock, task>>
          /\ UNCHANGED <<companion, recent, adverts, changes, faults, stops>>
      BY <2>5 DEF Subscribe, Disconnect, Retry, radio
    <3>4. QED
      BY <3>1, <3>2, <3>3 DEF TypeOK
  <2>6. CASE StopDisconnects
    <3>1. open' \subseteq open /\ receiving' \subseteq receiving /\ leaks' \in Nat
      BY <2>6 DEF StopDisconnects, Closes, CloseFails, TypeOK
    <3>2. backend' \in 0..session /\ runner' = "stopped"
      BY <1>1, <2>6 DEF StopDisconnects, None
    <3>3. /\ UNCHANGED <<session, connected, seen, cache, lib, lock, task>>
          /\ UNCHANGED <<companion, recent, adverts, changes, faults, stops>>
      BY <2>6 DEF StopDisconnects, radio
    <3>4. QED
      BY <3>1, <3>2, <3>3 DEF TypeOK
  <2>7. QED
    BY <1>4, <2>1, <2>2, <2>3, <2>4, <2>5, <2>6 DEF RunStep
<1>5. CASE RunFault
  <2>1. CASE ConnectFails
    <3>1. faults' \in Nat /\ Linking'
      BY <2>1, AbandonsTyped DEF ConnectFails, TypeOK
    <3>2. connected' = FALSE /\ runner' = "backoff"
      BY <2>1 DEF ConnectFails
    <3>3. /\ UNCHANGED <<seen, cache, lib, lock, task>>
          /\ UNCHANGED <<companion, recent, adverts, changes, stops>>
      BY <2>1 DEF ConnectFails, radio
    <3>4. QED
      BY <3>1, <3>2, <3>3 DEF TypeOK, Linking
  <2>2. CASE RunFails
    <3>1. /\ faults' \in Nat /\ lock' \in Seq(Clients \cup {Run})
          /\ seen' \in [contacts : Contacts, at : Nat]
      BY <1>1, <1>2, <1>3, <2>2 DEF RunFails, empty
    <3>2. connected' = FALSE /\ runner' = "closing" /\ backend' \in 0..session
      <4>1. 0 \in 0..session
        BY <1>1
      <4>2. QED
        BY <2>2, <4>1 DEF RunFails, None
    <3>3. /\ UNCHANGED <<session, open, receiving, cache, lib, task>>
          /\ UNCHANGED <<companion, recent, adverts, changes, leaks, stops>>
      BY <2>2 DEF RunFails, radio
    <3>4. QED
      BY <3>1, <3>2, <3>3 DEF TypeOK
  <2>3. QED
    BY <1>5, <2>1, <2>2 DEF RunFault
<1>6. CASE Stop
  <2>1. Linking'
    BY <1>6, AbandonsTyped DEF Stop, TypeOK, Linking
  <2>2. /\ runner' = "stopping" /\ stops' \in Nat
        /\ seen' \in [contacts : Contacts, at : Nat]
        /\ lock' \in Seq(Clients \cup {Run})
    BY <1>1, <1>2, <1>6 DEF Stop, TypeOK, empty
  <2>3. /\ UNCHANGED <<connected, cache, lib, task>>
        /\ UNCHANGED <<companion, recent, adverts, changes, faults>>
    BY <1>6 DEF Stop, radio
  <2>4. QED
    BY <2>1, <2>2, <2>3 DEF TypeOK, Linking
<1>7. CASE MinuteOver
  BY <1>7 DEF MinuteOver, TypeOK, run
<1>8. ASSUME NEW c \in Clients, Proceed(c) \/ Fault(c) PROVE TypeOK'
  BY <1>8, ClientTypes
<1>9. ASSUME NEW c \in Clients, NEW op \in Menu[c], Request(c, op) PROVE TypeOK'
  <2>1. task' \in [Clients -> TaskRec] /\ lock' \in Seq(Clients \cup {Run})
    BY <1>9, RequestStep
  <2>2. QED
    BY <1>9, <2>1 DEF Request, TypeOK, run, radio
<1>10. ASSUME NEW k \in Keys, NEW route \in Routes, Heard(k, route) PROVE TypeOK'
  <2>1. companion \in CompanionRec
    BY DEF TypeOK, CompanionRec
  <2>2. companion' \in CompanionRec
    BY <1>10, <2>1 DEF Heard, CompanionRec, Contacts
  <2>3. changes' \in Nat
    BY <1>10 DEF Heard, TypeOK
  <2>4. /\ UNCHANGED <<runner, session, open, backend, connected, receiving, seen, leaks, stops>>
        /\ UNCHANGED <<recent, adverts, cache, lib, lock, task, faults>>
    BY <1>10 DEF Heard, run
  <2>5. QED
    BY <2>2, <2>3, <2>4 DEF TypeOK, CompanionRec
<1>11. CASE UNCHANGED vars
  BY <1>11 DEF vars, TypeOK, radio
<1>12. QED
  BY <1>4, <1>5, <1>6, <1>7, <1>8, <1>9, <1>10, <1>11 DEF Next

LEMMA NextAskedKnown ==
  ASSUME TypeOK, Serial, AskedKnown, [Next]_vars
  PROVE  AskedKnown'
<1>1. CASE UNCHANGED task
  BY <1>1 DEF AskedKnown
<1>2. ASSUME NEW c \in Clients, Proceed(c) \/ Fault(c) PROVE AskedKnown'
  <2>1. task \in [Clients -> TaskRec] /\ task[c].op \in Ops
    BY <1>2, ClientStep DEF TypeOK, AskedKnown
  <2>2. ASSUME NEW reply \in Replies, Ends(c, reply) PROVE AskedKnown'
    BY <2>1, <2>2, IdleTyped DEF AskedKnown, Ends, Reply
  <2>3. ASSUME NEW t \in TaskRec, GoesOn(c, t) PROVE AskedKnown'
    BY <2>1, <2>3 DEF AskedKnown, GoesOn, Moves
  <2>4. QED
    BY <1>2, <2>2, <2>3, ClientStep
<1>3. ASSUME NEW c \in Clients, NEW op \in Menu[c], Request(c, op) PROVE AskedKnown'
  BY <1>3, RequestStep DEF AskedKnown
<1>4. QED
  BY <1>1, <1>2, <1>3
     DEF Next, RunStep, Connect, RefreshBegin, RefreshContacts, RefreshFinish, Subscribe, Wake,
         Disconnect, Retry, StopDisconnects, RunFault, ConnectFails, RunFails, Stop, MinuteOver,
         Heard, vars

-----------------------------------------------------------------------------
(* The link *)

LEMMA CacheStep ==
  ASSUME TypeOK, NEW c \in Clients, Proceed(c) \/ Fault(c)
  PROVE  /\ cache'.via = cache.via
         /\ \/ cache' = cache
            \/ /\ task[c].pc = "reading"
               /\ cache'.contactsAt \in {cache.contactsAt, changes}
               /\ cache'.slotsAt \in {cache.slotsAt, changes}
               /\ UNCHANGED changes
<1>1. cache \in CacheRec
  BY DEF TypeOK, CacheRec
<1>2. CASE ReadBack(c)
  <2>1. \/ cache' = [cache EXCEPT !.slots = companion.slots, !.slotsAt = changes]
        \/ cache' = [cache EXCEPT !.contacts = companion.contacts, !.contactsAt = changes]
        \/ cache' = cache
    BY <1>2 DEF ReadBack
  <2>2. task[c].pc = "reading" /\ UNCHANGED changes
    BY <1>2 DEF ReadBack, radio
  <2>3. QED
    BY <1>1, <2>1, <2>2 DEF CacheRec
<1>3. CASE UNCHANGED cache
  BY <1>3
<1>4. QED
  BY <1>2, <1>3 DEF Proceed, Fault, Decline, Begin, ProbeMask, ProbeSlot, Write, WriteFails,
                    ReadBackFails

LEMMA PortsFinite ==
  ASSUME TypeOK
  PROVE  IsFiniteSet(open) /\ Cardinality(open) \in Nat
<1>1. session \in Nat /\ open \subseteq 1..session
  BY DEF TypeOK
<1>2. IsFiniteSet(1..session)
  BY <1>1, FS_Interval
<1>3. QED
  BY <1>1, <1>2, FS_Subset, FS_CardinalityType

\* Taking a port away leaves no more of them; leaving one out hides one at most.
LEMMA PortsWithout ==
  ASSUME TypeOK, NEW s
  PROVE  /\ Cardinality(open \ {s}) \in Nat
         /\ Cardinality(open \ {s}) <= Cardinality(open)
         /\ Cardinality(open) <= Cardinality(open \ {s}) + 1
<1>1. IsFiniteSet(open) /\ Cardinality(open) \in Nat
  BY PortsFinite
<1>2. /\ IsFiniteSet(open \ {s})
      /\ Cardinality(open \ {s}) = IF s \in open THEN Cardinality(open) - 1 ELSE Cardinality(open)
  BY <1>1, FS_RemoveElement
<1>3. Cardinality(open \ {s}) \in Nat
  BY <1>2, FS_CardinalityType
<1>4. QED
  BY <1>1, <1>2, <1>3

\* The port of an attempt that came to nothing is counted, the others stay.
LEMMA AbandonedIsCounted ==
  ASSUME TypeOK, Abandons, Cardinality(open) <= leaks
  PROVE  Cardinality(open') <= leaks' /\ Cardinality(open' \ {session'}) <= leaks'
<1>1. /\ session \in Nat /\ open \subseteq 1..session /\ leaks \in Nat
      /\ IsFiniteSet(open) /\ Cardinality(open) \in Nat
  BY PortsFinite DEF TypeOK
<1>2. CASE UNCHANGED <<session, open, leaks>>
  <2>1. Cardinality(open \ {session}) \in Nat /\ Cardinality(open \ {session}) <= Cardinality(open)
    BY PortsWithout
  <2>2. QED
    BY <1>1, <1>2, <2>1
<1>3. CASE /\ leaks' = leaks + 1 /\ session' = session + 1
           /\ open' = open \cup {session + 1}
  <2>1. session + 1 \notin open
    BY <1>1
  <2>2. Cardinality(open') = Cardinality(open) + 1
    BY <1>1, <1>3, <2>1, FS_AddElement
  <2>3. open' \ {session'} = open
    BY <1>3, <2>1
  <2>4. Cardinality(open) + 1 <= leaks + 1 /\ Cardinality(open) <= leaks + 1
    BY <1>1
  <2>5. QED
    BY <1>3, <2>2, <2>3, <2>4
<1>4. QED
  BY <1>2, <1>3 DEF Abandons

\* The end of a disconnect of the newest link, also one that failed: whatever is
\* still open is counted.
LEMMA ClosingIsCounted ==
  ASSUME TypeOK, Closes(session) \/ CloseFails(session), Cardinality(open \ {session}) <= leaks
  PROVE  Cardinality(open') <= leaks' /\ Cardinality(open' \ {session}) <= leaks'
<1>1. /\ leaks \in Nat /\ Cardinality(open) \in Nat
      /\ Cardinality(open \ {session}) \in Nat
      /\ Cardinality(open \ {session}) <= Cardinality(open)
      /\ Cardinality(open) <= Cardinality(open \ {session}) + 1
  BY PortsFinite, PortsWithout DEF TypeOK
<1>2. CASE Closes(session)
  <2>1. open' = open \ {session} /\ open' \ {session} = open \ {session} /\ leaks' = leaks
    BY <1>2 DEF Closes
  <2>2. QED
    BY <2>1
<1>3. CASE CloseFails(session)
  <2>1. open' = open /\ leaks' = leaks + 1
    BY <1>3 DEF CloseFails
  <2>2. QED
    BY <1>1, <2>1
<1>4. QED
  BY <1>2, <1>3

LEMMA NextLinked ==
  ASSUME TypeOK, Serial, Linked, [Next]_vars
  PROVE  Linked'
<1>1. /\ session \in Nat /\ open \subseteq 1..session /\ leaks \in Nat
      /\ Cardinality(open) \in Nat
      /\ Cardinality(open \ {session}) \in Nat
      /\ Cardinality(open \ {session}) <= Cardinality(open)
      /\ Cardinality(open) <= Cardinality(open \ {session}) + 1
  BY PortsFinite, PortsWithout DEF TypeOK
<1>2. CASE UNCHANGED run /\ UNCHANGED cache.via
  BY <1>2 DEF run, Linked
<1>3. CASE RunStep
  <2>1. CASE Connect
    <3>1. open' \ {session'} = open
      BY <1>1, <2>1 DEF Connect
    <3>2. QED
      BY <1>1, <2>1, <3>1 DEF Connect, Linked, Working
  <2>2. CASE RefreshBegin \/ RefreshContacts
    BY <2>2 DEF RefreshBegin, RefreshContacts, Linked, Working
  <2>3. CASE RefreshFinish
    BY <2>3 DEF RefreshFinish, Linked, Working
  <2>4. CASE Subscribe
    BY <2>4 DEF Subscribe, Linked, Working
  <2>5. CASE Wake
    BY <2>5 DEF Wake, Linked, Working
  <2>6. CASE Disconnect
    <3>1. Cardinality(open') <= leaks' /\ Cardinality(open' \ {session'}) <= leaks'
      BY <2>6, ClosingIsCounted DEF Disconnect, Linked
    <3>2. QED
      BY <2>6, <3>1 DEF Disconnect, Linked, Working
  <2>7. CASE Retry
    BY <2>7 DEF Retry, Linked, Working
  <2>8. CASE StopDisconnects
    <3>1. Cardinality(open' \ {session'}) <= leaks'
      <4>1. CASE backend = session
        BY <2>8, <4>1, ClosingIsCounted DEF StopDisconnects, Linked
      <4>2. CASE backend # session
        <5>1. backend \notin open
          BY <1>1, <4>2 DEF Linked, None
        <5>2. open' = open /\ leaks' = leaks /\ session' = session
          BY <2>8, <5>1 DEF StopDisconnects, Closes, CloseFails
        <5>3. QED
          BY <5>2 DEF Linked
      <4>3. QED
        BY <4>1, <4>2
    <3>2. QED
      BY <2>8, <3>1 DEF StopDisconnects, Linked, Working
  <2>9. QED
    BY <1>3, <2>1, <2>2, <2>3, <2>4, <2>5, <2>6, <2>7, <2>8 DEF RunStep
<1>4. CASE RunFault
  <2>1. CASE ConnectFails
    <3>1. Cardinality(open') <= leaks' /\ Cardinality(open' \ {session'}) <= leaks'
      BY <2>1, AbandonedIsCounted DEF ConnectFails, Linked
    <3>2. QED
      BY <2>1, <3>1 DEF ConnectFails, Linked, Working
  <2>2. CASE RunFails
    BY <2>2 DEF RunFails, Linked, Working
  <2>3. QED
    BY <1>4, <2>1, <2>2 DEF RunFault
<1>5. CASE Stop
  <2>1. stops \in Nat
    BY DEF TypeOK
  <2>2. Cardinality(open' \ {session'}) <= leaks'
    <3>1. CASE runner = "connecting"
      BY <1>5, <3>1, AbandonedIsCounted DEF Stop, Linked
    <3>2. CASE runner # "connecting"
      BY <1>5, <3>2 DEF Stop, Linked
    <3>3. QED
      BY <3>1, <3>2
  <2>3. backend' \in {None, session'}
    BY <1>5 DEF Stop, Linked, Abandons
  <2>4. QED
    BY <1>5, <2>1, <2>2, <2>3 DEF Stop, Linked, Working
<1>6. ASSUME NEW c \in Clients, Proceed(c) \/ Fault(c) PROVE Linked'
  <2>1. UNCHANGED run
    BY <1>6, ClientStep DEF GoesOn, Moves, Ends
  <2>2. QED
    BY <1>2, <1>6, <2>1, CacheStep
<1>7. QED
  BY <1>2, <1>3, <1>4, <1>5, <1>6 DEF Next, Request, Heard, MinuteOver, vars, run

-----------------------------------------------------------------------------
(* The caches *)

\* The history counters only count.
LEMMA ChangesGrow ==
  ASSUME TypeOK, [Next]_vars
  PROVE  changes' = changes \/ changes' = changes + 1
<1>1. CASE UNCHANGED changes
  BY <1>1
<1>2. ASSUME NEW t, Apply(t) PROVE changes' = changes \/ changes' = changes + 1
  BY <1>2 DEF Apply
<1>3. ASSUME NEW c \in Clients, Proceed(c) \/ Fault(c)
      PROVE  changes' = changes \/ changes' = changes + 1
  BY <1>1, <1>2, <1>3
     DEF Proceed, Fault, Decline, Begin, ProbeMask, ProbeSlot, Write, ReadBack, WriteFails,
         ReadBackFails, radio
<1>4. QED
  BY <1>1, <1>3
     DEF Next, RunStep, Connect, RefreshBegin, RefreshContacts, RefreshFinish, Subscribe, Wake,
         Disconnect, Retry, StopDisconnects, RunFault, ConnectFails, RunFails, Stop, MinuteOver,
         Request, Heard, run, radio, vars

\* Whoever replaces a cache owns the lock, so that no reading in progress is
\* older than what it replaces.
LEMMA CacheMovesForward ==
  ASSUME TypeOK, Serial, Dated, [Next]_vars
  PROVE  /\ Dated'
         /\ cache'.contactsAt >= cache.contactsAt
         /\ cache'.slotsAt >= cache.slotsAt
<1> DEFINE Goal == /\ Dated'
                   /\ cache'.contactsAt >= cache.contactsAt
                   /\ cache'.slotsAt >= cache.slotsAt
<1>1. /\ cache.contactsAt \in Nat /\ cache.slotsAt \in Nat /\ seen.at \in Nat
      /\ changes \in Nat
  BY DEF TypeOK
<1>2. changes' \in Nat /\ changes' >= changes
  BY <1>1, ChangesGrow
<1>3. ASSUME UNCHANGED cache, runner' # "halfway" \/ UNCHANGED <<runner, seen>> PROVE Goal
  BY <1>1, <1>2, <1>3 DEF Dated
<1>4. CASE RefreshContacts
  BY <1>1, <1>4 DEF RefreshContacts, Dated, radio
<1>5. CASE RefreshFinish
  BY <1>1, <1>5 DEF RefreshFinish, Dated, radio
<1>6. ASSUME NEW c \in Clients, Proceed(c) \/ Fault(c) PROVE Goal
  <2>1. UNCHANGED <<runner, seen>>
    BY <1>6, ClientStep DEF GoesOn, Moves, Ends, run
  <2>2. CASE cache' = cache
    BY <1>3, <2>1, <2>2
  <2>3. CASE /\ task[c].pc = "reading"
             /\ cache'.contactsAt \in {cache.contactsAt, changes}
             /\ cache'.slotsAt \in {cache.slotsAt, changes}
             /\ UNCHANGED changes
    <3>1. runner # "halfway"
      BY <2>3, NamesAssumption DEF Serial, Owns
    <3>2. QED
      BY <1>1, <2>1, <2>3, <3>1 DEF Dated
  <2>4. QED
    BY <1>6, <2>2, <2>3, CacheStep
<1>7. ASSUME NEW c \in Clients, NEW op \in Menu[c], Request(c, op) PROVE Goal
  BY <1>3, <1>7 DEF Request, run
<1>8. CASE Connect \/ RefreshBegin \/ Subscribe \/ Wake \/ Disconnect \/ Retry \/ StopDisconnects
           \/ ConnectFails \/ RunFails \/ Stop
  BY <1>3, <1>8
     DEF Connect, RefreshBegin, Subscribe, Wake, Disconnect, Retry, StopDisconnects,
         ConnectFails, RunFails, Stop
<1>9. CASE MinuteOver \/ (\E k \in Keys, route \in Routes : Heard(k, route)) \/ UNCHANGED vars
  BY <1>3, <1>9 DEF MinuteOver, Heard, run, vars
<1>10. QED
  BY <1>4, <1>5, <1>6, <1>7, <1>8, <1>9 DEF Next, RunStep, RunFault

-----------------------------------------------------------------------------
(* Adverts *)

\* A coroutine that goes on does so with the request it began with; the others
\* are not touched.
LEMMA RequestKept ==
  ASSUME TypeOK, Serial, NEW c \in Clients, Proceed(c) \/ Fault(c)
  PROVE  /\ task'[c].pc = "idle" \/ task'[c].op = task[c].op
         /\ \A d \in Clients : d # c => task'[d] = task[d]
<1>1. task \in [Clients -> TaskRec]
  BY DEF TypeOK
<1>2. ASSUME NEW reply \in Replies, Ends(c, reply)
      PROVE  task'[c].pc = "idle" /\ \A d \in Clients : d # c => task'[d] = task[d]
  BY <1>1, <1>2, IdleTyped DEF Ends, Reply
<1>3. ASSUME NEW t \in TaskRec, GoesOn(c, t)
      PROVE  task'[c].op = task[c].op /\ \A d \in Clients : d # c => task'[d] = task[d]
  BY <1>1, <1>3 DEF GoesOn, Moves
<1>4. QED
  BY <1>2, <1>3, ClientStep

LEMMA NextAdvertised ==
  ASSUME TypeOK, Serial, AskedKnown, Advertised, [Next]_vars
  PROVE  Advertised'
<1>1. task \in [Clients -> TaskRec] /\ adverts \in Nat /\ recent \in BOOLEAN
  BY DEF TypeOK
<1>2. CASE UNCHANGED <<task, adverts, recent>>
  BY <1>2 DEF Advertised, Advertising
<1>3. ASSUME NEW c \in Clients, NEW op \in Menu[c], Request(c, op) PROVE Advertised'
  <2>1. task'[c].pc # "writing" /\ \A d \in Clients : d # c => task'[d] = task[d]
    BY <1>3, RequestStep
  <2>2. UNCHANGED <<adverts, recent>>
    BY <1>3 DEF Request, radio
  <2>3. QED
    BY <2>1, <2>2 DEF Advertised, Advertising
<1>4. CASE MinuteOver
  BY <1>4 DEF MinuteOver, Advertised, Advertising
<1>5. ASSUME NEW c \in Clients, Proceed(c) \/ Fault(c) PROVE Advertised'
  <2>1. /\ Owns(c) /\ task[c].pc # "idle" /\ task[c].op \in Ops
        /\ \A d \in Clients : d # c => task'[d] = task[d]
    BY <1>1, <1>5, ClientStep DEF GoesOn, Ends, Moves, Reply, AskedKnown
  \* Only the owner can be writing.
  <2>2. \A d \in Clients : d # c => ~Advertising(d) /\ ~Advertising(d)'
    BY <2>1 DEF Serial, Owns, Advertising
  <2>3. CASE Begin(c)
    <3>1. UNCHANGED adverts /\ recent' = (recent \/ task[c].op.kind = "advert")
      BY <2>3 DEF Begin, radio
    <3>2. task[c].op.kind = "advert" => ~recent
      BY <2>3 DEF Begin, Refused
    <3>3. task'[c].op = task[c].op
      BY <1>1, <2>3 DEF Begin, TaskRec
    <3>4. CASE task[c].op.kind = "advert"
      <4>1. adverts = 0 /\ adverts' = 0 /\ recent'
        BY <3>1, <3>2, <3>4 DEF Advertised
      <4>2. QED
        BY <2>2, <4>1 DEF Advertised
    <3>5. CASE task[c].op.kind # "advert"
      <4>1. recent' = recent /\ ~Advertising(c)'
        BY <1>1, <3>1, <3>3, <3>5 DEF Advertising
      <4>2. QED
        BY <2>2, <3>1, <4>1 DEF Advertised
    <3>6. QED
      BY <3>4, <3>5
  <2>4. CASE /\ UNCHANGED <<adverts, recent>>
             /\ ~Advertising(c)'
    BY <2>2, <2>4 DEF Advertised
  <2>5. CASE task[c].pc = "writing" /\ Apply(task[c]) /\ UNCHANGED recent /\ ~Advertising(c)'
    <3>1. CASE task[c].op.kind = "advert"
      <4>1. recent /\ adverts = 0 /\ adverts' = 1
        BY <2>5, <3>1 DEF Advertised, Advertising, Apply
      <4>2. QED
        BY <2>2, <2>5, <4>1 DEF Advertised
    <3>2. CASE task[c].op.kind # "advert"
      BY <2>2, <2>5, <3>2 DEF Advertised, Apply
    <3>3. QED
      BY <3>1, <3>2
  <2>6. CASE Decline(c) \/ ReadBack(c) \/ ReadBackFails(c)
    <3>1. task'[c].pc = "idle"
      BY <1>1, <2>6, IdleTyped DEF Decline, ReadBack, ReadBackFails, Reply, Replies
    <3>2. UNCHANGED <<adverts, recent>>
      BY <2>6 DEF Decline, ReadBack, ReadBackFails, radio
    <3>3. QED
      BY <2>4, <3>1, <3>2 DEF Advertising
  <2>7. CASE ProbeMask(c) \/ ProbeSlot(c)
    <3>1. task[c].pc = "probing" /\ UNCHANGED <<adverts, recent>>
      BY <2>7 DEF ProbeMask, ProbeSlot, radio
    <3>2. task[c].op.kind # "advert"
      BY <3>1 DEF AskedKnown, Probing
    <3>3. task'[c].pc = "idle" \/ task'[c].op = task[c].op
      BY <1>5, RequestKept
    <3>4. QED
      BY <2>4, <3>1, <3>2, <3>3 DEF Advertising
  <2>8. CASE Write(c)
    <3>1. task[c].pc = "writing" /\ Apply(task[c]) /\ UNCHANGED recent
      BY <2>8 DEF Write
    <3>2. CASE task[c].op.kind = "advert"
      <4>1. task'[c].pc = "idle"
        BY <1>1, <2>8, <3>2, IdleTyped DEF Write, Reply, Replies
      <4>2. QED
        BY <2>5, <3>1, <4>1 DEF Advertising
    <3>3. CASE task[c].op.kind # "advert"
      <4>1. task'[c].pc = "reading"
        BY <1>1, <2>8, <3>3 DEF Write, TaskRec
      <4>2. QED
        BY <2>5, <3>1, <4>1 DEF Advertising
    <3>4. QED
      BY <3>2, <3>3
  <2>9. CASE WriteFails(c)
    <3>1. task'[c].pc = "idle" /\ UNCHANGED recent
      BY <1>1, <2>9, IdleTyped DEF WriteFails, Reply, Replies
    <3>2. UNCHANGED adverts \/ (task[c].pc = "writing" /\ Apply(task[c]))
      BY <2>9 DEF WriteFails, radio
    <3>3. QED
      BY <2>4, <2>5, <3>1, <3>2 DEF Advertising
  <2>10. QED
    BY <1>5, <2>3, <2>6, <2>7, <2>8, <2>9 DEF Proceed, Fault
<1>6. QED
  BY <1>2, <1>3, <1>4, <1>5
     DEF Next, RunStep, Connect, RefreshBegin, RefreshContacts, RefreshFinish, Subscribe, Wake,
         Disconnect, Retry, StopDisconnects, RunFault, ConnectFails, RunFails, Stop, Heard, radio,
         vars

-----------------------------------------------------------------------------
(* The auto-add mask *)

LEMMA NextMaskKept ==
  ASSUME TypeOK, Serial, AskedKnown, MaskKept, [Next]_vars
  PROVE  MaskKept'
<1> DEFINE Masked(t) == t.pc = "writing" /\ t.op.kind \in {"overwrite", "keep"}
<1>1. task \in [Clients -> TaskRec] /\ companion \in CompanionRec
  BY DEF TypeOK, CompanionRec
<1>2. CASE UNCHANGED <<task, companion>>
  BY <1>2 DEF MaskKept
<1>3. ASSUME NEW c \in Clients, NEW op \in Menu[c], Request(c, op) PROVE MaskKept'
  <2>1. task'[c].pc # "writing" /\ \A d \in Clients : d # c => task'[d] = task[d]
    BY <1>3, RequestStep
  <2>2. UNCHANGED companion
    BY <1>3 DEF Request, radio
  <2>3. QED
    BY <2>1, <2>2 DEF MaskKept
<1>4. ASSUME NEW k \in Keys, NEW route \in Routes, Heard(k, route) PROVE MaskKept'
  <2>1. companion'.autoadd = companion.autoadd /\ UNCHANGED task
    BY <1>1, <1>4 DEF Heard, CompanionRec
  <2>2. QED
    BY <2>1 DEF MaskKept
<1>5. ASSUME NEW c \in Clients, Proceed(c) \/ Fault(c) PROVE MaskKept'
  <2>1. /\ task[c] \in TaskRec /\ task[c].op \in Ops
        /\ task'[c].pc = "idle" \/ task'[c].op = task[c].op
        /\ \A d \in Clients : d # c => task'[d] = task[d]
    BY <1>1, <1>5, ClientStep, RequestKept DEF AskedKnown
  \* A mask is written after it was read, and keeps what was read.
  <2>2. Masked(task'[c]) => "others" \in task'[c].mask
    <3>1. CASE ProbeMask(c)
      <4>1. task'[c].mask = Wanted(task[c], companion.autoadd)
        BY <1>1, <3>1 DEF ProbeMask, TaskRec
      <4>2. QED
        BY <4>1 DEF Wanted, MaskKept
    <3>2. CASE Begin(c)
      <4>1. task'[c].pc = IF task[c].op.kind \in {"rename", "overwrite", "keep"}
                            THEN "probing" ELSE "writing"
        BY <1>1, <3>2 DEF Begin, TaskRec
      <4>2. QED
        BY <2>1, <4>1
    <3>3. CASE ProbeSlot(c)
      BY <2>1, <3>3 DEF ProbeSlot, ChannelOps
    <3>4. CASE Decline(c) \/ ReadBack(c) \/ WriteFails(c) \/ ReadBackFails(c)
      <4>1. task'[c].pc = "idle"
        BY <1>1, <3>4, IdleTyped DEF Decline, ReadBack, WriteFails, ReadBackFails, Reply, Replies
      <4>2. QED
        BY <4>1
    <3>5. CASE Write(c)
      <4>1. CASE task[c].op.kind = "advert"
        BY <1>1, <3>5, <4>1, IdleTyped DEF Write, Reply, Replies
      <4>2. CASE task[c].op.kind # "advert"
        BY <1>1, <3>5, <4>2 DEF Write, TaskRec
      <4>3. QED
        BY <4>1, <4>2
    <3>6. QED
      BY <1>5, <3>1, <3>2, <3>3, <3>4, <3>5 DEF Proceed, Fault
  <2>3. "others" \in companion'.autoadd
    <3>1. ASSUME task[c].pc = "writing", Apply(task[c]) PROVE "others" \in companion'.autoadd
      BY <2>1, <3>1, ChangedTyped DEF Apply, MaskKept
    <3>2. CASE Write(c) \/ WriteFails(c)
      BY <3>1, <3>2 DEF Write, WriteFails, radio, MaskKept
    <3>3. CASE UNCHANGED companion
      BY <3>3 DEF MaskKept
    <3>4. QED
      BY <1>5, <3>2, <3>3
         DEF Proceed, Fault, Decline, Begin, ProbeMask, ProbeSlot, ReadBack, ReadBackFails, radio
  <2>4. QED
    BY <2>1, <2>2, <2>3 DEF MaskKept
<1>6. QED
  BY <1>2, <1>3, <1>4, <1>5
     DEF Next, RunStep, Connect, RefreshBegin, RefreshContacts, RefreshFinish, Subscribe, Wake,
         Disconnect, Retry, StopDisconnects, RunFault, ConnectFails, RunFails, Stop, MinuteOver,
         radio, vars

-----------------------------------------------------------------------------
(* The theorems *)

LEMMA InitOrderly == Init => Orderly
<1> SUFFICES ASSUME Init PROVE Orderly
  OBVIOUS
<1>1. TypeOK
  <2>1. NoContacts \in Contacts /\ NoSlots \in [Slots -> BOOLEAN]
    BY DEF NoContacts, Contacts, Routes, NoSlots
  <2>2. companion \in CompanionRec
    BY <2>1 DEF Init, CompanionRec, Flags
  <2>3. task \in [Clients -> TaskRec]
    BY IdleTyped DEF Init
  <2>4. /\ seen \in [contacts : Contacts, at : Nat] /\ cache \in CacheRec
    BY <2>1 DEF Init, CacheRec, None
  <2>5. lock \in Seq(Clients \cup {Run}) /\ lib \in Contacts
    BY <2>1 DEF Init
  <2>6. /\ runner = "connecting" /\ session = 0 /\ open = {} /\ backend = 0 /\ receiving = {}
        /\ connected = FALSE /\ recent = FALSE
        /\ adverts = 0 /\ changes = 0 /\ faults = 0 /\ leaks = 0 /\ stops = 0
    BY DEF Init, None
  <2>7. /\ session \in Nat /\ open \subseteq 1..session /\ backend \in 0..session
        /\ receiving \subseteq 1..session
        /\ adverts \in Nat /\ changes \in Nat /\ faults \in Nat /\ leaks \in Nat /\ stops \in Nat
    BY <2>6
  <2>8. connected \in BOOLEAN /\ recent \in BOOLEAN
    BY <2>6
  <2>9. QED
    BY <2>2, <2>3, <2>4, <2>5, <2>6, <2>7, <2>8 DEF TypeOK, CompanionRec, CacheRec
<1>2. Serial
  BY IdleTyped DEF Init, Serial, Locking, IsInjective, ToSet
<1>3. AskedKnown /\ Advertised
  BY IdleTyped DEF Init, AskedKnown, Advertised, Advertising
<1>4. Linked
  <2>1. open = {} /\ open \ {session} = {} /\ leaks = 0
    BY DEF Init
  <2>2. Cardinality(open) = 0 /\ Cardinality(open \ {session}) = 0
    BY <2>1, FS_EmptySet
  <2>3. QED
    BY <2>1, <2>2 DEF Init, Linked, Working, None
<1>5. Dated
  BY DEF Init, Dated
<1>6. MaskKept
  BY IdleTyped DEF Init, MaskKept
<1>7. QED
  BY <1>1, <1>2, <1>3, <1>4, <1>5, <1>6 DEF Orderly

LEMMA NextOrderly ==
  ASSUME Orderly, [Next]_vars
  PROVE  Orderly'
<1>1. TypeOK /\ Serial /\ AskedKnown /\ Linked /\ Dated /\ Advertised /\ MaskKept
  BY DEF Orderly
<1>2. TypeOK' /\ Serial' /\ AskedKnown'
  BY <1>1, NextTypeOK, NextSerial, NextAskedKnown
<1>3. Linked' /\ Dated'
  BY <1>1, NextLinked, CacheMovesForward
<1>4. Advertised' /\ MaskKept'
  BY <1>1, NextAdvertised, NextMaskKept
<1>5. QED
  BY <1>2, <1>3, <1>4 DEF Orderly

\* Every state the session, the requests and the radio reach together is orderly:
\* one owner of the operation lock, a link that belongs to the phase the _run task is
\* in, no port open beside it but those that failures left behind, caches no newer
\* than the radio's own tables.
THEOREM AlwaysOrderly == Spec => []Orderly
<1>1. Orderly /\ [Next]_vars => Orderly'
  BY NextOrderly
<1>2. QED
  BY <1>1, InitOrderly, PTL DEF Spec

\* The variables keep their shapes: the lock is a queue of requests and the _run
\* task, links are numbered, the companion's tables keep their domains.
THEOREM TypeCorrect == Spec => []TypeOK
<1>1. Orderly => TypeOK
  BY DEF Orderly
<1>2. QED
  BY <1>1, AlwaysOrderly, PTL

\* _run opens the port again only after the except clause has seen the end of the
\* disconnect, however many requests still hold the old backend: each port that is
\* open besides one is there because a disconnect or a handshake failed to close it.
THEOREM OneLinkAtATime == Spec => []SingleLink
<1>1. ASSUME Orderly PROVE SingleLink
  <2>1. Cardinality(open \ {session}) <= leaks /\ TypeOK
    BY <1>1 DEF Orderly, Linked
  <2>2. leaks \in Nat /\ Cardinality(open) \in Nat /\ Cardinality(open \ {session}) \in Nat
    BY <2>1, PortsFinite, PortsWithout DEF TypeOK
  <2>3. Cardinality(open) <= Cardinality(open \ {session}) + 1
    BY <2>1, PortsWithout
  <2>4. QED
    BY <2>1, <2>2, <2>3 DEF SingleLink
<1>2. QED
  BY <1>1, AlwaysOrderly, PTL

\* While the daemon is not being stopped, "connected" means that commands go to the
\* link that is open and that the caches were read over that same link.
THEOREM ConnectionIsFresh == Spec => []ConnectedMeansFresh
<1>1. ASSUME Orderly PROVE ConnectedMeansFresh
  <2>1. SUFFICES ASSUME connected, stops = 0
                 PROVE  backend # None /\ backend \in open /\ cache.via = backend
    BY DEF ConnectedMeansFresh
  <2>2. runner \in Working
    BY <1>1, <2>1 DEF Orderly, Linked, TypeOK, Working
  <2>3. session \in open /\ backend = session /\ cache.via = session
    BY <1>1, <2>1, <2>2 DEF Orderly, Linked
  <2>4. session # 0
    BY <1>1, <2>3 DEF Orderly, TypeOK
  <2>5. QED
    BY <2>3, <2>4 DEF None
<1>2. QED
  BY <1>1, AlwaysOrderly, PTL

\* At most one local advert goes on the air within a minute, also when the command
\* that sent it was reported as failed and the caller asked again.
THEOREM AdvertsAreSpaced == Spec => []AdvertsSpaced
<1>1. ASSUME Orderly PROVE AdvertsSpaced
  BY <1>1 DEF Orderly, TypeOK, Advertised, AdvertsSpaced
<1>2. QED
  BY <1>1, AlwaysOrderly, PTL

\* No step puts an older reading into the contact or channel cache: a refresh in
\* progress and the read-back of a request exclude each other.
THEOREM CachesMoveForward == Spec => CachesNeverGoBack
<1> DEFINE Forward == /\ cache'.contactsAt >= cache.contactsAt
                      /\ cache'.slotsAt >= cache.slotsAt
<1>1. Orderly /\ [Next]_vars => [Forward]_vars
  BY CacheMovesForward DEF Orderly
<1>2. QED
  BY <1>1, AlwaysOrderly, PTL DEF Spec, CachesNeverGoBack

\* Whoever is told "ok" after changing a contact or the auto-add mask is told what
\* the radio's own tables say at that moment, and the bits of the mask nobody asked
\* about are still set.
THEOREM OksAreVerified == Spec => OkIsVerified
<1> DEFINE Verified == \A c \in Clients : Answered(c, "ok") =>
                         /\ Confirmed(task[c].op)
                         /\ task[c].op \in ContactOps => cache'.contacts = companion.contacts
                         /\ "others" \in companion.autoadd
<1>1. ASSUME Orderly, [Next]_vars PROVE [Verified]_vars
  <2>1. SUFFICES ASSUME NEW c \in Clients, Answered(c, "ok")
                 PROVE  /\ Confirmed(task[c].op)
                        /\ task[c].op \in ContactOps => cache'.contacts = companion.contacts
                        /\ "others" \in companion.autoadd
    OBVIOUS
  <2>2. /\ task \in [Clients -> TaskRec] /\ TypeOK /\ Serial /\ AskedKnown
        /\ "others" \in companion.autoadd
        /\ task[c].pc # "idle" /\ task'[c].pc = "idle" /\ task'[c].reply = "ok"
        /\ cache \in CacheRec
    BY <1>1, <2>1 DEF Orderly, TypeOK, MaskKept, Answered, CacheRec
  <2>3. task' # task
    BY <2>2
  <2>4. ASSUME NEW d \in Clients, Proceed(d) \/ Fault(d) PROVE d = c
    BY <2>2, <2>4, RequestKept
  <2>5. ASSUME NEW d \in Clients, NEW op \in Menu[d], Request(d, op) PROVE FALSE
    BY <2>2, <2>5, RequestStep, IdleTyped DEF Replies
  <2>6. Proceed(c) \/ Fault(c)
    BY <1>1, <2>3, <2>4, <2>5
       DEF Next, RunStep, Connect, RefreshBegin, RefreshContacts, RefreshFinish, Subscribe, Wake,
           Disconnect, Retry, StopDisconnects, RunFault, ConnectFails, RunFails, Stop, MinuteOver,
           Heard, vars
  <2>7. ASSUME task' = [task EXCEPT ![c] = [Idle EXCEPT !.reply = "error"]] PROVE FALSE
    BY <2>2, <2>7, IdleTyped DEF Replies
  <2>8. CASE ReadBack(c)
    <3>1. Confirmed(task[c].op)
      BY <2>7, <2>8 DEF ReadBack, Reply
    <3>2. ASSUME task[c].op \in ContactOps PROVE cache'.contacts = companion.contacts
      <4>1. task[c].op \notin ChannelOps
        BY <3>2 DEF ContactOps, ChannelOps
      <4>2. cache' = [cache EXCEPT !.contacts = companion.contacts, !.contactsAt = changes]
        BY <2>8, <3>1, <3>2, <4>1 DEF ReadBack
      <4>3. QED
        BY <2>2, <4>2 DEF CacheRec
    <3>3. QED
      BY <2>2, <3>1, <3>2
  <2>9. CASE Write(c)
    <3>1. task[c].op.kind = "advert"
      BY <2>2, <2>9 DEF Write, TaskRec
    <3>2. Confirmed(task[c].op) /\ task[c].op \notin ContactOps
      BY <3>1 DEF Confirmed, ContactOps
    <3>3. QED
      BY <2>2, <3>2
  <2>10. CASE Begin(c) \/ ProbeMask(c)
    BY <2>2, <2>10 DEF Begin, ProbeMask, TaskRec
  <2>11. CASE ProbeSlot(c)
    <3>1. CASE companion.slots[task[c].op.on]
      BY <2>2, <2>11, <3>1 DEF ProbeSlot, TaskRec
    <3>2. CASE ~companion.slots[task[c].op.on]
      BY <2>7, <2>11, <3>2 DEF ProbeSlot, Reply
    <3>3. QED
      BY <3>1, <3>2
  <2>12. CASE Decline(c) \/ WriteFails(c) \/ ReadBackFails(c)
    BY <2>7, <2>12 DEF Decline, WriteFails, ReadBackFails, Reply
  <2>13. QED
    BY <2>6, <2>8, <2>9, <2>10, <2>11, <2>12 DEF Proceed, Fault
<1>2. QED
  BY <1>1, AlwaysOrderly, PTL DEF Spec, OkIsVerified
=============================================================================
