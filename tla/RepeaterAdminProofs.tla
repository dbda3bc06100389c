------------------------- MODULE RepeaterAdminProofs -------------------------
(***************************************************************************)
(* Proofs about RepeaterAdmin: for any number of requests and repeaters,   *)
(* any cooldowns and values, any number of repeated attempts that the      *)
(* setting allows, and any number of troubles and drawn tags.              *)
(*                                                                         *)
(* Sound is inductive, in parts that are proved one after the other: who   *)
(* stands in the queue of the operation lock (Serial), what belongs to a   *)
(* phase of a request (Shaped), what the journal knows (Trail), which uses *)
(* the cooldowns look back on (Cooled), what may be under way over the     *)
(* mesh (Sent), whose logins are (Loose), what the registers and replies   *)
(* say of the time a request has been at work (Witnessed) and which writes *)
(* may still be on their way (Late).                                       *)
(***************************************************************************)
EXTENDS RepeaterAdmin, DataFacts

Serial ==
  /\ IsInjective(lock)
  /\ ToSet(lock) = {r \in Requests : task[r].pc \in {"queued", "asking", "pausing"}}
  /\ \A r \in Requests : Busy(r) => Owns(r)

\* What an untouched request looks like.
Untouched(t) ==
  /\ t.step = 1 /\ t.attempt = 1 /\ t.mistook = 0 /\ t.started = Never /\ ~t.foreign

ShapedAs(r, t) ==
  /\ t.step \in DOMAIN Exchanges(plan[r].kind)
  /\ t.pc \in {"new", "queued"} => Untouched(t)
  /\ t.pc \in {"new", "queued", "asking", "pausing"} =>
       t.outcome = "none" /\ t.mistook < t.step
  /\ t.mistook <= t.step
  /\ Exchanges(plan[r].kind)[t.step] \notin Cli => t.attempt = 1
  /\ t.pc = "pausing" => t.attempt < Attempts(Exchanges(plan[r].kind)[t.step])
  /\ t.pc \in {"asking", "pausing"} => t.started # Never
  /\ t.outcome = "succeeded" /\ plan[r].kind \in Mutations => t.step = 3
  /\ t.pc = "recording" => t.outcome \in Outcomes
  /\ t.reply # "none" => t.pc = "done"

Shaped == \A r \in Requests : ShapedAs(r, task[r])

Trail ==
  \A r \in Requests :
    /\ task[r].pc \notin {"new", "done", "dead"} => journal[r] # "none"
    /\ task[r].started # Never => journal[r] # "none"
    /\ task[r].reply \in Outcomes => journal[r] = task[r].reply
    /\ task[r].outcome \in {"rejected", "limited"} =>
         task[r].started = Never \/ (Flagged # {} /\ task[r].step = 3)

Alive(r) == task[r].started # Never /\ ~task[r].past

\* Request r began that long after q.
Apart(q, r) ==
  /\ task[r].started >= task[q].started + GlobalCooldown
  /\ plan[q].peer = plan[r].peer => task[r].started >= task[q].started + PeerCooldown

Cooled ==
  /\ \A u \in uses : u.at <= clock
  /\ \A r \in Requests : Alive(r) =>
       [class |-> Class(plan[r].kind), peer |-> plan[r].peer, at |-> task[r].started] \in uses
  /\ \A q, r \in Requests :
       q # r /\ Alive(q) /\ Alive(r) /\ Class(plan[q].kind) = Class(plan[r].kind)
       => Apart(q, r) \/ Apart(r, q)

\* The packets that are under way, or were answered by a reply under way.
UnderWay == packets \cup {y.to : y \in replies}

Earlier(id, t) == id.step < t.step \/ (id.step = t.step /\ id.attempt <= t.attempt)

Sent ==
  /\ \A x \in UnderWay :
       /\ task[x.id.by].pc \notin {"new", "queued"} /\ task[x.id.by].started # Never
       /\ x.id.step \in DOMAIN Exchanges(plan[x.id.by].kind)
       /\ Earlier(x.id, task[x.id.by])
  /\ \A pk, qk \in packets : pk.id = qk.id => pk = qk
  /\ \A pk \in packets, y \in replies : pk.id # y.to.id
  /\ \A y, z \in replies : y.to.id = z.to.id => y = z

GivenUp(q) == task[q].pc = "dead" \/ task[q].outcome \in {"timed_out", "failed"}

\* A login to p was given up.
Unsure(p) == \E q \in Requests : plan[q].kind = "login" /\ plan[q].peer = p /\ GivenUp(q)

Loose ==
  \A x \in UnderWay :
    plan[x.id.by].kind = "login" => task[x.id.by].pc = "asking" \/ Unsure(PeerOf(x))

\* What the replies to a request at work, and the progress it made, say of the
\* values its register has had meanwhile.
Witnessed ==
  /\ \A r \in Requests :
       /\ Busy(r) => register[Place(r)] \in task[r].seen
       /\ Busy(r) /\ plan[r].kind = "configure" /\ task[r].step = 3 =>
            plan[r].value \in task[r].seen \/ task[r].mistook > 0
  /\ \A y \in replies :
       LET r == y.to.id.by
       IN  /\ VerbOf(y.to) = "query" => y.says \in Values
           /\ Busy(r) /\ VerbOf(y.to) = "set" /\ y.says = "OK" => plan[r].value \in task[r].seen
           /\ Busy(r) /\ VerbOf(y.to) \in {"get", "query"} /\ y.says \in Values =>
                y.says \in task[r].seen

Late ==
  \A pk \in packets :
    VerbOf(pk) = "set" /\ task[pk.id.by].step = 3 =>
      task[pk.id.by].writes > 1 \/ task[pk.id.by].mistook > 0

Sound ==
  /\ TypeOK /\ Serial /\ Shaped /\ Trail /\ Cooled /\ Sent /\ Loose /\ LoginAnswersOwn
  /\ Witnessed /\ VerifiedMeansHeld /\ Late

-----------------------------------------------------------------------------
(* Operations, exchanges and answers *)

\* What a kind of operation consists of.
LEMMA ExchangeFacts ==
  ASSUME NEW k \in Kinds
  PROVE  /\ DOMAIN Exchanges(k) = IF k \in Mutations THEN 1..3 ELSE 1..1
         /\ k = "configure" =>
              Exchanges(k)[1] = "get" /\ Exchanges(k)[2] = "set" /\ Exchanges(k)[3] = "get"
         /\ k = "update_acl" =>
              Exchanges(k)[1] = "query" /\ Exchanges(k)[2] = "set" /\ Exchanges(k)[3] = "query"
         /\ k = "read_config" => Exchanges(k)[1] = "get"
         /\ k = "read_acl" => Exchanges(k)[1] = "query"
         /\ k = "status" => Exchanges(k)[1] = "status"
         /\ k = "login" => Exchanges(k)[1] = "login"
<1>1. CASE k = "configure"
  BY <1>1 DEF Exchanges, Mutations
<1>2. CASE k = "update_acl"
  BY <1>2 DEF Exchanges, Mutations
<1>3. CASE k = "read_config"
  BY <1>3 DEF Exchanges, Mutations
<1>4. CASE k = "read_acl"
  BY <1>4 DEF Exchanges, Mutations
<1>5. CASE k = "status"
  BY <1>5 DEF Exchanges, Mutations
<1>6. CASE k = "login"
  BY <1>6 DEF Exchanges, Mutations
<1>7. QED
  BY <1>1, <1>2, <1>3, <1>4, <1>5, <1>6 DEF Kinds

\* The exchange at a step decides what the operation can be, and the other way
\* round.
LEMMA VerbFacts ==
  ASSUME NEW k \in Kinds, NEW i \in DOMAIN Exchanges(k)
  PROVE  /\ i \in 1..3
         /\ Exchanges(k)[i] = "set" <=> k \in Mutations /\ i = 2
         /\ Exchanges(k)[i] = "login" <=> k = "login"
         /\ Exchanges(k)[i] = "status" <=> k = "status"
         /\ Exchanges(k)[i] = "get" => k \in {"configure", "read_config"}
         /\ Exchanges(k)[i] = "query" => k \in {"update_acl", "read_acl"}
         /\ Exchanges(k)[i] \in {"get", "set", "query", "status", "login"}
         /\ k \in {"configure", "read_config"} => Exchanges(k)[i] \in Cli
<1>1. i \in 1..3 /\ (k \notin Mutations => i = 1)
  BY ExchangeFacts
<1>2. i = 1 \/ i = 2 \/ i = 3
  BY <1>1
<1> HIDE DEF Exchanges
<1>3. CASE k \in Mutations
  BY <1>1, <1>2, <1>3, ExchangeFacts DEF Mutations, Cli
<1>4. CASE k \notin Mutations
  BY <1>1, <1>4, ExchangeFacts DEF Mutations, Kinds, Cli
<1>5. QED
  BY <1>3, <1>4

\* bounded_attempts is one to three.
LEMMA AttemptsBounded ==
  ASSUME setting \in Int, NEW verb
  PROVE  Attempts(verb) \in 1..3 /\ (verb \notin Cli => Attempts(verb) = 1)
BY DEF Attempts

\* What an answer can lead to.
LEMMA AfterFacts ==
  ASSUME TypeOK, NEW r \in Requests, NEW says \in Says, ShapedAs(r, task[r])
  PROVE  /\ After(r, says) \in Outcomes \cup {"next"}
         /\ After(r, says) = "next" =>
              /\ plan[r].kind \in Mutations /\ task[r].step \in {1, 2}
              /\ task[r].step = 2 => says = "OK"
         /\ After(r, says) = "rejected" => Flagged # {} /\ task[r].step = 3
         /\ After(r, says) # "limited"
         /\ After(r, says) = "succeeded" /\ plan[r].kind \in Mutations =>
              task[r].step = 3 /\ says = plan[r].value
         /\ After(r, says) = "succeeded" /\ plan[r].kind = "read_config" => says \in Values
<1> DEFINE k == plan[r].kind
<1>1. k \in Kinds /\ task[r].step \in DOMAIN Exchanges(k)
  BY DEF TypeOK, Ops, ShapedAs
<1>2. task[r].step \in {1, 2, 3} /\ (k \notin Mutations => task[r].step = 1)
  BY <1>1, ExchangeFacts
<1> HIDE DEF k
<1>3. CASE k = "configure"
  BY <1>2, <1>3 DEF k, After, ConfigureAfter, Integer, Mutations, Outcomes
<1>4. CASE k = "update_acl"
  BY <1>2, <1>4 DEF k, After, AclUpdateAfter, Mutations, Outcomes
<1>5. CASE k = "read_config"
  BY <1>2, <1>5 DEF k, After, ConfigReadAfter, Integer, Mutations, Outcomes
<1>6. CASE k \in {"read_acl", "status", "login"}
  BY <1>2, <1>6 DEF k, After, AclReadAfter, StatusAfter, LoginAfter, Mutations, Outcomes
<1>7. QED
  BY <1>1, <1>3, <1>4, <1>5, <1>6 DEF k, Kinds

-----------------------------------------------------------------------------
(* What a step does to the request that takes it: its task becomes u. *)

Step(r, u) == u \in TaskRec /\ task' = [task EXCEPT ![r] = u]

\* All that neither waiting nor leaving changes.
Alike(t, u) ==
  /\ u.step = t.step /\ u.attempt = t.attempt /\ u.writes = t.writes /\ u.result = t.result
  /\ u.started = t.started /\ u.past = t.past /\ u.seen = t.seen /\ u.mistook = t.mistook
  /\ u.foreign = t.foreign

Joins(r, u) ==
  /\ Step(r, u) /\ Alike(task[r], u)
  /\ task[r].pc = "new" /\ u.pc = "queued"
  /\ u.outcome = task[r].outcome /\ u.reply = task[r].reply
  /\ lock' = Append(lock, r) /\ journal' = [journal EXCEPT ![r] = "requested"]
  /\ UNCHANGED <<plan, setting, uses, clock, packets, replies, register>>

Tells(r, u) ==
  /\ Step(r, u) /\ Alike(task[r], u)
  /\ task[r].pc = "recording" /\ u.pc = "done"
  /\ u.outcome = task[r].outcome /\ u.reply = task[r].outcome
  /\ journal' = [journal EXCEPT ![r] = task[r].outcome]
  /\ UNCHANGED <<plan, setting, lock, uses, clock, packets, replies, register>>

Errs(r, u) ==
  /\ Step(r, u) /\ Alike(task[r], u)
  /\ task[r].pc \in {"new", "recording"} /\ u.pc = "done"
  /\ u.outcome = task[r].outcome /\ u.reply = "error"
  /\ UNCHANGED <<plan, setting, lock, uses, clock, packets, replies, register, journal>>

Leaves(r, u) ==
  /\ Step(r, u) /\ Alike(task[r], u) /\ Owns(r)
  /\ task[r].pc \in {"queued", "asking"} /\ u.pc = "recording" /\ u.reply = task[r].reply
  /\ u.outcome \in {"failed", "rejected", "limited", "timed_out"}
  /\ task[r].pc = "asking" => u.outcome \in {"failed", "timed_out"}
  /\ lock' = Tail(lock) /\ packets' \subseteq packets
  /\ UNCHANGED <<plan, setting, uses, clock, replies, register, journal>>

Pauses(r, u) ==
  /\ Step(r, u) /\ Alike(task[r], u)
  /\ task[r].pc = "asking" /\ u.pc = "pausing" /\ task[r].attempt < Attempts(Verb(r))
  /\ u.outcome = task[r].outcome /\ u.reply = task[r].reply
  /\ UNCHANGED <<plan, setting, lock, uses, clock, packets, replies, register, journal>>

\* The packet x of request r, its task being u, leaves.
Posts(r, u, x) ==
  /\ u.pc = "asking" /\ x \in Packet
  /\ x.id = [by |-> r, step |-> u.step, attempt |-> u.attempt]
  /\ packets' = packets \cup {x}

Begins(r, u, x) ==
  /\ Step(r, u) /\ Posts(r, u, x) /\ Owns(r) /\ ~Cooling(plan[r])
  /\ task[r].pc = "queued"
  /\ u.step = task[r].step /\ u.attempt = task[r].attempt /\ u.writes = task[r].writes
  /\ u.outcome = task[r].outcome /\ u.reply = task[r].reply /\ u.result = task[r].result
  /\ u.past = task[r].past /\ u.mistook = task[r].mistook /\ u.foreign = task[r].foreign
  /\ u.started = clock /\ u.seen = {register[Place(r)]}
  /\ uses' = uses \cup {[class |-> Class(plan[r].kind), peer |-> plan[r].peer, at |-> clock]}
  /\ UNCHANGED <<plan, setting, lock, clock, replies, register, journal>>

\* The task becomes u on hearing y.
Hears(r, y, u) ==
  /\ Step(r, u) /\ task[r].pc = "asking" /\ y \in replies /\ Matches(r, y)
  /\ u.writes = (IF Verb(r) = "set" THEN task[r].attempt ELSE task[r].writes)
  /\ u.result = (IF Verb(r) = "set" THEN task[r].result ELSE y.says)
  /\ u.mistook = task[r].mistook
       + (IF y.to.id # Current(r) /\ y.to.tag = task[r].tag THEN 1 ELSE 0)
  /\ u.foreign = (task[r].foreign \/ y.to.id.by # r)
  /\ u.started = task[r].started /\ u.past = task[r].past /\ u.seen = task[r].seen
  /\ u.reply = task[r].reply
  /\ replies' = replies \ {y}
  /\ UNCHANGED <<plan, setting, uses, clock, register, journal>>

GoesOn(r, y, u, x) ==
  /\ Hears(r, y, u) /\ Posts(r, u, x) /\ After(r, y.says) = "next"
  /\ u.step = task[r].step + 1 /\ u.attempt = 1 /\ u.outcome = task[r].outcome
  /\ UNCHANGED lock

Ends(r, y, u) ==
  /\ Hears(r, y, u) /\ u.pc = "recording"
  /\ After(r, y.says) # "next" /\ u.outcome = After(r, y.says)
  /\ u.step = task[r].step /\ u.attempt = task[r].attempt
  /\ lock' = Tail(lock) /\ packets' = packets

Repeats(r, u, x) ==
  /\ Step(r, u) /\ Posts(r, u, x)
  /\ task[r].pc = "pausing" /\ u.attempt = task[r].attempt + 1
  /\ u.step = task[r].step /\ u.writes = task[r].writes /\ u.outcome = task[r].outcome
  /\ u.reply = task[r].reply /\ u.result = task[r].result /\ u.started = task[r].started
  /\ u.past = task[r].past /\ u.seen = task[r].seen /\ u.mistook = task[r].mistook
  /\ u.foreign = task[r].foreign
  /\ UNCHANGED <<plan, setting, lock, uses, clock, replies, register, journal>>

\* One of the steps of a request.
Advances(r) ==
  \/ \E u \in TaskRec : Joins(r, u) \/ Tells(r, u) \/ Errs(r, u) \/ Leaves(r, u) \/ Pauses(r, u)
  \/ \E u \in TaskRec, x \in Packet : Begins(r, u, x) \/ Repeats(r, u, x)
  \/ \E u \in TaskRec, y \in replies, x \in Packet : GoesOn(r, y, u, x)
  \/ \E u \in TaskRec, y \in replies : Ends(r, y, u)

\* A packet of r is answered.
Responds(pk, says) ==
  /\ pk \in packets /\ packets' = packets \ {pk} /\ says \in Says
  /\ replies' = replies \cup {[to |-> pk, says |-> says]}
  /\ UNCHANGED <<plan, setting, lock, uses, clock, journal>>

\* A request's packet is typed, and its task becomes "asking".
LEMMA SendPosts ==
  ASSUME TypeOK, NEW r \in Requests, NEW t \in TaskRec, Send(r, t)
  PROVE  \E tag \in Ids, x \in Packet :
           /\ Step(r, [t EXCEPT !.pc = "asking", !.tag = tag])
           /\ Posts(r, [t EXCEPT !.pc = "asking", !.tag = tag], x)
           /\ collided' \in Nat
<1> DEFINE id == [by |-> r, step |-> t.step, attempt |-> t.attempt]
           V == Exchanges(plan[r].kind)[t.step]
<1>1. id \in Ids
  BY DEF TaskRec, Ids
<1>2. PICK tag \in (IF V \in Cli THEN Tags(r, id) ELSE {id}) :
        /\ task' = [task EXCEPT ![r] = [t EXCEPT !.pc = "asking", !.tag = tag]]
        /\ packets' = packets \cup {[id |-> id, tag |-> tag]}
        /\ collided' = collided + (IF tag = id THEN 0 ELSE 1)
  BY DEF Send
<1>3. tag \in Ids
  <2>1. \A q \in packets \cup {y.to : y \in replies} : q.tag \in Ids
    BY DEF TypeOK, Packet
  <2>2. Tags(r, id) \subseteq {id} \cup {q.tag : q \in packets \cup {y.to : y \in replies}}
    BY DEF Tags
  <2>3. QED
    BY <1>1, <1>2, <2>1, <2>2
<1> DEFINE u == [t EXCEPT !.pc = "asking", !.tag = tag]
           x == [id |-> id, tag |-> tag]
<1>4. u \in TaskRec /\ u.pc = "asking" /\ u.step = t.step /\ u.attempt = t.attempt
  BY <1>3 DEF TaskRec
<1>5. x \in Packet /\ x.id = id
  BY <1>1, <1>3 DEF Packet
<1>6. collided' \in Nat
  BY <1>2 DEF TypeOK
<1> HIDE DEF V
<1>7. Step(r, u)
  BY <1>2, <1>4 DEF Step
<1>8. Posts(r, u, x)
  BY <1>2, <1>4, <1>5 DEF Posts
<1>9. QED
  BY <1>3, <1>5, <1>6, <1>7, <1>8

\* What Conclude makes of a task.
LEMMA ConcludeLeaves ==
  ASSUME TypeOK, NEW r \in Requests, NEW t \in TaskRec, NEW outcome \in Outcomes,
         Conclude(r, t, outcome)
  PROVE  \E tag \in Ids :
           /\ Step(r, [t EXCEPT !.pc = "recording", !.outcome = outcome, !.tag = tag])
           /\ lock' = Tail(lock) /\ packets' = packets /\ collided' = collided
<1> DEFINE u == [t EXCEPT !.pc = "recording", !.outcome = outcome, !.tag = Fresh(r)]
<1>1. Fresh(r) \in Ids
  BY DEF Fresh, Ids
<1>2. u \in TaskRec
  BY <1>1 DEF TaskRec
<1>3. Step(r, u)
  BY <1>2 DEF Conclude, Step
<1>4. QED
  BY <1>1, <1>3 DEF Conclude

\* What hearing a reply makes of a task.
LEMMA HeardTask ==
  ASSUME TypeOK, NEW r \in Requests, ShapedAs(r, task[r]), task[r].pc = "asking",
         NEW y \in replies
  PROVE  /\ Heard(r, y) \in TaskRec
         /\ Heard(r, y).writes = (IF Verb(r) = "set" THEN task[r].attempt ELSE task[r].writes)
         /\ Heard(r, y).result = (IF Verb(r) = "set" THEN task[r].result ELSE y.says)
         /\ Heard(r, y).mistook = task[r].mistook
              + (IF y.to.id # Current(r) /\ y.to.tag = task[r].tag THEN 1 ELSE 0)
         /\ Heard(r, y).foreign = (task[r].foreign \/ y.to.id.by # r)
         /\ Heard(r, y).started = task[r].started /\ Heard(r, y).past = task[r].past
         /\ Heard(r, y).seen = task[r].seen /\ Heard(r, y).reply = task[r].reply
         /\ Heard(r, y).step = task[r].step /\ Heard(r, y).attempt = task[r].attempt
         /\ Heard(r, y).outcome = task[r].outcome
<1> DEFINE w == IF Verb(r) = "set" THEN task[r].attempt ELSE task[r].writes
           s == IF Verb(r) = "set" THEN task[r].result ELSE y.says
           n == task[r].mistook
                  + (IF y.to.id # Current(r) /\ y.to.tag = task[r].tag THEN 1 ELSE 0)
           f == task[r].foreign \/ y.to.id.by # r
<1>1. task[r] \in TaskRec /\ y.says \in Says
  BY DEF TypeOK
<1>2. w \in 0..3
  BY <1>1 DEF TaskRec
<1>3. s \in Says \cup {"none"}
  BY <1>1 DEF TaskRec
<1>4. n \in 0..3
  BY <1>1 DEF TaskRec, ShapedAs
<1>5. f \in BOOLEAN
  BY <1>1 DEF TaskRec
<1>6. Heard(r, y) = [task[r] EXCEPT !.writes = w, !.result = s, !.mistook = n, !.foreign = f]
  BY DEF Heard
<1> HIDE DEF w, s, n, f
<1>7. /\ Heard(r, y) \in TaskRec
      /\ Heard(r, y).writes = w /\ Heard(r, y).result = s /\ Heard(r, y).mistook = n
      /\ Heard(r, y).foreign = f
      /\ Heard(r, y).started = task[r].started /\ Heard(r, y).past = task[r].past
      /\ Heard(r, y).seen = task[r].seen /\ Heard(r, y).reply = task[r].reply
      /\ Heard(r, y).step = task[r].step /\ Heard(r, y).attempt = task[r].attempt
      /\ Heard(r, y).outcome = task[r].outcome
  BY <1>1, <1>2, <1>3, <1>4, <1>5, <1>6 DEF TaskRec
<1>8. QED
  BY <1>7 DEF w, s, n, f

\* Every step of a request is one of these.
LEMMA RequestSteps ==
  ASSUME TypeOK, Serial, Shaped, NEW r \in Requests, Arrive(r) \/ Proceed(r)
  PROVE  Advances(r) /\ troubles' \in Nat /\ collided' \in Nat
<1> DEFINE t == task[r]
<1>1. /\ t \in TaskRec /\ ShapedAs(r, t) /\ task \in [Requests -> TaskRec]
      /\ troubles \in Nat /\ collided \in Nat
  BY DEF TypeOK, Shaped
<1>2. t.pc = "asking" => Owns(r)
  BY DEF Serial, Busy
<1>3. t.step \in 1..3 /\ t.attempt \in 1..3 /\ Fresh(r) \in Ids
  BY <1>1 DEF TaskRec, Fresh, Ids
<1>4. Attempts(Verb(r)) \in 1..3
  BY AttemptsBounded DEF TypeOK
<1>5. CASE Arrive(r)
  <2> DEFINE u == [t EXCEPT !.pc = "queued"]
  <2>1. u \in TaskRec /\ u.pc = "queued" /\ u.outcome = t.outcome /\ u.reply = t.reply /\ Alike(t, u)
    BY <1>1 DEF TaskRec, Alike
  <2>2. task' = [task EXCEPT ![r] = u]
    BY <1>5 DEF Arrive
  <2> HIDE DEF u
  <2>3. Joins(r, u)
    BY <1>5, <2>1, <2>2 DEF Arrive, Joins, Step
  <2>4. QED
    BY <1>1, <1>5, <2>1, <2>3 DEF Arrive, Advances
<1>6. CASE Record(r)
  <2> DEFINE u == [t EXCEPT !.pc = "done", !.reply = t.outcome]
  <2>1. t.outcome \in Outcomes
    BY <1>1, <1>6 DEF ShapedAs, Record
  <2>2. u \in TaskRec /\ u.pc = "done" /\ u.outcome = t.outcome /\ u.reply = t.outcome /\ Alike(t, u)
    BY <1>1, <2>1 DEF TaskRec, Alike
  <2>3. task' = [task EXCEPT ![r] = u]
    BY <1>6 DEF Record
  <2> HIDE DEF u
  <2>4. Tells(r, u)
    BY <1>6, <2>2, <2>3 DEF Record, Tells, Step
  <2>5. QED
    BY <1>1, <1>6, <2>2, <2>4 DEF Record, Advances
<1>7. CASE RecordFails(r)
  <2> DEFINE u == [t EXCEPT !.pc = "done", !.reply = "error"]
  <2>1. u \in TaskRec /\ u.pc = "done" /\ u.outcome = t.outcome /\ u.reply = "error" /\ Alike(t, u)
    BY <1>1 DEF TaskRec, Alike
  <2>2. task' = [task EXCEPT ![r] = u]
    BY <1>7 DEF RecordFails
  <2> HIDE DEF u
  <2>3. Errs(r, u)
    BY <1>7, <2>1, <2>2 DEF RecordFails, Errs, Step
  <2>4. QED
    BY <1>1, <1>7, <2>1, <2>3 DEF RecordFails, Trouble, Advances
<1>8. ASSUME NEW outcome \in {"failed", "rejected", "limited", "timed_out"},
             Conclude(r, t, outcome), Owns(r), t.pc \in {"queued", "asking"},
             t.pc = "asking" => outcome \in {"failed", "timed_out"},
             UNCHANGED <<plan, setting, uses, clock, replies, register, journal, troubles>>
      PROVE  Advances(r) /\ troubles' \in Nat /\ collided' \in Nat
  <2>1. outcome \in Outcomes
    BY DEF Outcomes
  <2>2. PICK tag \in Ids :
          /\ Step(r, [t EXCEPT !.pc = "recording", !.outcome = outcome, !.tag = tag])
          /\ lock' = Tail(lock) /\ packets' = packets /\ collided' = collided
    BY <1>1, <1>8, <2>1, ConcludeLeaves
  <2> DEFINE u == [t EXCEPT !.pc = "recording", !.outcome = outcome, !.tag = tag]
  <2>3. u \in TaskRec /\ u.pc = "recording" /\ u.outcome = outcome /\ u.reply = t.reply /\ Alike(t, u)
    BY <1>1, <2>1 DEF TaskRec, Alike
  <2>4. Step(r, u)
    BY <2>2
  <2> HIDE DEF u
  <2>5. Leaves(r, u)
    BY <1>8, <2>2, <2>3, <2>4 DEF Leaves
  <2>6. QED
    BY <1>1, <1>8, <2>2, <2>3, <2>5 DEF Advances
<1>9. CASE Decline(r)
  <2>1. PICK outcome \in {"failed", "rejected"} \cup (IF Cooling(plan[r]) THEN {"limited"} ELSE {}) :
          Conclude(r, t, outcome)
    BY <1>9 DEF Decline
  <2>2. outcome \in {"failed", "rejected", "limited", "timed_out"}
    BY <2>1
  <2>3. QED
    BY <1>8, <1>9, <2>1, <2>2 DEF Decline
<1>10. CASE Begin(r)
  <2> DEFINE b == [t EXCEPT !.started = clock, !.seen = {register[Place(r)]}]
  <2>1. clock \in Int /\ register[Place(r)] \in Values
    <3>1. plan[r] \in Ops /\ plan[r].peer \in Peers
      BY DEF TypeOK, Ops
    <3>2. Place(r) \in Peers \X {"interval", "permission"}
      BY <3>1 DEF Place
    <3>3. QED
      BY <3>2 DEF TypeOK
  <2>2. b \in TaskRec
    BY <1>1, <2>1 DEF TaskRec
  <2>3. PICK tag \in Ids, x \in Packet :
          /\ Step(r, [b EXCEPT !.pc = "asking", !.tag = tag])
          /\ Posts(r, [b EXCEPT !.pc = "asking", !.tag = tag], x)
          /\ collided' \in Nat
    BY <1>10, <2>2, SendPosts DEF Begin
  <2> DEFINE u == [b EXCEPT !.pc = "asking", !.tag = tag]
  <2>4. /\ u \in TaskRec /\ u.step = t.step /\ u.attempt = t.attempt /\ u.writes = t.writes
        /\ u.outcome = t.outcome /\ u.reply = t.reply /\ u.result = t.result /\ u.past = t.past
        /\ u.mistook = t.mistook /\ u.foreign = t.foreign /\ u.started = clock
        /\ u.seen = {register[Place(r)]}
    BY <1>1, <2>1 DEF TaskRec
  <2>5. Step(r, u) /\ Posts(r, u, x)
    BY <2>3
  <2> HIDE DEF u
  <2>6. Begins(r, u, x)
    BY <1>10, <2>4, <2>5 DEF Begin, Begins
  <2>7. QED
    BY <1>1, <1>10, <2>3, <2>4, <2>6 DEF Begin, Advances
<1>11. CASE Answers(r)
  <2>1. PICK y \in replies : Answered(r, y)
    BY <1>11 DEF Answers
  <2> DEFINE h == Heard(r, y)
  <2>2. /\ h \in TaskRec
        /\ h.writes = (IF Verb(r) = "set" THEN t.attempt ELSE t.writes)
        /\ h.result = (IF Verb(r) = "set" THEN t.result ELSE y.says)
        /\ h.mistook = t.mistook
             + (IF y.to.id # Current(r) /\ y.to.tag = task[r].tag THEN 1 ELSE 0)
        /\ h.foreign = (t.foreign \/ y.to.id.by # r)
        /\ h.started = t.started /\ h.past = t.past
        /\ h.seen = t.seen /\ h.reply = t.reply
        /\ h.step = t.step /\ h.attempt = t.attempt /\ h.outcome = t.outcome
    BY <1>1, <2>1, HeardTask DEF Answered
  <2>3. y.says \in Says
    BY DEF TypeOK
  <2>4. /\ After(r, y.says) \in Outcomes \cup {"next"}
        /\ After(r, y.says) = "next" => t.step \in {1, 2}
    BY <1>1, <2>3, AfterFacts
  <2>5. /\ t.pc = "asking" /\ Matches(r, y) /\ replies' = replies \ {y}
        /\ UNCHANGED <<plan, setting, uses, clock, register, journal, troubles>>
    BY <2>1 DEF Answered
  <2>6. ASSUME After(r, y.says) = "next"
        PROVE  Advances(r) /\ collided' \in Nat
    <3> DEFINE b == [h EXCEPT !.step = @ + 1, !.attempt = 1]
    <3>1. h.step + 1 \in 1..3 /\ 1 \in 1..3
      BY <2>2, <2>4, <2>6
    <3>2. Send(r, b) /\ UNCHANGED lock
      BY <2>1, <2>6 DEF Answered
    <3> HIDE DEF h
    <3>3. /\ b \in TaskRec /\ b.step = h.step + 1 /\ b.attempt = 1 /\ b.writes = h.writes
          /\ b.outcome = h.outcome /\ b.reply = h.reply /\ b.result = h.result
          /\ b.past = h.past /\ b.mistook = h.mistook /\ b.foreign = h.foreign
          /\ b.started = h.started /\ b.seen = h.seen
      BY <2>2, <3>1 DEF TaskRec
    <3> HIDE DEF b
    <3>4. PICK tag \in Ids, x \in Packet :
          /\ Step(r, [b EXCEPT !.pc = "asking", !.tag = tag])
          /\ Posts(r, [b EXCEPT !.pc = "asking", !.tag = tag], x)
          /\ collided' \in Nat
      BY <3>2, <3>3, SendPosts
    <3> DEFINE u == [b EXCEPT !.pc = "asking", !.tag = tag]
    <3>5. /\ u \in TaskRec /\ u.step = b.step /\ u.attempt = b.attempt /\ u.writes = b.writes
          /\ u.outcome = b.outcome /\ u.reply = b.reply /\ u.result = b.result
          /\ u.past = b.past /\ u.mistook = b.mistook /\ u.foreign = b.foreign
          /\ u.started = b.started /\ u.seen = b.seen
      BY <3>3 DEF TaskRec
    <3>6. Step(r, u) /\ Posts(r, u, x)
      BY <3>4
    <3> HIDE DEF u
    <3>7. Hears(r, y, u)
      BY <2>2, <2>5, <3>3, <3>5, <3>6 DEF Hears
    <3>8. GoesOn(r, y, u, x)
      BY <2>2, <2>6, <3>2, <3>3, <3>5, <3>6, <3>7 DEF GoesOn
    <3>9. QED
      BY <3>4, <3>5, <3>8 DEF Advances
  <2>7. ASSUME After(r, y.says) # "next"
        PROVE  Advances(r) /\ collided' \in Nat
    <3> DEFINE o == After(r, y.says)
    <3>1. o \in Outcomes
      BY <2>4, <2>7
    <3>2. Conclude(r, h, o)
      BY <2>1, <2>7 DEF Answered
    <3> HIDE DEF o, h
    <3>3. PICK tag \in Ids :
          /\ Step(r, [h EXCEPT !.pc = "recording", !.outcome = o, !.tag = tag])
          /\ lock' = Tail(lock) /\ packets' = packets /\ collided' = collided
      BY <2>2, <3>1, <3>2, ConcludeLeaves
    <3> DEFINE u == [h EXCEPT !.pc = "recording", !.outcome = o, !.tag = tag]
    <3>4. /\ u \in TaskRec /\ u.step = h.step /\ u.attempt = h.attempt /\ u.writes = h.writes
          /\ u.outcome = o /\ u.reply = h.reply /\ u.result = h.result
          /\ u.past = h.past /\ u.mistook = h.mistook /\ u.foreign = h.foreign
          /\ u.started = h.started /\ u.seen = h.seen /\ u.pc = "recording"
      BY <2>2, <3>1 DEF TaskRec
    <3>5. Step(r, u)
      BY <3>3
    <3> HIDE DEF u
    <3>6. Hears(r, y, u)
      BY <2>2, <2>5, <3>4, <3>5 DEF Hears
    <3>7. Ends(r, y, u)
      BY <2>2, <2>7, <3>3, <3>4, <3>6 DEF Ends, o
    <3>8. QED
      BY <1>1, <3>3, <3>4, <3>7 DEF Advances
  <2>8. QED
    BY <1>1, <2>5, <2>6, <2>7
<1>12. CASE TimeOut(r)
  <2>1. CASE t.attempt < Attempts(Verb(r))
    <3> DEFINE u == [t EXCEPT !.pc = "pausing", !.tag = Fresh(r)]
    <3>1. /\ u \in TaskRec /\ u.pc = "pausing" /\ u.outcome = t.outcome /\ u.reply = t.reply
          /\ Alike(t, u)
      BY <1>1, <1>3 DEF TaskRec, Alike
    <3>2. task' = [task EXCEPT ![r] = u]
      BY <1>12, <2>1 DEF TimeOut
    <3> HIDE DEF u
    <3>3. Pauses(r, u)
      BY <1>12, <2>1, <3>1, <3>2 DEF TimeOut, Pauses, Step
    <3>4. QED
      BY <1>1, <1>12, <2>1, <3>1, <3>3 DEF TimeOut, Advances
  <2>2. CASE ~ (t.attempt < Attempts(Verb(r)))
    BY <1>2, <1>8, <1>12, <2>2 DEF TimeOut
  <2>3. QED
    BY <2>1, <2>2
<1>13. CASE Retry(r)
  <2> DEFINE b == [t EXCEPT !.attempt = @ + 1]
  <2>1. t.attempt + 1 \in 1..3
    BY <1>1, <1>3, <1>4, <1>13 DEF Retry, ShapedAs, Verb
  <2>2. b \in TaskRec
    BY <1>1, <2>1 DEF TaskRec
  <2>3. PICK tag \in Ids, x \in Packet :
          /\ Step(r, [b EXCEPT !.pc = "asking", !.tag = tag])
          /\ Posts(r, [b EXCEPT !.pc = "asking", !.tag = tag], x)
          /\ collided' \in Nat
    BY <1>13, <2>2, SendPosts DEF Retry
  <2> DEFINE u == [b EXCEPT !.pc = "asking", !.tag = tag]
  <2>4. /\ u \in TaskRec /\ u.step = t.step /\ u.attempt = t.attempt + 1 /\ u.writes = t.writes
        /\ u.outcome = t.outcome /\ u.reply = t.reply /\ u.result = t.result /\ u.past = t.past
        /\ u.mistook = t.mistook /\ u.foreign = t.foreign /\ u.started = t.started
        /\ u.seen = t.seen
    BY <1>1, <2>1 DEF TaskRec
  <2>5. Step(r, u) /\ Posts(r, u, x)
    BY <2>3
  <2> HIDE DEF u
  <2>6. Repeats(r, u, x)
    BY <1>13, <2>4, <2>5 DEF Retry, Repeats
  <2>7. QED
    BY <1>1, <1>13, <2>3, <2>4, <2>6 DEF Retry, Advances
<1>14. CASE CommandFails(r)
  <2> DEFINE u == [t EXCEPT !.pc = "recording", !.outcome = "failed", !.tag = Fresh(r)]
  <2>1. /\ u \in TaskRec /\ u.pc = "recording" /\ u.outcome = "failed" /\ u.reply = t.reply
        /\ Alike(t, u)
    BY <1>1, <1>3 DEF TaskRec, Alike, Outcomes
  <2>2. task' = [task EXCEPT ![r] = u]
    BY <1>14 DEF CommandFails
  <2> HIDE DEF u
  <2>3. packets' \subseteq packets
    BY <1>14 DEF CommandFails
  <2>4. Leaves(r, u)
    BY <1>2, <1>14, <2>1, <2>2, <2>3 DEF CommandFails, Leaves, Step
  <2>5. QED
    BY <1>1, <1>14, <2>1, <2>4 DEF CommandFails, Trouble, Advances
<1>15. QED
  BY <1>5, <1>6, <1>7, <1>9, <1>10, <1>11, <1>12, <1>13, <1>14 DEF Proceed

-----------------------------------------------------------------------------
(* What the steps of the repeaters and of the daemon's end do *)

\* The tasks go on as they were, but for what they have seen.
SeesMore ==
  /\ task' \in [Requests -> TaskRec] /\ register' \in [Peers \X {"interval", "permission"} -> Values]
  /\ \A q \in Requests :
       /\ Alike([task[q] EXCEPT !.seen = task'[q].seen], task'[q])
       /\ task'[q].pc = task[q].pc /\ task'[q].outcome = task[q].outcome
       /\ task'[q].reply = task[q].reply
       /\ task'[q].seen =
            IF Busy(q) THEN task[q].seen \cup {register'[Place(q)]} ELSE task[q].seen

Writes(pk) ==
  /\ VerbOf(pk) = "set" /\ Responds(pk, "OK")
  /\ register' = [register EXCEPT ![Place(pk.id.by)] = plan[pk.id.by].value]
  /\ SeesMore

Reports(pk, says) ==
  /\ Responds(pk, says)
  /\ \/ VerbOf(pk) \in {"get", "query"} /\ says = register[Place(pk.id.by)]
     \/ VerbOf(pk) \in {"status", "login"}
     \/ VerbOf(pk) \in Cli /\ says = "refused"
  /\ UNCHANGED <<register, task>>

\* A register has a new value that no request asked for.
Changes ==
  /\ SeesMore
  /\ UNCHANGED <<plan, setting, lock, uses, clock, packets, replies, journal>>

Dies(q, u) ==
  /\ Alike([task[q] EXCEPT !.past = u.past], u)
  /\ task[q].past => u.past
  /\ task[q].started # Never => u.past
  /\ u.outcome = task[q].outcome /\ u.reply = task[q].reply
  /\ u.pc = IF task[q].pc \in {"new", "done"} THEN task[q].pc ELSE "dead"

Restarts ==
  /\ task' \in [Requests -> TaskRec] /\ \A q \in Requests : Dies(q, task'[q])
  /\ lock' = << >> /\ uses' = {}
  /\ UNCHANGED <<plan, setting, clock, packets, replies, register, journal>>

Passes ==
  /\ clock' = clock + 1
  /\ UNCHANGED <<plan, setting, task, lock, uses, packets, replies, register, journal>>

LEMMA PlaceTyped ==
  ASSUME TypeOK, NEW r \in Requests
  PROVE  /\ plan[r] \in Ops /\ plan[r].kind \in Kinds /\ plan[r].peer \in Peers
         /\ plan[r].value \in Values
         /\ Place(r) \in Peers \X {"interval", "permission"}
<1>1. plan[r] \in Ops
  BY DEF TypeOK
<1>2. plan[r].kind \in Kinds /\ plan[r].peer \in Peers /\ plan[r].value \in Values
  BY <1>1 DEF Ops
<1>3. Place(r) \in Peers \X {"interval", "permission"}
  BY <1>2 DEF Place
<1>4. QED
  BY <1>1, <1>2, <1>3

LEMMA BecomesSeen ==
  ASSUME TypeOK, NEW new \in [Peers \X {"interval", "permission"} -> Values], Becomes(new)
  PROVE  SeesMore
<1> DEFINE See(q) == [task[q] EXCEPT !.seen = @ \cup {new[Place(q)]}]
<1>1. /\ register' = new
      /\ task' = [r \in Requests |-> IF Busy(r) THEN See(r) ELSE task[r]]
  BY DEF Becomes
<1>2. ASSUME NEW q \in Requests
      PROVE  /\ See(q) \in TaskRec /\ task[q] \in TaskRec
             /\ See(q).pc = task[q].pc /\ See(q).outcome = task[q].outcome
             /\ See(q).reply = task[q].reply
             /\ See(q).seen = task[q].seen \cup {new[Place(q)]}
             /\ Alike([task[q] EXCEPT !.seen = See(q).seen], See(q))
             /\ Alike([task[q] EXCEPT !.seen = task[q].seen], task[q])
  <2>1. task[q] \in TaskRec /\ new[Place(q)] \in Values
    BY PlaceTyped DEF TypeOK
  <2> DEFINE v == new[Place(q)]
  <2> HIDE DEF v
  <2>2. See(q) = [task[q] EXCEPT !.seen = @ \cup {v}] /\ v \in Values
    BY <2>1 DEF v
  <2> HIDE DEF See
  <2>3. /\ See(q) \in TaskRec
        /\ See(q).pc = task[q].pc /\ See(q).outcome = task[q].outcome
        /\ See(q).reply = task[q].reply /\ See(q).seen = task[q].seen \cup {v}
    BY <2>1, <2>2 DEF TaskRec
  <2>4. Alike([task[q] EXCEPT !.seen = See(q).seen], See(q))
    BY <2>1, <2>2 DEF TaskRec, Alike
  <2>5. Alike([task[q] EXCEPT !.seen = task[q].seen], task[q])
    BY <2>1 DEF TaskRec, Alike
  <2>6. QED
    BY <2>1, <2>3, <2>4, <2>5 DEF v
<1> HIDE DEF See
<1>3. task' \in [Requests -> TaskRec]
  BY <1>1, <1>2
<1>4. \A q \in Requests : task'[q] = IF Busy(q) THEN See(q) ELSE task[q]
  BY <1>1
<1>5. \A q \in Requests :
        /\ task'[q].pc = task[q].pc /\ task'[q].outcome = task[q].outcome
        /\ task'[q].reply = task[q].reply
        /\ task'[q].seen = IF Busy(q) THEN task[q].seen \cup {new[Place(q)]} ELSE task[q].seen
  BY <1>2, <1>4
<1>6. \A q \in Requests : Alike([task[q] EXCEPT !.seen = task'[q].seen], task'[q])
  BY <1>2, <1>4
<1>7. QED
  BY <1>1, <1>3, <1>5, <1>6 DEF SeesMore

LEMMA ExecuteSteps ==
  ASSUME TypeOK, NEW pk \in packets, Execute(pk)
  PROVE  /\ Writes(pk) \/ \E says \in Says : Reports(pk, says)
         /\ troubles' \in Nat /\ collided' \in Nat
<1> DEFINE r == pk.id.by
<1>1. r \in Requests /\ troubles \in Nat /\ collided \in Nat
  BY DEF TypeOK, Packet, Ids
<1>2. /\ plan[r].value \in Values /\ Place(r) \in Peers \X {"interval", "permission"}
      /\ register \in [Peers \X {"interval", "permission"} -> Values]
  BY <1>1, PlaceTyped DEF TypeOK
<1>3. /\ packets' = packets \ {pk}
      /\ UNCHANGED <<plan, setting, lock, uses, clock, journal, collided>>
  BY DEF Execute
<1>4. CASE /\ VerbOf(pk) = "set"
           /\ UNCHANGED troubles
           /\ Becomes([register EXCEPT ![Place(r)] = plan[r].value])
           /\ Respond(pk, "OK")
  <2> DEFINE new == [register EXCEPT ![Place(r)] = plan[r].value]
  <2>1. new \in [Peers \X {"interval", "permission"} -> Values]
    BY <1>2
  <2>2. register' = new
    BY <1>4 DEF Becomes
  <2> HIDE DEF new
  <2>3. SeesMore
    BY <1>4, <2>1, BecomesSeen DEF new
  <2>4. Responds(pk, "OK")
    BY <1>3, <1>4 DEF Responds, Respond, Says
  <2>5. Writes(pk)
    BY <1>4, <2>2, <2>3, <2>4 DEF Writes, new
  <2>6. QED
    BY <1>1, <1>3, <1>4, <2>5
<1>5. ASSUME NEW says \in Says, Respond(pk, says), UNCHANGED <<register, task>>,
             \/ VerbOf(pk) \in {"get", "query"} /\ says = register[Place(r)]
             \/ VerbOf(pk) \in {"status", "login"}
             \/ VerbOf(pk) \in Cli /\ says = "refused"
      PROVE  Reports(pk, says)
  BY <1>3, <1>5 DEF Reports, Responds, Respond
<1>6. CASE /\ VerbOf(pk) \in {"get", "query"}
           /\ Respond(pk, register[Place(r)])
           /\ UNCHANGED <<register, task, troubles>>
  <2>1. register[Place(r)] \in Says
    BY <1>2 DEF Says
  <2>2. QED
    BY <1>1, <1>3, <1>5, <1>6, <2>1
<1>7. CASE /\ VerbOf(pk) = "status"
           /\ Respond(pk, "report")
           /\ UNCHANGED <<register, task, troubles>>
  <2>1. "report" \in Says
    BY DEF Says
  <2>2. QED
    BY <1>1, <1>3, <1>5, <1>7, <2>1
<1>8. CASE /\ VerbOf(pk) = "login"
           /\ \E says \in {"granted", "refused"} : Respond(pk, says)
           /\ UNCHANGED <<register, task, troubles>>
  <2>1. "granted" \in Says /\ "refused" \in Says
    BY DEF Says
  <2>2. QED
    BY <1>1, <1>3, <1>5, <1>8, <2>1
<1>9. CASE /\ VerbOf(pk) \in Cli
           /\ Trouble
           /\ Respond(pk, "refused")
           /\ UNCHANGED <<register, task>>
  <2>1. "refused" \in Says /\ troubles' \in Nat
    BY <1>1, <1>9 DEF Says, Trouble
  <2>2. QED
    BY <1>1, <1>3, <1>5, <1>9, <2>1
<1>10. QED
  BY <1>4, <1>6, <1>7, <1>8, <1>9 DEF Execute

LEMMA OtherSteps ==
  ASSUME TypeOK, Restart \/ Tick \/ \E p \in Peers, v \in Values : OtherAdmin(p, v)
  PROVE  (Changes \/ Restarts \/ Passes) /\ troubles' \in Nat /\ collided' \in Nat
<1>1. troubles \in Nat /\ collided \in Nat /\ task \in [Requests -> TaskRec]
  BY DEF TypeOK
<1>2. CASE \E p \in Peers, v \in Values : OtherAdmin(p, v)
  <2>1. PICK p \in Peers, v \in Values : OtherAdmin(p, v)
    BY <1>2
  <2>2. PICK r \in Requests : Becomes([register EXCEPT ![Place(r)] = v])
    BY <2>1 DEF OtherAdmin
  <2>3. [register EXCEPT ![Place(r)] = v] \in [Peers \X {"interval", "permission"} -> Values]
    BY DEF TypeOK
  <2>4. SeesMore
    BY <2>2, <2>3, BecomesSeen
  <2>5. QED
    BY <1>1, <2>1, <2>4 DEF OtherAdmin, Trouble, Changes
<1>3. CASE Restart
  <2>1. ASSUME NEW q \in Requests
        PROVE  task'[q] \in TaskRec /\ Dies(q, task'[q])
    <3> DEFINE t == task[q]
               k == t.past \/ t.started # Never
    <3>1. t \in TaskRec /\ Fresh(q) \in Ids
      BY <1>1 DEF Fresh, Ids
    <3>2. CASE t.pc \in {"new", "done", "dead"}
      <4>1. task'[q] = [t EXCEPT !.past = k]
        BY <1>1, <1>3, <3>2 DEF Restart
      <4>2. k \in BOOLEAN
        BY <3>1 DEF TaskRec
      <4>3. (t.past => k) /\ (t.started # Never => k)
        OBVIOUS
      <4> HIDE DEF k, t
      <4>4. [t EXCEPT !.past = k] \in TaskRec
        BY <3>1, <4>2 DEF TaskRec
      <4>5. Dies(q, [t EXCEPT !.past = k])
        BY <3>1, <3>2, <4>2, <4>3 DEF TaskRec, Dies, Alike, t
      <4>6. QED
        BY <4>1, <4>4, <4>5
    <3>3. CASE t.pc \notin {"new", "done", "dead"}
      <4>1. task'[q] = [t EXCEPT !.pc = "dead", !.tag = Fresh(q), !.past = TRUE]
        BY <1>1, <1>3, <3>3 DEF Restart
      <4> HIDE DEF t
      <4>2. [t EXCEPT !.pc = "dead", !.tag = Fresh(q), !.past = TRUE] \in TaskRec
        BY <3>1 DEF TaskRec
      <4>3. Dies(q, [t EXCEPT !.pc = "dead", !.tag = Fresh(q), !.past = TRUE])
        BY <3>1, <3>3 DEF TaskRec, Dies, Alike, t
      <4>4. QED
        BY <4>1, <4>2, <4>3
    <3>4. QED
      BY <3>2, <3>3
  <2>2. task' \in [Requests -> TaskRec]
    BY <1>3, <2>1 DEF Restart
  <2>3. Restarts
    BY <1>3, <2>1, <2>2 DEF Restart, Restarts
  <2>4. Trouble /\ UNCHANGED collided
    BY <1>3 DEF Restart
  <2>5. troubles' \in Nat /\ collided' \in Nat
    BY <1>1, <2>4 DEF Trouble
  <2>6. QED
    BY <2>3, <2>5
<1>4. CASE Tick
  BY <1>1, <1>4 DEF Tick, Passes
<1>5. QED
  BY <1>2, <1>3, <1>4

\* The steps of the whole system, and what they leave of an untouched request.
Works ==
  \/ \E r \in Requests : Advances(r)
  \/ \E pk \in packets : Writes(pk) \/ \E says \in Says : Reports(pk, says)
  \/ Changes \/ Restarts \/ Passes

LEMMA NextWorks ==
  ASSUME TypeOK, Serial, Shaped, Next
  PROVE  Works /\ troubles' \in Nat /\ collided' \in Nat
<1>1. CASE \E r \in Requests : Arrive(r) \/ Proceed(r)
  BY <1>1, RequestSteps DEF Works
<1>2. CASE \E pk \in packets : Execute(pk)
  <2>1. PICK pk \in packets : Execute(pk)
    BY <1>2
  <2>2. QED
    BY <2>1, ExecuteSteps DEF Works
<1>3. CASE Restart \/ Tick \/ \E p \in Peers, v \in Values : OtherAdmin(p, v)
  BY <1>3, OtherSteps DEF Works
<1>4. QED
  BY <1>1, <1>2, <1>3 DEF Next

\* Everything a step of another kind than a request's does to a task.
LEMMA OtherTasks ==
  ASSUME TypeOK, NEW q \in Requests,
         \/ \E pk \in packets : Writes(pk) \/ \E says \in Says : Reports(pk, says)
         \/ Changes \/ Restarts \/ Passes
  PROVE  LET t == task[q]
             u == task'[q]
         IN  /\ u \in TaskRec
             /\ u.step = t.step /\ u.attempt = t.attempt /\ u.writes = t.writes
             /\ u.result = t.result /\ u.started = t.started /\ u.mistook = t.mistook
             /\ u.foreign = t.foreign /\ u.outcome = t.outcome /\ u.reply = t.reply
             /\ t.past => u.past
             /\ u.pc = t.pc \/ (t.pc \notin {"new", "done"} /\ u.pc = "dead")
             /\ t.seen \subseteq u.seen
<1> DEFINE t == task[q]
           u == task'[q]
<1>1. t \in TaskRec
  BY DEF TypeOK
<1>2. CASE SeesMore
  <2>1. /\ Alike([t EXCEPT !.seen = u.seen], u)
        /\ u.pc = t.pc /\ u.outcome = t.outcome /\ u.reply = t.reply /\ u \in TaskRec
        /\ t.seen \subseteq u.seen
    BY <1>2 DEF SeesMore
  <2> HIDE DEF t, u
  <2>2. QED
    BY <1>1, <2>1 DEF Alike, TaskRec, t, u
<1>3. CASE task' = task
  BY <1>1, <1>3
<1>4. CASE Restarts
  <2>1. Dies(q, u) /\ u \in TaskRec
    BY <1>4 DEF Restarts
  <2> HIDE DEF u
  <2>2. QED
    BY <1>1, <2>1 DEF Dies, Alike, TaskRec, u
<1>5. QED
  BY <1>2, <1>3, <1>4 DEF Writes, Reports, Changes, Passes

-----------------------------------------------------------------------------
(* Types *)

LEMMA TypesInitially ==
  ASSUME Init
  PROVE  TypeOK
<1>1. plan \in [Requests -> Ops] /\ setting \in Int
  BY SetupsAssumption DEF Init
<1>2. task \in [Requests -> TaskRec]
  <2>1. ASSUME NEW r \in Requests PROVE New(r) \in TaskRec
    BY DEF New, Fresh, TaskRec, Ids, Never
  <2>2. QED
    BY <2>1 DEF Init
<1>3. lock \in Seq(Requests) /\ uses \subseteq [class : {Class(k) : k \in Kinds}, peer : Peers, at : Nat]
  BY EmptySeq DEF Init
<1>4. packets \subseteq Packet /\ replies \subseteq [to : Packet, says : Says]
  BY DEF Init
<1>5. register \in [Peers \X {"interval", "permission"} -> Values]
  BY DEF Init
<1>6. journal \in [Requests -> Outcomes \cup {"none", "requested"}]
  BY DEF Init
<1>7. {clock, troubles, collided} \subseteq Nat
  BY DEF Init
<1>8. QED
  BY <1>1, <1>2, <1>3, <1>4, <1>5, <1>6, <1>7 DEF TypeOK

LEMMA NextTypeOK ==
  ASSUME TypeOK, Serial, Shaped, Next
  PROVE  TypeOK'
<1>1. Works /\ troubles' \in Nat /\ collided' \in Nat
  BY NextWorks
<1>2. /\ plan \in [Requests -> Ops] /\ setting \in Int /\ task \in [Requests -> TaskRec]
      /\ lock \in Seq(Requests)
      /\ uses \subseteq [class : {Class(k) : k \in Kinds}, peer : Peers, at : Nat]
      /\ packets \subseteq Packet /\ replies \subseteq [to : Packet, says : Says]
      /\ register \in [Peers \X {"interval", "permission"} -> Values]
      /\ journal \in [Requests -> Outcomes \cup {"none", "requested"}] /\ clock \in Nat
  BY DEF TypeOK
<1>3. UNCHANGED <<plan, setting>>
  <2>1. ASSUME NEW r \in Requests, Advances(r) PROVE UNCHANGED <<plan, setting>>
    BY <2>1 DEF Advances, Joins, Tells, Errs, Leaves, Pauses, Begins, Repeats, GoesOn, Ends, Hears
  <2>2. QED
    BY <1>1, <2>1 DEF Works, Writes, Reports, Responds, Changes, Restarts, Passes
<1>4. task' \in [Requests -> TaskRec]
  <2>1. ASSUME NEW r \in Requests, Advances(r) PROVE \E u \in TaskRec : Step(r, u)
    BY <2>1 DEF Advances, Joins, Tells, Errs, Leaves, Pauses, Begins, Repeats, GoesOn, Ends, Hears
  <2>2. ASSUME NEW r \in Requests, NEW u \in TaskRec, Step(r, u)
        PROVE  task' \in [Requests -> TaskRec]
    BY <1>2, <2>2 DEF Step
  <2>3. QED
    BY <1>1, <1>2, <2>1, <2>2 DEF Works, Writes, Reports, Changes, Restarts, Passes, SeesMore
<1>5. lock' \in Seq(Requests)
  <2>1. \A r \in Requests : Append(lock, r) \in Seq(Requests)
    BY <1>2, AppendProperties
  <2>2. lock # << >> => Tail(lock) \in Seq(Requests)
    BY <1>2, HeadTailProperties
  <2>3. << >> \in Seq(Requests)
    BY EmptySeq
  <2>4. ASSUME NEW r \in Requests, Advances(r)
        PROVE  \/ UNCHANGED lock
               \/ lock' = Append(lock, r)
               \/ (Owns(r) \/ task[r].pc = "asking") /\ lock' = Tail(lock)
    BY <2>4 DEF Advances, Joins, Tells, Errs, Leaves, Pauses, Begins, Repeats, GoesOn, Ends, Hears
  <2>5. \A r \in Requests : Owns(r) \/ task[r].pc = "asking" => lock # << >>
    BY DEF Serial, Owns, Busy
  <2>6. QED
    BY <1>1, <1>2, <2>1, <2>2, <2>3, <2>4, <2>5
       DEF Works, Writes, Reports, Responds, Changes, Restarts, Passes
<1>6. uses' \subseteq [class : {Class(k) : k \in Kinds}, peer : Peers, at : Nat]
  <2>1. ASSUME NEW r \in Requests, Advances(r)
        PROVE  \/ UNCHANGED uses
               \/ uses' = uses \cup {[class |-> Class(plan[r].kind), peer |-> plan[r].peer, at |-> clock]}
    BY <2>1 DEF Advances, Joins, Tells, Errs, Leaves, Pauses, Begins, Repeats, GoesOn, Ends, Hears
  <2>2. \A r \in Requests : [class |-> Class(plan[r].kind), peer |-> plan[r].peer, at |-> clock]
                              \in [class : {Class(k) : k \in Kinds}, peer : Peers, at : Nat]
    BY <1>2, PlaceTyped
  <2>3. QED
    BY <1>1, <1>2, <2>1, <2>2 DEF Works, Writes, Reports, Responds, Changes, Restarts, Passes
<1>7. packets' \subseteq Packet
  <2>1. ASSUME NEW r \in Requests, Advances(r)
        PROVE  packets' \subseteq packets \/ \E x \in Packet : packets' = packets \cup {x}
    BY <2>1 DEF Advances, Joins, Tells, Errs, Leaves, Pauses, Begins, Repeats, GoesOn, Ends, Hears, Posts
  <2>2. QED
    BY <1>1, <1>2, <2>1 DEF Works, Writes, Reports, Responds, Changes, Restarts, Passes
<1>8. replies' \subseteq [to : Packet, says : Says]
  <2>1. ASSUME NEW r \in Requests, Advances(r) PROVE replies' \subseteq replies
    BY <2>1 DEF Advances, Joins, Tells, Errs, Leaves, Pauses, Begins, Repeats, GoesOn, Ends, Hears
  <2>2. ASSUME NEW pk \in packets, NEW says \in Says
        PROVE  [to |-> pk, says |-> says] \in [to : Packet, says : Says]
    BY <1>2
  <2>3. "OK" \in Says
    BY DEF Says
  <2>4. QED
    BY <1>1, <1>2, <2>1, <2>2, <2>3 DEF Works, Writes, Reports, Responds, Changes, Restarts, Passes
<1>9. register' \in [Peers \X {"interval", "permission"} -> Values]
  <2>1. ASSUME NEW r \in Requests, Advances(r) PROVE UNCHANGED register
    BY <2>1 DEF Advances, Joins, Tells, Errs, Leaves, Pauses, Begins, Repeats, GoesOn, Ends, Hears
  <2>2. QED
    BY <1>1, <1>2, <2>1 DEF Works, Writes, Reports, Responds, Changes, Restarts, Passes, SeesMore
<1>10. journal' \in [Requests -> Outcomes \cup {"none", "requested"}]
  <2>1. ASSUME NEW r \in Requests, Advances(r)
        PROVE  \/ UNCHANGED journal
               \/ \E o \in Outcomes \cup {"none", "requested"} : journal' = [journal EXCEPT ![r] = o]
    <3>1. ASSUME NEW u \in TaskRec, Tells(r, u) PROVE task[r].outcome \in Outcomes
      BY <3>1 DEF Tells, Shaped, ShapedAs
    <3>2. QED
      BY <2>1, <3>1 DEF Advances, Joins, Tells, Errs, Leaves, Pauses, Begins, Repeats, GoesOn, Ends, Hears
  <2>2. QED
    BY <1>1, <1>2, <2>1 DEF Works, Writes, Reports, Responds, Changes, Restarts, Passes
<1>11. clock' \in Nat
  <2>1. ASSUME NEW r \in Requests, Advances(r) PROVE UNCHANGED clock
    BY <2>1 DEF Advances, Joins, Tells, Errs, Leaves, Pauses, Begins, Repeats, GoesOn, Ends, Hears
  <2>2. QED
    BY <1>1, <1>2, <2>1 DEF Works, Writes, Reports, Responds, Changes, Restarts, Passes
<1>12. QED
  <2>1. plan' \in [Requests -> Ops] /\ setting' \in Int
    BY <1>2, <1>3
  <2>2. {clock', troubles', collided'} \subseteq Nat
    BY <1>1, <1>11
  <2>3. QED
    BY <1>4, <1>5, <1>6, <1>7, <1>8, <1>9, <1>10, <2>1, <2>2 DEF TypeOK

-----------------------------------------------------------------------------
(* The queue of the operation lock, and the shape of the tasks *)

LEMMA PlanFixed ==
  ASSUME Works
  PROVE  UNCHANGED <<plan, setting>>
<1>1. ASSUME NEW r \in Requests, Advances(r) PROVE UNCHANGED <<plan, setting>>
  BY <1>1 DEF Advances, Joins, Tells, Errs, Leaves, Pauses, Begins, Repeats, GoesOn, Ends, Hears
<1>2. QED
  BY <1>1 DEF Works, Writes, Reports, Responds, Changes, Restarts, Passes

\* Works, one kind of step after the other.
LEMMA WorkCases ==
  ASSUME Works
  PROVE  \/ \E r \in Requests, u \in TaskRec :
              Joins(r, u) \/ Tells(r, u) \/ Errs(r, u) \/ Leaves(r, u) \/ Pauses(r, u)
         \/ \E r \in Requests, u \in TaskRec, x \in Packet : Begins(r, u, x) \/ Repeats(r, u, x)
         \/ \E r \in Requests, u \in TaskRec, y \in replies, x \in Packet : GoesOn(r, y, u, x)
         \/ \E r \in Requests, u \in TaskRec, y \in replies : Ends(r, y, u)
         \/ \E pk \in packets : Writes(pk) \/ \E says \in Says : Reports(pk, says)
         \/ Changes \/ Restarts \/ Passes
BY DEF Works, Advances

LEMMA NextSerial ==
  ASSUME TypeOK, Serial, Works
  PROVE  Serial'
<1> DEFINE Waits == {"queued", "asking", "pausing"}
           Q  == {q \in Requests : task[q].pc \in Waits}
           QQ == {q \in Requests : task'[q].pc \in Waits}
<1>1. /\ task \in [Requests -> TaskRec] /\ lock \in Seq(Requests)
      /\ IsInjective(lock) /\ ToSet(lock) = Q
      /\ \A q \in Requests : Busy(q) => Owns(q)
  BY DEF TypeOK, Serial
<1> DEFINE Goal == /\ IsInjective(lock') /\ ToSet(lock') = QQ
                   /\ \A q \in Requests :
                        task'[q].pc \in {"asking", "pausing"} => lock' # << >> /\ Head(lock') = q
<1>2. SUFFICES Goal
  BY DEF Serial, Busy, Owns
<1>3. ASSUME NEW r \in Requests, NEW u \in TaskRec, Step(r, u)
      PROVE  task'[r] = u /\ \A q \in Requests \ {r} : task'[q] = task[q]
  BY <1>1, <1>3 DEF Step
<1>4. ASSUME NEW r \in Requests, NEW u \in TaskRec, Joins(r, u) PROVE Goal
  <2>1. Step(r, u) /\ task[r].pc = "new" /\ u.pc = "queued" /\ lock' = Append(lock, r)
    BY <1>4 DEF Joins
  <2>2. QQ = Q \cup {r}
    BY <1>3, <2>1
  <2>3. r \notin ToSet(lock)
    BY <1>1, <2>1
  <2>4. /\ IsInjective(lock') /\ ToSet(lock') = Q \cup {r} /\ lock' # << >>
        /\ lock # << >> => Head(lock') = Head(lock)
    BY <1>1, <2>1, <2>3, JoinQueue
  <2>5. \A q \in Requests : task'[q].pc \in {"asking", "pausing"} => Busy(q)
    BY <1>3, <2>1 DEF Busy
  <2>6. QED
    BY <1>1, <2>2, <2>4, <2>5 DEF Owns
<1>5. ASSUME NEW r \in Requests, NEW u \in TaskRec, Step(r, u), UNCHANGED lock,
             u.pc \in Waits <=> task[r].pc \in Waits,
             u.pc \in {"asking", "pausing"} => Owns(r)
      PROVE  Goal
  <2>1. QQ = Q
    BY <1>3, <1>5
  <2>2. \A q \in Requests : task'[q].pc \in {"asking", "pausing"} => Owns(q)
    BY <1>1, <1>3, <1>5 DEF Busy
  <2>3. QED
    BY <1>1, <1>5, <2>1, <2>2 DEF Owns
<1>6. ASSUME NEW r \in Requests, NEW u \in TaskRec, Step(r, u), Owns(r), u.pc = "recording",
             lock' = Tail(lock)
      PROVE  Goal
  <2>1. QQ = Q \ {r}
    BY <1>3, <1>6
  <2>2. IsInjective(lock') /\ ToSet(lock') = Q \ {r}
    BY <1>1, <1>6, PassQueue DEF Owns
  <2>3. \A q \in Requests : task'[q].pc \notin {"asking", "pausing"}
    BY <1>1, <1>3, <1>6 DEF Busy, Owns
  <2>4. QED
    BY <2>1, <2>2, <2>3
<1>7. ASSUME \A q \in Requests : task'[q].pc = task[q].pc, UNCHANGED lock PROVE Goal
  BY <1>1, <1>7 DEF Busy, Owns
<1>8. ASSUME Restarts PROVE Goal
  <2>1. \A q \in Requests : task'[q].pc \notin Waits
    BY <1>8 DEF Restarts, Dies
  <2>2. IsInjective(lock') /\ ToSet(lock') = {}
    BY <1>8 DEF Restarts, IsInjective, ToSet
  <2>3. QED
    BY <2>1, <2>2
<1> HIDE DEF Goal
<1>9. CASE \E r \in Requests, u \in TaskRec :
             Joins(r, u) \/ Tells(r, u) \/ Errs(r, u) \/ Leaves(r, u) \/ Pauses(r, u)
  <2>1. PICK r \in Requests, u \in TaskRec :
          Joins(r, u) \/ Tells(r, u) \/ Errs(r, u) \/ Leaves(r, u) \/ Pauses(r, u)
    BY <1>9
  <2>2. CASE Tells(r, u) \/ Errs(r, u)
    BY <1>5, <2>2 DEF Tells, Errs
  <2>3. CASE Leaves(r, u)
    BY <1>6, <2>3 DEF Leaves
  <2>4. CASE Pauses(r, u)
    BY <1>1, <1>5, <2>4 DEF Pauses, Busy
  <2>5. QED
    BY <1>4, <2>1, <2>2, <2>3, <2>4
<1>10. CASE \E r \in Requests, u \in TaskRec, x \in Packet : Begins(r, u, x) \/ Repeats(r, u, x)
  <2>1. PICK r \in Requests, u \in TaskRec, x \in Packet : Begins(r, u, x) \/ Repeats(r, u, x)
    BY <1>10
  <2>2. CASE Begins(r, u, x)
    BY <1>5, <2>2 DEF Begins, Posts
  <2>3. CASE Repeats(r, u, x)
    BY <1>1, <1>5, <2>3 DEF Repeats, Posts, Busy
  <2>4. QED
    BY <2>1, <2>2, <2>3
<1>11. CASE \E r \in Requests, u \in TaskRec, y \in replies, x \in Packet : GoesOn(r, y, u, x)
  BY <1>1, <1>5, <1>11 DEF GoesOn, Hears, Posts, Busy
<1>12. CASE \E r \in Requests, u \in TaskRec, y \in replies : Ends(r, y, u)
  BY <1>1, <1>6, <1>12 DEF Ends, Hears, Busy
<1>13. CASE (\E pk \in packets : Writes(pk) \/ \E says \in Says : Reports(pk, says)) \/ Changes \/ Passes
  BY <1>7, <1>13 DEF Writes, Reports, Responds, Changes, Passes, SeesMore
<1>14. QED
  BY <1>4, <1>8, <1>9, <1>10, <1>11, <1>12, <1>13, WorkCases

LEMMA NextShaped ==
  ASSUME TypeOK, Serial, Shaped, Works
  PROVE  Shaped'
<1>1. /\ task \in [Requests -> TaskRec] /\ UNCHANGED <<plan, setting>>
      /\ \A q \in Requests : ShapedAs(q, task[q])
  BY PlanFixed DEF TypeOK, Shaped
<1>2. SUFFICES \A q \in Requests : ShapedAs(q, task'[q])
  BY <1>1 DEF Shaped, ShapedAs, Attempts
<1>3. ASSUME NEW r \in Requests, NEW u \in TaskRec, Step(r, u), ShapedAs(r, u)
      PROVE  \A q \in Requests : ShapedAs(q, task'[q])
  BY <1>1, <1>3 DEF Step
<1>4. ASSUME NEW r \in Requests, NEW u \in TaskRec,
             Joins(r, u) \/ Tells(r, u) \/ Errs(r, u) \/ Leaves(r, u) \/ Pauses(r, u)
      PROVE  \A q \in Requests : ShapedAs(q, task'[q])
  <2>1. /\ ShapedAs(r, task[r]) /\ Alike(task[r], u) /\ Step(r, u)
        /\ task[r].pc \in {"new", "queued", "asking", "recording"}
    BY <1>1, <1>4 DEF Joins, Tells, Errs, Leaves, Pauses
  <2>2. CASE Joins(r, u)
    BY <1>3, <2>1, <2>2 DEF Joins, ShapedAs, Alike, Untouched
  <2>3. CASE Tells(r, u)
    BY <1>3, <2>1, <2>3 DEF Tells, ShapedAs, Alike, Untouched
  <2>4. CASE Errs(r, u)
    BY <1>3, <2>1, <2>4 DEF Errs, ShapedAs, Alike, Untouched
  <2>5. CASE Leaves(r, u)
    BY <1>3, <2>1, <2>5 DEF Leaves, ShapedAs, Alike, Untouched, Outcomes
  <2>6. CASE Pauses(r, u)
    BY <1>3, <2>1, <2>6 DEF Pauses, ShapedAs, Alike, Untouched, Verb
  <2>7. QED
    BY <1>4, <2>2, <2>3, <2>4, <2>5, <2>6
<1>5. ASSUME NEW r \in Requests, NEW u \in TaskRec, NEW x \in Packet, Begins(r, u, x)
      PROVE  \A q \in Requests : ShapedAs(q, task'[q])
  <2>1. u.started # Never
    BY <1>5 DEF TypeOK, Begins, Never
  <2>2. QED
    BY <1>1, <1>3, <1>5, <2>1 DEF Begins, Posts, ShapedAs, Untouched
<1>6. ASSUME NEW r \in Requests, NEW u \in TaskRec, NEW x \in Packet, Repeats(r, u, x)
      PROVE  \A q \in Requests : ShapedAs(q, task'[q])
  <2>1. /\ task[r].pc = "pausing" /\ u.pc = "asking" /\ u.step = task[r].step /\ u.outcome = task[r].outcome
        /\ u.reply = task[r].reply /\ u.mistook = task[r].mistook /\ u.started = task[r].started
        /\ Step(r, u)
    BY <1>6 DEF Repeats, Posts
  <2>2. Exchanges(plan[r].kind)[u.step] \in Cli
    <3>1. task[r].attempt < Attempts(Exchanges(plan[r].kind)[task[r].step])
      BY <1>1, <2>1 DEF ShapedAs
    <3>2. task[r].attempt \in 1..3
      BY DEF TypeOK, TaskRec
    <3>3. setting \in Int
      BY DEF TypeOK
    <3>4. QED
      BY <2>1, <3>1, <3>2, <3>3, AttemptsBounded
  <2>3. QED
    BY <1>1, <1>3, <2>1, <2>2 DEF ShapedAs
<1>7. ASSUME NEW r \in Requests, NEW u \in TaskRec, NEW y \in replies, Hears(r, y, u)
      PROVE  /\ u.mistook <= task[r].step /\ u.mistook \in 0..3 /\ y.says \in Says
             /\ task[r].step \in 1..3
             /\ task[r].outcome = "none" /\ u.started # Never /\ u.reply = "none"
             /\ task[r].step \in DOMAIN Exchanges(plan[r].kind)
             /\ Exchanges(plan[r].kind)[task[r].step] \notin Cli => task[r].attempt = 1
  <2>1. ShapedAs(r, task[r]) /\ task[r].pc = "asking" /\ task[r] \in TaskRec /\ y.says \in Says
    BY <1>1, <1>7 DEF Hears, TypeOK
  <2>2. task[r].mistook < task[r].step /\ task[r].mistook \in 0..3 /\ task[r].step \in 1..3
    BY <2>1 DEF ShapedAs, TaskRec
  <2>3. u.mistook <= task[r].step /\ u.mistook \in 0..3
    BY <1>7, <2>2 DEF Hears
  <2>4. QED
    BY <1>7, <2>1, <2>2, <2>3 DEF Hears, ShapedAs, TaskRec
<1>8. ASSUME NEW r \in Requests, NEW u \in TaskRec, NEW y \in replies, NEW x \in Packet,
             GoesOn(r, y, u, x)
      PROVE  \A q \in Requests : ShapedAs(q, task'[q])
  <2>1. Hears(r, y, u) /\ Step(r, u) /\ u.pc = "asking" /\ u.step = task[r].step + 1 /\ u.attempt = 1
        /\ u.outcome = task[r].outcome /\ After(r, y.says) = "next"
    BY <1>8 DEF GoesOn, Hears, Posts
  <2>2. /\ u.mistook <= task[r].step /\ u.mistook \in 0..3 /\ y.says \in Says
        /\ task[r].outcome = "none" /\ u.started # Never /\ u.reply = "none"
        /\ task[r].step \in DOMAIN Exchanges(plan[r].kind)
    BY <1>7, <2>1
  <2>3. plan[r].kind \in Mutations /\ task[r].step \in {1, 2}
    BY <1>1, <2>1, <2>2, AfterFacts
  <2>4. u.step \in DOMAIN Exchanges(plan[r].kind)
    BY <2>1, <2>3, PlaceTyped, ExchangeFacts
  <2>5. u.mistook < u.step /\ u.mistook <= u.step
    BY <2>1, <2>2, <2>3
  <2>6. ShapedAs(r, u)
    BY <2>1, <2>2, <2>4, <2>5 DEF ShapedAs
  <2>7. QED
    BY <1>3, <2>1, <2>6
<1>9. ASSUME NEW r \in Requests, NEW u \in TaskRec, NEW y \in replies, Ends(r, y, u)
      PROVE  \A q \in Requests : ShapedAs(q, task'[q])
  <2>1. Hears(r, y, u) /\ Step(r, u) /\ u.pc = "recording" /\ u.step = task[r].step
        /\ u.attempt = task[r].attempt /\ u.outcome = After(r, y.says) /\ After(r, y.says) # "next"
    BY <1>9 DEF Ends, Hears
  <2>2. /\ u.mistook <= task[r].step /\ y.says \in Says /\ u.reply = "none"
        /\ task[r].step \in DOMAIN Exchanges(plan[r].kind)
        /\ Exchanges(plan[r].kind)[task[r].step] \notin Cli => task[r].attempt = 1
    BY <1>7, <2>1
  <2>3. /\ u.outcome \in Outcomes
        /\ u.outcome = "succeeded" /\ plan[r].kind \in Mutations => task[r].step = 3
    BY <1>1, <2>1, <2>2, AfterFacts
  <2>4. ShapedAs(r, u)
    BY <2>1, <2>2, <2>3 DEF ShapedAs
  <2>5. QED
    BY <1>3, <2>1, <2>4
<1>10. CASE (\E pk \in packets : Writes(pk) \/ \E says \in Says : Reports(pk, says))
            \/ Changes \/ Restarts \/ Passes
  <2>1. ASSUME NEW q \in Requests PROVE ShapedAs(q, task'[q])
    <3> DEFINE t == task[q]
               u == task'[q]
    <3>1. /\ u.step = t.step /\ u.attempt = t.attempt /\ u.started = t.started /\ u.mistook = t.mistook
          /\ u.foreign = t.foreign /\ u.outcome = t.outcome /\ u.reply = t.reply
          /\ u.pc = t.pc \/ (t.pc \notin {"new", "done"} /\ u.pc = "dead")
      BY <1>10, OtherTasks
    <3>2. ShapedAs(q, t)
      BY <1>1
    <3> HIDE DEF t, u
    <3>3. ShapedAs(q, u)
      BY <3>1, <3>2 DEF ShapedAs, Untouched
    <3>4. QED
      BY <3>3 DEF u
  <2>2. QED
    BY <2>1
<1>11. QED
  BY <1>4, <1>5, <1>6, <1>8, <1>9, <1>10, WorkCases

\* What no step takes back.
Moves(t, u) ==
  /\ t.pc \notin {"new", "queued"} => u.pc \notin {"new", "queued"}
  /\ t.started # Never => u.started = t.started /\ t.seen \subseteq u.seen
  /\ u.started # t.started => t.pc = "queued" /\ u.pc = "asking"
  /\ t.step < u.step \/ (t.step = u.step /\ t.attempt <= u.attempt)
  /\ t.outcome # "none" => u.outcome = t.outcome /\ u.step = t.step /\ u.mistook = t.mistook
                            /\ u.writes = t.writes /\ u.result = t.result
                            /\ t.seen \subseteq u.seen
  /\ t.pc = "dead" => u.pc = "dead"
  /\ t.past => u.past
  /\ t.mistook <= u.mistook
  /\ u.pc \in {"asking", "pausing"} =>
       t.pc \in {"asking", "pausing"} \/ (t.pc = "queued" /\ t.started = Never)

LEMMA TaskMoves ==
  ASSUME TypeOK, Serial, Shaped, Works, NEW q \in Requests
  PROVE  task'[q] \in TaskRec /\ Moves(task[q], task'[q])
<1>1. /\ task \in [Requests -> TaskRec] /\ task[q] \in TaskRec
      /\ \A r \in Requests : ShapedAs(r, task[r])
  BY DEF TypeOK, Shaped
<1>2. \A r \in Requests : task[r].step \in 1..3 /\ task[r].attempt \in 1..3 /\ task[r].mistook \in 0..3
  BY <1>1 DEF TaskRec
<1>3. ASSUME NEW r \in Requests, NEW u \in TaskRec, Step(r, u), Moves(task[r], u)
      PROVE  task'[q] \in TaskRec /\ Moves(task[q], task'[q])
  <2>1. CASE q = r
    BY <1>1, <1>3, <2>1 DEF Step
  <2>2. CASE q # r
    <3>1. task'[q] = task[q]
      BY <1>1, <1>3, <2>2 DEF Step
    <3>2. QED
      BY <1>1, <1>2, <3>1 DEF Moves
  <2>3. QED
    BY <2>1, <2>2
<1>4. CASE \E r \in Requests, u \in TaskRec :
             Joins(r, u) \/ Tells(r, u) \/ Errs(r, u) \/ Leaves(r, u) \/ Pauses(r, u)
  <2>1. PICK r \in Requests, u \in TaskRec :
          Joins(r, u) \/ Tells(r, u) \/ Errs(r, u) \/ Leaves(r, u) \/ Pauses(r, u)
    BY <1>4
  <2>2. Step(r, u) /\ Alike(task[r], u) /\ ShapedAs(r, task[r])
    BY <1>1, <2>1 DEF Joins, Tells, Errs, Leaves, Pauses
  <2>3. Moves(task[r], u)
    BY <1>2, <2>1, <2>2 DEF Joins, Tells, Errs, Leaves, Pauses, Moves, Alike, ShapedAs
  <2>4. QED
    BY <1>3, <2>2, <2>3
<1>5. CASE \E r \in Requests, u \in TaskRec, x \in Packet : Begins(r, u, x) \/ Repeats(r, u, x)
  <2>1. PICK r \in Requests, u \in TaskRec, x \in Packet : Begins(r, u, x) \/ Repeats(r, u, x)
    BY <1>5
  <2>2. Step(r, u) /\ ShapedAs(r, task[r])
    BY <1>1, <2>1 DEF Begins, Repeats
  <2>3. Moves(task[r], u)
    BY <1>2, <2>1, <2>2 DEF Begins, Repeats, Posts, Moves, ShapedAs, Untouched
  <2>4. QED
    BY <1>3, <2>2, <2>3
<1>6. ASSUME NEW r \in Requests, NEW u \in TaskRec, NEW y \in replies, Hears(r, y, u)
      PROVE  /\ Step(r, u) /\ task[r].pc = "asking" /\ task[r].outcome = "none"
             /\ u.started = task[r].started /\ u.seen = task[r].seen /\ u.past = task[r].past
             /\ task[r].mistook <= u.mistook
  BY <1>1, <1>2, <1>6 DEF Hears, ShapedAs
<1>7. CASE \E r \in Requests, u \in TaskRec, y \in replies, x \in Packet : GoesOn(r, y, u, x)
  <2>1. PICK r \in Requests, u \in TaskRec, y \in replies, x \in Packet : GoesOn(r, y, u, x)
    BY <1>7
  <2>2. Hears(r, y, u) /\ u.pc = "asking" /\ u.step = task[r].step + 1
    BY <2>1 DEF GoesOn, Posts
  <2>3. Step(r, u) /\ Moves(task[r], u)
    BY <1>2, <1>6, <2>2 DEF Moves
  <2>4. QED
    BY <1>3, <2>3
<1>8. CASE \E r \in Requests, u \in TaskRec, y \in replies : Ends(r, y, u)
  <2>1. PICK r \in Requests, u \in TaskRec, y \in replies : Ends(r, y, u)
    BY <1>8
  <2>2. Hears(r, y, u) /\ u.pc = "recording" /\ u.step = task[r].step /\ u.attempt = task[r].attempt
    BY <2>1 DEF Ends
  <2>3. Step(r, u) /\ Moves(task[r], u)
    BY <1>2, <1>6, <2>2 DEF Moves
  <2>4. QED
    BY <1>3, <2>3
<1>9. CASE (\E pk \in packets : Writes(pk) \/ \E says \in Says : Reports(pk, says))
            \/ Changes \/ Restarts \/ Passes
  <2> DEFINE t == task[q]
             u == task'[q]
  <2>1. /\ u \in TaskRec
        /\ u.step = t.step /\ u.attempt = t.attempt /\ u.writes = t.writes
        /\ u.result = t.result /\ u.started = t.started /\ u.mistook = t.mistook
        /\ u.foreign = t.foreign /\ u.outcome = t.outcome /\ u.reply = t.reply
        /\ t.past => u.past
        /\ u.pc = t.pc \/ (t.pc \notin {"new", "done"} /\ u.pc = "dead")
        /\ t.seen \subseteq u.seen
    BY <1>9, OtherTasks
  <2>2. t.step \in 1..3 /\ t.attempt \in 1..3 /\ t.mistook \in 0..3
    BY <1>2
  <2> HIDE DEF t, u
  <2>3. Moves(t, u)
    BY <2>1, <2>2 DEF Moves
  <2>4. QED
    BY <2>1, <2>3 DEF t, u
<1>10. QED
  BY <1>4, <1>5, <1>7, <1>8, <1>9, WorkCases

-----------------------------------------------------------------------------
(* The journal *)

LEMMA NextTrail ==
  ASSUME TypeOK, Serial, Shaped, Trail, Works
  PROVE  Trail'
<1> DEFINE TrailOf(q, t, j) ==
      /\ t.pc \notin {"new", "done", "dead"} => j # "none"
      /\ t.started # Never => j # "none"
      /\ t.reply \in Outcomes => j = t.reply
      /\ t.outcome \in {"rejected", "limited"} =>
           t.started = Never \/ (Flagged # {} /\ t.step = 3)
<1>1. /\ task \in [Requests -> TaskRec] /\ journal \in [Requests -> Outcomes \cup {"none", "requested"}]
      /\ \A q \in Requests : ShapedAs(q, task[q]) /\ TrailOf(q, task[q], journal[q])
  BY DEF TypeOK, Shaped, Trail
<1>2. SUFFICES \A q \in Requests : TrailOf(q, task'[q], journal'[q])
  BY DEF Trail
<1>3. ASSUME NEW r \in Requests, NEW u \in TaskRec, Step(r, u),
             \A q \in Requests \ {r} : journal'[q] = journal[q],
             TrailOf(r, u, journal'[r])
      PROVE  \A q \in Requests : TrailOf(q, task'[q], journal'[q])
  <2>1. task'[r] = u /\ \A q \in Requests \ {r} : task'[q] = task[q]
    BY <1>1, <1>3 DEF Step
  <2> HIDE DEF TrailOf
  <2>2. QED
    BY <1>1, <1>3, <2>1
<1>4. ASSUME NEW r \in Requests, NEW u \in TaskRec,
             Joins(r, u) \/ Tells(r, u) \/ Errs(r, u) \/ Leaves(r, u) \/ Pauses(r, u)
      PROVE  \A q \in Requests : TrailOf(q, task'[q], journal'[q])
  <2>1. Step(r, u) /\ Alike(task[r], u) /\ ShapedAs(r, task[r]) /\ TrailOf(r, task[r], journal[r])
    BY <1>1, <1>4 DEF Joins, Tells, Errs, Leaves, Pauses
  <2>2. \A q \in Requests \ {r} : journal'[q] = journal[q]
    BY <1>1, <1>4 DEF Joins, Tells, Errs, Leaves, Pauses
  <2>3. CASE Joins(r, u)
    <3>1. journal'[r] = "requested" /\ u.reply = task[r].reply /\ u.outcome = task[r].outcome
      BY <1>1, <2>3 DEF Joins
    <3>2. task[r].reply = "none" /\ task[r].outcome = "none"
      BY <2>1, <2>3 DEF Joins, ShapedAs
    <3>3. TrailOf(r, u, journal'[r])
      BY <3>1, <3>2 DEF Outcomes
    <3>4. QED
      BY <1>3, <2>1, <2>2, <3>3
  <2>4. CASE Tells(r, u)
    <3>1. journal'[r] = task[r].outcome /\ u.reply = task[r].outcome /\ u.outcome = task[r].outcome
      BY <1>1, <2>4 DEF Tells
    <3>2. task[r].outcome \in Outcomes
      BY <2>1, <2>4 DEF Tells, ShapedAs
    <3>3. TrailOf(r, u, journal'[r])
      BY <2>1, <3>1, <3>2 DEF Outcomes, Alike
    <3>4. QED
      BY <1>3, <2>1, <2>2, <3>3
  <2>5. CASE Errs(r, u)
    <3>1. journal'[r] = journal[r] /\ u.reply = "error" /\ u.outcome = task[r].outcome /\ u.pc = "done"
      BY <1>1, <2>5 DEF Errs
    <3>2. TrailOf(r, u, journal'[r])
      BY <2>1, <3>1 DEF Outcomes, Alike
    <3>3. QED
      BY <1>3, <2>1, <2>2, <3>2
  <2>6. CASE Leaves(r, u)
    <3>1. /\ journal'[r] = journal[r] /\ u.reply = task[r].reply /\ u.pc = "recording"
          /\ task[r].pc \in {"queued", "asking"}
          /\ task[r].pc = "asking" => u.outcome \in {"failed", "timed_out"}
      BY <1>1, <2>6 DEF Leaves
    <3>2. task[r].pc = "queued" => u.started = Never
      BY <2>1 DEF ShapedAs, Untouched, Alike
    <3>3. TrailOf(r, u, journal'[r])
      BY <2>1, <3>1, <3>2 DEF Alike
    <3>4. QED
      BY <1>3, <2>1, <2>2, <3>3
  <2>7. CASE Pauses(r, u)
    <3>1. /\ journal'[r] = journal[r] /\ u.reply = task[r].reply /\ u.outcome = task[r].outcome
          /\ task[r].pc = "asking" /\ u.pc = "pausing"
      BY <1>1, <2>7 DEF Pauses
    <3>2. TrailOf(r, u, journal'[r])
      BY <2>1, <3>1 DEF Alike
    <3>3. QED
      BY <1>3, <2>1, <2>2, <3>2
  <2>8. QED
    BY <1>4, <2>3, <2>4, <2>5, <2>6, <2>7
<1>5. ASSUME NEW r \in Requests, NEW u \in TaskRec, NEW x \in Packet,
             Begins(r, u, x) \/ Repeats(r, u, x)
      PROVE  \A q \in Requests : TrailOf(q, task'[q], journal'[q])
  <2>1. /\ Step(r, u) /\ ShapedAs(r, task[r]) /\ TrailOf(r, task[r], journal[r])
        /\ journal' = journal /\ task[r].pc \in {"queued", "pausing"} /\ u.outcome = task[r].outcome
        /\ u.reply = task[r].reply
    BY <1>1, <1>5 DEF Begins, Repeats
  <2>2. task[r].outcome = "none" /\ task[r].reply = "none"
    BY <2>1 DEF ShapedAs
  <2>3. TrailOf(r, u, journal'[r])
    BY <2>1, <2>2 DEF Outcomes
  <2>4. QED
    BY <1>3, <2>1, <2>3
<1>6. ASSUME NEW r \in Requests, NEW u \in TaskRec, NEW y \in replies, Hears(r, y, u),
             u.outcome \in {"none", After(r, y.says)}, u.step >= task[r].step
      PROVE  \A q \in Requests : TrailOf(q, task'[q], journal'[q])
  <2>1. /\ Step(r, u) /\ ShapedAs(r, task[r]) /\ TrailOf(r, task[r], journal[r])
        /\ journal' = journal /\ task[r].pc = "asking" /\ u.reply = task[r].reply
        /\ u.started = task[r].started /\ y.says \in Says
    BY <1>1, <1>6 DEF Hears, TypeOK
  <2>2. task[r].reply = "none" /\ u.step \in 1..3 /\ task[r].step \in 1..3
    BY <1>1, <2>1 DEF ShapedAs, TaskRec
  <2>3. /\ u.outcome # "limited"
        /\ u.outcome = "rejected" => Flagged # {} /\ task[r].step = 3
    BY <1>6, <2>1, AfterFacts
  <2>4. u.outcome = "rejected" => u.step = 3
    BY <1>6, <2>2, <2>3
  <2>5. TrailOf(r, u, journal'[r])
    BY <2>1, <2>2, <2>3, <2>4 DEF Outcomes
  <2>6. QED
    BY <1>3, <1>6, <2>1, <2>5
<1>7. ASSUME NEW r \in Requests, NEW u \in TaskRec, NEW y \in replies, NEW x \in Packet,
             GoesOn(r, y, u, x)
      PROVE  \A q \in Requests : TrailOf(q, task'[q], journal'[q])
  <2>1. Hears(r, y, u) /\ u.outcome = task[r].outcome /\ u.step = task[r].step + 1
    BY <1>7 DEF GoesOn
  <2>2. task[r].outcome = "none"
    BY <1>1, <2>1 DEF Hears, ShapedAs
  <2>3. task[r].step \in 1..3
    BY <1>1 DEF TaskRec
  <2> HIDE DEF TrailOf
  <2>4. QED
    BY <1>6, <2>1, <2>2, <2>3
<1>8. ASSUME NEW r \in Requests, NEW u \in TaskRec, NEW y \in replies, Ends(r, y, u)
      PROVE  \A q \in Requests : TrailOf(q, task'[q], journal'[q])
  <2>1. Hears(r, y, u) /\ u.outcome = After(r, y.says) /\ u.step = task[r].step
    BY <1>8 DEF Ends
  <2>2. task[r].step \in 1..3
    BY <1>1 DEF TaskRec
  <2> HIDE DEF TrailOf
  <2>3. QED
    BY <1>6, <2>1, <2>2
<1>9. ASSUME (\E pk \in packets : Writes(pk) \/ \E says \in Says : Reports(pk, says))
               \/ Changes \/ Restarts \/ Passes,
             NEW q \in Requests
      PROVE  TrailOf(q, task'[q], journal'[q])
  <2> DEFINE t == task[q]
             u == task'[q]
  <2>1. /\ u.step = t.step /\ u.started = t.started /\ u.outcome = t.outcome /\ u.reply = t.reply
        /\ u.pc = t.pc \/ u.pc = "dead"
    BY <1>9, OtherTasks
  <2>2. journal' = journal
    BY <1>9 DEF Writes, Reports, Responds, Changes, Restarts, Passes
  <2>3. TrailOf(q, t, journal[q])
    BY <1>1
  <2> HIDE DEF t, u
  <2>4. TrailOf(q, u, journal[q])
    BY <2>1, <2>3
  <2> HIDE DEF TrailOf
  <2>5. QED
    BY <2>2, <2>4 DEF u
<1>10. QED
  <2> HIDE DEF TrailOf
  <2>1. QED
    BY <1>4, <1>5, <1>7, <1>8, <1>9, WorkCases

-----------------------------------------------------------------------------
(* The cooldowns *)

LEMMA NextCooled ==
  ASSUME TypeOK, Serial, Shaped, Cooled, Works
  PROVE  Cooled'
<1> DEFINE UseOf(q, at) == [class |-> Class(plan[q].kind), peer |-> plan[q].peer, at |-> at]
<1>1. /\ task \in [Requests -> TaskRec] /\ clock \in Nat /\ UNCHANGED <<plan, setting>>
      /\ uses \subseteq [class : {Class(k) : k \in Kinds}, peer : Peers, at : Nat]
  BY PlanFixed DEF TypeOK
<1>2. \A q \in Requests : task[q].started \in Int /\ Moves(task[q], task'[q])
  BY <1>1, TaskMoves DEF TaskRec
<1>3. /\ \A v \in uses : v.at <= clock
      /\ \A q \in Requests : Alive(q) => UseOf(q, task[q].started) \in uses
      /\ \A q, r \in Requests :
           q # r /\ Alive(q) /\ Alive(r) /\ Class(plan[q].kind) = Class(plan[r].kind)
           => Apart(q, r) \/ Apart(r, q)
  BY DEF Cooled
<1>4. ASSUME \A q \in Requests : task'[q].started = task[q].started, UNCHANGED uses,
             clock' \in {clock, clock + 1}
      PROVE  Cooled'
  <2>1. \A v \in uses' : v.at <= clock'
    BY <1>1, <1>3, <1>4
  <2>2. \A q \in Requests : Alive(q)' => Alive(q)
    BY <1>2, <1>4 DEF Alive, Moves
  <2>3. \A q \in Requests : Alive(q)' => UseOf(q, task'[q].started) \in uses'
    BY <1>3, <1>4, <2>2
  <2>4. \A q, r \in Requests : Apart(q, r)' <=> Apart(q, r)
    BY <1>1, <1>4 DEF Apart
  <2>5. QED
    BY <1>1, <1>3, <2>1, <2>2, <2>3, <2>4 DEF Cooled
<1>5. ASSUME Restarts
      PROVE  Cooled'
  <2>1. \A q \in Requests : ~ Alive(q)'
    <3>1. ASSUME NEW q \in Requests PROVE ~ Alive(q)'
      <4>1. Dies(q, task'[q]) /\ task[q] \in TaskRec
        BY <1>1, <1>5 DEF Restarts
      <4> DEFINE u == task'[q]
      <4> HIDE DEF u
      <4>2. u.started = task[q].started /\ (task[q].started # Never => u.past)
        BY <4>1 DEF Dies, Alike, TaskRec, u
      <4>3. QED
        BY <4>2 DEF Alive, u
    <3>2. QED
      BY <3>1
  <2>2. uses' = {}
    BY <1>5 DEF Restarts
  <2>3. QED
    BY <2>1, <2>2 DEF Cooled
<1>6. ASSUME NEW r \in Requests, NEW u \in TaskRec, NEW x \in Packet, Begins(r, u, x)
      PROVE  Cooled'
  <2>1. /\ task'[r] = u /\ \A q \in Requests \ {r} : task'[q] = task[q]
        /\ u.started = clock /\ uses' = uses \cup {UseOf(r, clock)} /\ clock' = clock
        /\ ~Cooling(plan[r])
    BY <1>1, <1>6 DEF Begins, Step
  <2>2. \A v \in uses' : v.at <= clock'
    BY <1>1, <1>3, <2>1
  <2>3. \A q \in Requests \ {r} : Alive(q)' <=> Alive(q)
    BY <2>1 DEF Alive
  <2>4. \A q \in Requests : Alive(q)' => UseOf(q, task'[q].started) \in uses'
    BY <1>3, <2>1, <2>3
  <2>5. ASSUME NEW q \in Requests \ {r}, Alive(q), Class(plan[q].kind) = Class(plan[r].kind)
        PROVE  Apart(q, r)'
    <3> DEFINE v == UseOf(q, task[q].started)
    <3>1. v \in uses /\ v.class = Class(plan[r].kind) /\ v.peer = plan[q].peer
          /\ v.at = task[q].started
      BY <1>3, <2>5
    <3> HIDE DEF v
    <3>2. /\ ~ (clock < v.at + GlobalCooldown)
          /\ v.peer = plan[r].peer => ~ (clock < v.at + PeerCooldown)
      BY <2>1, <3>1 DEF Cooling
    <3>3. task[q].started \in Int
      BY <1>2
    <3>4. /\ clock >= task[q].started + GlobalCooldown
          /\ plan[q].peer = plan[r].peer => clock >= task[q].started + PeerCooldown
      BY <1>1, <3>1, <3>2, <3>3, CooldownAssumption
    <3>5. QED
      BY <1>1, <2>1, <3>4 DEF Apart
  <2>6. \A q, p \in Requests \ {r} : Apart(q, p)' <=> Apart(q, p)
    BY <1>1, <2>1 DEF Apart
  <2>7. ASSUME NEW q \in Requests, NEW p \in Requests, q # p, Alive(q)', Alive(p)',
               Class(plan[q].kind) = Class(plan[p].kind)
        PROVE  Apart(q, p)' \/ Apart(p, q)'
    <3>1. CASE q = r
      BY <2>3, <2>5, <2>7, <3>1
    <3>2. CASE p = r
      BY <2>3, <2>5, <2>7, <3>2
    <3>3. CASE q # r /\ p # r
      BY <1>3, <2>3, <2>6, <2>7, <3>3
    <3>4. QED
      BY <3>1, <3>2, <3>3
  <2>8. QED
    BY <1>1, <2>2, <2>4, <2>7 DEF Cooled
<1>7. ASSUME NEW r \in Requests, NEW u \in TaskRec, Step(r, u), u.started = task[r].started,
             UNCHANGED <<uses, clock>>
      PROVE  Cooled'
  BY <1>1, <1>4, <1>7 DEF Step
<1>8. CASE \E r \in Requests, u \in TaskRec :
             Joins(r, u) \/ Tells(r, u) \/ Errs(r, u) \/ Leaves(r, u) \/ Pauses(r, u)
  BY <1>7, <1>8 DEF Joins, Tells, Errs, Leaves, Pauses, Alike
<1>9. CASE \E r \in Requests, u \in TaskRec, x \in Packet : Begins(r, u, x) \/ Repeats(r, u, x)
  BY <1>6, <1>7, <1>9 DEF Repeats
<1>10. CASE \/ \E r \in Requests, u \in TaskRec, y \in replies, x \in Packet : GoesOn(r, y, u, x)
            \/ \E r \in Requests, u \in TaskRec, y \in replies : Ends(r, y, u)
  BY <1>7, <1>10 DEF GoesOn, Ends, Hears
<1>11. CASE (\E pk \in packets : Writes(pk) \/ \E says \in Says : Reports(pk, says))
            \/ Changes \/ Passes
  <2>1. \A q \in Requests : task'[q].started = task[q].started
    BY <1>11, OtherTasks
  <2>2. UNCHANGED uses /\ clock' \in {clock, clock + 1}
    BY <1>11 DEF Writes, Reports, Responds, Changes, Passes
  <2>3. QED
    BY <1>4, <2>1, <2>2
<1>12. QED
  BY <1>5, <1>8, <1>9, <1>10, <1>11, WorkCases

\* The conjunct of Cooled about pairs is the property.
LEMMA CooledApart ==
  ASSUME TypeOK, Cooled
  PROVE  CooldownsHold
<1> SUFFICES ASSUME NEW q \in Requests, NEW r \in Requests,
                    q # r, task[q].started # Never, task[q].started <= task[r].started,
                    ~task[q].past, ~task[r].past,
                    Class(plan[q].kind) = Class(plan[r].kind)
             PROVE  Apart(q, r)
  BY DEF CooldownsHold, Apart
<1>1. task[q].started \in Int /\ task[r].started \in Int
  BY DEF TypeOK, TaskRec
<1>2. CASE task[r].started # Never
  <2>1. Apart(q, r) \/ Apart(r, q)
    BY <1>2 DEF Cooled, Alive
  <2>2. ASSUME Apart(r, q) PROVE Apart(q, r)
    BY <1>1, <2>2, CooldownAssumption DEF Apart
  <2>3. QED
    BY <2>1, <2>2
<1>3. CASE task[r].started = Never
  \* A request that began did so at a natural number.
  <2>1. PICK v \in uses : v.at = task[q].started
    BY DEF Cooled, Alive
  <2>2. v.at \in Nat
    BY DEF TypeOK
  <2>3. QED
    BY <1>3, <2>1, <2>2 DEF Never
<1>4. QED
  BY <1>2, <1>3

-----------------------------------------------------------------------------
(* What is under way *)

LEMMA UnderWayTyped ==
  ASSUME TypeOK
  PROVE  /\ \A x \in UnderWay : /\ x \in Packet /\ x.id \in Ids /\ x.id.by \in Requests
                                /\ x.id.step \in 1..3 /\ x.id.attempt \in 1..3
         /\ \A pk \in packets : pk \in UnderWay
         /\ \A y \in replies : y.to \in UnderWay /\ y.says \in Says
<1>1. \A pk \in packets : pk \in UnderWay
  BY DEF UnderWay
<1>2. \A y \in replies : y.to \in UnderWay /\ y.says \in Says
  BY DEF UnderWay, TypeOK
<1>3. \A x \in UnderWay : x \in Packet
  BY DEF UnderWay, TypeOK
<1>4. \A x \in Packet : x.id \in Ids
  BY DEF Packet
<1>5. \A i \in Ids : i.by \in Requests /\ i.step \in 1..3 /\ i.attempt \in 1..3
  BY DEF Ids
<1>6. QED
  BY <1>1, <1>2, <1>3, <1>4, <1>5

\* What each step does to packets and replies.
LEMMA Traffic ==
  ASSUME Works
  PROVE  \/ packets' \subseteq packets /\ replies' \subseteq replies
         \/ \E r \in Requests, u \in TaskRec, x \in Packet :
              /\ Posts(r, u, x) /\ replies' \subseteq replies
              /\ Begins(r, u, x) \/ Repeats(r, u, x) \/ \E y \in replies : GoesOn(r, y, u, x)
         \/ \E pk \in packets, says \in Says : Responds(pk, says)
<1>1. CASE \E r \in Requests, u \in TaskRec :
              Joins(r, u) \/ Tells(r, u) \/ Errs(r, u) \/ Leaves(r, u) \/ Pauses(r, u)
  BY <1>1 DEF Joins, Tells, Errs, Leaves, Pauses
<1>2. CASE \E r \in Requests, u \in TaskRec, x \in Packet : Begins(r, u, x) \/ Repeats(r, u, x)
  BY <1>2 DEF Begins, Repeats
<1>3. CASE \E r \in Requests, u \in TaskRec, y \in replies, x \in Packet : GoesOn(r, y, u, x)
  BY <1>3 DEF GoesOn, Hears
<1>4. CASE \E r \in Requests, u \in TaskRec, y \in replies : Ends(r, y, u)
  BY <1>4 DEF Ends, Hears
<1>5. CASE (\E pk \in packets : Writes(pk) \/ \E says \in Says : Reports(pk, says))
            \/ Changes \/ Restarts \/ Passes
  <2>1. "OK" \in Says
    BY DEF Says
  <2>2. QED
    BY <1>5, <2>1 DEF Writes, Reports, Changes, Restarts, Passes
<1>6. QED
  BY <1>1, <1>2, <1>3, <1>4, <1>5, WorkCases

\* A packet that leaves is the first with its id.
LEMMA PostedIsNew ==
  ASSUME TypeOK, Sent, NEW r \in Requests, NEW u \in TaskRec, NEW x \in Packet, Posts(r, u, x),
         Begins(r, u, x) \/ Repeats(r, u, x) \/ \E y \in replies : GoesOn(r, y, u, x)
  PROVE  \A z \in UnderWay : z.id # x.id
<1> SUFFICES ASSUME NEW z \in UnderWay, z.id = x.id PROVE FALSE
  OBVIOUS
<1>1. z.id.by = r /\ z.id.step = u.step /\ z.id.attempt = u.attempt
  BY DEF Posts
<1>2. task[r].pc \notin {"new", "queued"} /\ Earlier(z.id, task[r])
  BY <1>1 DEF Sent
<1>3. /\ u.step \in 1..3 /\ u.attempt \in 1..3 /\ task[r].step \in 1..3 /\ task[r].attempt \in 1..3
  BY DEF TypeOK, TaskRec
<1>4. CASE Begins(r, u, x)
  BY <1>2, <1>4 DEF Begins
<1>5. CASE Repeats(r, u, x)
  <2>1. u.step = task[r].step /\ u.attempt = task[r].attempt + 1
    BY <1>5 DEF Repeats
  <2>2. QED
    BY <1>1, <1>2, <1>3, <2>1 DEF Earlier
<1>6. CASE \E y \in replies : GoesOn(r, y, u, x)
  <2>1. u.step = task[r].step + 1
    BY <1>6 DEF GoesOn
  <2>2. QED
    BY <1>1, <1>2, <1>3, <2>1 DEF Earlier
<1>7. QED
  BY <1>4, <1>5, <1>6

LEMMA NextSent ==
  ASSUME TypeOK, Serial, Shaped, Sent, Works
  PROVE  Sent'
<1> DEFINE Fits(x, t) ==
      /\ t.pc \notin {"new", "queued"} /\ t.started # Never
      /\ x.id.step \in DOMAIN Exchanges(plan[x.id.by].kind)
      /\ Earlier(x.id, t)
<1>1. /\ task \in [Requests -> TaskRec] /\ UNCHANGED <<plan, setting>>
      /\ \A q \in Requests : Moves(task[q], task'[q]) /\ task[q] \in TaskRec /\ task'[q] \in TaskRec
      /\ \A q \in Requests : ShapedAs(q, task[q])
  BY PlanFixed, TaskMoves DEF TypeOK, Shaped
<1>2. \A x \in UnderWay : /\ x \in Packet /\ x.id.by \in Requests
                          /\ x.id.step \in 1..3 /\ x.id.attempt \in 1..3
  BY UnderWayTyped
<1>3. ASSUME NEW x \in UnderWay
      PROVE  Fits(x, task'[x.id.by])
  <2> DEFINE t == task[x.id.by]
             u == task'[x.id.by]
  <2>1. Fits(x, t)
    BY DEF Sent
  <2>2. Moves(t, u) /\ t \in TaskRec /\ u \in TaskRec
    BY <1>1, <1>2
  <2>3. /\ t.step \in 1..3 /\ t.attempt \in 1..3 /\ u.step \in 1..3 /\ u.attempt \in 1..3
        /\ x.id.step \in 1..3 /\ x.id.attempt \in 1..3
    BY <1>2, <2>2 DEF TaskRec
  <2> HIDE DEF t, u
  <2>4. Earlier(x.id, u)
    BY <2>1, <2>2, <2>3 DEF Moves, Earlier
  <2>5. QED
    BY <2>1, <2>2, <2>4 DEF Moves, u
<1> HIDE DEF Fits
<1>4. SUFFICES /\ \A x \in UnderWay' : Fits(x, task'[x.id.by])
               /\ \A pk, qk \in packets' : pk.id = qk.id => pk = qk
               /\ \A pk \in packets', y \in replies' : pk.id # y.to.id
               /\ \A y, z \in replies' : y.to.id = z.to.id => y = z
  BY <1>1 DEF Sent, Fits
<1>5. /\ \A pk, qk \in packets : pk.id = qk.id => pk = qk
      /\ \A pk \in packets, y \in replies : pk.id # y.to.id
      /\ \A y, z \in replies : y.to.id = z.to.id => y = z
  BY DEF Sent
<1>6. CASE packets' \subseteq packets /\ replies' \subseteq replies
  <2>1. UnderWay' \subseteq UnderWay
    BY <1>6 DEF UnderWay
  <2>2. QED
    BY <1>3, <1>5, <1>6, <2>1
<1>7. CASE \E r \in Requests, u \in TaskRec, x \in Packet :
              /\ Posts(r, u, x) /\ replies' \subseteq replies
              /\ Begins(r, u, x) \/ Repeats(r, u, x) \/ \E y \in replies : GoesOn(r, y, u, x)
  <2>1. PICK r \in Requests, u \in TaskRec, x \in Packet :
              /\ Posts(r, u, x) /\ replies' \subseteq replies
              /\ Begins(r, u, x) \/ Repeats(r, u, x) \/ \E y \in replies : GoesOn(r, y, u, x)
    BY <1>7
  <2>2. \A z \in UnderWay : z.id # x.id
    BY <2>1, PostedIsNew
  <2>3. packets' = packets \cup {x} /\ UnderWay' \subseteq UnderWay \cup {x}
    BY <2>1 DEF Posts, UnderWay
  <2>4. Fits(x, task'[x.id.by])
    <3>1. /\ x.id.by = r /\ x.id.step = u.step /\ x.id.attempt = u.attempt /\ u.pc = "asking"
      BY <2>1 DEF Posts
    <3>2. Step(r, u)
      BY <2>1 DEF Begins, Repeats, GoesOn, Hears
    <3>3. task'[r] = u
      BY <1>1, <3>2 DEF Step
    <3>4. u.started # Never
      <4>1. CASE Begins(r, u, x)
        BY <4>1 DEF Begins, TypeOK, Never
      <4>2. CASE Repeats(r, u, x) \/ \E y \in replies : GoesOn(r, y, u, x)
        BY <1>1, <4>2 DEF Repeats, GoesOn, Hears, ShapedAs
      <4>3. QED
        BY <2>1, <4>1, <4>2
    <3>5. u.step \in DOMAIN Exchanges(plan[r].kind)
      <4>1. Shaped'
        BY NextShaped
      <4>2. QED
        BY <1>1, <3>3, <4>1 DEF Shaped, ShapedAs
    <3>6. u.step \in 1..3 /\ u.attempt \in 1..3
      BY DEF TaskRec
    <3>7. QED
      BY <3>1, <3>3, <3>4, <3>5, <3>6 DEF Fits, Earlier
  <2>5. \A z \in UnderWay' : Fits(z, task'[z.id.by])
    BY <1>3, <2>3, <2>4
  <2>6. (\A pk \in packets : pk \in UnderWay) /\ \A y \in replies : y.to \in UnderWay
    BY UnderWayTyped
  <2>7. \A pk, qk \in packets' : pk.id = qk.id => pk = qk
    BY <1>5, <2>2, <2>3, <2>6
  <2>8. \A pk \in packets', y \in replies' : pk.id # y.to.id
    BY <1>5, <2>1, <2>2, <2>3, <2>6
  <2>9. QED
    BY <1>5, <2>1, <2>5, <2>7, <2>8
<1>8. CASE \E pk \in packets, says \in Says : Responds(pk, says)
  <2>1. PICK pk \in packets, says \in Says : Responds(pk, says)
    BY <1>8
  <2> DEFINE z == [to |-> pk, says |-> says]
  <2>2. z.to = pk /\ packets' = packets \ {pk} /\ replies' = replies \cup {z}
    BY <2>1 DEF Responds
  <2> HIDE DEF z
  <2>3. UnderWay' \subseteq UnderWay
    BY <2>2 DEF UnderWay
  <2>4. QED
    BY <1>3, <1>5, <2>2, <2>3
<1>9. QED
  BY <1>6, <1>7, <1>8, Traffic

-----------------------------------------------------------------------------
(* Logins *)

LEMMA GivenUpStays ==
  ASSUME TypeOK, Serial, Shaped, Works, NEW q \in Requests, GivenUp(q)
  PROVE  GivenUp(q)'
BY TaskMoves DEF GivenUp, Moves

LEMMA UnsureStays ==
  ASSUME TypeOK, Serial, Shaped, Works, NEW p, Unsure(p)
  PROVE  Unsure(p)'
<1>1. PICK q \in Requests : plan[q].kind = "login" /\ plan[q].peer = p /\ GivenUp(q)
  BY DEF Unsure
<1>2. GivenUp(q)' /\ UNCHANGED <<plan, setting>>
  BY <1>1, GivenUpStays, PlanFixed
<1>3. QED
  BY <1>1, <1>2 DEF Unsure

\* A login that is answered has its own answer, or one to a login that was
\* given up.
LEMMA LoginAnswered ==
  ASSUME TypeOK, Serial, Shaped, Sent, Loose,
         NEW r \in Requests, task[r].pc = "asking", plan[r].kind = "login",
         NEW y \in replies, Matches(r, y)
  PROVE  \/ y.to.id.by = r /\ \A x \in UnderWay : x.id.by = r => x.id = y.to.id
         \/ \E q \in Requests \ {r} :
              plan[q].kind = "login" /\ plan[q].peer = plan[r].peer /\ GivenUp(q)
<1> DEFINE g == y.to.id.by
<1>1. /\ y.to \in UnderWay /\ g \in Requests
      /\ \A x \in UnderWay : /\ x.id \in Ids /\ x.id.by \in Requests
                             /\ x.id.step \in 1..3 /\ x.id.attempt \in 1..3
  BY UnderWayTyped
<1>2. ShapedAs(r, task[r]) /\ ShapedAs(g, task[g])
  BY <1>1 DEF Shaped
<1>3. Verb(r) = "login"
  BY <1>2, PlaceTyped, VerbFacts DEF ShapedAs, Verb
<1>4. VerbOf(y.to) = "login" /\ PeerOf(y.to) = plan[r].peer
  BY <1>3 DEF Matches, PeerMatches, Cli
<1>5. plan[g].kind = "login" /\ plan[g].peer = plan[r].peer
  BY <1>1, <1>4, PlaceTyped, VerbFacts DEF Sent, VerbOf, PeerOf
<1>6. CASE g = r
  <2>1. ASSUME NEW x \in UnderWay, x.id.by = r
        PROVE  x.id.step = 1 /\ x.id.attempt = 1
    <3>1. x.id.step \in DOMAIN Exchanges("login") /\ Earlier(x.id, task[r])
      BY <2>1 DEF Sent
    <3>2. "login" \in Kinds /\ "login" \notin Mutations
      BY DEF Kinds, Mutations
    <3>3. x.id.step \in 1..1 /\ task[r].step \in 1..1
      BY <1>2, <3>1, <3>2, ExchangeFacts DEF ShapedAs
    <3>4. task[r].attempt = 1
      BY <1>2, <1>3 DEF ShapedAs, Verb, Cli
    <3>5. x.id.attempt \in 1..3
      BY <1>1
    <3>6. QED
      BY <3>1, <3>3, <3>4, <3>5 DEF Earlier
  <2>2. \A x \in UnderWay : x.id.by = r => x.id = y.to.id
    BY <1>1, <1>6, <2>1 DEF Ids
  <2>3. QED
    BY <1>6, <2>2
<1>7. CASE g # r
  <2>1. task[g].pc # "asking"
    BY <1>1, <1>7 DEF Serial, Busy, Owns
  <2>2. Unsure(plan[r].peer)
    BY <1>1, <1>4, <1>5, <2>1 DEF Loose
  <2>3. PICK q \in Requests : plan[q].kind = "login" /\ plan[q].peer = plan[r].peer /\ GivenUp(q)
    BY <2>2 DEF Unsure
  <2>4. ~ GivenUp(r)
    BY <1>2 DEF GivenUp, ShapedAs
  <2>5. QED
    BY <2>3, <2>4
<1>8. QED
  BY <1>6, <1>7

LEMMA NextLoose ==
  ASSUME TypeOK, Serial, Shaped, Sent, Loose, Works
  PROVE  Loose'
<1>1. /\ task \in [Requests -> TaskRec] /\ UNCHANGED <<plan, setting>>
      /\ \A q \in Requests : ShapedAs(q, task[q])
  BY PlanFixed DEF TypeOK, Shaped
<1>2. SUFFICES ASSUME NEW x \in UnderWay', plan[x.id.by].kind = "login",
                      task'[x.id.by].pc # "asking"
               PROVE  Unsure(plan[x.id.by].peer)'
  BY <1>1 DEF Loose, PeerOf
<1> DEFINE q == x.id.by
<1>3. x \in UnderWay /\ q \in Requests
  <2>1. CASE x \in UnderWay
    BY <2>1, UnderWayTyped
  <2>2. CASE x \notin UnderWay
    <3>1. PICK r \in Requests, u \in TaskRec, z \in Packet :
              /\ Posts(r, u, z) /\ replies' \subseteq replies
              /\ Begins(r, u, z) \/ Repeats(r, u, z) \/ \E y \in replies : GoesOn(r, y, u, z)
      <4>1. CASE packets' \subseteq packets /\ replies' \subseteq replies
        BY <2>2, <4>1 DEF UnderWay
      <4>2. CASE \E pk \in packets, says \in Says : Responds(pk, says)
        BY <2>2, <4>2 DEF UnderWay, Responds
      <4>3. QED
        BY <4>1, <4>2, Traffic
    <3>2. x = z
      BY <2>2, <3>1 DEF UnderWay, Posts
    <3>3. Step(r, u) /\ u.pc = "asking" /\ x.id.by = r
      BY <3>1, <3>2 DEF Posts, Begins, Repeats, GoesOn, Hears
    <3>4. task'[r] = u
      BY <1>1, <3>3 DEF Step
    <3>5. QED
      BY <1>2, <3>3, <3>4
  <2>3. QED
    BY <2>1, <2>2
<1>4. CASE Unsure(plan[q].peer)
  BY <1>1, <1>4, UnsureStays
<1>5. CASE GivenUp(q)'
  BY <1>1, <1>2, <1>3, <1>5 DEF Unsure
<1>6. CASE ~ Unsure(plan[q].peer) /\ ~ GivenUp(q)'
  <2>1. task[q].pc = "asking"
    BY <1>2, <1>3, <1>6 DEF Loose, PeerOf
  <2>2. ASSUME NEW r \in Requests, NEW u \in TaskRec, Step(r, u)
        PROVE  r = q /\ task'[q] = u
    BY <1>1, <1>2, <1>3, <2>1, <2>2 DEF Step
  <2>3. CASE \E r \in Requests, u \in TaskRec :
               Joins(r, u) \/ Tells(r, u) \/ Errs(r, u) \/ Leaves(r, u) \/ Pauses(r, u)
    <3>1. PICK u \in TaskRec :
            /\ task'[q] = u
            /\ Joins(q, u) \/ Tells(q, u) \/ Errs(q, u) \/ Leaves(q, u) \/ Pauses(q, u)
      <4>1. PICK r \in Requests, u \in TaskRec :
              Joins(r, u) \/ Tells(r, u) \/ Errs(r, u) \/ Leaves(r, u) \/ Pauses(r, u)
        BY <2>3
      <4>2. Step(r, u)
        BY <4>1 DEF Joins, Tells, Errs, Leaves, Pauses
      <4>3. QED
        BY <2>2, <4>1, <4>2
    <3>2. ~ Joins(q, u) /\ ~ Tells(q, u) /\ ~ Errs(q, u)
      BY <2>1 DEF Joins, Tells, Errs
    <3>3. ~ Leaves(q, u)
      BY <1>6, <2>1, <3>1 DEF Leaves, GivenUp
    <3>4. ~ Pauses(q, u)
      <4>1. ShapedAs(q, task[q]) /\ Verb(q) = "login"
        BY <1>1, <1>2, <1>3, PlaceTyped, VerbFacts DEF ShapedAs, Verb
      <4>2. Attempts(Verb(q)) = 1 /\ task[q].attempt \in 1..3
        BY <1>1, <1>3, <4>1, AttemptsBounded DEF TypeOK, TaskRec, Cli
      <4>3. QED
        BY <4>2 DEF Pauses
    <3>5. QED
      BY <3>1, <3>2, <3>3, <3>4
  <2>4. CASE \E r \in Requests, u \in TaskRec, z \in Packet : Begins(r, u, z) \/ Repeats(r, u, z)
    BY <2>1, <2>2, <2>4 DEF Begins, Repeats
  <2>5. CASE \E r \in Requests, u \in TaskRec, y \in replies, z \in Packet : GoesOn(r, y, u, z)
    <3>1. PICK r \in Requests, u \in TaskRec, y \in replies, z \in Packet : GoesOn(r, y, u, z)
      BY <2>5
    <3>2. After(r, y.says) = "next" /\ Hears(r, y, u) /\ Step(r, u) /\ y.says \in Says
      BY <3>1, UnderWayTyped DEF GoesOn, Hears
    <3>3. plan[q].kind \in Mutations
      BY <1>1, <2>2, <3>2, AfterFacts
    <3>4. QED
      BY <1>2, <3>3 DEF Mutations
  <2>6. CASE \E r \in Requests, u \in TaskRec, y \in replies : Ends(r, y, u)
    <3>1. PICK r \in Requests, u \in TaskRec, y \in replies : Ends(r, y, u)
      BY <2>6
    <3>2. /\ Hears(r, y, u) /\ Step(r, u) /\ Matches(r, y) /\ packets' = packets
          /\ replies' = replies \ {y}
      BY <3>1 DEF Ends, Hears
    <3>3. r = q
      BY <2>2, <3>2
    <3>4. ~ \E p \in Requests \ {q} :
              plan[p].kind = "login" /\ plan[p].peer = plan[q].peer /\ GivenUp(p)
      BY <1>6 DEF Unsure
    <3>5. x.id = y.to.id
      BY <1>2, <1>3, <2>1, <3>2, <3>3, <3>4, LoginAnswered
    <3>6. x \notin packets /\ \A w \in replies \ {y} : w.to # x
      BY <3>5 DEF Sent
    <3>7. QED
      BY <3>2, <3>6 DEF UnderWay
  <2>7. CASE (\E pk \in packets : Writes(pk) \/ \E says \in Says : Reports(pk, says))
              \/ Changes \/ Restarts \/ Passes
    <3>1. task'[q].pc = "dead"
      BY <1>2, <1>3, <2>1, <2>7, OtherTasks
    <3>2. QED
      BY <1>6, <3>1 DEF GivenUp
  <2>8. QED
    BY <2>3, <2>4, <2>5, <2>6, <2>7, WorkCases
<1>7. QED
  BY <1>4, <1>5, <1>6

LEMMA NextLoginAnswersOwn ==
  ASSUME TypeOK, Serial, Shaped, Sent, Loose, LoginAnswersOwn, Works
  PROVE  LoginAnswersOwn'
<1>1. /\ task \in [Requests -> TaskRec] /\ UNCHANGED <<plan, setting>>
      /\ \A q \in Requests : ShapedAs(q, task[q])
  BY PlanFixed DEF TypeOK, Shaped
<1>2. SUFFICES ASSUME NEW r \in Requests, plan[r].kind = "login", task'[r].foreign
               PROVE  \E q \in Requests \ {r} :
                        plan[q].kind = "login" /\ plan[q].peer = plan[r].peer /\ GivenUp(q)'
  BY <1>1 DEF LoginAnswersOwn, GivenUp
<1>3. SUFFICES \E q \in Requests \ {r} :
                 plan[q].kind = "login" /\ plan[q].peer = plan[r].peer /\ GivenUp(q)
  BY GivenUpStays
<1>4. CASE task[r].foreign
  BY <1>2, <1>4 DEF LoginAnswersOwn, GivenUp
<1>5. CASE ~ task[r].foreign
  <2>1. ASSUME NEW p \in Requests, NEW u \in TaskRec, NEW y \in replies, Hears(p, y, u)
        PROVE  \E q \in Requests \ {r} :
                 plan[q].kind = "login" /\ plan[q].peer = plan[r].peer /\ GivenUp(q)
    <3>1. /\ Step(p, u) /\ task[p].pc = "asking" /\ Matches(p, y)
          /\ u.foreign = (task[p].foreign \/ y.to.id.by # p)
      BY <2>1 DEF Hears
    <3>2. p = r /\ task'[r] = u
      BY <1>1, <1>2, <1>5, <3>1 DEF Step
    <3>3. y.to.id.by # r
      BY <1>2, <1>5, <3>1, <3>2
    <3>4. QED
      BY <1>2, <3>1, <3>2, <3>3, LoginAnswered
  <2>2. CASE \/ \E p \in Requests, u \in TaskRec :
                  Joins(p, u) \/ Tells(p, u) \/ Errs(p, u) \/ Leaves(p, u) \/ Pauses(p, u)
             \/ \E p \in Requests, u \in TaskRec, x \in Packet : Begins(p, u, x) \/ Repeats(p, u, x)
    <3>1. PICK p \in Requests, u \in TaskRec : Step(p, u) /\ u.foreign = task[p].foreign
      BY <2>2 DEF Joins, Tells, Errs, Leaves, Pauses, Alike, Begins, Repeats
    <3>2. QED
      BY <1>1, <1>2, <1>5, <3>1 DEF Step
  <2>3. CASE (\E pk \in packets : Writes(pk) \/ \E says \in Says : Reports(pk, says))
              \/ Changes \/ Restarts \/ Passes
    BY <1>2, <1>5, <2>3, OtherTasks
  <2>4. QED
    BY <2>1, <2>2, <2>3, WorkCases DEF GoesOn, Ends
<1>6. QED
  BY <1>4, <1>5

-----------------------------------------------------------------------------
(* What replies are evidence of *)

\* What is said of the request r of a task t, the register being v.
WitnessOf(r, t, v) ==
  t.pc \in {"asking", "pausing"} =>
    /\ v \in t.seen
    /\ plan[r].kind = "configure" /\ t.step = 3 => plan[r].value \in t.seen \/ t.mistook > 0

\* What is said of a reply y to a request of task t.
EvidenceOf(y, t) ==
  /\ VerbOf(y.to) = "query" => y.says \in Values
  /\ t.pc \in {"asking", "pausing"} =>
       /\ VerbOf(y.to) = "set" /\ y.says = "OK" => plan[y.to.id.by].value \in t.seen
       /\ VerbOf(y.to) \in {"get", "query"} /\ y.says \in Values => y.says \in t.seen

LEMMA WitnessedParts ==
  ASSUME TypeOK
  PROVE  Witnessed <=> /\ \A r \in Requests : WitnessOf(r, task[r], register[Place(r)])
                       /\ \A y \in replies : EvidenceOf(y, task[y.to.id.by])
BY DEF Witnessed, WitnessOf, EvidenceOf, Busy

\* The reply that takes a configuration to its third step, if it is to the
\* command sent, or the tag drawn twice that it came by.
LEMMA WriteHeard ==
  ASSUME TypeOK, Shaped, Sent, Witnessed,
         NEW r \in Requests, NEW u \in TaskRec, NEW y \in replies, Hears(r, y, u),
         task[r].step = 2, After(r, y.says) = "next"
  PROVE  /\ Verb(r) = "set" /\ u.writes = task[r].attempt
         /\ \/ y.to.id = Current(r) /\ plan[r].value \in task[r].seen
            \/ u.mistook > 0
<1>1. /\ task[r].pc = "asking" /\ Matches(r, y) /\ ShapedAs(r, task[r]) /\ y.says \in Says
      /\ task[r].mistook \in 0..3
  BY UnderWayTyped DEF Hears, Shaped, TypeOK, TaskRec
<1>2. plan[r].kind \in Mutations /\ y.says = "OK"
  BY <1>1, AfterFacts
<1>3. Verb(r) = "set"
  BY <1>1, <1>2, PlaceTyped, VerbFacts DEF ShapedAs, Verb
<1>4. y.to.tag = task[r].tag
  BY <1>1, <1>3 DEF Matches, CliMatches, Cli
<1>5. CASE y.to.id = Current(r)
  <2>1. y.to.id.by = r /\ VerbOf(y.to) = Verb(r)
    BY <1>5 DEF Current, VerbOf, Verb
  <2>2. plan[r].value \in task[r].seen
    BY <1>1, <1>2, <1>3, <2>1 DEF Witnessed, Busy
  <2>3. QED
    BY <1>3, <1>5, <2>2 DEF Hears
<1>6. CASE y.to.id # Current(r)
  BY <1>1, <1>3, <1>4, <1>6 DEF Hears
<1>7. QED
  BY <1>5, <1>6

LEMMA NextWitnessed ==
  ASSUME TypeOK, Serial, Shaped, Sent, Witnessed, Works, TypeOK'
  PROVE  Witnessed'
<1>1. /\ task \in [Requests -> TaskRec] /\ UNCHANGED <<plan, setting>>
      /\ register \in [Peers \X {"interval", "permission"} -> Values]
      /\ \A q \in Requests : ShapedAs(q, task[q]) /\ Place(q) \in Peers \X {"interval", "permission"}
      /\ \A q \in Requests : /\ Moves(task[q], task'[q]) /\ task'[q] \in TaskRec
                             /\ task[q].mistook \in 0..3 /\ task'[q].mistook \in 0..3
                             /\ task[q].step \in 1..3
  BY PlanFixed, TaskMoves, PlaceTyped DEF TypeOK, Shaped, TaskRec
<1>2. /\ \A r \in Requests : WitnessOf(r, task[r], register[Place(r)])
      /\ \A y \in replies : EvidenceOf(y, task[y.to.id.by])
  BY WitnessedParts
<1>3. SUFFICES /\ \A q \in Requests : WitnessOf(q, task'[q], register'[Place(q)])
               /\ \A y \in replies' : EvidenceOf(y, task'[y.to.id.by])
  BY <1>1 DEF Witnessed, WitnessOf, EvidenceOf, Busy, Place, VerbOf
<1> DEFINE Goal == /\ \A q \in Requests : WitnessOf(q, task'[q], register'[Place(q)])
                   /\ \A y \in replies' : EvidenceOf(y, task'[y.to.id.by])
<1>4. \A y \in replies : y.to \in UnderWay /\ y.to.id.by \in Requests /\ y.says \in Says
  BY UnderWayTyped
<1>5. ASSUME NEW r \in Requests, NEW u \in TaskRec, Step(r, u), UNCHANGED register,
             replies' \subseteq replies,
             WitnessOf(r, u, register[Place(r)]),
             \A y \in replies : y.to.id.by = r => EvidenceOf(y, u)
      PROVE  Goal
  <2>1. task'[r] = u /\ \A q \in Requests \ {r} : task'[q] = task[q]
    BY <1>1, <1>5 DEF Step
  <2>2. QED
    BY <1>2, <1>4, <1>5, <2>1
\* A task that goes on with what it has seen.
<1>6. ASSUME NEW r \in Requests, NEW u \in TaskRec, Step(r, u), UNCHANGED register,
             replies' \subseteq replies,
             u.pc \in {"asking", "pausing"} =>
               /\ task[r].pc \in {"asking", "pausing"} /\ u.seen = task[r].seen
               /\ u.step = 3 /\ plan[r].kind = "configure" =>
                    task[r].step = 3 \/ plan[r].value \in task[r].seen \/ u.mistook > 0
      PROVE  Goal
  <2>1. task'[r] = u
    BY <1>1, <1>6 DEF Step
  <2>2. task[r].mistook <= u.mistook /\ task[r].mistook \in 0..3 /\ u.mistook \in 0..3
    BY <1>1, <2>1 DEF Moves
  <2>3. WitnessOf(r, u, register[Place(r)])
    BY <1>2, <1>6, <2>2 DEF WitnessOf
  <2>4. \A y \in replies : y.to.id.by = r => EvidenceOf(y, u)
    BY <1>2, <1>6 DEF EvidenceOf
  <2>5. QED
    BY <1>5, <1>6, <2>3, <2>4
<1>7. ASSUME SeesMore,
             \A y \in replies' : y \in replies \/ EvidenceOf(y, task'[y.to.id.by])
      PROVE  Goal
  <2>1. \A q \in Requests :
          /\ task'[q].pc = task[q].pc /\ task'[q].step = task[q].step
          /\ task'[q].mistook = task[q].mistook
          /\ task'[q].seen =
               IF Busy(q) THEN task[q].seen \cup {register'[Place(q)]} ELSE task[q].seen
    <3>1. ASSUME NEW q \in Requests
          PROVE  task'[q].step = task[q].step /\ task'[q].mistook = task[q].mistook
      <4> DEFINE s == task'[q].seen
                 u == task'[q]
      <4>1. Alike([task[q] EXCEPT !.seen = s], u) /\ task[q] \in TaskRec
        BY <1>1, <1>7 DEF SeesMore
      <4> HIDE DEF s, u
      <4>2. u.step = task[q].step /\ u.mistook = task[q].mistook
        BY <4>1 DEF Alike, TaskRec
      <4>3. QED
        BY <4>2 DEF u
    <3>2. QED
      BY <1>7, <3>1 DEF SeesMore
  <2>2. \A q \in Requests : WitnessOf(q, task'[q], register'[Place(q)])
    BY <1>2, <2>1 DEF WitnessOf, Busy
  <2>3. \A y \in replies : EvidenceOf(y, task'[y.to.id.by])
    BY <1>2, <1>4, <2>1 DEF EvidenceOf, Busy
  <2>4. QED
    BY <1>7, <2>2, <2>3
<1>8. SUFFICES Goal
  OBVIOUS
<1> HIDE DEF Goal
<1>9. CASE \E r \in Requests, u \in TaskRec :
             Joins(r, u) \/ Tells(r, u) \/ Errs(r, u) \/ Leaves(r, u) \/ Pauses(r, u)
  <2>1. PICK r \in Requests, u \in TaskRec :
          Joins(r, u) \/ Tells(r, u) \/ Errs(r, u) \/ Leaves(r, u) \/ Pauses(r, u)
    BY <1>9
  <2>2. /\ Step(r, u) /\ UNCHANGED register /\ replies' \subseteq replies
        /\ u.step = task[r].step
        /\ u.pc \in {"asking", "pausing"} => task[r].pc = "asking" /\ u.seen = task[r].seen
    BY <2>1 DEF Joins, Tells, Errs, Leaves, Pauses, Alike
  <2>3. QED
    BY <1>6, <2>2
<1>10. CASE \E r \in Requests, u \in TaskRec, x \in Packet : Begins(r, u, x) \/ Repeats(r, u, x)
  <2>1. PICK r \in Requests, u \in TaskRec, x \in Packet : Begins(r, u, x) \/ Repeats(r, u, x)
    BY <1>10
  <2>2. CASE Repeats(r, u, x)
    <3>1. /\ Step(r, u) /\ UNCHANGED register /\ replies' \subseteq replies
          /\ u.step = task[r].step /\ task[r].pc = "pausing" /\ u.seen = task[r].seen
      BY <2>2 DEF Repeats
    <3>2. QED
      BY <1>6, <3>1
  <2>3. CASE Begins(r, u, x)
    <3>1. /\ Step(r, u) /\ UNCHANGED register /\ replies' \subseteq replies
          /\ u.step = task[r].step /\ task[r].pc = "queued" /\ u.seen = {register[Place(r)]}
      BY <2>3 DEF Begins
    <3>2. u.step = 1
      BY <1>1, <3>1 DEF ShapedAs, Untouched
    <3>3. WitnessOf(r, u, register[Place(r)])
      BY <3>1, <3>2 DEF WitnessOf
    <3>4. \A y \in replies : y.to.id.by # r
      BY <1>4, <3>1 DEF Sent
    <3>5. QED
      BY <1>5, <3>1, <3>3, <3>4
  <2>4. QED
    BY <2>1, <2>2, <2>3
<1>11. CASE \E r \in Requests, u \in TaskRec, y \in replies, x \in Packet : GoesOn(r, y, u, x)
  <2>1. PICK r \in Requests, u \in TaskRec, y \in replies, x \in Packet : GoesOn(r, y, u, x)
    BY <1>11
  <2>2. /\ Hears(r, y, u) /\ After(r, y.says) = "next" /\ Step(r, u) /\ UNCHANGED register
        /\ replies' \subseteq replies /\ task[r].pc = "asking" /\ u.seen = task[r].seen
        /\ u.step = task[r].step + 1
    BY <2>1 DEF GoesOn, Hears
  <2>3. u.step = 3 => plan[r].value \in task[r].seen \/ u.mistook > 0
    <3>1. ASSUME u.step = 3 PROVE task[r].step = 2
      BY <1>1, <2>2, <3>1
    <3>2. QED
      BY <2>2, <3>1, WriteHeard
  <2>4. QED
    BY <1>6, <2>2, <2>3
<1>12. CASE \E r \in Requests, u \in TaskRec, y \in replies : Ends(r, y, u)
  <2>1. PICK r \in Requests, u \in TaskRec, y \in replies : Ends(r, y, u)
    BY <1>12
  <2>2. Step(r, u) /\ UNCHANGED register /\ replies' \subseteq replies /\ u.pc = "recording"
    BY <2>1 DEF Ends, Hears
  <2>3. QED
    BY <1>6, <2>2
<1>13. CASE \E pk \in packets : Writes(pk)
  <2>1. PICK pk \in packets : Writes(pk)
    BY <1>13
  <2> DEFINE z == [to |-> pk, says |-> "OK"]
             r == pk.id.by
  <2>2. /\ VerbOf(pk) = "set" /\ SeesMore /\ replies' = replies \cup {z}
        /\ register' = [register EXCEPT ![Place(r)] = plan[r].value]
    BY <2>1 DEF Writes, Responds
  <2>3. r \in Requests
    BY UnderWayTyped
  <2>4. register'[Place(r)] = plan[r].value
    BY <1>1, <2>2, <2>3
  <2>5. /\ task'[r].pc = task[r].pc
        /\ task'[r].seen = IF Busy(r) THEN task[r].seen \cup {register'[Place(r)]} ELSE task[r].seen
    BY <2>2, <2>3 DEF SeesMore
  <2>6. EvidenceOf(z, task'[r])
    BY <2>2, <2>4, <2>5 DEF EvidenceOf, Busy
  <2>7. QED
    BY <1>7, <2>2, <2>6
<1>14. CASE \E pk \in packets, says \in Says : Reports(pk, says)
  <2>1. PICK pk \in packets, says \in Says : Reports(pk, says)
    BY <1>14
  <2> DEFINE z == [to |-> pk, says |-> says]
             r == pk.id.by
  <2>2. /\ replies' = replies \cup {z} /\ UNCHANGED <<register, task>>
        /\ \/ VerbOf(pk) \in {"get", "query"} /\ says = register[Place(r)]
           \/ VerbOf(pk) \in {"status", "login"}
           \/ VerbOf(pk) \in Cli /\ says = "refused"
    BY <2>1 DEF Reports, Responds
  <2>3. r \in Requests /\ register[Place(r)] \in Values
    BY <1>1, UnderWayTyped
  <2>4. "refused" \notin Values
    BY ValuesAssumption
  <2>5. task[r].pc \in {"asking", "pausing"} => register[Place(r)] \in task[r].seen
    BY <1>2, <2>3 DEF WitnessOf
  <2>6. z.to = pk /\ z.says = says
    OBVIOUS
  <2> HIDE DEF z
  <2>7. EvidenceOf(z, task[r])
    BY <2>2, <2>3, <2>4, <2>5, <2>6 DEF EvidenceOf, Cli
  <2>8. QED
    BY <1>2, <2>2, <2>6, <2>7 DEF Goal
<1>15. CASE Changes
  BY <1>7, <1>15 DEF Changes
<1>16. CASE Restarts
  <2>1. ASSUME NEW q \in Requests PROVE task'[q].pc \notin {"asking", "pausing"}
    BY <1>16 DEF Restarts, Dies
  <2>2. \A y \in replies' : EvidenceOf(y, task'[y.to.id.by])
    BY <1>2, <1>4, <1>16, <2>1 DEF Restarts, EvidenceOf
  <2>3. \A q \in Requests : WitnessOf(q, task'[q], register'[Place(q)])
    BY <2>1 DEF WitnessOf
  <2>4. QED
    BY <2>2, <2>3 DEF Goal
<1>17. CASE Passes
  BY <1>2, <1>17 DEF Passes, Goal
<1>18. QED
  BY <1>9, <1>10, <1>11, <1>12, <1>13, <1>14, <1>15, <1>16, <1>17, WorkCases

\* The answer of success, if it is one, was true.
LEMMA SuccessHeard ==
  ASSUME TypeOK, Shaped, Sent, Witnessed,
         NEW r \in Requests, NEW u \in TaskRec, NEW y \in replies, Ends(r, y, u),
         u.outcome = "succeeded"
  PROVE  /\ plan[r].kind \in Mutations /\ u.mistook <= 1 => plan[r].value \in u.seen
         /\ plan[r].kind \in {"read_config", "read_acl"} /\ u.mistook = 0 => u.result \in u.seen
<1>1. /\ Hears(r, y, u) /\ After(r, y.says) = "succeeded" /\ y.to \in UnderWay /\ y.says \in Says
      /\ ShapedAs(r, task[r]) /\ task[r].pc = "asking" /\ Matches(r, y) /\ u.seen = task[r].seen
      /\ task[r].mistook \in 0..3
  BY UnderWayTyped DEF Ends, Hears, Shaped, TypeOK, TaskRec
<1>2. /\ plan[r].kind \in Mutations => task[r].step = 3 /\ y.says = plan[r].value
      /\ plan[r].kind = "read_config" => y.says \in Values
  BY <1>1, AfterFacts
<1>3. /\ plan[r].kind \in {"configure", "read_config"} /\ Verb(r) # "set" => Verb(r) = "get"
      /\ Verb(r) = "set" <=> plan[r].kind \in Mutations /\ task[r].step = 2
      /\ plan[r].kind \in {"update_acl", "read_acl"} /\ Verb(r) # "set" => Verb(r) = "query"
      /\ plan[r].value \in Values
  BY <1>1, PlaceTyped, ExchangeFacts, VerbFacts DEF ShapedAs, Verb, Mutations
<1>4. ASSUME y.to.id = Current(r), Verb(r) \in {"get", "query"}, y.says \in Values
      PROVE  y.says \in task[r].seen
  <2>1. y.to.id.by = r /\ VerbOf(y.to) = Verb(r)
    BY <1>4 DEF Current, VerbOf, Verb
  <2>2. QED
    BY <1>1, <1>4, <2>1 DEF Witnessed, Busy
<1>5. Verb(r) = "query" => y.to.id = Current(r) /\ y.says \in Values
  <2>1. ASSUME Verb(r) = "query" PROVE y.to.id = Current(r)
    BY <1>1, <2>1 DEF Matches, Cli
  <2>2. ASSUME Verb(r) = "query" PROVE VerbOf(y.to) = "query"
    BY <2>1, <2>2 DEF Current, VerbOf, Verb
  <2>3. QED
    BY <2>1, <2>2 DEF Witnessed
<1>6. Verb(r) = "get" /\ y.to.id # Current(r) => u.mistook = task[r].mistook + 1
  <2>1. Verb(r) = "get" => y.to.tag = task[r].tag
    BY <1>1 DEF Matches, CliMatches, Cli
  <2>2. QED
    BY <1>1, <2>1 DEF Hears
<1>7. plan[r].kind \in Mutations /\ u.mistook <= 1 => plan[r].value \in u.seen
  <2> SUFFICES ASSUME plan[r].kind \in Mutations, u.mistook <= 1 PROVE plan[r].value \in u.seen
    OBVIOUS
  <2>1. task[r].step = 3 /\ y.says = plan[r].value /\ y.says \in Values /\ Verb(r) # "set"
    BY <1>2, <1>3
  <2>2. CASE y.to.id = Current(r)
    BY <1>1, <1>3, <1>4, <2>1, <2>2 DEF Mutations
  <2>3. CASE y.to.id # Current(r)
    <3>1. plan[r].kind = "configure" /\ Verb(r) = "get"
      BY <1>3, <1>5, <2>1, <2>3 DEF Mutations
    <3>2. task[r].mistook = 0
      BY <1>1, <1>6, <2>3, <3>1
    <3>3. QED
      BY <1>1, <2>1, <3>1, <3>2 DEF Witnessed, Busy
  <2>4. QED
    BY <2>2, <2>3
<1>8. plan[r].kind \in {"read_config", "read_acl"} /\ u.mistook = 0 => u.result \in u.seen
  <2> SUFFICES ASSUME plan[r].kind \in {"read_config", "read_acl"}, u.mistook = 0
               PROVE  u.result \in u.seen
    OBVIOUS
  <2>1. Verb(r) \in {"get", "query"} /\ y.says \in Values
    BY <1>2, <1>3, <1>5 DEF Mutations
  <2>2. u.result = y.says
    BY <1>1, <2>1 DEF Hears
  <2>3. y.to.id = Current(r)
    BY <1>1, <1>5, <1>6, <2>1
  <2>4. QED
    BY <1>1, <1>4, <2>1, <2>2, <2>3
<1>9. QED
  BY <1>7, <1>8

LEMMA NextVerifiedMeansHeld ==
  ASSUME TypeOK, Serial, Shaped, Sent, Witnessed, VerifiedMeansHeld, Works
  PROVE  VerifiedMeansHeld'
<1> DEFINE Truthful(r, t) ==
      t.outcome = "succeeded" =>
        /\ plan[r].kind \in Mutations /\ t.mistook <= 1 => plan[r].value \in t.seen
        /\ plan[r].kind \in {"read_config", "read_acl"} /\ t.mistook = 0 => t.result \in t.seen
<1>1. /\ task \in [Requests -> TaskRec] /\ UNCHANGED <<plan, setting>>
      /\ \A q \in Requests : ShapedAs(q, task[q]) /\ Truthful(q, task[q])
      /\ \A q \in Requests : Moves(task[q], task'[q])
  BY PlanFixed, TaskMoves DEF TypeOK, Shaped, VerifiedMeansHeld, Succeeded
<1>2. SUFFICES ASSUME NEW q \in Requests PROVE Truthful(q, task'[q])
  BY <1>1 DEF VerifiedMeansHeld, Succeeded
<1> DEFINE t == task[q]
           u == task'[q]
<1>3. CASE t.outcome # "none"
  <2>1. /\ u.outcome = t.outcome /\ u.mistook = t.mistook /\ u.result = t.result
        /\ t.seen \subseteq u.seen
    BY <1>1, <1>3 DEF Moves
  <2>2. Truthful(q, t)
    BY <1>1
  <2> HIDE DEF t, u
  <2>3. Truthful(q, u)
    BY <2>1, <2>2
  <2>4. QED
    BY <2>3 DEF u
<1>4. CASE t.outcome = "none"
  <2> SUFFICES ASSUME u.outcome = "succeeded" PROVE Truthful(q, u)
    OBVIOUS
  <2>1. ASSUME NEW r \in Requests, NEW v \in TaskRec, Step(r, v),
               v.outcome = task[r].outcome \/ v.outcome # "succeeded"
        PROVE  FALSE
    BY <1>1, <1>4, <2>1 DEF Step
  <2>2. CASE \E r \in Requests, v \in TaskRec :
               Joins(r, v) \/ Tells(r, v) \/ Errs(r, v) \/ Leaves(r, v) \/ Pauses(r, v)
    BY <2>1, <2>2 DEF Joins, Tells, Errs, Leaves, Pauses
  <2>3. CASE \E r \in Requests, v \in TaskRec, x \in Packet : Begins(r, v, x) \/ Repeats(r, v, x)
    BY <2>1, <2>3 DEF Begins, Repeats
  <2>4. CASE \E r \in Requests, v \in TaskRec, y \in replies, x \in Packet : GoesOn(r, y, v, x)
    BY <2>1, <2>4 DEF GoesOn, Hears
  <2>5. CASE \E r \in Requests, v \in TaskRec, y \in replies : Ends(r, y, v)
    <3>1. PICK r \in Requests, v \in TaskRec, y \in replies : Ends(r, y, v)
      BY <2>5
    <3>2. Step(r, v)
      BY <3>1 DEF Ends, Hears
    <3>3. r = q /\ v = u
      BY <1>1, <1>4, <3>2 DEF Step
    <3>4. /\ plan[q].kind \in Mutations /\ v.mistook <= 1 => plan[q].value \in v.seen
          /\ plan[q].kind \in {"read_config", "read_acl"} /\ v.mistook = 0 => v.result \in v.seen
      BY <3>1, <3>3, SuccessHeard
    <3>5. QED
      BY <3>3, <3>4
  <2>6. CASE (\E pk \in packets : Writes(pk) \/ \E says \in Says : Reports(pk, says))
              \/ Changes \/ Restarts \/ Passes
    BY <1>4, <2>6, OtherTasks
  <2>7. QED
    BY <2>2, <2>3, <2>4, <2>5, <2>6, WorkCases
<1>5. QED
  BY <1>3, <1>4

-----------------------------------------------------------------------------
(* Writes that are still on their way *)

LEMMA NextLate ==
  ASSUME TypeOK, Serial, Shaped, Sent, Witnessed, Late, Works, Sent', TypeOK'
  PROVE  Late'
<1>1. /\ task \in [Requests -> TaskRec] /\ UNCHANGED <<plan, setting>>
      /\ \A q \in Requests : /\ ShapedAs(q, task[q]) /\ Moves(task[q], task'[q])
                             /\ task[q] \in TaskRec /\ task'[q] \in TaskRec
  BY PlanFixed, TaskMoves DEF TypeOK, Shaped
<1>2. SUFFICES ASSUME NEW pk \in packets', VerbOf(pk) = "set", task'[pk.id.by].step = 3
               PROVE  task'[pk.id.by].writes > 1 \/ task'[pk.id.by].mistook > 0
  BY <1>1 DEF Late, VerbOf
<1> DEFINE r == pk.id.by
<1>3. pk \in Packet /\ r \in Requests /\ pk.id \in Ids /\ pk.id.attempt \in 1..3
  BY DEF TypeOK, Packet, Ids
<1>4. pk.id.step = 2 /\ plan[r].kind \in Mutations
  <2>1. pk.id.step \in DOMAIN Exchanges(plan[r].kind)
    BY <1>1 DEF Sent, UnderWay
  <2>2. QED
    BY <1>2, <1>3, <2>1, PlaceTyped, VerbFacts DEF VerbOf
<1>5. /\ task[r].step \in 1..3 /\ task[r].attempt \in 1..3 /\ task[r].mistook \in 0..3
      /\ task'[r].mistook \in 0..3 /\ task[r].mistook <= task'[r].mistook /\ task[r].writes \in 0..3
  BY <1>1, <1>3 DEF TaskRec, Moves
<1>6. pk \in packets
  <2>1. ASSUME NEW q \in Requests, NEW u \in TaskRec, NEW x \in Packet, Posts(q, u, x), Step(q, u)
        PROVE  pk # x
    BY <1>1, <1>2, <1>4, <2>1 DEF Posts, Step
  <2>2. CASE packets' \subseteq packets
    BY <2>2
  <2>3. CASE \E q \in Requests, u \in TaskRec, x \in Packet :
              /\ Posts(q, u, x) /\ replies' \subseteq replies
              /\ Begins(q, u, x) \/ Repeats(q, u, x) \/ \E y \in replies : GoesOn(q, y, u, x)
    <3>1. PICK q \in Requests, u \in TaskRec, x \in Packet :
              /\ Posts(q, u, x)
              /\ Begins(q, u, x) \/ Repeats(q, u, x) \/ \E y \in replies : GoesOn(q, y, u, x)
      BY <2>3
    <3>2. Step(q, u)
      BY <3>1 DEF Begins, Repeats, GoesOn, Hears
    <3>3. QED
      BY <2>1, <3>1, <3>2 DEF Posts
  <2>4. CASE \E k \in packets, says \in Says : Responds(k, says)
    BY <2>4 DEF Responds
  <2>5. QED
    BY <2>2, <2>3, <2>4, Traffic
<1>7. CASE task[r].step = 3
  <2>1. task[r].writes > 1 \/ task[r].mistook > 0
    BY <1>2, <1>6, <1>7 DEF Late
  <2>2. Verb(r) # "set"
    BY <1>1, <1>3, <1>7, PlaceTyped, VerbFacts DEF ShapedAs, Verb
  <2>3. task'[r].writes = task[r].writes
    <3>1. ASSUME NEW q \in Requests, NEW u \in TaskRec, Step(q, u),
                 q = r => u.writes = task[q].writes
          PROVE  task'[r].writes = task[r].writes
      BY <1>1, <1>3, <3>1 DEF Step
    <3>2. CASE \E q \in Requests, u \in TaskRec :
                 Joins(q, u) \/ Tells(q, u) \/ Errs(q, u) \/ Leaves(q, u) \/ Pauses(q, u)
      BY <3>1, <3>2 DEF Joins, Tells, Errs, Leaves, Pauses, Alike
    <3>3. CASE \E q \in Requests, u \in TaskRec, x \in Packet : Begins(q, u, x) \/ Repeats(q, u, x)
      BY <3>1, <3>3 DEF Begins, Repeats
    <3>4. CASE \/ \E q \in Requests, u \in TaskRec, y \in replies, x \in Packet : GoesOn(q, y, u, x)
               \/ \E q \in Requests, u \in TaskRec, y \in replies : Ends(q, y, u)
      BY <2>2, <3>1, <3>4 DEF GoesOn, Ends, Hears
    <3>5. CASE (\E k \in packets : Writes(k) \/ \E says \in Says : Reports(k, says))
                \/ Changes \/ Restarts \/ Passes
      BY <1>3, <3>5, OtherTasks
    <3>6. QED
      BY <3>2, <3>3, <3>4, <3>5, WorkCases
  <2>4. QED
    BY <1>5, <2>1, <2>3
<1>8. CASE task[r].step # 3
  \* This is the step that takes the request to its read-back.
  <2>1. ASSUME NEW q \in Requests, NEW u \in TaskRec, Step(q, u), u.step = task[q].step
        PROVE  FALSE
    BY <1>1, <1>2, <1>3, <1>8, <2>1 DEF Step
  <2>2. PICK q \in Requests, u \in TaskRec, y \in replies, x \in Packet : GoesOn(q, y, u, x)
    <3>1. CASE \E q \in Requests, u \in TaskRec :
                 Joins(q, u) \/ Tells(q, u) \/ Errs(q, u) \/ Leaves(q, u) \/ Pauses(q, u)
      BY <2>1, <3>1 DEF Joins, Tells, Errs, Leaves, Pauses, Alike
    <3>2. CASE \E q \in Requests, u \in TaskRec, x \in Packet : Begins(q, u, x) \/ Repeats(q, u, x)
      BY <2>1, <3>2 DEF Begins, Repeats
    <3>3. CASE \E q \in Requests, u \in TaskRec, y \in replies : Ends(q, y, u)
      BY <2>1, <3>3 DEF Ends, Hears
    <3>4. CASE (\E k \in packets : Writes(k) \/ \E says \in Says : Reports(k, says))
                \/ Changes \/ Restarts \/ Passes
      BY <1>2, <1>3, <1>8, <3>4, OtherTasks
    <3>5. QED
      BY <3>1, <3>2, <3>3, <3>4, WorkCases
  <2>3. /\ Hears(q, y, u) /\ Step(q, u) /\ After(q, y.says) = "next" /\ u.step = task[q].step + 1
        /\ y \in replies
    BY <2>2 DEF GoesOn, Hears
  <2>4. q = r /\ task'[r] = u
    BY <1>1, <1>2, <1>3, <1>8, <2>3 DEF Step
  <2>5. task[r].step = 2
    BY <1>2, <1>5, <2>3, <2>4
  <2>6. /\ u.writes = task[r].attempt
        /\ y.to.id = Current(r) \/ u.mistook > 0
    BY <2>3, <2>4, <2>5, WriteHeard
  <2>7. Earlier(pk.id, task[r])
    BY <1>6 DEF Sent, UnderWay
  <2>8. CASE task[r].attempt = 1
    <3>1. pk.id = Current(r)
      BY <1>3, <1>4, <1>5, <2>5, <2>7, <2>8 DEF Earlier, Current, Ids
    <3>2. y.to.id # Current(r)
      BY <1>6, <2>3, <3>1 DEF Sent
    <3>3. QED
      BY <2>4, <2>6, <3>2
  <2>9. CASE task[r].attempt # 1
    BY <1>5, <2>4, <2>6, <2>9
  <2>10. QED
    BY <2>8, <2>9
<1>9. QED
  BY <1>7, <1>8

LEMMA NextAnnounced ==
  ASSUME Sound, Next, NEW pk \in packets, pk \notin packets',
         register'[Place(pk.id.by)] # register[Place(pk.id.by)],
         task[pk.id.by].outcome = "succeeded"
  PROVE  task[pk.id.by].writes > 1 \/ task[pk.id.by].mistook > 0
<1>1. TypeOK /\ Serial /\ Shaped /\ Sent /\ Late /\ Works
  BY NextWorks DEF Sound
<1>2. VerbOf(pk) = "set"
  <2>1. ASSUME NEW r \in Requests, Advances(r) PROVE UNCHANGED register
    BY <2>1 DEF Advances, Joins, Tells, Errs, Leaves, Pauses, Begins, Repeats, GoesOn, Ends, Hears
  <2>2. PICK k \in packets : Writes(k)
    BY <1>1, <2>1 DEF Works, Reports, Changes, Restarts, Passes
  <2>3. VerbOf(k) = "set" /\ packets' = packets \ {k}
    BY <2>2 DEF Writes, Responds
  <2>4. QED
    BY <2>3
<1>3. pk \in UnderWay /\ pk.id.by \in Requests
  BY <1>1, UnderWayTyped
<1>4. plan[pk.id.by].kind \in Mutations
  BY <1>1, <1>2, <1>3, PlaceTyped, VerbFacts DEF Sent, VerbOf
<1>5. task[pk.id.by].step = 3
  BY <1>1, <1>3, <1>4 DEF Shaped, ShapedAs
<1>6. QED
  BY <1>1, <1>2, <1>5 DEF Late

-----------------------------------------------------------------------------
(* Theorems *)

LEMMA SoundInitially ==
  ASSUME Init
  PROVE  Sound
<1>1. TypeOK
  BY TypesInitially
<1>2. \A r \in Requests : task[r] = New(r) /\ journal[r] = "none"
  BY DEF Init
<1>3. \A r \in Requests :
        /\ task[r].pc = "new" /\ task[r].step = 1 /\ task[r].attempt = 1 /\ task[r].outcome = "none"
        /\ task[r].reply = "none" /\ task[r].started = Never /\ task[r].mistook = 0
        /\ ~ task[r].foreign
  <2> TAKE r \in Requests
  <2>1. /\ New(r).pc = "new" /\ New(r).step = 1 /\ New(r).attempt = 1 /\ New(r).outcome = "none"
        /\ New(r).reply = "none" /\ New(r).started = Never /\ New(r).mistook = 0
        /\ New(r).foreign = FALSE
    BY DEF New
  <2>2. QED
    BY <1>2, <2>1
<1>4. lock = << >> /\ uses = {} /\ packets = {} /\ replies = {} /\ UnderWay = {}
  BY DEF Init, UnderWay
<1>5. Serial
  <2>1. IsInjective(lock) /\ ToSet(lock) = {}
    BY <1>4 DEF IsInjective, ToSet
  <2>2. QED
    BY <1>3, <2>1 DEF Serial, Busy
<1>6. Shaped
  <2>1. \A r \in Requests : 1 \in DOMAIN Exchanges(plan[r].kind)
    BY <1>1, PlaceTyped, ExchangeFacts
  <2>2. ASSUME NEW r \in Requests PROVE ShapedAs(r, task[r])
    BY <1>3, <2>1 DEF ShapedAs, Untouched
  <2>3. QED
    BY <2>2 DEF Shaped
<1>7. Trail
  BY <1>3 DEF Trail, Outcomes
<1>8. Cooled
  BY <1>3, <1>4 DEF Cooled, Alive
<1>9. Sent /\ Loose /\ Late
  BY <1>4 DEF Sent, Loose, Late
<1>10. Witnessed
  BY <1>3, <1>4 DEF Witnessed, Busy
<1>11. LoginAnswersOwn /\ VerifiedMeansHeld
  BY <1>3 DEF LoginAnswersOwn, VerifiedMeansHeld, Succeeded
<1>12. QED
  BY <1>1, <1>5, <1>6, <1>7, <1>8, <1>9, <1>10, <1>11 DEF Sound

LEMMA SoundKept ==
  ASSUME Sound, [Next]_vars
  PROVE  Sound'
<1>1. CASE Next
  <2>1. /\ TypeOK /\ Serial /\ Shaped /\ Trail /\ Cooled /\ Sent /\ Loose /\ LoginAnswersOwn
        /\ Witnessed /\ VerifiedMeansHeld /\ Late
    BY DEF Sound
  <2>2. Works
    BY <1>1, <2>1, NextWorks
  <2>3. TypeOK'
    BY <1>1, <2>1, NextTypeOK
  <2>4. Serial' /\ Shaped' /\ Trail' /\ Cooled' /\ Sent'
    BY <2>1, <2>2, NextSerial, NextShaped, NextTrail, NextCooled, NextSent
  <2>5. Loose' /\ LoginAnswersOwn'
    BY <2>1, <2>2, NextLoose, NextLoginAnswersOwn
  <2>6. Witnessed' /\ VerifiedMeansHeld'
    BY <2>1, <2>2, <2>3, NextWitnessed, NextVerifiedMeansHeld
  <2>7. Late'
    BY <2>1, <2>2, <2>3, <2>4, NextLate
  <2>8. QED
    BY <2>3, <2>4, <2>5, <2>6, <2>7 DEF Sound
<1>2. CASE UNCHANGED vars
  <2> USE <1>2
  <2>1. UNCHANGED <<plan, setting, task, lock, uses, clock, packets, replies, register, journal,
                    troubles, collided>>
    BY DEF vars
  <2>2. TypeOK' /\ Serial' /\ Trail'
    BY <2>1 DEF Sound, TypeOK, Serial, Trail, Busy, Owns
  <2>3. Shaped'
    BY <2>1 DEF Sound, Shaped, ShapedAs, Attempts
  <2>4. Cooled'
    BY <2>1 DEF Sound, Cooled, Alive, Apart
  <2>5. Sent' /\ Loose' /\ Late'
    BY <2>1 DEF Sound, Sent, Loose, Late, UnderWay, Unsure, GivenUp, PeerOf, VerbOf
  <2>6. LoginAnswersOwn' /\ VerifiedMeansHeld'
    BY <2>1 DEF Sound, LoginAnswersOwn, VerifiedMeansHeld, Succeeded
  <2>7. Witnessed'
    BY <2>1 DEF Sound, Witnessed, Busy, Place, VerbOf
  <2>8. QED
    BY <2>2, <2>3, <2>4, <2>5, <2>6, <2>7 DEF Sound
<1>3. QED
  BY <1>1, <1>2

\* The invariant holds in every state.
THEOREM AlwaysSound == Spec => []Sound
<1>1. Init => Sound
  BY SoundInitially
<1>2. Sound /\ [Next]_vars => Sound'
  BY SoundKept
<1>3. QED
  BY <1>1, <1>2, PTL DEF Spec

\* Every variable has its type: in particular no exchange is attempted a fourth
\* time and no operation goes beyond its third exchange.
THEOREM TypeCorrect == Spec => []TypeOK
<1>1. Sound => TypeOK
  BY DEF Sound
<1>2. QED
  BY <1>1, AlwaysSound, PTL

\* What the audit journal of app.py says of a request is what its caller was
\* told, nothing goes over the mesh before the journal knows of the request,
\* and a request refused with 422 or 429 has sent nothing, a permission above 3
\* apart.
THEOREM TrailIsTrue == Spec => []TrailTellsTheTruth
<1>1. Sound => TrailTellsTheTruth
  BY DEF Sound, Trail, TrailTellsTheTruth
<1>2. QED
  BY <1>1, AlwaysSound, PTL

\* However many requests wait for the operation lock, operations of a class
\* start the global cooldown apart, and those to one repeater the peer cooldown.
THEOREM CooldownsAlwaysHold == Spec => []CooldownsHold
<1>1. Sound => CooldownsHold
  BY CooledApart DEF Sound
<1>2. QED
  BY <1>1, AlwaysSound, PTL

\* A login is answered by another login's reply only if a login to the same
\* repeater was given up before.
THEOREM LoginsAnswerOwn == Spec => []LoginAnswersOwn
<1>1. Sound => LoginAnswersOwn
  BY DEF Sound
<1>2. QED
  BY <1>1, AlwaysSound, PTL

\* A mutation reported as verified was in force while the request was at work
\* unless tags deceived it twice, and a value read was unless they did once,
\* whatever the mesh does with packets and replies.
THEOREM VerifiedWasHeld == Spec => []VerifiedMeansHeld
<1>1. Sound => VerifiedMeansHeld
  BY DEF Sound
<1>2. QED
  BY <1>1, AlwaysSound, PTL

\* A repeater's setting changes by the write of a request that has reported
\* success only if the request reported several writes or was deceived by a tag.
THEOREM LateWritesAnnounced == Spec => LateWritesWereAnnounced
<1> DEFINE Announced ==
      \A pk \in packets :
        pk \notin packets' /\ register'[Place(pk.id.by)] # register[Place(pk.id.by)]
        /\ task[pk.id.by].outcome = "succeeded"
        => task[pk.id.by].writes > 1 \/ task[pk.id.by].mistook > 0
<1>1. Sound /\ [Next]_vars => [Announced]_vars
  <2>1. ASSUME Sound, Next PROVE Announced
    BY <2>1, NextAnnounced
  <2>2. QED
    BY <2>1
<1>2. QED
  BY <1>1, AlwaysSound, PTL DEF Spec, LateWritesWereAnnounced
=============================================================================
