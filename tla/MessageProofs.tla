--------------------------- MODULE MessageProofs ---------------------------
(***************************************************************************)
(* Proofs about what EventStore says of messages: rows and journal agree,  *)
(* the journal tells legal delivery histories, a redelivery is announced   *)
(* once, and housekeeping prunes for a reason.                             *)
(*                                                                         *)
(* Narrated strengthens the first three to an invariant: as pruning takes  *)
(* a row only with all its events, an event that is left has its row, and  *)
(* the event of a received message is its row's only one.  Planned is for  *)
(* the last: what a call still has to delete is old by the call's clock,   *)
(* or a full cap of messages lies beyond the planned cutoff.               *)
(***************************************************************************)
EXTENDS EventStoreProofs

EventsHaveRows ==
  \A i \in EventIds : events[i].msg # NoMessage => events[i].msg \in DOMAIN messages

ReceivedIsNewest ==
  \A i \in EventIds : events[i].kind = "received" =>
    events[i].msg \in DOMAIN messages /\ messages[events[i].msg].event = i

ReceivedKeysDiffer ==
  \A m, n \in DOMAIN messages :
    m # n /\ messages[m].state = "received" /\ messages[n].state = "received"
    => messages[m].key # messages[n].key

Narrated ==
  /\ MessagesMatchJournal
  /\ EventsHaveRows
  /\ ReceivedIsNewest
  /\ ReceivedKeysDiffer
  /\ JournalTellsLegalHistories

\* The rows that a deletion through e leaves.
RowsBeyond(e) == {m \in DOMAIN messages : messages[m].event > e}

PlansKnowThePast == \A h \in Runs : run[h].current <= clock

\* Row m may go by the plan of call h.
MayGo(h, m) ==
  \/ events[messages[m].event].at < run[h].current - RetentionDays
  \/ Cardinality(RowsBeyond(run[h].prune)) >= MaxMessages

PlansAreJustified ==
  \A h \in Runs, m \in DOMAIN messages :
    run[h].pc = "pruning" /\ messages[m].event <= run[h].prune => MayGo(h, m)

Planned == PlansKnowThePast /\ PlansAreJustified

-----------------------------------------------------------------------------
(* Writers of the journal *)

\* The journal with one more event: the old ones are as they were, and come
\* before the new one.
LEMMA JournalRows ==
  ASSUME TypeOK, NEW kind, NEW msg, NEW at,
         events' = Journal(kind, msg, at)
  PROVE  /\ EventIds' = EventIds \cup {lastEvent + 1}
         /\ lastEvent + 1 \in Nat
         /\ \A i \in EventIds : i \in Nat /\ i < lastEvent + 1 /\ events'[i] = events[i]
         /\ events'[lastEvent + 1] = [kind |-> kind, msg |-> msg, at |-> at]
BY DEF TypeOK, Journal, Inserted, EventIds

LEMMA AppendEventNarrates ==
  ASSUME TypeOK, Narrated, NEW at \in Nat, AppendEvent(at)
  PROVE  Narrated'
<1> DEFINE new == lastEvent + 1
<1>1. /\ EventIds' = EventIds \cup {new}
      /\ \A i \in EventIds : i \in Nat /\ i < new /\ events'[i] = events[i]
      /\ events'[new].kind = "audit" /\ events'[new].msg = NoMessage
      /\ new \in Nat
  <2>1. events' = Journal("audit", NoMessage, at)
    BY DEF AppendEvent
  <2>2. /\ EventIds' = EventIds \cup {lastEvent + 1}
        /\ lastEvent + 1 \in Nat
        /\ \A i \in EventIds : i \in Nat /\ i < lastEvent + 1 /\ events'[i] = events[i]
        /\ events'[lastEvent + 1] = [kind |-> "audit", msg |-> NoMessage, at |-> at]
    BY <2>1, JournalRows
  <2>3. QED
    BY <2>2
<1>2. messages' = messages /\ DOMAIN messages \subseteq Nat \ {NoMessage}
  BY DEF AppendEvent, TypeOK, NoMessage
<1> HIDE DEF new
<1>3. MessagesMatchJournal'
  BY <1>1, <1>2 DEF Narrated, MessagesMatchJournal
<1>4. EventsHaveRows' /\ ReceivedIsNewest' /\ ReceivedKeysDiffer'
  BY <1>1, <1>2 DEF Narrated, EventsHaveRows, ReceivedIsNewest, ReceivedKeysDiffer
<1>5. JournalTellsLegalHistories'
  BY <1>1 DEF Narrated, JournalTellsLegalHistories
<1>6. QED
  BY <1>3, <1>4, <1>5 DEF Narrated

LEMMA InsertMessageNarrates ==
  ASSUME TypeOK, Narrated, NEW key, NEW state, NEW at \in Nat,
         InsertMessage(key, state, at),
         state = "received" => \A m \in DOMAIN messages : messages[m].key # key
  PROVE  Narrated'
<1> DEFINE new == lastEvent + 1
           row == lastMessage + 1
<1>1. /\ EventIds' = EventIds \cup {new}
      /\ \A i \in EventIds : i \in Nat /\ i < new /\ events'[i] = events[i]
      /\ events'[new].kind = state /\ events'[new].msg = row
      /\ new \in Nat
  <2>1. events' = Journal(state, row, at)
    BY DEF InsertMessage
  <2> HIDE DEF row
  <2>2. /\ EventIds' = EventIds \cup {lastEvent + 1}
        /\ lastEvent + 1 \in Nat
        /\ \A i \in EventIds : i \in Nat /\ i < lastEvent + 1 /\ events'[i] = events[i]
        /\ events'[lastEvent + 1] = [kind |-> state, msg |-> row, at |-> at]
    BY <2>1, JournalRows
  <2>3. QED
    BY <2>2
<1>2. /\ DOMAIN messages' = DOMAIN messages \cup {row}
      /\ \A m \in DOMAIN messages : m # row /\ m # NoMessage /\ messages'[m] = messages[m]
      /\ messages'[row] = [key |-> key, state |-> state, event |-> new]
      /\ row # NoMessage
  BY DEF InsertMessage, Inserted, TypeOK, NoMessage
<1>3. \A i \in EventIds : events[i].msg # row
  BY <1>2 DEF Narrated, EventsHaveRows
<1> HIDE DEF new, row
<1>4. MessagesMatchJournal'
  BY <1>1, <1>2, <1>3 DEF Narrated, MessagesMatchJournal
<1>5. EventsHaveRows' /\ ReceivedIsNewest'
  BY <1>1, <1>2, <1>3 DEF Narrated, EventsHaveRows, ReceivedIsNewest
<1>6. ReceivedKeysDiffer'
  BY <1>2 DEF Narrated, ReceivedKeysDiffer
<1>7. JournalTellsLegalHistories'
  BY <1>1, <1>3 DEF Narrated, JournalTellsLegalHistories
<1>8. QED
  BY <1>4, <1>5, <1>6, <1>7 DEF Narrated

\* The message's newest event is the one its row points at, so the state the
\* row had is what the journal told last of it.
LEMMA TransitionNarrates ==
  ASSUME TypeOK, Narrated, NEW m \in DOMAIN messages, NEW state \in OutboundStates,
         NEW at \in Nat, TransitionOutbound(m, state, at)
  PROVE  Narrated'
<1> DEFINE new == lastEvent + 1
           old == messages[m].event
<1>1. /\ EventIds' = EventIds \cup {new}
      /\ \A i \in EventIds : i \in Nat /\ i < new /\ events'[i] = events[i]
      /\ events'[new].kind = state /\ events'[new].msg = m
      /\ new \in Nat
  <2>1. events' = Journal(state, m, at)
    BY DEF TransitionOutbound
  <2>2. /\ EventIds' = EventIds \cup {lastEvent + 1}
        /\ lastEvent + 1 \in Nat
        /\ \A i \in EventIds : i \in Nat /\ i < lastEvent + 1 /\ events'[i] = events[i]
        /\ events'[lastEvent + 1] = [kind |-> state, msg |-> m, at |-> at]
    BY <2>1, JournalRows
  <2>3. QED
    BY <2>2
<1>2. /\ DOMAIN messages' = DOMAIN messages
      /\ \A n \in DOMAIN messages : n # m => messages'[n] = messages[n]
      /\ messages'[m].event = new /\ messages'[m].state = state
      /\ messages'[m].key = messages[m].key
      /\ m # NoMessage
  <2>1. messages' = [messages EXCEPT ![m] =
                       [messages[m] EXCEPT !.state = state, !.event = new]]
    BY DEF TransitionOutbound, TypeOK
  <2>2. messages[m] \in MessageRec /\ m # NoMessage
    BY DEF TypeOK, NoMessage
  <2> HIDE DEF new
  <2>3. QED
    BY <2>1, <2>2 DEF TypeOK, MessageRec
<1>3. /\ old \in EventIds /\ events[old].msg = m
      /\ events[old].kind = messages[m].state
      /\ \A i \in EventIds : events[i].msg = m => i <= old
  BY DEF Narrated, MessagesMatchJournal
<1>4. /\ state \in Allowed(messages[m].state) /\ messages[m].state # "received"
      /\ state # "received"
  BY DEF TransitionOutbound, OutboundStates
<1> HIDE DEF new, old
<1>5. MessagesMatchJournal'
  BY <1>1, <1>2, <1>3 DEF Narrated, MessagesMatchJournal
<1>6. EventsHaveRows'
  BY <1>1, <1>2 DEF Narrated, EventsHaveRows
<1>7. ReceivedIsNewest'
  <2> SUFFICES ASSUME NEW i \in EventIds', events'[i].kind = "received"
               PROVE  /\ events'[i].msg \in DOMAIN messages'
                      /\ messages'[events'[i].msg].event = i
    BY DEF ReceivedIsNewest
  <2>1. i \in EventIds /\ events'[i] = events[i]
    BY <1>1, <1>4
  <2>2. events[i].msg \in DOMAIN messages /\ messages[events[i].msg].event = i
    BY <2>1 DEF Narrated, ReceivedIsNewest
  <2>3. events[i].msg # m
    BY <1>3, <1>4, <2>1, <2>2 DEF old
  <2>4. QED
    BY <1>2, <2>1, <2>2, <2>3
<1>8. ReceivedKeysDiffer'
  BY <1>2, <1>4 DEF Narrated, ReceivedKeysDiffer
<1>9. JournalTellsLegalHistories'
  <2> SUFFICES ASSUME NEW i \in EventIds', NEW j \in EventIds', i < j,
                      events'[i].msg = events'[j].msg, events'[i].msg # NoMessage,
                      \A k \in EventIds' : i < k /\ k < j => events'[k].msg # events'[i].msg
               PROVE  events'[j].kind \in Allowed(events'[i].kind)
    BY DEF JournalTellsLegalHistories
  <2>1. i \in EventIds /\ events'[i] = events[i]
    BY <1>1
  <2>2. CASE j # new
    BY <1>1, <2>1, <2>2 DEF Narrated, JournalTellsLegalHistories
  <2>3. CASE j = new
    <3>1. i <= old
      BY <1>1, <1>3, <2>1, <2>3
    <3>2. i = old
      BY <1>1, <1>3, <2>1, <2>3, <3>1
    <3>3. QED
      BY <1>1, <1>3, <1>4, <2>1, <2>3, <3>2
  <2>4. QED
    BY <2>2, <2>3
<1>10. QED
  BY <1>5, <1>6, <1>7, <1>8, <1>9 DEF Narrated

-----------------------------------------------------------------------------
(* Housekeeping *)

\* What a deleting transaction leaves of events and rows.
LEMMA BatchRows ==
  ASSUME Journaled, NEW h \in Runs, HousekeepingBatch(h)
  PROVE  /\ BatchThrough(h) \in Nat /\ BatchThrough(h) <= run[h].prune
         /\ EventIds' = {i \in EventIds : i > BatchThrough(h)}
         /\ \A i \in EventIds' : events'[i] = events[i]
         /\ DOMAIN messages' = RowsBeyond(BatchThrough(h))
         /\ \A m \in DOMAIN messages' : messages'[m] = messages[m]
<1> DEFINE through == BatchThrough(h)
<1>1. through \in Doomed(h)
  BY BatchThroughRange DEF HousekeepingBatch
<1>2. through \in Nat /\ through <= run[h].prune
  BY <1>1 DEF Doomed, EventIds, Journaled, TypeOK
<1>3. /\ events' = Restrict(events, {i \in EventIds : i > through})
      /\ messages' = Restrict(messages, {m \in DOMAIN messages : messages[m].event > through})
  BY DEF HousekeepingBatch
<1> HIDE DEF through
<1>4. /\ EventIds' = {i \in EventIds : i > through}
      /\ \A i \in EventIds' : events'[i] = events[i]
  BY <1>3 DEF Restrict, EventIds
<1>5. /\ DOMAIN messages' = RowsBeyond(through)
      /\ \A m \in DOMAIN messages' : messages'[m] = messages[m]
  BY <1>3 DEF Restrict, RowsBeyond
<1>6. QED
  BY <1>2, <1>4, <1>5 DEF through

LEMMA BatchNarrates ==
  ASSUME Journaled, Narrated, NEW h \in Runs, HousekeepingBatch(h)
  PROVE  Narrated'
<1> DEFINE through == BatchThrough(h)
<1>1. /\ through \in Nat
      /\ EventIds' = {i \in EventIds : i > through}
      /\ \A i \in EventIds' : events'[i] = events[i]
      /\ DOMAIN messages' = {m \in DOMAIN messages : messages[m].event > through}
      /\ \A m \in DOMAIN messages' : messages'[m] = messages[m]
  BY BatchRows DEF RowsBeyond
<1> HIDE DEF through
<1>2. EventIds \subseteq Nat
  BY DEF Journaled, TypeOK, EventIds
<1>3. MessagesMatchJournal'
  BY <1>1 DEF Narrated, MessagesMatchJournal
<1>4. EventsHaveRows'
  <2> SUFFICES ASSUME NEW i \in EventIds', events'[i].msg # NoMessage
               PROVE  events'[i].msg \in DOMAIN messages'
    BY DEF EventsHaveRows
  <2> DEFINE m == events[i].msg
  <2>1. i \in EventIds /\ i > through /\ events'[i].msg = m
    BY <1>1
  <2>2. m \in DOMAIN messages
    BY <2>1 DEF Narrated, EventsHaveRows
  <2>3. messages[m].event \in EventIds /\ i <= messages[m].event
    BY <2>1, <2>2 DEF Narrated, MessagesMatchJournal
  <2>4. messages[m].event > through
    <3> DEFINE e == messages[m].event
    <3>1. e \in Nat /\ i \in Nat /\ i <= e
      BY <1>2, <2>1, <2>3
    <3> HIDE DEF e
    <3>2. e > through
      BY <1>1, <2>1, <3>1
    <3>3. QED
      BY <3>2 DEF e
  <2>5. QED
    BY <1>1, <2>1, <2>2, <2>4
<1>5. ReceivedIsNewest'
  BY <1>1 DEF Narrated, ReceivedIsNewest
<1>6. ReceivedKeysDiffer'
  BY <1>1 DEF Narrated, ReceivedKeysDiffer
<1>7. JournalTellsLegalHistories'
  <2> SUFFICES ASSUME NEW i \in EventIds', NEW j \in EventIds', i < j,
                      events'[i].msg = events'[j].msg, events'[i].msg # NoMessage,
                      \A k \in EventIds' : i < k /\ k < j => events'[k].msg # events'[i].msg
               PROVE  events'[j].kind \in Allowed(events'[i].kind)
    BY DEF JournalTellsLegalHistories
  <2>1. \A k \in EventIds : i < k => k \in EventIds'
    BY <1>1, <1>2
  <2>2. QED
    BY <1>1, <2>1 DEF Narrated, JournalTellsLegalHistories
<1>8. QED
  BY <1>3, <1>4, <1>5, <1>6, <1>7 DEF Narrated

-----------------------------------------------------------------------------
(* Rows and journal *)

LEMMA NextNarrated ==
  ASSUME Journaled, Narrated, [Next]_vars
  PROVE  Narrated'
<1> TypeOK
  BY DEF Journaled
<1>1. CASE UNCHANGED <<events, messages>>
  BY <1>1 DEF Narrated, MessagesMatchJournal, EventsHaveRows, ReceivedIsNewest,
              ReceivedKeysDiffer, JournalTellsLegalHistories, EventIds
<1>2. ASSUME NEW at \in Stamps, Write(at) PROVE Narrated'
  <2>1. at \in Nat
    BY DEF TypeOK, Stamps
  <2>2. ASSUME NEW key \in Keys, RecordInbound(key, at) PROVE Narrated'
    BY <2>1, <2>2, InsertMessageNarrates DEF RecordInbound
  <2>3. ASSUME QueueOutbound(at) PROVE Narrated'
    BY <2>1, <2>3, InsertMessageNarrates DEF QueueOutbound
  <2>4. QED
    BY <1>2, <2>1, <2>2, <2>3, AppendEventNarrates, TransitionNarrates DEF Write
<1>3. ASSUME NEW h \in Runs, Housekeeping(h) PROVE Narrated'
  BY <1>1, <1>3, BatchNarrates
     DEF Housekeeping, HousekeepingBegin, HousekeepingPlan, HousekeepingFinish
<1>4. QED
  BY <1>1, <1>2, <1>3 DEF Next, Consume, GetCursor, AdvanceCursor, Tick, Crash, vars

THEOREM AlwaysNarrated == Spec => []Narrated
<1>1. Init => Narrated
  <2> SUFFICES ASSUME Init PROVE Narrated
    OBVIOUS
  <2>1. DOMAIN events = {} /\ DOMAIN messages = {}
    BY DEF Init
  <2>2. QED
    BY <2>1 DEF Narrated, MessagesMatchJournal, EventsHaveRows, ReceivedIsNewest,
                ReceivedKeysDiffer, JournalTellsLegalHistories, EventIds
<1>2. Journaled /\ Narrated /\ [Next]_vars => Narrated'
  BY NextNarrated
<1>3. QED
  BY <1>1, <1>2, AlwaysJournaled, PTL DEF Spec

\* A message row points at a retained event that is its own, its state and its
\* newest, after every write, transition and deletion.
THEOREM RowsMatchJournal == Spec => []MessagesMatchJournal
<1>1. Narrated => MessagesMatchJournal
  BY DEF Narrated
<1>2. QED
  BY <1>1, AlwaysNarrated, PTL

\* What the journal tells of one message is a legal delivery history.
THEOREM HistoriesAreLegal == Spec => []JournalTellsLegalHistories
<1>1. Narrated => JournalTellsLegalHistories
  BY DEF Narrated
<1>2. QED
  BY <1>1, AlwaysNarrated, PTL

\* No two retained events announce the same inbound message, whatever is
\* delivered again and whatever is pruned meanwhile.
THEOREM RedeliveriesAnnouncedOnce == Spec => []ReceivedOnce
<1>1. Narrated => ReceivedOnce
  <2> SUFFICES ASSUME Narrated, NEW i \in EventIds, NEW j \in EventIds,
                      events[i].kind = "received", events[j].kind = "received"
               PROVE  /\ events[i].msg \in DOMAIN messages
                      /\ i # j => messages[events[i].msg].key # messages[events[j].msg].key
    BY DEF ReceivedOnce
  <2>1. /\ events[i].msg \in DOMAIN messages /\ messages[events[i].msg].event = i
        /\ events[j].msg \in DOMAIN messages /\ messages[events[j].msg].event = j
    BY DEF Narrated, ReceivedIsNewest
  <2>2. messages[events[i].msg].state = "received" /\ messages[events[j].msg].state = "received"
    BY <2>1 DEF Narrated, MessagesMatchJournal
  <2>3. i # j => events[i].msg # events[j].msg
    BY <2>1
  <2>4. QED
    BY <2>1, <2>2, <2>3 DEF Narrated, ReceivedKeysDiffer
<1>2. QED
  BY <1>1, AlwaysNarrated, PTL

-----------------------------------------------------------------------------
(* What a plan takes *)

LEMMA RowsAreFinite ==
  ASSUME TypeOK, NEW e
  PROVE  /\ IsFiniteSet(DOMAIN messages) /\ Cardinality(DOMAIN messages) \in Nat
         /\ IsFiniteSet(RowsBeyond(e)) /\ Cardinality(RowsBeyond(e)) \in Nat
<1>1. IsFiniteSet(1..lastMessage)
  <2>1. lastMessage \in Int
    BY DEF TypeOK
  <2>2. QED
    BY <2>1, FS_Interval
<1>2. IsFiniteSet(DOMAIN messages)
  BY <1>1, FS_Subset DEF TypeOK
<1>3. IsFiniteSet(RowsBeyond(e))
  BY <1>2, FS_Subset DEF RowsBeyond
<1>4. QED
  BY <1>2, <1>3, FS_CardinalityType

\* The numbers of a finite set up to the least one with `count' of them at or
\* below it are no more than `count'.
LEMMA LeastWithCount ==
  ASSUME NEW S, NEW n \in Nat, S \subseteq 0..n, NEW count \in Nat \ {0},
         NEW cap \in S,
         \A e \in S : Cardinality({x \in S : x <= e}) >= count => cap <= e
  PROVE  Cardinality({x \in S : x <= cap}) <= count
<1> DEFINE B == {x \in S : x <= cap}
           C == B \ {cap}
<1> SUFFICES ASSUME ~(Cardinality(B) <= count) PROVE FALSE
  OBVIOUS
<1>1. S \subseteq Nat
  OBVIOUS
<1>2. IsFiniteSet(B) /\ Cardinality(B) \in Nat
  <2>1. IsFiniteSet(0..n)
    BY FS_Interval
  <2>2. IsFiniteSet(B)
    BY <2>1, FS_Subset
  <2>3. QED
    BY <2>2, FS_CardinalityType
<1>3. Cardinality(C) = Cardinality(B) - 1 /\ IsFiniteSet(C)
  <2>1. cap \in B
    BY <1>1
  <2> HIDE DEF B
  <2>2. QED
    BY <1>2, <2>1, FS_RemoveElement
<1>4. Cardinality(C) >= count
  <2> HIDE DEF B, C
  <2>1. QED
    BY <1>2, <1>3
<1>5. C # {}
  <2> SUFFICES ASSUME C = {} PROVE FALSE
    OBVIOUS
  <2>1. Cardinality(C) = 0
    BY FS_EmptySet
  <2> HIDE DEF C
  <2>2. QED
    BY <1>4, <2>1
<1>6. C \subseteq 0..n
  OBVIOUS
<1> DEFINE y == Max(C)
<1>7. y \in C /\ \A x \in C : x <= y
  <2> HIDE DEF C
  <2>1. QED
    BY <1>5, <1>6, MaxOfBounded
<1> HIDE DEF y
<1>8. y \in S /\ y < cap
  BY <1>1, <1>7
<1>9. {x \in S : x <= y} = C
  <2>1. \A x \in C : x \in S /\ x <= y
    BY <1>7
  <2>2. ASSUME NEW x \in S, x <= y PROVE x \in C
    <3>1. x \in Nat /\ y \in Nat /\ cap \in Nat
      BY <1>1, <1>8
    <3>2. x <= cap /\ x # cap
      BY <1>8, <2>2, <3>1
    <3>3. QED
      BY <3>2
  <2> HIDE DEF C
  <2>3. QED
    BY <2>1, <2>2
<1>10. cap <= y
  <2>1. Cardinality({x \in S : x <= y}) >= count
    BY <1>4, <1>9
  <2>2. QED
    BY <1>8, <2>1
<1>11. QED
  BY <1>1, <1>8, <1>10

\* Beyond the cutoff that the cap asks for a full cap of messages is left: the
\* rows that go have distinct events, so they are at most the overflow.
LEMMA CapLeavesFullCap ==
  ASSUME Journaled, Narrated, NEW safe \in Nat, CapCutoff(safe) # 0
  PROVE  Cardinality(RowsBeyond(CapCutoff(safe))) >= MaxMessages
<1> DEFINE rows     == DOMAIN messages
           eligible == {e \in {messages[m].event : m \in DOMAIN messages} : e <= safe}
           overflow == Max({Cardinality(DOMAIN messages) - MaxMessages, 0})
           count    == Min({overflow, Cardinality(eligible)})
           below(e) == Cardinality({x \in eligible : x <= e})
           upTo     == {e \in eligible : below(e) >= count}
           cap      == CapCutoff(safe)
           gone     == rows \ RowsBeyond(cap)
           B        == {x \in eligible : x <= cap}
<1>1. /\ IsFiniteSet(rows) /\ Cardinality(rows) \in Nat /\ MaxMessages \in Nat
      /\ \A m \in rows : messages[m].event \in Nat
  BY RowsAreFinite, SettingsAssumption DEF Journaled, TypeOK, MessageRec
<1>2. eligible \subseteq 0..safe
  BY <1>1
<1>3. IsFiniteSet(eligible) /\ Cardinality(eligible) \in Nat
  <2>1. IsFiniteSet(0..safe)
    BY FS_Interval
  <2>2. IsFiniteSet(eligible)
    BY <1>2, <2>1, FS_Subset
  <2>3. QED
    BY <2>2, FS_CardinalityType
<1>4. overflow \in Nat /\ (overflow # 0 => overflow = Cardinality(rows) - MaxMessages)
  <2>1. Cardinality(rows) - MaxMessages \in Int
    BY <1>1
  <2> HIDE DEF rows
  <2>2. QED
    BY <2>1, MaxOfTwo DEF rows
<1>5. count # 0
  BY DEF CapCutoff
<1>6. cap = Min(upTo)
  BY <1>5 DEF CapCutoff
<1> HIDE DEF overflow, eligible
<1>7. count \in Nat \ {0} /\ count <= overflow /\ count <= Cardinality(eligible)
  BY <1>3, <1>4, <1>5, MinOfTwo
<1>8. cap \in upTo /\ \A e \in upTo : cap <= e
  <2>1. eligible # {}
    <3> SUFFICES ASSUME eligible = {} PROVE FALSE
      OBVIOUS
    <3>1. Cardinality(eligible) = 0
      BY FS_EmptySet
    <3>2. QED
      BY <1>3, <1>7, <3>1
  <2>2. Max(eligible) \in eligible /\ \A x \in eligible : x <= Max(eligible)
    BY <1>2, <2>1, MaxOfBounded
  <2>3. below(Max(eligible)) = Cardinality(eligible)
    <3>1. {x \in eligible : x <= Max(eligible)} = eligible
      BY <2>2
    <3>2. QED
      BY <3>1
  <2>4. Max(eligible) \in upTo
    <3> HIDE DEF count, below
    <3>1. below(Max(eligible)) >= count
      BY <1>3, <1>7, <2>3
    <3>2. QED
      BY <2>2, <3>1
  <2>5. upTo \subseteq Nat
    <3> HIDE DEF count, below
    <3>1. upTo \subseteq eligible
      OBVIOUS
    <3> HIDE DEF upTo
    <3>2. 0..safe \subseteq Nat
      OBVIOUS
    <3>3. QED
      BY <1>2, <3>1, <3>2
  <2> HIDE DEF upTo, cap
  <2>6. QED
    BY <1>6, <2>4, <2>5, MinOfNaturals
<1> HIDE DEF cap
<1>9. Cardinality(B) <= count
  <2>1. cap \in eligible
    BY <1>8
  <2>2. \A e \in eligible : Cardinality({x \in eligible : x <= e}) >= count => cap <= e
    BY <1>8
  <2> HIDE DEF count, upTo
  <2>3. QED
    BY <1>2, <1>7, <2>1, <2>2, LeastWithCount
<1>10. Cardinality(gone) <= Cardinality(B) /\ IsFiniteSet(gone)
  <2> DEFINE f == [m \in gone |-> messages[m].event]
  <2>1. cap \in eligible /\ cap \in Nat /\ cap <= safe
    BY <1>2, <1>8
  <2>2. \A m \in gone : messages[m].event \in B
    BY <1>1, <2>1 DEF RowsBeyond, eligible
  <2>3. \A m, n \in gone : messages[m].event = messages[n].event => m = n
    BY DEF Narrated, MessagesMatchJournal
  <2>4. f \in Injection(gone, B)
    <3> HIDE DEF gone, B
    <3>1. f \in [gone -> B]
      BY <2>2
    <3>2. \A a, b \in gone : f[a] = f[b] => a = b
      BY <2>3
    <3>3. QED
      BY <3>1, <3>2 DEF Injection, IsInjective
  <2>5. IsFiniteSet(B)
    BY <1>3, FS_Subset
  <2> HIDE DEF f, gone, B
  <2>6. QED
    BY <2>4, <2>5, FS_Injection
<1>11. Cardinality(RowsBeyond(cap)) = Cardinality(rows) - Cardinality(gone)
  <2>1. Cardinality(gone) = Cardinality(rows) - Cardinality(rows \cap RowsBeyond(cap))
    BY <1>1, FS_Difference
  <2>2. rows \cap RowsBeyond(cap) = RowsBeyond(cap)
    BY DEF RowsBeyond
  <2>3. Cardinality(RowsBeyond(cap)) \in Nat
    BY RowsAreFinite DEF Journaled
  <2> HIDE DEF gone, rows
  <2>4. Cardinality(gone) = Cardinality(rows) - Cardinality(RowsBeyond(cap))
    BY <2>1, <2>2
  <2>5. QED
    BY <1>1, <2>3, <2>4
<1>12. Cardinality(gone) \in Nat /\ Cardinality(B) \in Nat
  <2>1. IsFiniteSet(B)
    BY <1>3, FS_Subset
  <2>2. QED
    BY <1>10, <2>1, FS_CardinalityType
<1> HIDE DEF gone, B, count, rows
<1>13. overflow # 0
  BY <1>4, <1>7
<1>14. Cardinality(gone) <= overflow
  BY <1>4, <1>7, <1>9, <1>10, <1>12
<1>15. Cardinality(RowsBeyond(cap)) >= MaxMessages
  BY <1>1, <1>4, <1>11, <1>12, <1>13, <1>14
<1>16. QED
  BY <1>15 DEF cap

\* Every row at or below a planned cutoff is old by the call's clock, or the
\* cap is what the cutoff comes from.
LEMMA PlanIsJustified ==
  ASSUME Journaled, Narrated, NEW now \in Nat, NEW m \in DOMAIN messages,
         messages[m].event <= PruneThrough(now)
  PROVE  \/ events[messages[m].event].at < now - RetentionDays
         \/ Cardinality(RowsBeyond(PruneThrough(now))) >= MaxMessages
<1> DEFINE safe == SafeThrough(now)
           age  == AgeCutoff(now, safe)
           cap  == CapCutoff(safe)
           plan == PruneThrough(now)
           e    == messages[m].event
           recent == {i \in EventIds : i <= safe /\ events[i].at >= now - RetentionDays}
<1>1. /\ safe \in Nat /\ age \in Nat /\ cap \in Nat
      /\ EventIds \subseteq Nat \ {0} /\ e \in EventIds /\ events[e].at \in Nat
      /\ RetentionDays \in Nat /\ MaxMessages \in Nat
  <2>1. safe \in Nat
    BY SafeThroughRange DEF Journaled, TypeOK
  <2> HIDE DEF safe
  <2>2. age \in Nat /\ cap \in Nat
    BY <2>1, AgeCutoffRange, CapCutoffRange
  <2>3. EventIds \subseteq Nat \ {0} /\ e \in EventIds
    BY DEF Journaled, TypeOK, EventIds, Narrated, MessagesMatchJournal
  <2> HIDE DEF e
  <2>4. events[e].at \in Nat
    BY <2>3 DEF Journaled, TypeOK, EventIds, EventRec
  <2>5. QED
    BY <2>1, <2>2, <2>3, <2>4, SettingsAssumption
<1>2. plan = Min({Max({age, cap}), safe})
  BY DEF PruneThrough
<1>3. recent # {} => age = Min(recent) - 1
  BY DEF AgeCutoff
<1>4. recent # {} => \A i \in recent : Min(recent) <= i
  <2>1. recent \subseteq Nat
    BY <1>1
  <2> HIDE DEF recent
  <2>2. QED
    BY <2>1, MinOfNaturals
<1>5. recent # {} => Min(recent) \in Nat
  <2>1. recent \subseteq Nat
    BY <1>1
  <2> HIDE DEF recent
  <2>2. QED
    BY <2>1, MinOfNaturals
<1> HIDE DEF age, cap, plan, safe
<1>6. plan <= safe /\ plan \in Nat /\ (plan <= age \/ plan <= cap)
  <2>1. Max({age, cap}) = IF age >= cap THEN age ELSE cap
    BY <1>1, MaxOfTwo
  <2>2. Max({age, cap}) \in Nat
    BY <1>1, <2>1
  <2>3. plan = IF Max({age, cap}) <= safe THEN Max({age, cap}) ELSE safe
    BY <1>1, <1>2, <2>2, MinOfTwo
  <2>4. QED
    BY <1>1, <2>1, <2>3
<1>7. e <= plan /\ e <= safe
  <2>1. e <= plan
    BY DEF plan
  <2> HIDE DEF e
  <2>2. QED
    BY <1>1, <1>6, <2>1
<1>8. CASE plan <= age
  <2>1. e \notin recent
    <3> SUFFICES ASSUME e \in recent PROVE FALSE
      OBVIOUS
    <3>1. Min(recent) <= e /\ age = Min(recent) - 1 /\ Min(recent) \in Nat
      BY <1>3, <1>4, <1>5
    <3> HIDE DEF e, recent
    <3>2. QED
      BY <1>1, <1>6, <1>7, <1>8, <3>1
  <2> HIDE DEF e
  <2>2. events[e].at < now - RetentionDays
    BY <1>1, <1>7, <2>1
  <2>3. QED
    BY <2>2 DEF e
<1>9. CASE plan <= cap
  <2> HIDE DEF e
  <2>1. cap # 0
    <3>1. e \in Nat \ {0}
      BY <1>1
    <3>2. cap \in Nat /\ plan \in Nat /\ e <= plan
      BY <1>1, <1>6, <1>7
    <3>3. QED
      BY <1>9, <3>1, <3>2
  <2>2. Cardinality(RowsBeyond(cap)) >= MaxMessages
    BY <1>1, <2>1, CapLeavesFullCap DEF cap
  <2>3. RowsBeyond(cap) \subseteq RowsBeyond(plan)
    BY <1>1, <1>6, <1>9 DEF RowsBeyond, Journaled, TypeOK, MessageRec
  <2>4. /\ Cardinality(RowsBeyond(cap)) <= Cardinality(RowsBeyond(plan))
        /\ Cardinality(RowsBeyond(cap)) \in Nat /\ Cardinality(RowsBeyond(plan)) \in Nat
    BY <2>3, RowsAreFinite, FS_Subset DEF Journaled
  <2>5. Cardinality(RowsBeyond(plan)) >= MaxMessages
    BY <1>1, <2>2, <2>4
  <2>6. QED
    BY <2>5 DEF plan
<1>10. QED
  BY <1>6, <1>8, <1>9

\* More rows beyond the cutoff do not take away a reason.
LEMMA ReasonStays ==
  ASSUME Journaled, Journaled', NEW e,
         RowsBeyond(e) \subseteq RowsBeyond(e)',
         Cardinality(RowsBeyond(e)) >= MaxMessages
  PROVE  Cardinality(RowsBeyond(e)') >= MaxMessages
<1>1. /\ IsFiniteSet(RowsBeyond(e)') /\ Cardinality(RowsBeyond(e)') \in Nat
      /\ Cardinality(RowsBeyond(e)) \in Nat /\ MaxMessages \in Nat
  <2>1. TypeOK /\ TypeOK'
    BY DEF Journaled
  <2>2. IsFiniteSet(RowsBeyond(e)') /\ Cardinality(RowsBeyond(e)') \in Nat
    <3>1. IsFiniteSet(1..lastMessage')
      <4>1. lastMessage' \in Int
        BY <2>1 DEF TypeOK
      <4>2. QED
        BY <4>1, FS_Interval
    <3>2. RowsBeyond(e)' \in SUBSET (1..lastMessage')
      BY <2>1 DEF TypeOK, RowsBeyond
    <3>3. IsFiniteSet(RowsBeyond(e)')
      BY <3>1, <3>2, FS_Subset
    <3>4. QED
      BY <3>3, FS_CardinalityType
  <2>3. QED
    BY <2>1, <2>2, RowsAreFinite, SettingsAssumption
<1>2. Cardinality(RowsBeyond(e)) <= Cardinality(RowsBeyond(e)')
  BY <1>1, FS_Subset
<1>3. QED
  BY <1>1, <1>2

\* A writer adds an event past every planned cutoff, and moves at most one row
\* to it.
LEMMA WriterPlans ==
  ASSUME Journaled, Journaled', Narrated, PlansAreJustified,
         \A i \in EventIds : events'[i] = events[i],
         DOMAIN messages \subseteq DOMAIN messages',
         \A m \in DOMAIN messages : \/ messages'[m].event = messages[m].event
                                    \/ messages'[m].event = lastEvent + 1,
         \A m \in DOMAIN messages' : m \in DOMAIN messages \/ messages'[m].event = lastEvent + 1,
         UNCHANGED run
  PROVE  PlansAreJustified'
<1> SUFFICES ASSUME NEW h \in Runs, NEW m \in DOMAIN messages', run[h].pc = "pruning",
                    messages'[m].event <= run[h].prune
             PROVE  \/ events'[messages'[m].event].at < run[h].current - RetentionDays
                    \/ Cardinality(RowsBeyond(run[h].prune)') >= MaxMessages
  BY DEF PlansAreJustified, MayGo
<1>1. /\ lastEvent \in Nat /\ run[h].prune \in Nat /\ run[h].prune <= lastEvent
      /\ \A n \in DOMAIN messages : messages[n].event \in Nat
  BY DEF Journaled, TypeOK, RunRec, PlansWithinJournal, MessageRec
<1>2. m \in DOMAIN messages /\ messages'[m].event = messages[m].event
  BY <1>1
<1>3. messages[m].event \in EventIds
  BY <1>2 DEF Narrated, MessagesMatchJournal
<1>4. RowsBeyond(run[h].prune) \subseteq RowsBeyond(run[h].prune)'
  BY <1>1 DEF RowsBeyond
<1>5. MayGo(h, m)
  BY <1>2 DEF PlansAreJustified
<1>6. CASE events[messages[m].event].at < run[h].current - RetentionDays
  BY <1>2, <1>3, <1>6
<1>7. CASE Cardinality(RowsBeyond(run[h].prune)) >= MaxMessages
  BY <1>4, <1>7, ReasonStays
<1>8. QED
  BY <1>5, <1>6, <1>7 DEF MayGo

\* A deletion at or below a cutoff leaves the rows beyond it; one past it
\* leaves no row at or below it.
LEMMA BatchPlans ==
  ASSUME Journaled, Journaled', Narrated, PlansAreJustified,
         NEW k \in Runs, HousekeepingBatch(k)
  PROVE  PlansAreJustified'
<1> DEFINE through == BatchThrough(k)
<1>1. /\ through \in Nat
      /\ EventIds' = {i \in EventIds : i > through}
      /\ \A i \in EventIds' : events'[i] = events[i]
      /\ DOMAIN messages' = RowsBeyond(through)
      /\ \A m \in DOMAIN messages' : messages'[m] = messages[m]
      /\ UNCHANGED run
  BY BatchRows DEF HousekeepingBatch
<1> HIDE DEF through
<1> SUFFICES ASSUME NEW h \in Runs, NEW m \in DOMAIN messages', run[h].pc = "pruning",
                    messages'[m].event <= run[h].prune
             PROVE  \/ events'[messages'[m].event].at < run[h].current - RetentionDays
                    \/ Cardinality(RowsBeyond(run[h].prune)') >= MaxMessages
  BY <1>1 DEF PlansAreJustified, MayGo
<1>2. /\ m \in DOMAIN messages /\ messages'[m] = messages[m]
      /\ messages[m].event > through /\ messages[m].event \in Nat
      /\ run[h].prune \in Nat
      /\ \A n \in DOMAIN messages : messages[n].event \in Nat
  BY <1>1 DEF RowsBeyond, Journaled, TypeOK, MessageRec, RunRec
<1>3. messages[m].event \in EventIds'
  BY <1>1, <1>2 DEF Narrated, MessagesMatchJournal
<1>4. RowsBeyond(run[h].prune) \subseteq RowsBeyond(run[h].prune)'
  BY <1>1, <1>2 DEF RowsBeyond
<1>5. MayGo(h, m)
  BY <1>2 DEF PlansAreJustified
<1>6. CASE events[messages[m].event].at < run[h].current - RetentionDays
  BY <1>1, <1>2, <1>3, <1>6
<1>7. CASE Cardinality(RowsBeyond(run[h].prune)) >= MaxMessages
  BY <1>1, <1>4, <1>7, ReasonStays
<1>8. QED
  BY <1>5, <1>6, <1>7 DEF MayGo

-----------------------------------------------------------------------------
(* Reasons *)

LEMMA PlanPlans ==
  ASSUME Journaled, Narrated, Planned, NEW h \in Runs, HousekeepingPlan(h)
  PROVE  Planned'
<1> DEFINE plan == PruneThrough(run[h].current)
<1>1. /\ run \in [Runs -> RunRec] /\ run[h].current \in Nat
      /\ UNCHANGED <<events, messages, clock>>
  BY DEF Journaled, TypeOK, RunRec, HousekeepingPlan
<1>2. /\ \A k \in Runs : run'[k].current = run[k].current
      /\ \A k \in Runs : k # h => run'[k] = run[k]
      /\ run'[h].prune = plan
  <2>1. run' = [run EXCEPT ![h] = [run[h] EXCEPT !.pc = "pruning", !.prune = plan]]
    BY <1>1 DEF HousekeepingPlan
  <2> HIDE DEF plan
  <2>2. QED
    BY <1>1, <2>1 DEF RunRec
<1>3. PlansKnowThePast'
  BY <1>1, <1>2 DEF Planned, PlansKnowThePast
<1>4. PlansAreJustified'
  <2> SUFFICES ASSUME NEW k \in Runs, NEW m \in DOMAIN messages, run'[k].pc = "pruning",
                      messages[m].event <= run'[k].prune
               PROVE  \/ events[messages[m].event].at < run'[k].current - RetentionDays
                      \/ Cardinality(RowsBeyond(run'[k].prune)) >= MaxMessages
    BY <1>1 DEF PlansAreJustified, MayGo, RowsBeyond
  <2>1. CASE k = h
    BY <1>1, <1>2, <2>1, PlanIsJustified
  <2>2. CASE k # h
    BY <1>2, <2>2 DEF Planned, PlansAreJustified, MayGo
  <2>3. QED
    BY <2>1, <2>2
<1>5. QED
  BY <1>3, <1>4 DEF Planned

LEMMA WritePlans ==
  ASSUME Journaled, Journaled', Narrated, Planned, NEW at \in Stamps, Write(at)
  PROVE  Planned'
<1>1. UNCHANGED <<run, clock>> /\ (\A i \in EventIds : events'[i] = events[i])
  <2>1. \E kind, msg : events' = Journal(kind, msg, at)
    BY DEF Write, AppendEvent, RecordInbound, QueueOutbound, InsertMessage, TransitionOutbound
  <2>2. \A i \in EventIds : events'[i] = events[i]
    BY <2>1, JournalRows DEF Journaled
  <2>3. UNCHANGED <<run, clock>>
    BY DEF Write, AppendEvent, RecordInbound, QueueOutbound, InsertMessage, TransitionOutbound
  <2>4. QED
    BY <2>2, <2>3
<1> DEFINE Moves ==
             /\ DOMAIN messages \subseteq DOMAIN messages'
             /\ \A m \in DOMAIN messages : \/ messages'[m].event = messages[m].event
                                           \/ messages'[m].event = lastEvent + 1
             /\ \A m \in DOMAIN messages' : \/ m \in DOMAIN messages
                                            \/ messages'[m].event = lastEvent + 1
<1>2. ASSUME NEW key, NEW state, InsertMessage(key, state, at) PROVE Moves
  <2>1. /\ DOMAIN messages' = DOMAIN messages \cup {lastMessage + 1}
        /\ \A m \in DOMAIN messages : m # lastMessage + 1 /\ messages'[m] = messages[m]
        /\ messages'[lastMessage + 1].event = lastEvent + 1
    BY <1>2 DEF InsertMessage, Inserted, Journaled, TypeOK
  <2>2. QED
    BY <2>1
<1>3. ASSUME NEW m \in DOMAIN messages, NEW state \in OutboundStates,
             TransitionOutbound(m, state, at)
      PROVE  Moves
  <2>1. messages \in [DOMAIN messages -> MessageRec]
    BY DEF Journaled, TypeOK
  <2>2. messages' = [messages EXCEPT ![m] =
                       [messages[m] EXCEPT !.state = state, !.event = lastEvent + 1]]
    BY <1>3, <2>1 DEF TransitionOutbound
  <2>3. messages'[m].event = lastEvent + 1
    BY <2>1, <2>2 DEF MessageRec
  <2>4. DOMAIN messages' = DOMAIN messages /\ \A n \in DOMAIN messages : n # m => messages'[n] = messages[n]
    BY <2>1, <2>2
  <2>5. QED
    BY <2>3, <2>4
<1>4. ASSUME UNCHANGED messages PROVE Moves
  BY <1>4
<1>5. Moves
  BY <1>2, <1>3, <1>4 DEF Write, AppendEvent, RecordInbound, QueueOutbound
<1>6. PlansAreJustified'
  BY <1>1, <1>5, WriterPlans DEF Planned
<1>7. PlansKnowThePast'
  BY <1>1 DEF Planned, PlansKnowThePast
<1>8. QED
  BY <1>6, <1>7 DEF Planned

\* Calls that go on keep their plan.
LEMMA IdlePlans ==
  ASSUME Planned, UNCHANGED <<events, messages>>, clock' >= clock, PlansKnowThePast',
         \A h \in Runs : run'[h].pc = "pruning" => run'[h] = run[h]
  PROVE  Planned'
<1>1. PlansAreJustified'
  BY DEF Planned, PlansAreJustified, MayGo, RowsBeyond
<1>2. QED
  BY <1>1 DEF Planned

LEMMA NextPlanned ==
  ASSUME Journaled, Journaled', Narrated, Planned, [Next]_vars
  PROVE  Planned'
<1>1. /\ clock \in Nat /\ run \in [Runs -> RunRec]
      /\ \A h \in Runs : run[h].current \in Nat /\ run[h].current <= clock
      /\ IdleRun.current = 0 /\ IdleRun.pc = "idle"
  BY DEF Journaled, TypeOK, RunRec, IdleRun, Planned, PlansKnowThePast
<1>2. CASE UNCHANGED <<events, messages, clock, run>>
  BY <1>1, <1>2, IdlePlans DEF PlansKnowThePast
<1>3. ASSUME NEW at \in Stamps, Write(at) PROVE Planned'
  BY <1>3, WritePlans
<1>4. ASSUME NEW h \in Runs, HousekeepingBegin(h) PROVE Planned'
  <2>1. /\ UNCHANGED <<events, messages, clock>>
        /\ run'[h].pc = "begun" /\ run'[h].current = clock
        /\ \A k \in Runs : k # h => run'[k] = run[k]
    BY <1>1, <1>4 DEF HousekeepingBegin
  <2>2. QED
    BY <1>1, <2>1, IdlePlans DEF PlansKnowThePast
<1>5. ASSUME NEW h \in Runs, HousekeepingBatch(h) PROVE Planned'
  <2>1. PlansAreJustified'
    BY <1>5, BatchPlans DEF Planned
  <2>2. PlansKnowThePast'
    BY <1>1, <1>5 DEF HousekeepingBatch, PlansKnowThePast
  <2>3. QED
    BY <2>1, <2>2 DEF Planned
<1>6. ASSUME NEW h \in Runs, HousekeepingFinish(h) PROVE Planned'
  <2>1. /\ UNCHANGED <<events, messages, clock>> /\ run'[h] = IdleRun
        /\ \A k \in Runs : k # h => run'[k] = run[k]
    BY <1>1, <1>6 DEF HousekeepingFinish
  <2>2. QED
    BY <1>1, <2>1, IdlePlans DEF PlansKnowThePast
<1>7. CASE Tick
  <2>1. UNCHANGED <<events, messages, run>> /\ clock' = clock + 1
    BY <1>7 DEF Tick
  <2>2. QED
    BY <1>1, <2>1, IdlePlans DEF PlansKnowThePast
<1>8. CASE Crash
  <2>1. UNCHANGED <<events, messages, clock>> /\ \A h \in Runs : run'[h] = IdleRun
    BY <1>8 DEF Crash
  <2>2. QED
    BY <1>1, <2>1, IdlePlans DEF PlansKnowThePast
<1>9. QED
  BY <1>2, <1>3, <1>4, <1>5, <1>6, <1>7, <1>8, PlanPlans
     DEF Next, Consume, GetCursor, AdvanceCursor, Housekeeping, vars

THEOREM AlwaysPlanned == Spec => []Planned
<1>1. Init => Planned
  BY DEF Init, Planned, PlansKnowThePast, PlansAreJustified, IdleRun
<1>2. Journaled /\ Journaled' /\ Narrated /\ Planned /\ [Next]_vars => Planned'
  BY NextPlanned
<1>3. QED
  BY <1>1, <1>2, AlwaysJournaled, AlwaysNarrated, PTL DEF Spec

\* A row is deleted because it is older than the window, or while a full cap of
\* messages remains: also when several calls plan from the same overflow, with
\* writers between them.
THEOREM DeletionsHaveReasons == Spec => PruneJustified
<1> DEFINE Justified == \A m \in DOMAIN messages \ DOMAIN messages' :
             \/ events[messages[m].event].at < clock - RetentionDays
             \/ Cardinality(DOMAIN messages') >= MaxMessages
<1>1. ASSUME Journaled, Journaled', Narrated, Planned, [Next]_vars PROVE Justified
  <2>1. CASE DOMAIN messages \subseteq DOMAIN messages'
    BY <2>1
  <2>2. ASSUME NEW h \in Runs, HousekeepingBatch(h) PROVE Justified
    <3> SUFFICES ASSUME NEW m \in DOMAIN messages, m \notin DOMAIN messages'
                 PROVE  \/ events[messages[m].event].at < clock - RetentionDays
                        \/ Cardinality(DOMAIN messages') >= MaxMessages
      OBVIOUS
    <3>1. /\ BatchThrough(h) \in Nat /\ BatchThrough(h) <= run[h].prune
          /\ DOMAIN messages' = RowsBeyond(BatchThrough(h))
      BY <1>1, <2>2, BatchRows
    <3>2. /\ run[h].prune \in Nat /\ run[h].current \in Nat /\ clock \in Nat
          /\ run[h].current <= clock /\ RetentionDays \in Nat
          /\ \A n \in DOMAIN messages : messages[n].event \in Nat
      BY <1>1, SettingsAssumption
         DEF Journaled, TypeOK, RunRec, MessageRec, Planned, PlansKnowThePast
    <3>3. messages[m].event <= run[h].prune
      BY <3>1, <3>2 DEF RowsBeyond
    <3>4. MayGo(h, m)
      BY <1>1, <2>2, <3>3 DEF Planned, PlansAreJustified, HousekeepingBatch
    <3>5. CASE events[messages[m].event].at < run[h].current - RetentionDays
      <4>1. messages[m].event \in EventIds
        BY <1>1 DEF Narrated, MessagesMatchJournal
      <4>2. events[messages[m].event].at \in Nat
        BY <1>1, <4>1 DEF Journaled, TypeOK, EventIds, EventRec
      <4>3. QED
        BY <3>2, <3>5, <4>2
    <3>6. CASE Cardinality(RowsBeyond(run[h].prune)) >= MaxMessages
      <4>1. RowsBeyond(run[h].prune) \subseteq RowsBeyond(BatchThrough(h))
        BY <3>1, <3>2 DEF RowsBeyond
      <4>2. TypeOK /\ MaxMessages \in Nat
        BY <1>1, SettingsAssumption DEF Journaled
      <4>3. /\ Cardinality(RowsBeyond(run[h].prune)) \in Nat
            /\ Cardinality(RowsBeyond(BatchThrough(h))) \in Nat
            /\ Cardinality(RowsBeyond(run[h].prune)) <= Cardinality(RowsBeyond(BatchThrough(h)))
        BY <4>1, <4>2, RowsAreFinite, FS_Subset
      <4>4. QED
        BY <3>1, <3>6, <4>2, <4>3
    <3>7. QED
      BY <3>4, <3>5, <3>6 DEF MayGo
  <2>3. QED
    BY <1>1, <2>1, <2>2
       DEF Next, Write, AppendEvent, RecordInbound, QueueOutbound, InsertMessage, Inserted,
           TransitionOutbound, Consume, GetCursor, AdvanceCursor, Housekeeping,
           HousekeepingBegin, HousekeepingPlan, HousekeepingFinish, Tick, Crash, vars
<1>2. QED
  BY <1>1, AlwaysJournaled, AlwaysNarrated, AlwaysPlanned, PTL DEF Spec, PruneJustified
=============================================================================
