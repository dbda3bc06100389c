-------------------------- MODULE EventStoreProofs --------------------------
(***************************************************************************)
(* Proofs about EventStore: for any set of consumers, any number of        *)
(* concurrent housekeeping calls, any windows, cap and batch size.         *)
(*                                                                         *)
(* The properties follow from one inductive invariant, Journaled.  Its     *)
(* last part is the one that takes several steps of several actors to      *)
(* break: what a housekeeping call has planned to delete is behind every   *)
(* consumer, unless that consumer is still idle by the call's clock (and   *)
(* will be marked) or has come back since.                                 *)
(***************************************************************************)
EXTENDS EventStore, DataFacts

\* Events handed out so far bound the boundary and every planned cutoff.
BoundaryWithinJournal == pruned <= lastEvent

PlansWithinJournal ==
  \A h \in Runs : run[h].pc = "pruning" => run[h].prune <= lastEvent

GapsAtBoundary ==
  \A c \in Consumers : cursors[c].gap # NoGap =>
    cursors[c].event < cursors[c].gap /\ cursors[c].gap <= pruned + 1

PlansSpareTheActive ==
  \A h \in Runs, c \in Consumers :
    run[h].pc = "pruning" /\ cursors[c].known =>
      \/ cursors[c].event >= run[h].prune
      \/ cursors[c].updated < run[h].current - IdleDays
      \/ c \in revived[h]

Journaled ==
  /\ TypeOK
  /\ EventsFollowBoundary
  /\ BoundaryWithinJournal
  /\ CursorsWithinJournal
  /\ PlansWithinJournal
  /\ GapsAtBoundary
  /\ PlansSpareTheActive

-----------------------------------------------------------------------------
(* What the operators compute in a journaled state *)

LEMMA LatestValue ==
  ASSUME TypeOK, EventsFollowBoundary, BoundaryWithinJournal
  PROVE  Latest = lastEvent
<1> DEFINE S == {0, pruned} \cup EventIds
<1>1. S \subseteq 0..lastEvent /\ S # {}
  BY DEF TypeOK, EventsFollowBoundary, BoundaryWithinJournal
<1>2. lastEvent \in S
  BY DEF TypeOK, EventsFollowBoundary, BoundaryWithinJournal
<1>3. lastEvent \in Nat
  BY DEF TypeOK
<1> HIDE DEF S
<1>4. Max(S) \in S /\ \A x \in S : x <= Max(S)
  BY <1>1, <1>3, MaxOfBounded
<1>5. Max(S) = lastEvent
  <2>1. Max(S) \in 0..lastEvent
    BY <1>1, <1>4
  <2>2. lastEvent <= Max(S)
    BY <1>2, <1>4
  <2>3. QED
    BY <1>3, <2>1, <2>2
<1>6. QED
  BY <1>5 DEF S, Latest

LEMMA SafeThroughRange ==
  ASSUME Journaled, NEW now \in Nat
  PROVE  /\ SafeThrough(now) \in 0..lastEvent
         /\ \A c \in Consumers : ActiveAt(now, c) => SafeThrough(now) <= cursors[c].event
<1> DEFINE active == {c \in Consumers : ActiveAt(now, c)}
           S == {cursors[c].event : c \in active}
<1>1. CASE active = {}
  <2>1. SafeThrough(now) = Latest
    BY <1>1 DEF SafeThrough
  <2>2. SafeThrough(now) = lastEvent
    BY <2>1, LatestValue DEF Journaled
  <2>3. QED
    BY <1>1, <2>2 DEF Journaled, TypeOK
<1>2. CASE active # {}
  <2>1. SafeThrough(now) = Min(S)
    BY <1>2 DEF SafeThrough
  <2>2. S \subseteq Nat /\ S # {}
    BY <1>2 DEF Journaled, TypeOK, CursorRec
  <2>3. Min(S) \in S /\ \A x \in S : Min(S) <= x
    BY <2>2, MinOfNaturals
  <2>4. S \subseteq 0..lastEvent
    BY DEF Journaled, TypeOK, CursorRec, CursorsWithinJournal
  <2>5. QED
    BY <2>1, <2>3, <2>4
<1>3. QED
  BY <1>1, <1>2

LEMMA AgeCutoffRange ==
  ASSUME Journaled, NEW now \in Nat, NEW safe \in Nat
  PROVE  AgeCutoff(now, safe) \in Nat
<1> DEFINE recent == {i \in EventIds : i <= safe /\ events[i].at >= now - RetentionDays}
<1>1. CASE recent = {}
  BY <1>1 DEF AgeCutoff
<1>2. CASE recent # {}
  <2>1. recent \subseteq Nat \ {0}
    BY DEF Journaled, TypeOK, EventsFollowBoundary
  <2>2. Min(recent) \in recent
    BY <1>2, <2>1, MinOfNaturals
  <2>3. AgeCutoff(now, safe) = Min(recent) - 1
    BY <1>2 DEF AgeCutoff
  <2>4. QED
    BY <2>1, <2>2, <2>3
<1>3. QED
  BY <1>1, <1>2

\* The oldest eligible messages, counted up to what the cap asks for, end at an
\* event of one of them.
LEMMA CapCutoffRange ==
  ASSUME Journaled, NEW safe \in Nat
  PROVE  CapCutoff(safe) \in Nat
<1> DEFINE eligible == {e \in {messages[m].event : m \in DOMAIN messages} : e <= safe}
           overflow == Max({Cardinality(DOMAIN messages) - MaxMessages, 0})
           count    == Min({overflow, Cardinality(eligible)})
           below(e) == Cardinality({x \in eligible : x <= e})
           upTo     == {e \in eligible : below(e) >= count}
<1>1. eligible \subseteq 0..safe
  BY DEF Journaled, TypeOK, MessageRec
<1>2. IsFiniteSet(eligible) /\ Cardinality(eligible) \in Nat
  <2>1. IsFiniteSet(0..safe)
    BY FS_Interval
  <2>2. IsFiniteSet(eligible)
    BY <1>1, <2>1, FS_Subset
  <2>3. QED
    BY <2>2, FS_CardinalityType
<1>3. overflow \in Nat
  <2>1. IsFiniteSet(1..lastMessage)
    <3>1. lastMessage \in Int
      BY DEF Journaled, TypeOK
    <3>2. QED
      BY <3>1, FS_Interval
  <2>2. IsFiniteSet(DOMAIN messages)
    BY <2>1, FS_Subset DEF Journaled, TypeOK
  <2>3. Cardinality(DOMAIN messages) \in Nat
    BY <2>2, FS_CardinalityType
  <2>4. Cardinality(DOMAIN messages) - MaxMessages \in Int
    BY <2>3, SettingsAssumption
  <2>5. QED
    BY <2>4, MaxOfTwo
<1>4. CASE count = 0
  BY <1>4 DEF CapCutoff
<1> HIDE DEF overflow, eligible
<1>5. CASE count # 0
  <2>1. count \in Nat /\ count <= Cardinality(eligible)
    BY <1>2, <1>3, MinOfTwo
  <2>2. eligible # {}
    <3>1. SUFFICES ASSUME eligible = {} PROVE FALSE
      OBVIOUS
    <3>2. Cardinality(eligible) = 0
      BY <3>1, FS_EmptySet
    <3>3. QED
      BY <2>1, <3>2, <1>5
  <2>3. Max(eligible) \in eligible /\ \A x \in eligible : x <= Max(eligible)
    BY <1>1, <2>2, MaxOfBounded
  <2>4. below(Max(eligible)) = Cardinality(eligible)
    <3>1. {x \in eligible : x <= Max(eligible)} = eligible
      BY <2>3
    <3>2. QED
      BY <3>1
  <2>5. Max(eligible) \in upTo
    <3> HIDE DEF count, below
    <3>1. below(Max(eligible)) >= count
      BY <1>2, <2>1, <2>4
    <3>2. QED
      BY <2>3, <3>1
  <2>6. upTo \subseteq Nat
    <3> HIDE DEF count, below
    <3>1. upTo \subseteq eligible
      OBVIOUS
    <3> HIDE DEF upTo
    <3>2. 0..safe \subseteq Nat
      OBVIOUS
    <3>3. QED
      BY <1>1, <3>1, <3>2
  <2>7. Min(upTo) \in upTo
    BY <2>5, <2>6, MinOfNaturals
  <2>8. CapCutoff(safe) = Min(upTo)
    BY <1>5 DEF CapCutoff, overflow, eligible
  <2>9. QED
    BY <2>6, <2>7, <2>8
<1>6. QED
  BY <1>4, <1>5

\* A planned cutoff never passes the slowest consumer that is active.
LEMMA PruneThroughRange ==
  ASSUME Journaled, NEW now \in Nat
  PROVE  PruneThrough(now) \in 0..SafeThrough(now)
<1> DEFINE safe == SafeThrough(now)
           cut  == Max({AgeCutoff(now, safe), CapCutoff(safe)})
<1>1. safe \in Nat
  BY SafeThroughRange DEF Journaled, TypeOK
<1> HIDE DEF safe
<1>2. cut \in Nat
  <2>1. AgeCutoff(now, safe) \in Nat /\ CapCutoff(safe) \in Nat
    BY <1>1, AgeCutoffRange, CapCutoffRange
  <2>2. QED
    BY <2>1, MaxOfTwo
<1> HIDE DEF cut
<1>3. Min({cut, safe}) \in 0..safe
  BY <1>1, <1>2, MinOfTwo
<1>4. QED
  BY <1>3 DEF PruneThrough, cut, safe

\* A deleting transaction deletes through an id that is there and planned.
LEMMA BatchThroughRange ==
  ASSUME Journaled, NEW h \in Runs, Doomed(h) # {}
  PROVE  BatchThrough(h) \in Doomed(h)
<1> DEFINE upTo(i) == {j \in Doomed(h) : j <= i}
           batch   == {i \in Doomed(h) : Cardinality(upTo(i)) <= BatchSize}
           least   == Min(Doomed(h))
<1>1. Doomed(h) \subseteq 0..lastEvent
  BY DEF Doomed, EventIds, Journaled, TypeOK
<1>2. least \in Doomed(h) /\ \A x \in Doomed(h) : least <= x
  <2>1. Doomed(h) \subseteq Nat
    BY <1>1
  <2>2. QED
    BY <2>1, MinOfNaturals
<1> HIDE DEF least
<1>3. upTo(least) = {least}
  BY <1>1, <1>2
<1>4. Cardinality(upTo(least)) = 1
  BY <1>3, FS_Singleton
<1>5. least \in batch
  BY <1>2, <1>4, SettingsAssumption
<1>6. batch \subseteq 0..lastEvent
  BY <1>1
<1> HIDE DEF upTo
<1>7. Max(batch) \in batch
  BY <1>5, <1>6, MaxOfBounded DEF Journaled, TypeOK
<1>8. BatchThrough(h) = Max(batch)
  BY DEF BatchThrough, upTo
<1>9. QED
  BY <1>7, <1>8
-----------------------------------------------------------------------------
(* Writers of the journal *)

LEMMA TypeOKOfJournal ==
  ASSUME TypeOK, NEW kind \in Kinds, NEW msg \in Nat, NEW at \in Nat
  PROVE  /\ DOMAIN Journal(kind, msg, at) = EventIds \cup {lastEvent + 1}
         /\ Journal(kind, msg, at) \in [EventIds \cup {lastEvent + 1} -> EventRec]
BY DEF TypeOK, Journal, Inserted, EventIds, EventRec

\* One more event, with nothing but the tables of messages and events written.
LEMMA WriterStep ==
  ASSUME Journaled,
         TypeOK',
         DOMAIN events' = EventIds \cup {lastEvent + 1},
         lastEvent' = lastEvent + 1,
         UNCHANGED <<cursors, pruned, run, revived>>
  PROVE  Journaled'
<1>1. lastEvent \in Nat /\ pruned \in Nat /\ pruned <= lastEvent
  BY DEF Journaled, TypeOK, BoundaryWithinJournal
<1>2. EventsFollowBoundary'
  BY <1>1 DEF Journaled, EventsFollowBoundary, EventIds
<1>3. BoundaryWithinJournal'
  BY <1>1 DEF BoundaryWithinJournal
<1>4. CursorsWithinJournal'
  BY <1>1 DEF Journaled, TypeOK, CursorRec, CursorsWithinJournal
<1>5. PlansWithinJournal'
  BY <1>1 DEF Journaled, TypeOK, RunRec, PlansWithinJournal
<1>6. GapsAtBoundary'
  BY DEF Journaled, GapsAtBoundary
<1>7. PlansSpareTheActive'
  BY DEF Journaled, PlansSpareTheActive
<1>8. QED
  BY <1>2, <1>3, <1>4, <1>5, <1>6, <1>7 DEF Journaled

LEMMA AppendEventStep ==
  ASSUME Journaled, NEW at \in Nat, AppendEvent(at)
  PROVE  Journaled'
<1>1. TypeOK
  BY DEF Journaled
<1>2. /\ DOMAIN events' = EventIds \cup {lastEvent + 1}
      /\ events' \in [EventIds \cup {lastEvent + 1} -> EventRec]
  BY <1>1, TypeOKOfJournal DEF AppendEvent, Kinds, NoMessage
<1>3. TypeOK'
  BY <1>1, <1>2 DEF TypeOK, AppendEvent, EventIds
<1>4. QED
  BY <1>2, <1>3, WriterStep DEF AppendEvent

LEMMA InsertMessageStep ==
  ASSUME Journaled, NEW key \in Keys \cup {NoKey},
         NEW state \in OutboundStates \cup {"received"}, NEW at \in Nat,
         InsertMessage(key, state, at)
  PROVE  Journaled'
<1> DEFINE row == [key |-> key, state |-> state, event |-> lastEvent + 1]
<1>1. TypeOK
  BY DEF Journaled
<1>2. /\ DOMAIN events' = EventIds \cup {lastEvent + 1}
      /\ events' \in [EventIds \cup {lastEvent + 1} -> EventRec]
  <2>1. state \in Kinds /\ lastMessage + 1 \in Nat
    BY <1>1 DEF TypeOK, Kinds
  <2>2. QED
    BY <1>1, <2>1, TypeOKOfJournal DEF InsertMessage
<1>3. row \in MessageRec
  BY <1>1 DEF TypeOK, MessageRec
<1> HIDE DEF row
<1>4. messages' = Inserted(messages, lastMessage + 1, row)
  BY DEF InsertMessage, row
<1>5. messages' \in [DOMAIN messages \cup {lastMessage + 1} -> MessageRec]
  BY <1>1, <1>3, <1>4 DEF TypeOK, Inserted
<1>6. TypeOK'
  BY <1>1, <1>2, <1>5 DEF TypeOK, InsertMessage, EventIds
<1>7. QED
  BY <1>2, <1>6, WriterStep DEF InsertMessage

LEMMA TransitionOutboundStep ==
  ASSUME Journaled, NEW m \in DOMAIN messages, NEW state \in OutboundStates,
         NEW at \in Nat, TransitionOutbound(m, state, at)
  PROVE  Journaled'
<1>1. TypeOK
  BY DEF Journaled
<1>2. /\ DOMAIN events' = EventIds \cup {lastEvent + 1}
      /\ events' \in [EventIds \cup {lastEvent + 1} -> EventRec]
  <2>1. state \in Kinds /\ m \in Nat
    BY <1>1 DEF TypeOK, Kinds
  <2>2. QED
    BY <1>1, <2>1, TypeOKOfJournal DEF TransitionOutbound
<1>3. messages' \in [DOMAIN messages -> MessageRec]
  BY <1>1 DEF TypeOK, TransitionOutbound, MessageRec
<1>4. TypeOK'
  BY <1>1, <1>2, <1>3 DEF TypeOK, TransitionOutbound, EventIds
<1>5. QED
  BY <1>2, <1>4, WriterStep DEF TransitionOutbound

-----------------------------------------------------------------------------
(* Consumers *)

\* c's row is written: it never moves back, and a call that is pruning finds
\* it active, or remembers that it came back.
LEMMA CursorStep ==
  ASSUME Journaled, NEW c \in Consumers, NEW row \in CursorRec,
         row.known,
         cursors[c].known => row.event >= cursors[c].event,
         row.event <= lastEvent,
         row.gap # NoGap => row.event < row.gap /\ row.gap <= pruned + 1,
         cursors' = [cursors EXCEPT ![c] = row],
         (row = cursors[c] /\ UNCHANGED revived) \/ Revive(c),
         UNCHANGED <<events, lastEvent, messages, lastMessage, pruned, clock, run>>
  PROVE  Journaled'
<1>1. TypeOK
  BY DEF Journaled
<1>2. cursors' \in [Consumers -> CursorRec] /\ cursors'[c] = row
  BY <1>1 DEF TypeOK
<1>3. \A d \in Consumers : d # c => cursors'[d] = cursors[d]
  BY <1>1 DEF TypeOK
<1>4. revived' \in [Runs -> SUBSET Consumers]
  BY <1>1 DEF TypeOK, Revive
<1>5. TypeOK'
  BY <1>1, <1>2, <1>4 DEF TypeOK
<1>6. EventsFollowBoundary' /\ BoundaryWithinJournal' /\ PlansWithinJournal'
  BY DEF Journaled, EventsFollowBoundary, EventIds, BoundaryWithinJournal,
         PlansWithinJournal
<1>7. CursorsWithinJournal'
  BY <1>2, <1>3 DEF Journaled, CursorsWithinJournal
<1>8. GapsAtBoundary'
  BY <1>2, <1>3 DEF Journaled, GapsAtBoundary
<1>9. PlansSpareTheActive'
  <2> SUFFICES ASSUME NEW h \in Runs, NEW d \in Consumers,
                      run[h].pc = "pruning", cursors'[d].known
               PROVE  \/ cursors'[d].event >= run[h].prune
                      \/ cursors'[d].updated < run[h].current - IdleDays
                      \/ d \in revived'[h]
    BY DEF PlansSpareTheActive
  <2>1. revived[h] \subseteq revived'[h]
    BY <1>1 DEF TypeOK, Revive
  <2>2. cursors[d].known => \/ cursors[d].event >= run[h].prune
                            \/ cursors[d].updated < run[h].current - IdleDays
                            \/ d \in revived[h]
    BY DEF Journaled, PlansSpareTheActive
  <2>3. CASE d # c
    BY <1>3, <2>1, <2>2, <2>3
  <2>4. CASE d = c /\ row = cursors[c] /\ UNCHANGED revived
    BY <1>2, <2>2, <2>4
  <2>5. CASE d = c /\ Revive(c)
    <3>1. /\ run[h].current \in Nat /\ run[h].prune \in Nat
          /\ cursors[c].event \in Nat /\ cursors[c].updated \in Nat
          /\ row.event \in Nat /\ cursors[c].known \in BOOLEAN
      BY <1>1 DEF TypeOK, RunRec, CursorRec
    <3>2. CASE ActiveAt(run[h].current, c)
      BY <1>2, <2>1, <2>2, <2>5, <3>1, <3>2, SettingsAssumption DEF ActiveAt
    <3>3. CASE ~ActiveAt(run[h].current, c)
      BY <2>5, <3>3 DEF Revive
    <3>4. QED
      BY <3>2, <3>3
  <2>6. QED
    BY <2>3, <2>4, <2>5
<1>10. QED
  BY <1>5, <1>6, <1>7, <1>8, <1>9 DEF Journaled

LEMMA GetCursorStep ==
  ASSUME Journaled, NEW c \in Consumers, GetCursor(c)
  PROVE  Journaled'
<1> DEFINE row == cursors'[c]
<1>1. /\ cursors \in [Consumers -> CursorRec] /\ cursors[c] \in CursorRec
      /\ clock \in Nat /\ pruned \in Nat /\ lastEvent \in Nat
  BY DEF Journaled, TypeOK
<1>2. CASE cursors[c].known
  <2>1. row = [cursors[c] EXCEPT !.updated = clock]
    BY <1>1, <1>2 DEF GetCursor
  <2>2. row \in CursorRec /\ row.known /\ row.event = cursors[c].event /\ row.gap = cursors[c].gap
    BY <1>1, <1>2, <2>1 DEF CursorRec
  <2>3. cursors' = [cursors EXCEPT ![c] = row]
    BY <1>1 DEF GetCursor
  <2>4. row.event >= cursors[c].event /\ row.event <= lastEvent
    BY <1>1, <2>2 DEF Journaled, CursorsWithinJournal, CursorRec
  <2>5. row.gap # NoGap => row.event < row.gap /\ row.gap <= pruned + 1
    BY <2>2 DEF Journaled, GapsAtBoundary
  <2> HIDE DEF row
  <2>6. QED
    BY <2>2, <2>3, <2>4, <2>5, CursorStep DEF GetCursor
<1>3. CASE ~cursors[c].known
  <2>1. row = [known |-> TRUE, event |-> 0, updated |-> clock,
               gap |-> IF pruned > 0 THEN pruned + 1 ELSE NoGap,
               expired |-> FALSE]
    BY <1>1, <1>3 DEF GetCursor
  <2>2. row \in CursorRec /\ row.known /\ row.event = 0
    BY <1>1, <2>1 DEF CursorRec, NoGap
  <2>3. cursors' = [cursors EXCEPT ![c] = row]
    BY <1>1 DEF GetCursor
  <2>4. row.gap # NoGap => row.event < row.gap /\ row.gap <= pruned + 1
    BY <1>1, <2>1 DEF NoGap
  <2> HIDE DEF row
  <2>5. row.event <= lastEvent /\ (cursors[c].known => row.event >= cursors[c].event)
    BY <1>1, <1>3, <2>2
  <2>6. /\ Revive(c)
        /\ UNCHANGED <<events, lastEvent, messages, lastMessage, pruned, clock, run>>
    BY DEF GetCursor
  <2>7. QED
    BY <2>2, <2>3, <2>4, <2>5, <2>6, CursorStep
<1>4. QED
  BY <1>2, <1>3

\* The upsert never moves a cursor back, and clears the gap whenever it writes.
LEMMA AdvancedRow ==
  ASSUME NEW old \in CursorRec, NEW id \in Nat, NEW at \in Nat
  PROVE  /\ Advanced(old, id, at) \in CursorRec
         /\ Advanced(old, id, at).known
         /\ old.known => Advanced(old, id, at).event >= old.event
         /\ \/ Advanced(old, id, at) = old
            \/ /\ Advanced(old, id, at).event = id
               /\ Advanced(old, id, at).gap = NoGap
<1>1. CASE ~old.known
  <2>1. Advanced(old, id, at) = [known |-> TRUE, event |-> id, updated |-> at,
                                 gap |-> NoGap, expired |-> FALSE]
    BY <1>1 DEF Advanced
  <2>2. Advanced(old, id, at) \in CursorRec
    <3> DEFINE new == [known |-> TRUE, event |-> id, updated |-> at,
                       gap |-> NoGap, expired |-> FALSE]
    <3>1. new \in CursorRec
      BY DEF CursorRec, NoGap
    <3>2. QED
      BY <2>1, <3>1
  <2>3. /\ Advanced(old, id, at).known
        /\ Advanced(old, id, at).event = id
        /\ Advanced(old, id, at).gap = NoGap
    BY <2>1
  <2>4. QED
    BY <1>1, <2>2, <2>3
<1>2. CASE old.known /\ id >= old.event
  BY <1>2 DEF Advanced, CursorRec, NoGap
<1>3. CASE old.known /\ ~(id >= old.event)
  BY <1>3 DEF Advanced, CursorRec
<1>4. QED
  BY <1>1, <1>2, <1>3

LEMMA AdvanceCursorStep ==
  ASSUME Journaled, NEW c \in Consumers, NEW id \in Nat, NEW at \in Nat,
         AdvanceCursor(c, id, at)
  PROVE  Journaled'
<1> DEFINE row == Advanced(cursors[c], id, at)
<1>1. cursors[c] \in CursorRec
  BY DEF Journaled, TypeOK
<1>2. id <= lastEvent
  BY LatestValue DEF Journaled, AdvanceCursor
<1>3. cursors' = [cursors EXCEPT ![c] = row]
  BY DEF AdvanceCursor
<1>4. (row = cursors[c] /\ UNCHANGED revived) \/ Revive(c)
  BY DEF AdvanceCursor
<1>5. /\ row \in CursorRec /\ row.known
      /\ cursors[c].known => row.event >= cursors[c].event
      /\ row = cursors[c] \/ (row.event = id /\ row.gap = NoGap)
  <2>1. /\ Advanced(cursors[c], id, at) \in CursorRec
        /\ Advanced(cursors[c], id, at).known
        /\ cursors[c].known => Advanced(cursors[c], id, at).event >= cursors[c].event
        /\ \/ Advanced(cursors[c], id, at) = cursors[c]
           \/ /\ Advanced(cursors[c], id, at).event = id
              /\ Advanced(cursors[c], id, at).gap = NoGap
    BY <1>1, AdvancedRow
  <2>2. QED
    BY <2>1
<1> HIDE DEF row
<1>6. /\ row.event <= lastEvent
      /\ row.gap # NoGap => row.event < row.gap /\ row.gap <= pruned + 1
  BY <1>2, <1>5 DEF Journaled, CursorsWithinJournal, GapsAtBoundary
<1>7. QED
  BY <1>3, <1>4, <1>5, <1>6, CursorStep DEF AdvanceCursor

-----------------------------------------------------------------------------
(* Housekeeping *)

LEMMA BeginStep ==
  ASSUME Journaled, NEW h \in Runs, HousekeepingBegin(h)
  PROVE  Journaled'
<1>1. TypeOK'
  BY DEF Journaled, TypeOK, HousekeepingBegin, RunRec
<1>2. EventsFollowBoundary' /\ BoundaryWithinJournal' /\ CursorsWithinJournal' /\ GapsAtBoundary'
  BY DEF Journaled, HousekeepingBegin, EventsFollowBoundary, EventIds,
         BoundaryWithinJournal, CursorsWithinJournal, GapsAtBoundary
<1>3. \A k \in Runs : run'[k].pc = "pruning" => run'[k] = run[k]
  BY DEF Journaled, TypeOK, HousekeepingBegin
<1>4. PlansWithinJournal' /\ PlansSpareTheActive'
  BY <1>3 DEF Journaled, HousekeepingBegin, PlansWithinJournal, PlansSpareTheActive
<1>5. QED
  BY <1>1, <1>2, <1>4 DEF Journaled

LEMMA PlanStep ==
  ASSUME Journaled, NEW h \in Runs, HousekeepingPlan(h)
  PROVE  Journaled'
<1> DEFINE now  == run[h].current
           plan == PruneThrough(run[h].current)
<1>1. /\ run \in [Runs -> RunRec] /\ now \in Nat /\ lastEvent \in Nat
      /\ revived \in [Runs -> SUBSET Consumers]
      /\ cursors \in [Consumers -> CursorRec]
  BY DEF Journaled, TypeOK, RunRec
<1>2. /\ plan \in 0..lastEvent
      /\ \A c \in Consumers : ActiveAt(now, c) => plan <= cursors[c].event
  <2>1. plan \in 0..SafeThrough(now)
    BY <1>1, PruneThroughRange
  <2>2. /\ SafeThrough(now) \in 0..lastEvent
        /\ \A c \in Consumers : ActiveAt(now, c) => SafeThrough(now) <= cursors[c].event
    BY <1>1, SafeThroughRange
  <2> HIDE DEF plan
  <2>3. QED
    BY <1>1, <2>1, <2>2 DEF CursorRec
<1>3. /\ run' = [run EXCEPT ![h].pc = "pruning", ![h].prune = plan]
      /\ revived' = [revived EXCEPT ![h] = {}]
  BY DEF HousekeepingPlan
<1> HIDE DEF plan
<1>4. /\ run' \in [Runs -> RunRec]
      /\ run'[h].prune = plan /\ run'[h].current = now
      /\ \A k \in Runs : k # h => run'[k] = run[k] /\ revived'[k] = revived[k]
  <2>1. ASSUME NEW r \in RunRec
        PROVE  [r EXCEPT !.pc = "pruning", !.prune = plan] \in RunRec
    <3>1. plan \in Nat
      BY <1>1, <1>2
    <3>2. QED
      BY <3>1 DEF RunRec
  <2>2. run' = [run EXCEPT ![h] = [run[h] EXCEPT !.pc = "pruning", !.prune = plan]]
    BY <1>1, <1>3
  <2>3. run' \in [Runs -> RunRec]
    BY <1>1, <2>1, <2>2
  <2>4. run'[h].prune = plan /\ run'[h].current = now
    BY <1>1, <2>2 DEF RunRec
  <2>5. QED
    BY <1>1, <1>3, <2>3, <2>4
<1>5. TypeOK'
  BY <1>1, <1>3, <1>4 DEF Journaled, TypeOK, HousekeepingPlan
<1>6. EventsFollowBoundary' /\ BoundaryWithinJournal' /\ CursorsWithinJournal' /\ GapsAtBoundary'
  BY DEF Journaled, HousekeepingPlan, EventsFollowBoundary, EventIds,
         BoundaryWithinJournal, CursorsWithinJournal, GapsAtBoundary
<1>7. PlansWithinJournal'
  <2> SUFFICES ASSUME NEW k \in Runs, run'[k].pc = "pruning"
               PROVE  run'[k].prune <= lastEvent
    BY DEF PlansWithinJournal, HousekeepingPlan
  <2>1. CASE k # h
    BY <1>4, <2>1 DEF Journaled, PlansWithinJournal
  <2>2. CASE k = h
    BY <1>1, <1>2, <1>4, <2>2
  <2>3. QED
    BY <2>1, <2>2
<1>8. PlansSpareTheActive'
  <2> SUFFICES ASSUME NEW k \in Runs, NEW c \in Consumers,
                      run'[k].pc = "pruning", cursors[c].known
               PROVE  \/ cursors[c].event >= run'[k].prune
                      \/ cursors[c].updated < run'[k].current - IdleDays
                      \/ c \in revived'[k]
    BY DEF PlansSpareTheActive, HousekeepingPlan
  <2>1. CASE k # h
    BY <1>4, <2>1 DEF Journaled, PlansSpareTheActive
  <2>2. CASE k = h
    <3>1. cursors[c].event \in Nat /\ cursors[c].updated \in Nat
      BY <1>1 DEF CursorRec
    <3>2. ActiveAt(now, c) \/ cursors[c].updated < now - IdleDays
      BY <1>1, <3>1, SettingsAssumption DEF ActiveAt
    <3>3. QED
      BY <1>1, <1>2, <1>4, <2>2, <3>1, <3>2
  <2>3. QED
    BY <2>1, <2>2
<1>9. QED
  BY <1>5, <1>6, <1>7, <1>8 DEF Journaled

\* What a deleting transaction does to the tables that other calls share.
LEMMA BatchEffect ==
  ASSUME Journaled, NEW h \in Runs, HousekeepingBatch(h)
  PROVE  LET through == BatchThrough(h)
         IN  /\ through \in (pruned + 1)..lastEvent
             /\ through <= run[h].prune
             /\ pruned' = through
             /\ DOMAIN events' = (through + 1)..lastEvent
             /\ \A c \in Consumers : cursors'[c] = Expired(h, through, cursors[c])
<1> DEFINE through == BatchThrough(h)
<1>1. pruned \in Nat /\ lastEvent \in Nat
  BY DEF Journaled, TypeOK
<1>2. through \in Doomed(h)
  BY BatchThroughRange DEF HousekeepingBatch
<1>3. through \in (pruned + 1)..lastEvent /\ through <= run[h].prune
  BY <1>2 DEF Doomed, Journaled, EventsFollowBoundary
<1>4. /\ events' = Restrict(events, {i \in EventIds : i > through})
      /\ cursors' = [c \in Consumers |-> Expired(h, through, cursors[c])]
      /\ pruned' = Max({pruned, through})
  BY DEF HousekeepingBatch
<1> HIDE DEF through
<1>5. pruned' = through
  BY <1>1, <1>3, <1>4, MaxOfTwo
<1>6. DOMAIN events' = (through + 1)..lastEvent
  BY <1>1, <1>3, <1>4 DEF Restrict, Journaled, EventsFollowBoundary
<1>7. QED
  BY <1>3, <1>4, <1>5, <1>6 DEF through

LEMMA ExpiredRow ==
  ASSUME NEW h \in Runs, run[h].current \in Int, NEW through \in Nat,
         NEW old \in CursorRec
  PROVE  LET new == Expired(h, through, old)
         IN  /\ new \in CursorRec
             /\ new.known = old.known /\ new.updated = old.updated
             /\ new.event >= old.event
             /\ new = old \/ (new.event = through /\ new.gap = through + 1)
<1>1. CASE old.known /\ old.updated < run[h].current - IdleDays /\ old.event < through
  <2>1. Expired(h, through, old) = [old EXCEPT !.event = through, !.gap = through + 1,
                                               !.expired = TRUE]
    BY <1>1 DEF Expired
  <2>2. Expired(h, through, old) \in CursorRec
    <3> DEFINE gap == through + 1
    <3>1. gap \in Nat
      OBVIOUS
    <3> HIDE DEF gap
    <3>2. [old EXCEPT !.event = through, !.gap = gap, !.expired = TRUE] \in CursorRec
      BY <3>1 DEF CursorRec
    <3>3. QED
      BY <2>1, <3>2 DEF gap
  <2>3. /\ Expired(h, through, old).known = old.known
        /\ Expired(h, through, old).updated = old.updated
        /\ Expired(h, through, old).event = through
        /\ Expired(h, through, old).gap = through + 1
    BY <2>1 DEF CursorRec
  <2>4. old.event \in Nat
    BY DEF CursorRec
  <2>5. QED
    BY <1>1, <2>2, <2>3, <2>4
<1>2. CASE ~(old.known /\ old.updated < run[h].current - IdleDays /\ old.event < through)
  <2>1. Expired(h, through, old) = old
    BY <1>2 DEF Expired
  <2>2. QED
    BY <2>1 DEF CursorRec
<1>3. QED
  BY <1>1, <1>2

LEMMA BatchStep ==
  ASSUME Journaled, NEW h \in Runs, HousekeepingBatch(h)
  PROVE  Journaled'
<1> DEFINE through == BatchThrough(h)
<1>1. /\ pruned \in Nat /\ lastEvent \in Nat /\ run[h].current \in Nat
      /\ cursors \in [Consumers -> CursorRec] /\ run \in [Runs -> RunRec]
      /\ events \in [EventIds -> EventRec]
      /\ messages \in [DOMAIN messages -> MessageRec]
  BY DEF Journaled, TypeOK, RunRec, EventIds
<1>2. /\ through \in (pruned + 1)..lastEvent /\ through <= run[h].prune
      /\ pruned' = through
      /\ DOMAIN events' = (through + 1)..lastEvent
      /\ \A c \in Consumers : cursors'[c] = Expired(h, through, cursors[c])
  BY BatchEffect
<1>3. /\ events' = Restrict(events, {i \in EventIds : i > through})
      /\ messages' = Restrict(messages, {m \in DOMAIN messages : messages[m].event > through})
      /\ cursors' = [c \in Consumers |-> Expired(h, through, cursors[c])]
      /\ UNCHANGED <<lastEvent, lastMessage, clock, run, revived>>
  BY DEF HousekeepingBatch
<1> HIDE DEF through
<1>4. through \in Nat
  BY <1>1, <1>2
<1>5. \A c \in Consumers :
        /\ cursors'[c] \in CursorRec
        /\ cursors'[c].known = cursors[c].known
        /\ cursors'[c].updated = cursors[c].updated
        /\ cursors'[c].event >= cursors[c].event
        /\ \/ cursors'[c] = cursors[c]
           \/ cursors'[c].event = through /\ cursors'[c].gap = through + 1
  <2> TAKE c \in Consumers
  <2>1. cursors[c] \in CursorRec
    BY <1>1
  <2>2. QED
    BY <1>1, <1>2, <1>4, <2>1, ExpiredRow
<1>6. TypeOK'
  <2>1. events' \in [DOMAIN events' -> EventRec] /\ DOMAIN events' \subseteq 1..lastEvent
    BY <1>1, <1>2, <1>3, <1>4 DEF Restrict, EventIds
  <2>2. /\ messages' \in [DOMAIN messages' -> MessageRec]
        /\ DOMAIN messages' \subseteq DOMAIN messages
    BY <1>1, <1>3 DEF Restrict
  <2>3. cursors' \in [Consumers -> CursorRec]
    BY <1>3, <1>5
  <2>4. QED
    BY <1>2, <1>3, <1>4, <2>1, <2>2, <2>3 DEF Journaled, TypeOK
<1>7. EventsFollowBoundary' /\ BoundaryWithinJournal' /\ PlansWithinJournal'
  <2>1. EventsFollowBoundary'
    BY <1>2, <1>3 DEF EventsFollowBoundary, EventIds
  <2>2. BoundaryWithinJournal'
    BY <1>1, <1>2, <1>3 DEF BoundaryWithinJournal
  <2>3. PlansWithinJournal'
    BY <1>3 DEF Journaled, PlansWithinJournal
  <2>4. QED
    BY <2>1, <2>2, <2>3
<1>8. CursorsWithinJournal'
  <2> SUFFICES ASSUME NEW c \in Consumers PROVE cursors'[c].event <= lastEvent
    BY <1>3 DEF CursorsWithinJournal
  <2>1. QED
    BY <1>1, <1>2, <1>5 DEF Journaled, CursorsWithinJournal
<1>9. GapsAtBoundary'
  <2> SUFFICES ASSUME NEW c \in Consumers, cursors'[c].gap # NoGap
               PROVE  cursors'[c].event < cursors'[c].gap /\ cursors'[c].gap <= through + 1
    BY <1>2 DEF GapsAtBoundary
  <2>1. CASE cursors'[c] = cursors[c]
    <3>1. cursors[c].event < cursors[c].gap /\ cursors[c].gap <= pruned + 1
      BY <2>1 DEF Journaled, GapsAtBoundary
    <3>2. cursors[c].gap \in Nat
      BY <1>1 DEF CursorRec
    <3>3. QED
      BY <1>1, <1>2, <1>4, <2>1, <3>1, <3>2
  <2>2. CASE cursors'[c].event = through /\ cursors'[c].gap = through + 1
    BY <1>4, <2>2
  <2>3. QED
    BY <1>5, <2>1, <2>2
<1>10. PlansSpareTheActive'
  <2> SUFFICES ASSUME NEW k \in Runs, NEW c \in Consumers,
                      run[k].pc = "pruning", cursors'[c].known
               PROVE  \/ cursors'[c].event >= run[k].prune
                      \/ cursors'[c].updated < run[k].current - IdleDays
                      \/ c \in revived[k]
    BY <1>3 DEF PlansSpareTheActive
  <2>1. \/ cursors[c].event >= run[k].prune
        \/ cursors[c].updated < run[k].current - IdleDays
        \/ c \in revived[k]
    <3>1. cursors[c].known
      BY <1>5
    <3>2. QED
      BY <3>1 DEF Journaled, PlansSpareTheActive
  <2>2. /\ cursors[c].event \in Nat /\ cursors'[c].event \in Nat
        /\ run[k].prune \in Nat
    BY <1>1, <1>5 DEF CursorRec, RunRec
  <2>3. cursors'[c].event >= cursors[c].event /\ cursors'[c].updated = cursors[c].updated
    BY <1>5
  <2>4. QED
    BY <2>1, <2>2, <2>3
<1>11. QED
  BY <1>6, <1>7, <1>8, <1>9, <1>10 DEF Journaled

\* The closing transaction finds the boundary already recorded.
LEMMA FinishKeepsBoundary ==
  ASSUME Journaled, NEW h \in Runs, HousekeepingFinish(h)
  PROVE  pruned' = pruned
<1>1. pruned \in Nat /\ lastEvent \in Nat /\ run[h].prune \in Nat
  BY DEF Journaled, TypeOK, RunRec
<1>2. run[h].prune <= pruned
  <2>1. run[h].prune <= lastEvent
    BY DEF Journaled, PlansWithinJournal, HousekeepingFinish
  <2>2. run[h].prune \notin (pruned + 1)..lastEvent
    BY <1>1 DEF Journaled, EventsFollowBoundary, HousekeepingFinish, Doomed
  <2>3. QED
    BY <1>1, <2>1, <2>2
<1>3. pruned' = Max({pruned, run[h].prune})
  BY DEF HousekeepingFinish
<1>4. QED
  BY <1>1, <1>2, <1>3, MaxOfTwo

\* Calls that return, or die with the process, plan nothing any more.
LEMMA StopStep ==
  ASSUME Journaled, TypeOK',
         \A h \in Runs : run'[h].pc = "pruning" => run'[h] = run[h] /\ revived'[h] = revived[h],
         UNCHANGED <<events, lastEvent, messages, lastMessage, cursors, pruned>>
  PROVE  Journaled'
<1>1. EventsFollowBoundary' /\ BoundaryWithinJournal' /\ CursorsWithinJournal' /\ GapsAtBoundary'
  BY DEF Journaled, EventsFollowBoundary, EventIds, BoundaryWithinJournal,
         CursorsWithinJournal, GapsAtBoundary
<1>2. PlansWithinJournal'
  BY DEF Journaled, PlansWithinJournal
<1>3. PlansSpareTheActive'
  BY DEF Journaled, PlansSpareTheActive
<1>4. QED
  BY <1>1, <1>2, <1>3 DEF Journaled

LEMMA FinishStep ==
  ASSUME Journaled, NEW h \in Runs, HousekeepingFinish(h)
  PROVE  Journaled'
<1>1. pruned' = pruned
  BY FinishKeepsBoundary
<1>2. IdleRun \in RunRec /\ IdleRun.pc = "idle"
  BY DEF IdleRun, RunRec
<1>3. TypeOK'
  BY <1>1, <1>2 DEF Journaled, TypeOK, HousekeepingFinish
<1>4. \A k \in Runs : run'[k].pc = "pruning" => run'[k] = run[k] /\ revived'[k] = revived[k]
  BY <1>2 DEF Journaled, TypeOK, HousekeepingFinish
<1>5. QED
  BY <1>1, <1>3, <1>4, StopStep DEF HousekeepingFinish

-----------------------------------------------------------------------------
(* The environment *)

LEMMA TickStep ==
  ASSUME Journaled, Tick
  PROVE  Journaled'
<1>1. TypeOK'
  BY DEF Journaled, TypeOK, Tick
<1>2. QED
  BY <1>1, StopStep DEF Tick

LEMMA CrashStep ==
  ASSUME Journaled, Crash
  PROVE  Journaled'
<1>1. IdleRun \in RunRec /\ IdleRun.pc # "pruning"
  BY DEF IdleRun, RunRec
<1>2. TypeOK'
  BY <1>1 DEF Journaled, TypeOK, Crash
<1>3. \A h \in Runs : run'[h].pc # "pruning"
  BY <1>1 DEF Crash
<1>4. QED
  BY <1>2, <1>3, StopStep DEF Crash

-----------------------------------------------------------------------------
(* The invariant *)

LEMMA InitJournaled ==
  ASSUME Init
  PROVE  Journaled
<1>1. NoCursor \in CursorRec /\ NoCursor.event = 0 /\ NoCursor.gap = NoGap
  BY DEF NoCursor, CursorRec, NoGap
<1>2. IdleRun \in RunRec /\ IdleRun.pc = "idle"
  BY DEF IdleRun, RunRec
<1>3. DOMAIN events = {} /\ DOMAIN messages = {}
  BY DEF Init
<1>4. TypeOK
  BY <1>1, <1>2, <1>3 DEF Init, TypeOK
<1>5. EventsFollowBoundary /\ BoundaryWithinJournal
  BY <1>3 DEF Init, EventsFollowBoundary, EventIds, BoundaryWithinJournal
<1>6. CursorsWithinJournal /\ GapsAtBoundary
  BY <1>1 DEF Init, CursorsWithinJournal, GapsAtBoundary
<1>7. PlansWithinJournal /\ PlansSpareTheActive
  BY <1>2 DEF Init, PlansWithinJournal, PlansSpareTheActive
<1>8. QED
  BY <1>4, <1>5, <1>6, <1>7 DEF Journaled

LEMMA NextJournaled ==
  ASSUME Journaled, [Next]_vars
  PROVE  Journaled'
<1>1. CASE \E at \in Stamps : Write(at)
  <2>1. PICK at \in Stamps : Write(at)
    BY <1>1
  <2>2. at \in Nat
    BY DEF Journaled, TypeOK, Stamps
  <2>3. ASSUME AppendEvent(at) PROVE Journaled'
    BY <2>2, <2>3, AppendEventStep
  <2>4. ASSUME NEW key \in Keys, RecordInbound(key, at) PROVE Journaled'
    BY <2>2, <2>4, InsertMessageStep DEF RecordInbound
  <2>5. ASSUME QueueOutbound(at) PROVE Journaled'
    BY <2>2, <2>5, InsertMessageStep DEF QueueOutbound, OutboundStates
  <2>6. ASSUME NEW m \in DOMAIN messages, NEW state \in OutboundStates,
               TransitionOutbound(m, state, at)
        PROVE  Journaled'
    BY <2>2, <2>6, TransitionOutboundStep
  <2>7. QED
    BY <2>1, <2>3, <2>4, <2>5, <2>6 DEF Write
<1>2. CASE \E c \in Consumers : Consume(c)
  <2>1. PICK c \in Consumers : Consume(c)
    BY <1>2
  <2>2. ASSUME NEW id \in 0..(lastEvent + 1), NEW at \in Stamps, AdvanceCursor(c, id, at)
        PROVE  Journaled'
    <3>1. id \in Nat /\ at \in Nat
      BY DEF Journaled, TypeOK, Stamps
    <3>2. QED
      BY <2>2, <3>1, AdvanceCursorStep
  <2>3. QED
    BY <2>1, <2>2, GetCursorStep DEF Consume
<1>3. CASE \E h \in Runs : Housekeeping(h)
  BY <1>3, BeginStep, PlanStep, BatchStep, FinishStep DEF Housekeeping
<1>4. CASE Tick
  BY <1>4, TickStep
<1>5. CASE Crash
  BY <1>5, CrashStep
<1>6. CASE UNCHANGED vars
  BY <1>6 DEF vars, Journaled, TypeOK, EventsFollowBoundary, EventIds,
              BoundaryWithinJournal, CursorsWithinJournal, PlansWithinJournal,
              GapsAtBoundary, PlansSpareTheActive
<1>7. QED
  BY <1>1, <1>2, <1>3, <1>4, <1>5, <1>6 DEF Next

THEOREM AlwaysJournaled == Spec => []Journaled
<1>1. Init => Journaled
  BY InitJournaled
<1>2. Journaled /\ [Next]_vars => Journaled'
  BY NextJournaled
<1>3. QED
  BY <1>1, <1>2, PTL DEF Spec

-----------------------------------------------------------------------------
(* The properties *)

\* Every table and every local variable of a call keeps its shape.
THEOREM TypeCorrect == Spec => []TypeOK
<1>1. Journaled => TypeOK
  BY DEF Journaled
<1>2. QED
  BY <1>1, AlwaysJournaled, PTL

\* The retained events are the ids after the boundary, after every commit.
THEOREM JournalIsContiguous == Spec => []EventsFollowBoundary
<1>1. Journaled => EventsFollowBoundary
  BY DEF Journaled
<1>2. QED
  BY <1>1, AlwaysJournaled, PTL

\* MAX over rows and boundary is the last id handed out, so neither an
\* advance nor a safe prefix is computed from a regressed journal.
THEOREM LatestNeverRegresses == Spec => []LatestIsLastHandedOut
<1>1. Journaled => LatestIsLastHandedOut
  BY LatestValue DEF Journaled, LatestIsLastHandedOut
<1>2. QED
  BY <1>1, AlwaysJournaled, PTL

\* No cursor passes the newest event.
THEOREM CursorsStayWithinJournal == Spec => []CursorsWithinJournal
<1>1. Journaled => CursorsWithinJournal
  BY DEF Journaled
<1>2. QED
  BY <1>1, AlwaysJournaled, PTL

\* A gap is stored only where events are really gone.
THEOREM GapsTellTheTruth == Spec => []GapsAreTruthful
<1>1. Journaled => GapsAreTruthful
  <2> SUFFICES ASSUME Journaled, NEW c \in Consumers, cursors[c].gap # NoGap
               PROVE  /\ cursors[c].event < cursors[c].gap
                      /\ \A i \in EventIds : i > cursors[c].event => i >= cursors[c].gap
    BY DEF GapsAreTruthful
  <2>1. cursors[c].event < cursors[c].gap /\ cursors[c].gap <= pruned + 1
    BY DEF Journaled, GapsAtBoundary
  <2>2. cursors[c].gap \in Nat /\ pruned \in Nat /\ lastEvent \in Nat
    BY DEF Journaled, TypeOK, CursorRec
  <2>3. EventIds = (pruned + 1)..lastEvent
    BY DEF Journaled, EventsFollowBoundary
  <2>4. QED
    BY <2>1, <2>2, <2>3
<1>2. QED
  BY <1>1, AlwaysJournaled, PTL

\* A step that is not a housekeeping batch or a consumer's own call leaves the
\* cursors alone; those two never move one back.
THEOREM CursorsNeverMoveBack == Spec => CursorsMonotone
<1> DEFINE Monotone == \A c \in Consumers : cursors[c].known =>
             cursors'[c].known /\ cursors'[c].event >= cursors[c].event
<1>1. ASSUME Journaled, [Next]_vars PROVE Monotone
  <2>1. \A c \in Consumers : cursors[c] \in CursorRec /\ cursors[c].event \in Nat
    BY <1>1 DEF Journaled, TypeOK, CursorRec
  <2>2. CASE UNCHANGED cursors
    BY <2>1, <2>2
  <2>3. ASSUME NEW d \in Consumers, GetCursor(d) PROVE Monotone
    <3> SUFFICES ASSUME NEW c \in Consumers, cursors[c].known
                 PROVE  cursors'[c].known /\ cursors'[c].event >= cursors[c].event
      OBVIOUS
    <3>1. CASE c # d
      BY <1>1, <2>1, <2>3, <3>1 DEF GetCursor, Journaled, TypeOK
    <3>2. CASE c = d
      <4>1. cursors'[c] = [cursors[c] EXCEPT !.updated = clock]
        BY <1>1, <2>3, <3>2 DEF GetCursor, Journaled, TypeOK
      <4>2. QED
        BY <2>1, <4>1 DEF CursorRec
    <3>3. QED
      BY <3>1, <3>2
  <2>4. ASSUME NEW d \in Consumers, NEW id \in 0..(lastEvent + 1), NEW at \in Stamps,
               AdvanceCursor(d, id, at)
        PROVE  Monotone
    <3>1. id \in Nat /\ at \in Nat
      BY <1>1 DEF Journaled, TypeOK, Stamps
    <3>2. cursors' = [cursors EXCEPT ![d] = Advanced(cursors[d], id, at)]
      BY <2>4 DEF AdvanceCursor
    <3>3. /\ Advanced(cursors[d], id, at).known
          /\ cursors[d].known => Advanced(cursors[d], id, at).event >= cursors[d].event
      BY <2>1, <3>1, AdvancedRow
    <3>4. QED
      BY <1>1, <2>1, <3>2, <3>3 DEF Journaled, TypeOK
  <2>5. ASSUME NEW h \in Runs, HousekeepingBatch(h) PROVE Monotone
    <3> TAKE c \in Consumers
    <3>1. /\ cursors'[c] = Expired(h, BatchThrough(h), cursors[c])
          /\ BatchThrough(h) \in Nat
      BY <1>1, <2>5, BatchEffect DEF Journaled, TypeOK
    <3>2. run[h].current \in Int
      BY <1>1 DEF Journaled, TypeOK, RunRec
    <3>3. cursors'[c].known = cursors[c].known /\ cursors'[c].event >= cursors[c].event
      BY <2>1, <3>1, <3>2, ExpiredRow
    <3>4. QED
      BY <3>3
  <2>6. QED
    BY <1>1, <2>2, <2>3, <2>4, <2>5
       DEF Next, Write, AppendEvent, RecordInbound, QueueOutbound, InsertMessage,
           TransitionOutbound, Consume, Housekeeping, HousekeepingBegin,
           HousekeepingPlan, HousekeepingFinish, Tick, Crash, vars
<1>2. QED
  BY <1>1, AlwaysJournaled, PTL DEF Spec, CursorsMonotone

\* Events are deleted only by a batch, whose plan spared every consumer that
\* was active by the call's clock: one that is behind by now is idle and gets
\* its gap in the same transaction, or came back after the plan.
THEOREM LossIsAlwaysMarked == Spec => LossIsMarked
<1> DEFINE Marked == \A c \in Consumers :
             cursors[c].known /\ pruned' > pruned /\ cursors[c].event < pruned'
             => ToldOfLoss(c) \/ \E h \in Runs : c \in revived[h]
<1>1. ASSUME Journaled, [Next]_vars PROVE Marked
  <2>1. pruned \in Nat
    BY <1>1 DEF Journaled, TypeOK
  <2>2. CASE pruned' = pruned
    BY <2>1, <2>2
  <2>3. ASSUME NEW h \in Runs, HousekeepingFinish(h) PROVE Marked
    BY <1>1, <2>1, <2>3, FinishKeepsBoundary
  <2>4. ASSUME NEW h \in Runs, HousekeepingBatch(h) PROVE Marked
    <3> SUFFICES ASSUME NEW c \in Consumers, cursors[c].known,
                        cursors[c].event < pruned', c \notin revived[h]
                 PROVE  ToldOfLoss(c)
      OBVIOUS
    <3>1. /\ pruned' = BatchThrough(h) /\ BatchThrough(h) <= run[h].prune
          /\ BatchThrough(h) \in Nat
          /\ cursors'[c] = Expired(h, BatchThrough(h), cursors[c])
      BY <1>1, <2>4, BatchEffect DEF Journaled, TypeOK
    <3>2. cursors[c] \in CursorRec /\ run[h].prune \in Nat
      BY <1>1 DEF Journaled, TypeOK, RunRec
    <3>3. cursors[c].updated < run[h].current - IdleDays
      <4>1. ~(cursors[c].event >= run[h].prune)
        BY <3>1, <3>2 DEF CursorRec
      <4>2. QED
        BY <1>1, <2>4, <4>1 DEF Journaled, PlansSpareTheActive, HousekeepingBatch
    <3>4. cursors'[c] = [cursors[c] EXCEPT !.event = BatchThrough(h),
                                           !.gap = BatchThrough(h) + 1,
                                           !.expired = TRUE]
      BY <3>1, <3>3 DEF Expired
    <3>5. QED
      BY <3>1, <3>2, <3>4 DEF ToldOfLoss, CursorRec
  <2>5. QED
    BY <1>1, <2>2, <2>3, <2>4
       DEF Next, Write, AppendEvent, RecordInbound, QueueOutbound, InsertMessage,
           TransitionOutbound, Consume, GetCursor, AdvanceCursor, Housekeeping,
           HousekeepingBegin, HousekeepingPlan, Tick, Crash, vars
<1>2. QED
  BY <1>1, AlwaysJournaled, PTL DEF Spec, LossIsMarked
=============================================================================
