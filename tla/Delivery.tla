------------------------------ MODULE Delivery ------------------------------
(***************************************************************************)
(* What MeshPincer promises about an outbound message, without HTTP        *)
(* handlers, locks, cooldowns or links: it goes on the air at most once,   *)
(* its state moves along MessageStates, a state that says it was           *)
(* transmitted is never ahead of the air, and one that says it was         *)
(* acknowledged is never ahead of its recipient.                           *)
(***************************************************************************)
EXTENDS Sequences, Functions, MessageStates

CONSTANT Messages

VARIABLES
  state,     \* the durable delivery state, "none" before the message exists
  onAir,     \* messages in the order they were transmitted
  confirmed  \* messages their recipient has acknowledged

vars == <<state, onAir, confirmed>>

Init ==
  /\ state = [m \in Messages |-> "none"]
  /\ onAir = << >>
  /\ confirmed = {}

Enqueue(m) ==
  /\ state[m] = "none"
  /\ state' = [state EXCEPT ![m] = "queued"]
  /\ UNCHANGED <<onAir, confirmed>>

\* One transmission; nothing is promised about how soon, not even that the
\* message has not been given up before.
Transmit(m) ==
  /\ state[m] # "none"
  /\ m \notin Range(onAir)
  /\ onAir' = Append(onAir, m)
  /\ UNCHANGED <<state, confirmed>>

Confirm(m) ==
  /\ m \in Range(onAir)
  /\ confirmed' = confirmed \cup {m}
  /\ UNCHANGED <<state, onAir>>

Report(m, s) ==
  /\ s \in Allowed(state[m])
  /\ s # "failed" => m \in Range(onAir)
  /\ s = "acknowledged" => m \in confirmed
  /\ state' = [state EXCEPT ![m] = s]
  /\ UNCHANGED <<onAir, confirmed>>

Next ==
  \E m \in Messages :
    \/ Enqueue(m) \/ Transmit(m) \/ Confirm(m)
    \/ \E s \in OutboundStates : Report(m, s)

Spec == Init /\ [][Next]_vars
=============================================================================
