----------------------------- MODULE ReplyPolicy -----------------------------
(***************************************************************************)
(* What channel.ts puts on the air for a draft of the agent.  A text is    *)
(* its length in UTF-8 bytes after normalisation; 0 is an empty text.      *)
(* The compression pass is external: repaired is the length of what it     *)
(* returned, 0 if there was none, it failed or it returned nothing.        *)
(* Recovery notices of the gateway, which are never sent, are left out.    *)
(* All of it is decided by lengths, so it is proved and not model-checked. *)
(***************************************************************************)
EXTENDS Integers

meshCoreHardTextBytes    == 160
meshCoreAgentTargetBytes == 75

\* Lengths of the two fixed notices.
OverlongBytes == 37
EmptyBytes    == 31

Reply(what, labelled, bytes) == [what |-> what, labelled |-> labelled, bytes |-> bytes]

OverlongNotice == Reply("overlong", FALSE, OverlongBytes)

\* singleRadioReply, the last check before every POST
Single(reply) == IF reply.bytes <= meshCoreHardTextBytes THEN reply ELSE OverlongNotice

\* A compressed draft is taken if it meets the budget, or at least the ceiling
\* where the draft itself does not.
Compresses(draft, repaired, budget, ceiling) ==
  /\ repaired > 0
  /\ repaired <= budget \/ (draft > ceiling /\ repaired <= ceiling)

constrainedRadioReply(draft, repaired, budget, ceiling) ==
  IF draft = 0 THEN Reply("empty", FALSE, EmptyBytes)
  ELSE IF draft <= budget THEN Reply("draft", FALSE, draft)
  ELSE IF Compresses(draft, repaired, budget, ceiling) THEN Reply("repaired", FALSE, repaired)
  ELSE IF draft <= ceiling THEN Reply("draft", FALSE, draft)
  ELSE OverlongNotice

DirectReply(draft, repaired) ==
  constrainedRadioReply(draft, repaired, meshCoreAgentTargetBytes, meshCoreHardTextBytes)

\* "label: "
Prefix(label) == label + 2

BodyBudget(label) ==
  IF Prefix(label) <= meshCoreAgentTargetBytes
    THEN meshCoreAgentTargetBytes - Prefix(label) ELSE 0

BodyHardLimit(label) == meshCoreHardTextBytes - Prefix(label)

\* The body with its label, or the fallbacks: the notice with the label, or alone.
Combined(label, body) ==
  IF Prefix(label) + body.bytes <= meshCoreHardTextBytes
    THEN Reply(body.what, TRUE, Prefix(label) + body.bytes)
  ELSE IF Prefix(label) + OverlongBytes <= meshCoreHardTextBytes
    THEN Reply("overlong", TRUE, Prefix(label) + OverlongBytes)
  ELSE OverlongNotice

privateChannelRadioReply(label, draft, repaired) ==
  IF BodyHardLimit(label) <= 0
    THEN OverlongNotice
    ELSE Combined(label,
           constrainedRadioReply(draft, repaired, BodyBudget(label), BodyHardLimit(label)))

-----------------------------------------------------------------------------
(* Theorems *)

\* r is a draft or a compressed draft within the ceiling, or a notice where
\* there is neither.
Justified(r, draft, repaired, ceiling) ==
  \/ r = Reply("empty", FALSE, EmptyBytes) /\ draft = 0
  \/ r = Reply("draft", FALSE, draft) /\ draft \in 1 .. ceiling
  \/ r = Reply("repaired", FALSE, repaired) /\ repaired \in 1 .. ceiling
  \/ r = OverlongNotice /\ draft > ceiling /\ repaired \notin 1 .. ceiling

\* What constrainedRadioReply returns, for any budget within the ceiling.
LEMMA WhatIsReturned ==
  ASSUME NEW draft \in Nat, NEW repaired \in Nat, NEW budget \in Nat, NEW ceiling \in Nat,
         budget <= ceiling
  PROVE  Justified(constrainedRadioReply(draft, repaired, budget, ceiling), draft, repaired, ceiling)
<1> DEFINE chosen == constrainedRadioReply(draft, repaired, budget, ceiling)
<1>1. CASE draft = 0
  <2>1. chosen = Reply("empty", FALSE, EmptyBytes)
    BY <1>1 DEF constrainedRadioReply
  <2>2. QED
    BY <1>1, <2>1 DEF Justified
<1>2. CASE draft # 0 /\ draft <= budget
  <2>1. chosen = Reply("draft", FALSE, draft)
    BY <1>2 DEF constrainedRadioReply
  <2>2. draft \in 1 .. ceiling
    BY <1>2
  <2>3. QED
    BY <2>1, <2>2 DEF Justified
<1>3. CASE draft # 0 /\ ~(draft <= budget) /\ Compresses(draft, repaired, budget, ceiling)
  <2>1. chosen = Reply("repaired", FALSE, repaired)
    BY <1>3 DEF constrainedRadioReply
  <2>2. repaired \in 1 .. ceiling
    BY <1>3 DEF Compresses
  <2>3. QED
    BY <2>1, <2>2 DEF Justified
<1>4. CASE draft # 0 /\ ~(draft <= budget) /\ ~Compresses(draft, repaired, budget, ceiling)
  <2>1. chosen = IF draft <= ceiling THEN Reply("draft", FALSE, draft) ELSE OverlongNotice
    BY <1>4 DEF constrainedRadioReply
  <2>2. draft > ceiling => repaired \notin 1 .. ceiling
    BY <1>4 DEF Compresses
  <2>3. CASE draft <= ceiling
    <3>1. chosen = Reply("draft", FALSE, draft) /\ draft \in 1 .. ceiling
      BY <1>4, <2>1, <2>3
    <3>2. QED
      BY <3>1 DEF Justified
  <2>4. CASE ~(draft <= ceiling)
    <3>1. chosen = OverlongNotice /\ draft > ceiling
      BY <2>1, <2>4
    <3>2. QED
      BY <2>2, <3>1 DEF Justified
  <2>5. QED
    BY <2>3, <2>4
<1>5. QED
  BY <1>1, <1>2, <1>3, <1>4

LEMMA SizeOfJustified ==
  ASSUME NEW r, NEW draft \in Nat, NEW repaired \in Nat, NEW ceiling \in Nat,
         Justified(r, draft, repaired, ceiling)
  PROVE  r.bytes \in 1 .. ceiling \/ r.bytes \in {EmptyBytes, OverlongBytes}
<1>1. CASE r = Reply("empty", FALSE, EmptyBytes) \/ r = OverlongNotice
  BY <1>1 DEF Reply, OverlongNotice
<1>2. CASE r = Reply("draft", FALSE, draft) /\ draft \in 1 .. ceiling
  BY <1>2 DEF Reply
<1>3. CASE r = Reply("repaired", FALSE, repaired) /\ repaired \in 1 .. ceiling
  BY <1>3 DEF Reply
<1>4. QED
  BY <1>1, <1>2, <1>3 DEF Justified

LEMMA WithinCeiling ==
  ASSUME NEW label \in Nat, ~(BodyHardLimit(label) <= 0)
  PROVE  /\ BodyBudget(label) \in Nat
         /\ BodyHardLimit(label) \in Nat
         /\ BodyBudget(label) <= BodyHardLimit(label)
BY DEF BodyBudget, BodyHardLimit, Prefix, meshCoreAgentTargetBytes, meshCoreHardTextBytes

\* "The firmware's 160-byte text maximum is enforced as a hard encoded-byte
\* limit": whatever the agent and the compression pass return, however long the
\* label is, and before the last check of sendDirect and sendChannel, a reply
\* fits the radio and is not empty.
THEOREM RepliesFit ==
  ASSUME NEW label \in Nat, NEW draft \in Nat, NEW repaired \in Nat
  PROVE  /\ DirectReply(draft, repaired).bytes \in 1 .. meshCoreHardTextBytes
         /\ privateChannelRadioReply(label, draft, repaired).bytes \in 1 .. meshCoreHardTextBytes
<1>1. DirectReply(draft, repaired).bytes \in 1 .. meshCoreHardTextBytes
  <2>1. meshCoreAgentTargetBytes \in Nat /\ meshCoreHardTextBytes \in Nat
        /\ meshCoreAgentTargetBytes <= meshCoreHardTextBytes
    BY DEF meshCoreAgentTargetBytes, meshCoreHardTextBytes
  <2>2. Justified(DirectReply(draft, repaired), draft, repaired, meshCoreHardTextBytes)
    BY <2>1, WhatIsReturned DEF DirectReply
  <2>3. \/ DirectReply(draft, repaired).bytes \in 1 .. meshCoreHardTextBytes
        \/ DirectReply(draft, repaired).bytes \in {EmptyBytes, OverlongBytes}
    BY <2>1, <2>2, SizeOfJustified
  <2>4. QED
    BY <2>3 DEF meshCoreHardTextBytes, EmptyBytes, OverlongBytes
<1>2. privateChannelRadioReply(label, draft, repaired).bytes \in 1 .. meshCoreHardTextBytes
  <2>1. CASE BodyHardLimit(label) <= 0
    BY <2>1 DEF privateChannelRadioReply, OverlongNotice, Reply, OverlongBytes, meshCoreHardTextBytes
  <2>2. CASE ~(BodyHardLimit(label) <= 0)
    <3> DEFINE body == constrainedRadioReply(draft, repaired, BodyBudget(label), BodyHardLimit(label))
    <3>1. Justified(body, draft, repaired, BodyHardLimit(label)) /\ BodyHardLimit(label) \in Nat
      BY <2>2, WithinCeiling, WhatIsReturned
    <3>2. body.bytes \in Nat \ {0}
      BY <3>1, SizeOfJustified DEF EmptyBytes, OverlongBytes
    <3>3. privateChannelRadioReply(label, draft, repaired) = Combined(label, body)
      BY <2>2 DEF privateChannelRadioReply
    <3> HIDE DEF body
    <3>4. QED
      BY <3>2, <3>3 DEF Combined, Prefix, Reply, OverlongNotice, OverlongBytes, meshCoreHardTextBytes
  <2>3. QED
    BY <2>1, <2>2
<1>3. QED
  BY <1>1, <1>2

\* singleRadioReply, through which sendDirect and sendChannel pass every text,
\* leaves the replies of the policy as they are, labels included.
THEOREM LastCheckKeepsReplies ==
  ASSUME NEW label \in Nat, NEW draft \in Nat, NEW repaired \in Nat
  PROVE  /\ Single(DirectReply(draft, repaired)) = DirectReply(draft, repaired)
         /\ Single(privateChannelRadioReply(label, draft, repaired))
              = privateChannelRadioReply(label, draft, repaired)
<1>1. ASSUME NEW r, r.bytes \in 1 .. meshCoreHardTextBytes PROVE Single(r) = r
  <2>1. r.bytes <= meshCoreHardTextBytes
    BY <1>1 DEF meshCoreHardTextBytes
  <2>2. QED
    BY <2>1 DEF Single
<1>2. QED
  BY <1>1, RepliesFit

\* "A legal draft ... is sent intact": the notice that an answer is too long stands
\* only for an answer that did not fit beside its label, and whose compression
\* did not fit either.  Where nothing fits beside the label, or the draft was
\* empty, there was no answer to lose.
THEOREM NoticeIsLastResort ==
  ASSUME NEW label \in Nat, NEW draft \in Nat, NEW repaired \in Nat, draft > 0,
         privateChannelRadioReply(label, draft, repaired).what = "overlong"
  PROVE  draft > BodyHardLimit(label) /\ repaired \notin 1 .. BodyHardLimit(label)
<1>1. BodyHardLimit(label) \in Int
  BY DEF BodyHardLimit, Prefix, meshCoreHardTextBytes
<1>2. CASE BodyHardLimit(label) <= 0
  BY <1>1, <1>2
<1>3. CASE ~(BodyHardLimit(label) <= 0)
  <2> DEFINE body == constrainedRadioReply(draft, repaired, BodyBudget(label), BodyHardLimit(label))
  <2>1. Justified(body, draft, repaired, BodyHardLimit(label)) /\ BodyHardLimit(label) \in Nat
    BY <1>1, <1>3, WithinCeiling, WhatIsReturned
  <2>2. privateChannelRadioReply(label, draft, repaired) = Combined(label, body)
    BY <1>3 DEF privateChannelRadioReply
  <2> HIDE DEF body
  <2>3. CASE body = OverlongNotice /\ draft > BodyHardLimit(label)
               /\ repaired \notin 1 .. BodyHardLimit(label)
    BY <2>3
  <2>4. CASE \/ body = Reply("draft", FALSE, draft) /\ draft \in 1 .. BodyHardLimit(label)
             \/ body = Reply("repaired", FALSE, repaired) /\ repaired \in 1 .. BodyHardLimit(label)
    <3>1. body.what \in {"draft", "repaired"} /\ body.bytes \in 1 .. BodyHardLimit(label)
      BY <2>4 DEF Reply
    <3>2. Combined(label, body).what = body.what
      BY <3>1 DEF Combined, BodyHardLimit, Prefix, Reply, meshCoreHardTextBytes
    <3>3. QED
      BY <2>2, <3>1, <3>2
  <2>5. draft # 0
    OBVIOUS
  <2>6. QED
    BY <2>1, <2>3, <2>4, <2>5 DEF Justified
<1>4. QED
  BY <1>2, <1>3

\* "Private-channel replies count their sender label inside the 75-byte budget":
\* if the draft or its compression meets the budget, the labelled reply does.
THEOREM TargetIncludesLabel ==
  ASSUME NEW label \in Nat, NEW draft \in Nat, NEW repaired \in Nat, draft > 0,
         draft <= BodyBudget(label) \/ repaired \in 1 .. BodyBudget(label)
  PROVE  LET r == privateChannelRadioReply(label, draft, repaired)
         IN  r.labelled /\ r.bytes <= meshCoreAgentTargetBytes
<1> DEFINE body == constrainedRadioReply(draft, repaired, BodyBudget(label), BodyHardLimit(label))
<1>1. BodyBudget(label) \in Nat /\ BodyHardLimit(label) \in Int /\ BodyBudget(label) > 0 /\ draft # 0
  BY DEF BodyBudget, BodyHardLimit, Prefix, meshCoreHardTextBytes, meshCoreAgentTargetBytes
<1>2. BodyHardLimit(label) > 0
  BY <1>1 DEF BodyBudget, BodyHardLimit, Prefix, meshCoreHardTextBytes, meshCoreAgentTargetBytes
<1>3. body.bytes \in 1 .. BodyBudget(label)
  <2>1. CASE draft <= BodyBudget(label)
    <3>1. body = Reply("draft", FALSE, draft)
      BY <1>1, <2>1 DEF constrainedRadioReply
    <3>2. QED
      BY <1>1, <2>1, <3>1 DEF Reply
  <2>2. CASE ~(draft <= BodyBudget(label))
    <3>1. repaired > 0 /\ repaired <= BodyBudget(label)
      BY <1>1, <2>2
    <3>2. body = Reply("repaired", FALSE, repaired)
      BY <1>1, <2>2, <3>1 DEF constrainedRadioReply, Compresses
    <3>3. QED
      BY <1>1, <3>1, <3>2 DEF Reply
  <2>3. QED
    BY <2>1, <2>2
<1>4. privateChannelRadioReply(label, draft, repaired) = Combined(label, body)
  BY <1>1, <1>2 DEF privateChannelRadioReply
<1> HIDE DEF body
<1>5. Prefix(label) \in Nat /\ Prefix(label) + body.bytes <= meshCoreAgentTargetBytes
  BY <1>1, <1>3 DEF BodyBudget, Prefix, meshCoreAgentTargetBytes
<1>6. Combined(label, body) = Reply(body.what, TRUE, Prefix(label) + body.bytes)
  <2>1. Prefix(label) + body.bytes <= meshCoreHardTextBytes
    BY <1>1, <1>3, <1>5 DEF meshCoreAgentTargetBytes, meshCoreHardTextBytes
  <2>2. QED
    BY <2>1 DEF Combined
<1>7. QED
  BY <1>4, <1>5, <1>6 DEF Reply
=============================================================================
