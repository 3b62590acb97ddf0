------------------------ MODULE AgentMailbox_proofs ------------------------
(***************************************************************************)
(* Proofs about AgentMailbox, for all sets of tasks, skills, tools and     *)
(* tiers and every value of MaxRetries, MaxSegments and StepBound.         *)
(***************************************************************************)
EXTENDS AgentMailbox, SequenceTheorems, TLAPS

Items == Messages \cup {"task", "ai"}

\* The segment counter, and what a streaming run has seen and counted.
Bookkeeping ==
  /\ run = "streaming" => segment \in 1..MaxSegments /\ seen = Positions /\ counted \in 0..Len(convo)
  /\ run = "new" => segment = 0 /\ convo = <<>>

\* The mail that some run has drained.
Drained == Len(sent) - Len(inbox)

\* The inbox is the end of what was sent, each message of it once.
InboxIsTail ==
  /\ Len(inbox) <= Len(sent) /\ lost <= Drained
  /\ \A i \in 1..Len(inbox) : inbox[i] = sent[Drained + i]
  /\ \A i, j \in 1..Len(sent) : sent[i] = sent[j] => i = j

\* The conversation holds what was drained since the last recovery, in order.
ConvoIsMail ==
  /\ \A i \in (lost + 1)..Drained : \E p \in 1..Len(convo) : convo[p] = sent[i]
  /\ \A p \in 1..Len(convo) : convo[p] \in Messages =>
       \E i \in (lost + 1)..Drained : convo[p] = sent[i]
  /\ \A p, q \in 1..Len(convo) : \A i, j \in 1..Len(sent) :
       p < q /\ sent[i] = convo[p] /\ sent[j] = convo[q] => i < j

\* What is in the inbox or in the conversation was sent, and a skill is sent
\* only with its subscription.
Provenance ==
  /\ Range(inbox) \subseteq Range(sent)
  /\ Range(convo) \cap Messages \subseteq Range(sent)
  /\ Range(sent) \cap Skills \subseteq skills
  /\ \A m \in Messages : owed[m] \subseteq tools

\* An unread directive is the registry's tier, unless recovery raised that.
DirectiveIsTier == ~ raised /\ directive # NoTier => directive = tier

MInv ==
  /\ TypeOK /\ InboxIsTail /\ ConvoIsMail /\ ChargedOnce /\ SkillsAreKnown /\ ToolsAreThere /\ TierFollows
  /\ Bookkeeping /\ Provenance /\ DirectiveIsTier

----------------------------------------------------------------------------
(* Sequences *)

LEMMA SeqRange ==
  ASSUME NEW S, NEW s \in Seq(S)
  PROVE  /\ \A x : x \in Range(s) <=> \E i \in 1..Len(s) : x = s[i]
         /\ \A i \in 1..Len(s) : s[i] \in Range(s)
         /\ Range(s) \subseteq S
  <1>1. DOMAIN s = 1..Len(s) /\ \A i \in 1..Len(s) : s[i] \in S
    BY LenProperties, ElementOfSeq
  <1>2. Range(s) = {s[i] : i \in 1..Len(s)}
    BY <1>1 DEF Range
  <1> QED
    BY <1>1, <1>2

LEMMA RangeOfEmpty == Range(<<>>) = {}
  <1>1. \A q \in Seq({}) : Range(q) = {}
    BY SeqRange
  <1>2. <<>> \in Seq({})
    OBVIOUS
  <1> QED
    BY <1>1, <1>2

LEMMA AppendFacts ==
  ASSUME NEW S, NEW s \in Seq(S), NEW e \in S
  PROVE  /\ Append(s, e) \in Seq(S) /\ Len(Append(s, e)) = Len(s) + 1
         /\ \A i \in 1..Len(s) : Append(s, e)[i] = s[i]
         /\ Append(s, e)[Len(s) + 1] = e
         /\ Range(Append(s, e)) = Range(s) \cup {e}
  <1> DEFINE t == Append(s, e)
  <1>1. /\ t \in Seq(S) /\ Len(t) = Len(s) + 1
        /\ \A i \in 1..Len(s) : t[i] = s[i]
        /\ t[Len(s) + 1] = e
    OBVIOUS
  <1> HIDE DEF t
  <1>2. /\ \A x : x \in Range(t) <=> \E i \in 1..Len(t) : x = t[i]
        /\ \A x : x \in Range(s) <=> \E i \in 1..Len(s) : x = s[i]
    BY <1>1, SeqRange
  <1>3. \A i : i \in 1..Len(t) <=> i \in 1..Len(s) \/ i = Len(s) + 1
    BY <1>1, LenProperties
  <1>4. ASSUME NEW x
        PROVE  x \in Range(t) <=> x \in Range(s) \cup {e}
    BY <1>1, <1>2, <1>3
  <1>5. Range(t) = Range(s) \cup {e}
    BY <1>4
  <1> QED
    BY <1>1, <1>5 DEF t

LEMMA ConcatFacts ==
  ASSUME NEW S, NEW s \in Seq(S), NEW t \in Seq(S)
  PROVE  /\ s \o t \in Seq(S) /\ Len(s \o t) = Len(s) + Len(t)
         /\ \A i \in 1..Len(s) : (s \o t)[i] = s[i]
         /\ \A i \in 1..Len(s \o t) : i \notin 1..Len(s) => (s \o t)[i] \in Range(t)
         /\ Range(s \o t) = Range(s) \cup Range(t)
  <1> DEFINE u == s \o t
  <1>1. /\ u \in Seq(S) /\ Len(u) = Len(s) + Len(t)
        /\ \A i \in 1..(Len(s) + Len(t)) : u[i] = IF i <= Len(s) THEN s[i] ELSE t[i - Len(s)]
    BY ConcatProperties
  <1>2. Len(s) \in Nat /\ Len(t) \in Nat
    BY LenProperties
  <1> HIDE DEF u
  <1>3. /\ \A x : x \in Range(s) <=> \E i \in 1..Len(s) : x = s[i]
        /\ \A x : x \in Range(t) <=> \E i \in 1..Len(t) : x = t[i]
        /\ \A x : x \in Range(u) <=> \E i \in 1..Len(u) : x = u[i]
    BY <1>1, SeqRange
  <1>4. \A i \in 1..Len(s) : i \in 1..Len(u) /\ u[i] = s[i]
    BY <1>1, <1>2
  <1>5. ASSUME NEW i \in 1..Len(u), i \notin 1..Len(s)
        PROVE  u[i] \in Range(t)
    <2>1. i - Len(s) \in 1..Len(t) /\ u[i] = t[i - Len(s)]
      BY <1>1, <1>2, <1>5
    <2> QED
      BY <2>1, <1>3
  <1>6. ASSUME NEW i \in 1..Len(t)
        PROVE  t[i] \in Range(u)
    <2>1. Len(s) + i \in 1..Len(u) /\ ~ (Len(s) + i <= Len(s)) /\ (Len(s) + i) - Len(s) = i
      BY <1>1, <1>2
    <2>2. u[Len(s) + i] = t[i]
      BY <1>1, <2>1
    <2> QED
      BY <2>1, <2>2, <1>3
  <1>7. ASSUME NEW x
        PROVE  x \in Range(u) <=> x \in Range(s) \cup Range(t)
    BY <1>3, <1>4, <1>5, <1>6
  <1>8. Range(u) = Range(s) \cup Range(t)
    BY <1>7
  <1> QED
    BY <1>1, <1>4, <1>5, <1>8 DEF u

----------------------------------------------------------------------------
(* The mail *)

MailInv == InboxIsTail /\ ConvoIsMail

LEMMA MailTypes ==
  ASSUME TypeOK
  PROVE  /\ Len(sent) \in Nat /\ Len(inbox) \in Nat /\ Len(convo) \in Nat /\ lost \in Nat
         /\ \A i \in 1..Len(sent) : sent[i] \in Messages
         /\ \A i \in 1..Len(inbox) : inbox[i] \in Messages
         /\ "ai" \notin Messages /\ "task" \notin Messages
  BY LenProperties, ElementOfSeq, MailboxAssumption DEF TypeOK, Messages

\* A message is put at the end of both.
LEMMA SendKeepsMail ==
  ASSUME TypeOK, MailInv, NEW m \in Messages, m \notin Range(sent), Send(m), convo' = convo
  PROVE  MailInv'
  <1>1. /\ sent \in Seq(Messages) /\ inbox \in Seq(Messages)
        /\ sent' = Append(sent, m) /\ inbox' = Append(inbox, m) /\ lost' = lost
    BY DEF TypeOK, Send
  <1>2. /\ Len(sent') = Len(sent) + 1 /\ Len(inbox') = Len(inbox) + 1
        /\ \A i \in 1..Len(sent) : sent'[i] = sent[i] /\ sent[i] # m
        /\ \A i \in 1..Len(inbox) : inbox'[i] = inbox[i]
        /\ sent'[Len(sent) + 1] = m /\ inbox'[Len(inbox) + 1] = m
    BY <1>1, AppendFacts, SeqRange
  <1>3. Len(sent) \in Nat /\ Len(inbox) \in Nat /\ Len(convo) \in Nat /\ lost \in Nat
    BY MailTypes
  <1>4. Drained' = Drained /\ Drained \in Nat /\ Drained + Len(inbox) = Len(sent)
    BY <1>2, <1>3 DEF Drained, MailInv, InboxIsTail
  <1>5. InboxIsTail'
    <2>1. \A i \in 1..Len(inbox') : inbox'[i] = sent'[Drained' + i]
      <3>1. ASSUME NEW i \in 1..Len(inbox') PROVE inbox'[i] = sent'[Drained + i]
        <4>1. CASE i \in 1..Len(inbox)
          BY <1>2, <1>3, <1>4, <4>1 DEF MailInv, InboxIsTail
        <4>2. CASE i = Len(inbox) + 1
          BY <1>2, <1>3, <1>4, <4>2
        <4> QED
          BY <1>2, <1>3, <3>1, <4>1, <4>2
      <3> QED
        BY <1>4, <3>1
    <2>2. \A i, j \in 1..Len(sent') : sent'[i] = sent'[j] => i = j
      <3>1. \A i \in 1..Len(sent') : i \in 1..Len(sent) \/ i = Len(sent) + 1
        BY <1>2, <1>3
      <3> QED
        BY <1>2, <3>1 DEF MailInv, InboxIsTail
    <2>3. Len(inbox') <= Len(sent') /\ lost' <= Drained'
      BY <1>1, <1>2, <1>3, <1>4 DEF InboxIsTail, MailInv
    <2> QED
      BY <2>1, <2>2, <2>3 DEF InboxIsTail
  <1>6. \A i \in (lost + 1)..Drained : i \in 1..Len(sent) /\ sent'[i] = sent[i]
    BY <1>2, <1>3, <1>4
  <1>7. ASSUME NEW p \in 1..Len(convo), NEW i \in 1..Len(sent'), sent'[i] = convo[p]
        PROVE  i \in 1..Len(sent) /\ sent[i] = convo[p]
    <2>1. CASE i = Len(sent) + 1
      <3>1. convo[p] = m
        BY <1>2, <1>7, <2>1
      <3> QED
        BY <1>2, <1>6, <3>1 DEF MailInv, ConvoIsMail
    <2>2. CASE i \in 1..Len(sent)
      BY <1>2, <1>7, <2>2
    <2> QED
      BY <1>2, <1>3, <1>7, <2>1, <2>2
  <1>8. ConvoIsMail'
    BY <1>1, <1>4, <1>6, <1>7 DEF MailInv, ConvoIsMail
  <1> QED
    BY <1>5, <1>8 DEF MailInv

\* What the model says is no mail.
LEMMA StepKeepsMail ==
  ASSUME TypeOK, MailInv, convo' = Append(convo, "ai"), UNCHANGED mailVars
  PROVE  MailInv'
  <1>1. /\ Len(convo) \in Nat /\ Len(convo') = Len(convo) + 1
        /\ \A p \in 1..Len(convo) : convo'[p] = convo[p]
        /\ convo'[Len(convo) + 1] = "ai"
    BY AppendFacts, LenProperties DEF TypeOK
  <1>2. \A p \in 1..Len(convo') : p \in 1..Len(convo) \/ p = Len(convo) + 1
    BY <1>1
  <1>3. \A p \in 1..Len(convo) : p \in 1..Len(convo')
    BY <1>1
  <1>4. \A i \in 1..Len(sent) : sent[i] # "ai"
    BY MailTypes
  <1>5. Drained' = Drained
    BY DEF Drained, mailVars
  <1>6. InboxIsTail'
    BY <1>5 DEF InboxIsTail, MailInv, mailVars
  <1>7. \A i \in (lost + 1)..Drained : \E p \in 1..Len(convo') : convo'[p] = sent[i]
    BY <1>1, <1>3 DEF MailInv, ConvoIsMail
  <1>8. \A p \in 1..Len(convo') : convo'[p] \in Messages =>
          \E i \in (lost + 1)..Drained : convo'[p] = sent[i]
    BY <1>1, <1>2, MailTypes DEF MailInv, ConvoIsMail
  <1>9. \A p, q \in 1..Len(convo') : \A i, j \in 1..Len(sent) :
          p < q /\ sent[i] = convo'[p] /\ sent[j] = convo'[q] => i < j
    BY <1>1, <1>2, <1>4 DEF MailInv, ConvoIsMail
  <1> QED
    BY <1>5, <1>6, <1>7, <1>8, <1>9 DEF MailInv, ConvoIsMail, mailVars

\* What is drained goes from the beginning of the inbox to the end of the
\* conversation.
LEMMA DrainKeepsMail ==
  ASSUME TypeOK, MailInv, Drain, convo' = convo \o inbox
  PROVE  MailInv'
  <1> DEFINE L == Len(convo)
             M == Len(inbox)
             N == Len(sent)
  <1>1. L \in Nat /\ M \in Nat /\ N \in Nat /\ lost \in Nat
    BY MailTypes
  <1>2. /\ inbox' = <<>> /\ Len(inbox') = 0 /\ sent' = sent /\ lost' = lost
    BY DEF Drain
  <1>3. Drained = N - M /\ Drained \in Nat /\ lost <= Drained /\ Drained' = N
    BY <1>1, <1>2 DEF Drained, MailInv, InboxIsTail
  <1>4. /\ Len(convo') = L + M
        /\ \A p \in 1..(L + M) : convo'[p] = IF p <= L THEN convo[p] ELSE inbox[p - L]
    <2>1. convo \in Seq(Items) /\ inbox \in Seq(Items)
      BY DEF TypeOK, Items
    <2> QED
      BY <2>1, ConcatProperties
  <1>5. \A k \in 1..M : inbox[k] = sent[Drained + k] /\ Drained + k \in (lost + 1)..N
    BY <1>1, <1>3 DEF MailInv, InboxIsTail
  <1>6. \A i, j \in 1..N : sent[i] = sent[j] => i = j
    BY DEF MailInv, InboxIsTail
  <1>7. InboxIsTail'
    BY <1>1, <1>2, <1>3, <1>6 DEF InboxIsTail
  <1>8. \A p \in 1..(L + M) :
          \/ p \in 1..L /\ convo'[p] = convo[p]
          \/ /\ p \notin 1..L /\ p - L \in 1..M
             /\ convo'[p] = sent[Drained + (p - L)] /\ Drained + (p - L) \in (lost + 1)..N
    BY <1>1, <1>4, <1>5
  <1>9. \A i \in (lost + 1)..N : \E p \in 1..Len(convo') : convo'[p] = sent[i]
    <2>1. SUFFICES ASSUME NEW i \in (lost + 1)..N PROVE \E p \in 1..(L + M) : convo'[p] = sent[i]
      BY <1>4
    <2>2. CASE i <= Drained
      <3>1. PICK p \in 1..L : convo[p] = sent[i]
        BY <1>1, <1>3, <2>2 DEF MailInv, ConvoIsMail
      <3> QED
        BY <1>1, <1>4, <3>1
    <2>3. CASE ~ (i <= Drained)
      <3>1. i - Drained \in 1..M /\ Drained + (i - Drained) = i
        BY <1>1, <1>3, <2>3
      <3>2. L + (i - Drained) \in 1..(L + M) /\ ~ (L + (i - Drained) <= L)
            /\ (L + (i - Drained)) - L = i - Drained
        BY <1>1, <1>3, <3>1
      <3>3. convo'[L + (i - Drained)] = inbox[i - Drained]
        BY <1>4, <3>2
      <3> QED
        BY <1>5, <3>1, <3>2, <3>3
    <2> QED
      BY <2>2, <2>3
  <1>10. \A p \in 1..Len(convo') : convo'[p] \in Messages =>
           \E i \in (lost + 1)..N : convo'[p] = sent[i]
    <2>1. SUFFICES ASSUME NEW p \in 1..(L + M), convo'[p] \in Messages
                   PROVE  \E i \in (lost + 1)..N : convo'[p] = sent[i]
      BY <1>4
    <2>2. CASE p \in 1..L /\ convo'[p] = convo[p]
      <3>1. PICK i \in (lost + 1)..Drained : convo[p] = sent[i]
        BY <2>1, <2>2 DEF MailInv, ConvoIsMail
      <3> QED
        BY <1>1, <1>3, <2>2, <3>1
    <2> QED
      BY <1>8, <2>1, <2>2
  <1>11. \A p, q \in 1..Len(convo') : \A i, j \in 1..N :
           p < q /\ sent[i] = convo'[p] /\ sent[j] = convo'[q] => i < j
    <2>1. SUFFICES ASSUME NEW p \in 1..(L + M), NEW q \in 1..(L + M), NEW i \in 1..N, NEW j \in 1..N,
                          p < q, sent[i] = convo'[p], sent[j] = convo'[q]
                   PROVE  i < j
      BY <1>4
    <2>2. CASE q \in 1..L
      <3>1. p \in 1..L /\ convo'[p] = convo[p] /\ convo'[q] = convo[q]
        BY <1>1, <1>8, <2>1, <2>2
      <3> QED
        BY <2>1, <2>2, <3>1 DEF MailInv, ConvoIsMail
    <2>3. CASE q \notin 1..L
      <3>1. j = Drained + (q - L) /\ q - L \in 1..M
        <4>1. /\ q - L \in 1..M /\ convo'[q] = sent[Drained + (q - L)]
              /\ Drained + (q - L) \in (lost + 1)..N
          BY <1>8, <2>3
        <4>2. Drained + (q - L) \in 1..N
          BY <1>1, <4>1
        <4> QED
          BY <1>6, <2>1, <4>1, <4>2
      <3>2. CASE p \in 1..L
        <4>1. convo'[p] = convo[p] /\ sent[i] \in Messages
          BY <1>8, <3>2, MailTypes
        <4>2. PICK n \in (lost + 1)..Drained : convo[p] = sent[n]
          BY <2>1, <3>2, <4>1 DEF MailInv, ConvoIsMail
        <4>3. i = n
          <5>1. n \in 1..N
            BY <1>1, <1>3
          <5> QED
            BY <1>6, <2>1, <4>1, <4>2, <5>1
        <4> QED
          BY <1>1, <1>3, <3>1, <4>2, <4>3
      <3>3. CASE p \notin 1..L
        <4>1. i = Drained + (p - L) /\ p - L \in 1..M
          <5>1. /\ p - L \in 1..M /\ convo'[p] = sent[Drained + (p - L)]
                /\ Drained + (p - L) \in (lost + 1)..N
            BY <1>8, <3>3
          <5>2. Drained + (p - L) \in 1..N
            BY <1>1, <5>1
          <5> QED
            BY <1>6, <2>1, <5>1, <5>2
        <4> QED
          BY <1>1, <1>3, <2>1, <3>1, <4>1
      <3> QED
        BY <3>2, <3>3
    <2> QED
      BY <2>2, <2>3
  <1>12. ConvoIsMail'
    BY <1>2, <1>3, <1>9, <1>10, <1>11 DEF ConvoIsMail
  <1> QED
    BY <1>7, <1>12 DEF MailInv

\* The inductive invariant says it of the conversation and the inbox apart.
LEMMA MailInvIsKept ==
  ASSUME TypeOK, MailInv
  PROVE  MailIsKept
  <1> DEFINE L == Len(convo)
             M == Len(inbox)
             N == Len(sent)
  <1>1. L \in Nat /\ M \in Nat /\ N \in Nat /\ lost \in Nat
    BY MailTypes
  <1>2. Drained = N - M /\ Drained \in Nat /\ lost <= Drained
    BY <1>1 DEF Drained, MailInv, InboxIsTail
  <1>3. /\ Held \in Seq(Items) /\ Len(Held) = L + M /\ DOMAIN Held = 1..(L + M)
        /\ \A p \in 1..(L + M) : Held[p] = IF p <= L THEN convo[p] ELSE inbox[p - L]
    <2>1. convo \in Seq(Items) /\ inbox \in Seq(Items)
      BY DEF TypeOK, Items
    <2>2. Held \in Seq(Items) /\ Len(Held) = L + M
      BY <2>1, ConcatProperties DEF Held
    <2> QED
      BY <2>1, <2>2, ConcatProperties, LenProperties DEF Held
  <1>4. DOMAIN sent = 1..N
    BY LenProperties DEF TypeOK
  <1>5. \A i \in 1..N : Place(sent[i]) = i
    BY <1>4 DEF Place, MailInv, InboxIsTail
  <1>6. \A k \in 1..M : inbox[k] = sent[Drained + k] /\ Drained + k \in (lost + 1)..N
    BY <1>1, <1>2 DEF MailInv, InboxIsTail
  <1>7. \A p \in 1..(L + M) :
          \/ p \in 1..L /\ Held[p] = convo[p]
          \/ /\ p \notin 1..L /\ p - L \in 1..M
             /\ Held[p] = sent[Drained + (p - L)] /\ Drained + (p - L) \in (lost + 1)..N
    BY <1>1, <1>3, <1>6
  <1>8. ASSUME NEW p \in 1..(L + M), Held[p] \in Messages
        PROVE  \E i \in (lost + 1)..N : Held[p] = sent[i]
    <2>1. CASE p \in 1..L /\ Held[p] = convo[p]
      <3>1. PICK i \in (lost + 1)..Drained : convo[p] = sent[i]
        BY <1>8, <2>1 DEF MailInv, ConvoIsMail
      <3> QED
        BY <1>1, <1>2, <2>1, <3>1
    <2> QED
      BY <1>7, <2>1
  <1>9. ASSUME NEW i \in (lost + 1)..N
        PROVE  \E p \in 1..(L + M) : Held[p] = sent[i]
    <2>2. CASE i <= Drained
      <3>1. PICK p \in 1..L : convo[p] = sent[i]
        BY <1>1, <1>2, <2>2 DEF MailInv, ConvoIsMail
      <3> QED
        BY <1>1, <1>3, <3>1
    <2>3. CASE ~ (i <= Drained)
      <3>1. i - Drained \in 1..M /\ Drained + (i - Drained) = i
        BY <1>1, <1>2, <2>3
      <3>2. L + (i - Drained) \in 1..(L + M) /\ ~ (L + (i - Drained) <= L)
            /\ (L + (i - Drained)) - L = i - Drained
        BY <1>1, <1>2, <3>1
      <3>3. Held[L + (i - Drained)] = inbox[i - Drained]
        BY <1>3, <3>2
      <3> QED
        BY <1>6, <3>1, <3>2, <3>3
    <2> QED
      BY <2>2, <2>3
  <1>10. Range(Held) = {Held[p] : p \in 1..(L + M)}
    BY <1>3 DEF Range
  <1>11. (lost + 1)..N \subseteq 1..N
    BY <1>1
  <1>12. {Place(m) : m \in Range(Held) \cap Messages} = (lost + 1)..N
    <2>1. ASSUME NEW m \in Range(Held) \cap Messages PROVE Place(m) \in (lost + 1)..N
      BY <1>5, <1>8, <1>10, <1>11, <2>1
    <2>2. ASSUME NEW i \in (lost + 1)..N
          PROVE  sent[i] \in Range(Held) \cap Messages /\ Place(sent[i]) = i
      BY <1>5, <1>9, <1>10, <1>11, <2>2, MailTypes
    <2> QED
      BY <2>1, <2>2
  <1>13. ASSUME NEW p \in 1..(L + M), NEW q \in 1..(L + M), p < q,
                Held[p] \in Messages, Held[q] \in Messages
         PROVE  Place(Held[p]) < Place(Held[q])
    <2>1. PICK i \in (lost + 1)..N : Held[p] = sent[i]
      BY <1>8, <1>13
    <2>2. PICK j \in (lost + 1)..N : Held[q] = sent[j]
      BY <1>8, <1>13
    <2>3. i \in 1..N /\ j \in 1..N /\ Place(Held[p]) = i /\ Place(Held[q]) = j
      BY <1>5, <1>11, <2>1, <2>2
    <2>4. CASE q \in 1..L
      <3>1. p \in 1..L /\ Held[p] = convo[p] /\ Held[q] = convo[q]
        BY <1>1, <1>7, <1>13, <2>4
      <3>2. i < j
        BY <1>13, <2>1, <2>2, <2>3, <2>4, <3>1 DEF MailInv, ConvoIsMail
      <3> QED
        BY <2>3, <3>2
    <2>5. CASE q \notin 1..L
      <3>1. Held[q] = sent[Drained + (q - L)] /\ Drained + (q - L) \in 1..N /\ q - L \in 1..M
        BY <1>1, <1>7, <1>11, <2>5
      <3>2. Place(Held[q]) = Drained + (q - L)
        BY <1>5, <3>1
      <3>3. CASE p \in 1..L
        <4>1. PICK n \in (lost + 1)..Drained : Held[p] = sent[n]
          BY <1>7, <1>13, <3>3 DEF MailInv, ConvoIsMail
        <4>2. n \in 1..N
          BY <1>1, <1>2
        <4>3. Place(Held[p]) = n
          BY <1>5, <4>1, <4>2
        <4> QED
          BY <1>1, <1>2, <3>1, <3>2, <4>3
      <3>4. CASE p \notin 1..L
        <4>1. Held[p] = sent[Drained + (p - L)] /\ Drained + (p - L) \in 1..N
          BY <1>7, <1>11, <3>4
        <4>2. Place(Held[p]) = Drained + (p - L)
          BY <1>5, <4>1
        <4> QED
          BY <1>1, <1>2, <1>13, <3>2, <4>2
      <3> QED
        BY <3>3, <3>4
    <2> QED
      BY <2>4, <2>5
  <1> QED
    BY <1>3, <1>12, <1>13 DEF MailIsKept

----------------------------------------------------------------------------
(* Initially *)

LEMMA InitMInv == Init => MInv
  <1> SUFFICES ASSUME Init PROVE MInv
    OBVIOUS
  <1> USE DEF Init
  <1>1. TypeOK
    <2>1. charges \in [Positions -> Nat]
      BY DEF Positions
    <2>2. tier \in KnownTiers
      BY MailboxAssumption
    <2>3. /\ retries \in 0..(3 * MaxRetries) /\ segment \in 0..(MaxSegments + 1)
          /\ iteration \in 0..StepBound
      BY MaxRetriesAssumption, MailboxAssumption
    <2>4. inbox \in Seq(Messages) /\ convo \in Seq(Messages \cup {"task", "ai"})
      OBVIOUS
    <2> QED
      BY <2>1, <2>2, <2>3, <2>4 DEF TypeOK
  <1>2. InboxIsTail /\ ConvoIsMail
    BY DEF InboxIsTail, ConvoIsMail, Drained
  <1>3. ChargedOnce
    BY DEF ChargedOnce, Positions
  <1>4. SkillsAreKnown /\ ToolsAreThere /\ TierFollows
    BY DEF SkillsAreKnown, ToolsAreThere, TierFollows
  <1>5. Bookkeeping /\ DirectiveIsTier
    BY DEF Bookkeeping, DirectiveIsTier, NoTier
  <1>6. Provenance
    BY RangeOfEmpty DEF Provenance
  <1> QED
    BY <1>1, <1>2, <1>3, <1>4, <1>5, <1>6 DEF MInv

----------------------------------------------------------------------------
(* The tools of the master agent *)

LEMMA SendKeeps ==
  ASSUME MInv, NEW m \in Messages, m \notin Range(sent), Send(m),
         m \in Skills => skills' = skills \cup {m}, m \in Tasks => skills' = skills,
         UNCHANGED <<life, retries, tier, tools, runVars, directive, iteration, raised>>
  PROVE  MInv'
  <1> USE DEF MInv
  <1>1. TypeOK'
    <2>1. inbox' \in Seq(Messages) /\ sent' \in Seq(Messages)
      BY AppendFacts DEF TypeOK, Send
    <2>2. owed' \in [Messages -> SUBSET Tools] /\ lost' \in Nat
      BY DEF TypeOK, Send
    <2>3. skills' \in SUBSET Skills
      BY DEF TypeOK, Messages
    <2> QED
      BY <2>1, <2>2, <2>3 DEF TypeOK, runVars, Positions
  <1>2. InboxIsTail' /\ ConvoIsMail'
    BY SendKeepsMail DEF MailInv, runVars
  <1>3. /\ Range(sent') = Range(sent) \cup {m}
        /\ Range(inbox') = Range(inbox) \cup {m}
    BY AppendFacts DEF TypeOK, Send
  <1>4. ChargedOnce' /\ TierFollows' /\ Bookkeeping' /\ DirectiveIsTier'
    BY DEF ChargedOnce, TierFollows, Bookkeeping, DirectiveIsTier, Positions, runVars
  <1>5. SkillsAreKnown'
    BY <1>3 DEF SkillsAreKnown, runVars, Messages
  <1>6. ToolsAreThere'
    BY DEF ToolsAreThere, Provenance, Send, TypeOK, runVars
  <1>7. Provenance'
    BY <1>3, MailboxAssumption DEF Provenance, Send, TypeOK, runVars, Messages
  <1> QED
    BY <1>1, <1>2, <1>4, <1>5, <1>6, <1>7

LEMMA AssignTaskKeeps ==
  ASSUME MInv, NEW t \in Tasks, AssignTask(t)
  PROVE  MInv'
  BY SendKeeps, MailboxAssumption DEF AssignTask, Messages, infoVars

LEMMA SubscribeSkillKeeps ==
  ASSUME MInv, NEW s \in Skills, SubscribeSkill(s)
  PROVE  MInv'
  <1>1. s \notin Range(sent)
    BY DEF SubscribeSkill, MInv, Provenance
  <1> QED
    BY <1>1, SendKeeps, MailboxAssumption DEF SubscribeSkill, Messages

LEMMA SubscribeToolKeeps ==
  ASSUME MInv, NEW t \in Tools, SubscribeTool(t)
  PROVE  MInv'
  <1> USE DEF MInv
  <1>1. TypeOK'
    BY DEF SubscribeTool, TypeOK, runVars, mailVars, Positions
  <1> QED
    BY <1>1 DEF SubscribeTool, runVars, mailVars, InboxIsTail, Drained, ConvoIsMail, ChargedOnce, SkillsAreKnown,
                ToolsAreThere, TierFollows, Bookkeeping, Provenance, DirectiveIsTier, Positions

LEMMA UnsubscribeToolKeeps ==
  ASSUME MInv, NEW t \in Tools, UnsubscribeTool(t)
  PROVE  MInv'
  <1> USE DEF MInv
  <1>1. TypeOK'
    BY DEF UnsubscribeTool, TypeOK, runVars, mailVars, Positions
  <1>2. ToolsAreThere' /\ Provenance'
    BY DEF UnsubscribeTool, TypeOK, runVars, mailVars, ToolsAreThere, Provenance
  <1> QED
    BY <1>1, <1>2 DEF UnsubscribeTool, runVars, mailVars, InboxIsTail, Drained, ConvoIsMail, ChargedOnce,
                SkillsAreKnown, TierFollows, Bookkeeping, DirectiveIsTier, Positions

LEMMA SwitchModelKeeps ==
  ASSUME MInv, NEW t \in Tiers, SwitchModel(t)
  PROVE  MInv'
  <1> USE DEF MInv
  <1>1. TypeOK'
    BY MailboxAssumption DEF SwitchModel, TypeOK, runVars, mailVars, Positions
  <1>2. t # NoTier
    BY MailboxAssumption DEF KnownTiers, TierOrder, NoTier
  <1>3. TierFollows' /\ DirectiveIsTier'
    BY <1>2 DEF SwitchModel, TierFollows, DirectiveIsTier
  <1> QED
    BY <1>1, <1>3 DEF SwitchModel, runVars, mailVars, InboxIsTail, Drained, ConvoIsMail, ChargedOnce,
                SkillsAreKnown, ToolsAreThere, Provenance, Bookkeeping, Positions

----------------------------------------------------------------------------
(* The run *)

\* Whatever ends the run without reading the inbox: nothing is promised of an
\* agent that is not at work, but that its mail and its bill are right.
LEMMA EndKeeps ==
  ASSUME MInv, Recall \/ Abort \/ RunFails \/ GoIdle
  PROVE  MInv'
  <1>1. /\ run' = "over" /\ life' \in {"live", "finished", "failed", "gone"}
        /\ UNCHANGED <<retries, tier, tools, skills, convo, segment, stepped, built, active,
                       hinted, seen, counted, charges, mailVars, directive, iteration, owed, raised>>
    BY DEF Recall, Abort, RunFails, GoIdle, Ends
  <1> QED
    BY <1>1 DEF MInv, TypeOK, Positions, mailVars, InboxIsTail, Drained, ConvoIsMail, ChargedOnce, SkillsAreKnown,
                ToolsAreThere, TierFollows, Bookkeeping, Provenance, DirectiveIsTier

LEMMA StartKeeps ==
  ASSUME MInv, Start
  PROVE  MInv'
  <1> USE DEF MInv
  <1> DEFINE first == <<"task">>
  <1>1. /\ first \in Seq({"task"}) /\ first \in Seq(Items) /\ Len(first) = 1 /\ first[1] = "task"
    BY DEF Items
  <1>2. Range(first) \subseteq {"task"}
    BY <1>1, SeqRange
  <1> HIDE DEF first
  <1>3. /\ convo' = first /\ segment' = 1 /\ stepped' = FALSE /\ built' = tools
        /\ seen' = 1..1 /\ counted' = 0 /\ run' = "streaming"
        /\ active' = tier /\ hinted' = skills
        /\ UNCHANGED <<infoVars, mailVars, directive, iteration, owed, raised>>
    BY <1>1 DEF Start, BeginSegment, first
  <1>4. charges' = [i \in 1..1 |-> 0]
    <2>1. charges' = [i \in 1..1 |-> IF i \in DOMAIN charges THEN charges[i] ELSE 0]
      BY <1>1 DEF Start, BeginSegment, first
    <2>2. DOMAIN charges = {}
      <3>1. convo = <<>> /\ charges \in [Positions -> Nat]
        BY DEF Start, Bookkeeping, TypeOK
      <3> QED
        BY <3>1 DEF Positions
    <2> QED
      BY <2>1, <2>2
  <1>5. TypeOK'
    <2>1. charges' \in [Positions' -> Nat]
      BY <1>1, <1>3, <1>4 DEF Positions
    <2>2. convo' \in Seq(Items) /\ seen' \in SUBSET Nat /\ segment' \in 0..(MaxSegments + 1)
      BY <1>1, <1>3, MailboxAssumption
    <2> QED
      BY <1>3, <2>1, <2>2 DEF TypeOK, infoVars, mailVars, Items
  <1>6. ChargedOnce'
    <2>1. Positions' = 1..1
      BY <1>1, <1>3 DEF Positions
    <2>2. \A i \in 1..1 : i = 1
      OBVIOUS
    <2>3. convo'[1] = "task"
      BY <1>1, <1>3
    <2>4. charges'[1] = 0
      BY <1>4
    <2>5. "task" # "ai"
      OBVIOUS
    <2> QED
      BY <2>1, <2>2, <2>3, <2>4, <2>5 DEF ChargedOnce
  <1>7. SkillsAreKnown' /\ TierFollows' /\ DirectiveIsTier'
    BY <1>3 DEF SkillsAreKnown, TierFollows, DirectiveIsTier, infoVars, mailVars
  <1>8. Range(convo') \cap Messages = {}
    BY <1>2, <1>3, MailboxAssumption DEF Messages
  <1>9. ToolsAreThere' /\ Provenance'
    BY <1>3, <1>8 DEF ToolsAreThere, Provenance, infoVars, mailVars
  <1>10. Bookkeeping'
    <2>1. Len(convo') = 1 /\ seen' = Positions'
      BY <1>1, <1>3 DEF Positions
    <2>2. 1 \in 1..MaxSegments /\ 0 \in 0..1
      BY MailboxAssumption
    <2> QED
      BY <1>3, <2>1, <2>2 DEF Bookkeeping
  <1>11. InboxIsTail' /\ ConvoIsMail'
    <2>1. convo = <<>> /\ Len(convo) = 0
      BY DEF Start, Bookkeeping
    <2>2. /\ Drained' = Drained /\ \A i \in (lost + 1)..Drained : FALSE
      BY <1>3, <2>1 DEF ConvoIsMail, Drained, mailVars
    <2>3. \A p \in 1..Len(convo') : convo'[p] = "task" /\ p = 1
      <3>1. Len(convo') = 1 /\ convo'[1] = "task"
        BY <1>1, <1>3
      <3>2. \A p \in 1..1 : p = 1
        OBVIOUS
      <3> QED
        BY <3>1, <3>2
    <2>4. "task" \notin Messages
      BY MailTypes
    <2>5. ConvoIsMail'
      BY <1>3, <2>2, <2>3, <2>4 DEF ConvoIsMail, mailVars
    <2> QED
      BY <1>3, <2>2, <2>5 DEF InboxIsTail, mailVars
  <1> QED
    BY <1>5, <1>6, <1>7, <1>9, <1>10, <1>11

LEMMA StepKeeps ==
  ASSUME MInv, Step
  PROVE  MInv'
  <1> USE DEF MInv
  <1> DEFINE n == Len(convo) + 1
             new == {i \in (counted + 1)..n : i \notin seen /\ Append(convo, "ai")[i] = "ai"}
  <1>1. /\ run = "streaming" /\ iteration < StepBound
        /\ convo' = Append(convo, "ai") /\ stepped' = TRUE
        /\ charges' = [i \in 1..n |-> (IF i < n THEN charges[i] ELSE 0) + (IF i \in new THEN 1 ELSE 0)]
        /\ seen' = seen \cup ((counted + 1)..n) /\ counted' = n /\ iteration' = iteration + 1
        /\ active' = (IF directive # NoTier THEN directive ELSE active) /\ directive' = NoTier
        /\ UNCHANGED <<infoVars, mailVars, run, segment, built, hinted, owed, raised>>
    BY DEF Step
  <1>2. /\ convo \in Seq(Items) /\ "ai" \in Items /\ Len(convo) \in Nat
    BY LenProperties DEF TypeOK, Items
  <1>3. /\ convo' \in Seq(Items) /\ Len(convo') = n
        /\ \A i \in 1..Len(convo) : convo'[i] = convo[i]
        /\ convo'[n] = "ai"
        /\ Range(convo') = Range(convo) \cup {"ai"}
    BY <1>1, <1>2, AppendFacts
  <1>4. seen = 1..Len(convo) /\ counted \in 0..Len(convo)
    BY <1>1 DEF Bookkeeping, Positions
  <1>5. new = {n}
    <2>1. \A i \in (counted + 1)..n : i \notin seen <=> i = n
      BY <1>2, <1>4
    <2>2. n \in (counted + 1)..n
      BY <1>2, <1>4
    <2> QED
      BY <1>1, <1>3, <2>1, <2>2
  <1>6. /\ seen' = 1..n /\ Positions' = 1..n /\ n \in Nat
    BY <1>1, <1>2, <1>3, <1>4 DEF Positions
  <1> HIDE DEF new
  <1>7. charges' = [i \in 1..n |-> IF i < n THEN charges[i] ELSE 1]
    <2>1. ASSUME NEW i \in 1..n, i < n
          PROVE  charges[i] \in Nat /\ i \notin new
      <3>1. i \in Positions
        BY <1>2, <2>1 DEF Positions
      <3>2. charges[i] \in Nat
        BY <3>1 DEF TypeOK
      <3>3. i # n
        BY <1>2, <2>1
      <3> QED
        BY <3>2, <3>3, <1>5
    <2>2. \A i \in 1..n : ~ (i < n) => i = n
      BY <1>6
    <2>3. \A i \in 1..n : (IF i < n THEN charges[i] ELSE 0) + (IF i \in new THEN 1 ELSE 0)
                           = (IF i < n THEN charges[i] ELSE 1)
      BY <2>1, <2>2, <1>5
    <2> QED
      BY <1>1, <2>3
  <1>8. TypeOK'
    <2>1. charges' \in [Positions' -> Nat]
      <3>1. \A i \in 1..n : (IF i < n THEN charges[i] ELSE 1) \in Nat
        BY <1>2 DEF TypeOK, Positions
      <3> QED
        BY <1>6, <1>7, <3>1
    <2>2. seen' \in SUBSET Nat /\ counted' \in Nat /\ iteration' \in 0..StepBound
      BY <1>1, <1>6, MailboxAssumption DEF TypeOK
    <2>3. active' \in KnownTiers /\ directive' \in KnownTiers \cup {NoTier}
      BY <1>1 DEF TypeOK
    <2> QED
      BY <1>1, <1>3, <2>1, <2>2, <2>3 DEF TypeOK, infoVars, mailVars, Items
  <1>9. ChargedOnce'
    <2>1. \A i \in 1..n : i < n => i \in 1..Len(convo)
      BY <1>2
    <2>2. \A i \in 1..n : ~ (i < n) => i = n
      BY <1>6
    <2> QED
      BY <1>3, <1>6, <1>7, <2>1, <2>2 DEF ChargedOnce, Positions
  <1>10. Range(convo') \cap Messages = Range(convo) \cap Messages /\ Range(convo) \subseteq Range(convo')
    BY <1>3, MailboxAssumption DEF Messages
  <1>11. SkillsAreKnown' /\ ToolsAreThere' /\ Provenance'
    BY <1>1, <1>10 DEF SkillsAreKnown, ToolsAreThere, Provenance, infoVars, mailVars
  <1>12. TierFollows' /\ DirectiveIsTier'
    BY <1>1 DEF TierFollows, DirectiveIsTier, infoVars
  <1>13. Bookkeeping'
    BY <1>1, <1>3, <1>6 DEF Bookkeeping
  <1>14. InboxIsTail' /\ ConvoIsMail'
    BY <1>1, StepKeepsMail DEF MailInv
  <1> QED
    BY <1>8, <1>9, <1>11, <1>12, <1>13, <1>14

\* What the next segment starts with, and what the cap throws away, is what
\* was said so far followed by the drained inbox, none of it by the model.
LEMMA DrainedConversation ==
  ASSUME MInv, inbox \in Seq(Messages),
         convo' = convo \o inbox,
         charges' = [i \in 1..Len(convo \o inbox) |-> IF i \in DOMAIN charges THEN charges[i] ELSE 0]
  PROVE  /\ convo' \in Seq(Items) /\ Len(convo') \in Nat
         /\ charges' \in [Positions' -> Nat]
         /\ ChargedOnce'
         /\ Range(convo') = Range(convo) \cup Range(inbox)
  <1> USE DEF MInv
  <1>1. convo \in Seq(Items) /\ inbox \in Seq(Items)
    BY DEF TypeOK, Items
  <1>2. /\ convo' \in Seq(Items)
        /\ \A i \in 1..Len(convo) : convo'[i] = convo[i]
        /\ \A i \in 1..Len(convo') : i \notin 1..Len(convo) => convo'[i] \in Range(inbox)
        /\ Range(convo') = Range(convo) \cup Range(inbox)
    BY <1>1, ConcatFacts
  <1>3. /\ Len(convo') \in Nat
        /\ charges' = [i \in 1..Len(convo') |-> IF i \in 1..Len(convo) THEN charges[i] ELSE 0]
    BY <1>2, LenProperties DEF TypeOK, Positions
  <1>4. \A i \in 1..Len(convo) : charges[i] \in Nat /\ charges[i] = IF convo[i] = "ai" THEN 1 ELSE 0
    BY DEF TypeOK, Positions, ChargedOnce
  <1>5. charges' \in [Positions' -> Nat]
    BY <1>3, <1>4 DEF Positions
  <1>6. \A m \in Range(inbox) : m # "ai"
    BY SeqRange, MailboxAssumption DEF Messages
  <1>7. ChargedOnce'
    BY <1>2, <1>3, <1>4, <1>6 DEF ChargedOnce, Positions
  <1> QED
    BY <1>2, <1>3, <1>5, <1>7

LEMMA NextSegmentKeeps ==
  ASSUME MInv, NextSegment
  PROVE  MInv'
  <1> USE DEF MInv
  <1>1. /\ run = "streaming" /\ segment < MaxSegments /\ segment \in 1..MaxSegments
        /\ convo' = convo \o inbox /\ segment' = segment + 1 /\ stepped' = FALSE
        /\ built' = tools /\ seen' = 1..Len(convo') /\ counted' = 0
        /\ UNCHANGED <<infoVars, run, active, hinted, directive, iteration, owed, raised>>
    BY DEF NextSegment, SegmentOver, BeginSegment, Bookkeeping
  <1>2. charges' = [i \in 1..Len(convo \o inbox) |-> IF i \in DOMAIN charges THEN charges[i] ELSE 0]
    BY DEF NextSegment, BeginSegment
  <1>3. /\ convo' \in Seq(Items) /\ Len(convo') \in Nat
        /\ charges' \in [Positions' -> Nat] /\ ChargedOnce'
        /\ Range(convo') = Range(convo) \cup Range(inbox)
    BY <1>1, <1>2, DrainedConversation DEF TypeOK
  <1>4. /\ InboxIsTail' /\ ConvoIsMail' /\ inbox' \in Seq(Messages) /\ lost' = lost
        /\ sent' = sent /\ Range(inbox') = {}
    BY <1>1, DrainKeepsMail, RangeOfEmpty DEF NextSegment, Drain, MailInv
  <1>5. TypeOK'
    <2>1. segment' \in 0..(MaxSegments + 1) /\ seen' \in SUBSET Nat /\ counted' \in Nat
      BY <1>1, <1>3, MailboxAssumption
    <2> QED
      BY <1>1, <1>3, <1>4, <2>1 DEF TypeOK, infoVars, Items
  <1>6. SkillsAreKnown'
    BY <1>1, <1>3, <1>4 DEF SkillsAreKnown, infoVars
  <1>7. ToolsAreThere'
    BY <1>1 DEF ToolsAreThere, Provenance, infoVars
  <1>8. TierFollows' /\ DirectiveIsTier'
    BY <1>1 DEF TierFollows, DirectiveIsTier, infoVars
  <1>9. Provenance'
    BY <1>1, <1>3, <1>4 DEF Provenance, infoVars
  <1>10. Bookkeeping'
    <2>1. segment' \in 1..MaxSegments /\ 0 \in 0..Len(convo')
      BY <1>1, <1>3, MailboxAssumption
    <2> QED
      BY <1>1, <2>1 DEF Bookkeeping, Positions
  <1> QED
    BY <1>3, <1>4, <1>5, <1>6, <1>7, <1>8, <1>9, <1>10

LEMMA CapSegmentsKeeps ==
  ASSUME MInv, CapSegments
  PROVE  MInv'
  <1> USE DEF MInv
  <1>1. /\ segment = MaxSegments /\ segment' = segment + 1
        /\ convo' = convo \o inbox /\ run' = "over" /\ life' = "finished"
        /\ UNCHANGED <<retries, tier, tools, skills, stepped, built, active, hinted, directive,
                       iteration, owed, raised, seen, counted>>
    BY DEF CapSegments, Ends
  <1>2. charges' = [i \in 1..Len(convo \o inbox) |-> IF i \in DOMAIN charges THEN charges[i] ELSE 0]
    BY DEF CapSegments
  <1>3. /\ convo' \in Seq(Items) /\ charges' \in [Positions' -> Nat] /\ ChargedOnce'
        /\ Range(convo') = Range(convo) \cup Range(inbox)
    BY <1>1, <1>2, DrainedConversation DEF TypeOK
  <1>4. /\ InboxIsTail' /\ ConvoIsMail' /\ inbox' \in Seq(Messages) /\ lost' = lost
        /\ sent' = sent /\ Range(inbox') = {}
    BY <1>1, DrainKeepsMail, RangeOfEmpty DEF CapSegments, Drain, MailInv
  <1>5. TypeOK'
    <2>1. segment' \in 0..(MaxSegments + 1)
      BY <1>1, MailboxAssumption
    <2> QED
      BY <1>1, <1>3, <1>4, <2>1 DEF TypeOK, Items
  <1>6. SkillsAreKnown' /\ ToolsAreThere' /\ TierFollows' /\ Bookkeeping'
    BY <1>1 DEF SkillsAreKnown, ToolsAreThere, TierFollows, Bookkeeping
  <1>7. Provenance' /\ DirectiveIsTier'
    BY <1>1, <1>3, <1>4 DEF Provenance, DirectiveIsTier
  <1> QED
    BY <1>3, <1>4, <1>5, <1>6, <1>7

----------------------------------------------------------------------------
(* Recovery *)

\* The chain keeps the retry count within its bound and the tier in the order.
LEMMA RecoveryStays ==
  ASSUME TypeOK, DecideAction(retries, tier) # "abort"
  PROVE  retries + 1 \in 0..(3 * MaxRetries) /\ TierAfter(retries, tier) \in KnownTiers
  <1>1. retries \in 0..(3 * MaxRetries) /\ tier \in KnownTiers
    BY DEF TypeOK
  <1>2. retries + 1 \in 0..(3 * MaxRetries)
    BY <1>1, MaxRetriesAssumption DEF DecideAction
  <1>3. CASE DecideAction(retries, tier) # "escalate"
    BY <1>1, <1>2, <1>3 DEF TierAfter
  <1>4. CASE DecideAction(retries, tier) = "escalate"
    <2>1. NextTier(tier) # NoTier
      BY <1>4 DEF DecideAction
    <2>2. PICK i \in 1..3 : TierOrder[i] = tier
      BY <2>1 DEF NextTier
    <2>3. (CHOOSE j \in 1..3 : TierOrder[j] = tier) \in 1..3
      BY <2>2
    <2>4. NextTier(tier) \in KnownTiers
      BY <2>2, <2>3 DEF NextTier, KnownTiers, TierOrder
    <2> QED
      BY <1>2, <1>4, <2>4 DEF TierAfter
  <1> QED
    BY <1>3, <1>4

LEMMA RecoverKeeps ==
  ASSUME MInv, Recover
  PROVE  MInv'
  <1> USE DEF MInv
  <1>1. /\ DecideAction(retries, tier) # "abort" /\ life' = "live"
        /\ retries' = retries + 1 /\ tier' = TierAfter(retries, tier)
        /\ raised' = (raised \/ (tier' # tier /\ directive # NoTier))
        /\ run' = "new" /\ convo' = <<>> /\ charges' = <<>> /\ segment' = 0 /\ stepped' = FALSE
        /\ seen' = {} /\ counted' = 0
        /\ lost' = Drained
        /\ UNCHANGED <<built, active, hinted, tools, skills, inbox, sent, directive, iteration, owed>>
    BY DEF Recover, NewRun, Drained
  <1>2. Positions' = {} /\ Range(convo') = {}
    <2>1. Len(convo') = 0
      BY <1>1
    <2>2. Positions' = {}
      BY <2>1 DEF Positions
    <2> QED
      BY <1>1, <2>2, RangeOfEmpty
  <1>3. TypeOK'
    <2>1. retries' \in 0..(3 * MaxRetries)
      BY <1>1, RecoveryStays
    <2>2. tier' \in KnownTiers
      BY <1>1, RecoveryStays
    <2>3. raised' \in BOOLEAN
      BY <1>1 DEF TypeOK
    <2>4. /\ convo' \in Seq(Messages \cup {"task", "ai"}) /\ charges' \in [Positions' -> Nat]
          /\ segment' \in 0..(MaxSegments + 1)
      BY <1>1, <1>2, MailboxAssumption
    <2>5. Drained \in Nat
      BY MailTypes DEF InboxIsTail, Drained
    <2> QED
      BY <1>1, <2>1, <2>2, <2>3, <2>4, <2>5 DEF TypeOK
  <1>4. ChargedOnce' /\ SkillsAreKnown' /\ ToolsAreThere' /\ TierFollows'
    BY <1>1, <1>2 DEF ChargedOnce, SkillsAreKnown, ToolsAreThere, TierFollows
  <1>5. Bookkeeping' /\ Provenance'
    BY <1>1, <1>2 DEF Bookkeeping, Provenance
  <1>7. InboxIsTail' /\ ConvoIsMail'
    <2>1. Drained' = Drained /\ Drained \in Nat /\ Len(convo') = 0
      BY <1>1, MailTypes DEF Drained, InboxIsTail
    <2> QED
      BY <1>1, <2>1 DEF InboxIsTail, ConvoIsMail
  <1>6. DirectiveIsTier'
    BY <1>1 DEF DirectiveIsTier, TypeOK
  <1> QED
    BY <1>3, <1>4, <1>5, <1>6, <1>7

----------------------------------------------------------------------------
(* The invariant *)

LEMMA NextMInv == MInv /\ [Next]_vars => MInv'
  <1> SUFFICES ASSUME MInv, [Next]_vars
               PROVE  MInv'
    OBVIOUS
  <1>1. CASE Next
    <2>1. CASE \E t \in Tasks : AssignTask(t)
      BY <2>1, AssignTaskKeeps
    <2>2. CASE \E s \in Skills : SubscribeSkill(s)
      BY <2>2, SubscribeSkillKeeps
    <2>3. CASE \E t \in Tools : SubscribeTool(t) \/ UnsubscribeTool(t)
      BY <2>3, SubscribeToolKeeps, UnsubscribeToolKeeps
    <2>4. CASE \E t \in Tiers : SwitchModel(t)
      BY <2>4, SwitchModelKeeps
    <2>5. CASE Start
      BY <2>5, StartKeeps
    <2>6. CASE Step
      BY <2>6, StepKeeps
    <2>7. CASE Recall \/ Abort \/ RunFails \/ GoIdle
      BY <2>7, EndKeeps
    <2>8. CASE NextSegment
      BY <2>8, NextSegmentKeeps
    <2>9. CASE CapSegments
      BY <2>9, CapSegmentsKeeps
    <2>10. CASE Recover
      BY <2>10, RecoverKeeps
    <2> QED
      BY <1>1, <2>1, <2>2, <2>3, <2>4, <2>5, <2>6, <2>7, <2>8, <2>9, <2>10 DEF Next
  <1>2. CASE UNCHANGED vars
    BY <1>2 DEF vars, infoVars, runVars, mailVars, MInv, TypeOK, Positions, InboxIsTail, Drained,
                ConvoIsMail, ChargedOnce, SkillsAreKnown, ToolsAreThere, TierFollows, Bookkeeping, Provenance,
                DirectiveIsTier
  <1> QED
    BY <1>1, <1>2

\* All of it holds of the agent, whoever spawns, steers and recovers it.
THEOREM MailboxInvariant == Spec => []MInv
  BY InitMInv, NextMInv, PTL DEF Spec

\* The types, with the bounds of the retry counter and the segment counter.
THEOREM MailboxTypeCorrect == Spec => []TypeOK
  <1>1. MInv => TypeOK
    BY DEF MInv
  <1> QED
    BY <1>1, MailboxInvariant, PTL

\* Whatever is sent, drained and recovered in between, the conversation and the
\* inbox together hold the mail since the last recovery and what was unread at
\* it, each message once and in the order of sending.
THEOREM NoMailLost == Spec => []MailIsKept
  <1>1. MInv => MailIsKept
    BY MailInvIsKept DEF MInv, MailInv
  <1> QED
    BY <1>1, MailboxInvariant, PTL

\* spawner.py, _stream_run: costed_ids and counted charge each message of the
\* model exactly once, over any number of segments and chunks.
THEOREM MessagesChargedOnce == Spec => []ChargedOnce
  <1>1. MInv => ChargedOnce
    BY DEF MInv
  <1> QED
    BY <1>1, MailboxInvariant, PTL

\* No run, first or respawned, is without a skill that was subscribed.
THEOREM SkillsStayKnown == Spec => []SkillsAreKnown
  <1>1. MInv => SkillsAreKnown
    BY DEF MInv
  <1> QED
    BY <1>1, MailboxInvariant, PTL

\* A task finds the tools that were granted before it was assigned.
THEOREM ToolsInTime == Spec => []ToolsAreThere
  <1>1. MInv => ToolsAreThere
    BY DEF MInv
  <1> QED
    BY <1>1, MailboxInvariant, PTL

\* The tier of the run is the registry's, once the directive is obeyed, but for
\* an escalation over an unread directive.
THEOREM TierIsFollowed == Spec => []TierFollows
  <1>1. MInv => TierFollows
    BY DEF MInv
  <1> QED
    BY <1>1, MailboxInvariant, PTL
=============================================================================
