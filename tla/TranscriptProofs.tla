-------------------------- MODULE TranscriptProofs --------------------------
(***************************************************************************)
(* A question that waits for an answer has one place in the transcript,    *)
(* and the folds do not lose it; what is computed from the compacted       *)
(* events is what the stream says; for every set of sub-agents, questions  *)
(* and tool calls and every bound.                                         *)
(*                                                                         *)
(* The events: EventViewInv says which turn each event belongs to and that *)
(* the compacted list keeps what is no text, so that a question lies       *)
(* between the start of its root turn and the next one.  KeptIsCompacted   *)
(* says where each kept event is in the stream.  The folds:                *)
(* DisclosureInv says that what is on screen fits the message, and which   *)
(* questions the user folded away.                                         *)
(***************************************************************************)
EXTENDS Transcript, FiniteSetTheorems, SequenceTheorems, NaturalsInduction, TLAPS

-----------------------------------------------------------------------------
(* EventView: where the questions of a session are shown.                  *)

\* Where a turn starts, and where a question is asked.
Started(events, p) == p \in 1..Len(events) /\ events[p].type = "turn.started"
AskedAt(events, i) == i \in 1..Len(events) /\ events[i].type = "input.requested"
Requested(events, t) == \E i \in 1..Len(events) : events[i].type = "actions.requested" /\ events[i].turn = t

\* A turn starts once, in order, and before its other events; what carries no turn is
\* a question of a sub-agent or of the session; the turn in progress is the last.
EventsAreOfTurns(events, root) ==
  /\ \A p : Started(events, p) => events[p].turn \in 1..root.turn
  /\ \A p, q : Started(events, p) /\ Started(events, q) /\ events[p].turn = events[q].turn => p = q
  /\ \A i \in 1..Len(events) :
       IF events[i].turn = 0 THEN events[i].type \in SessionEnds \cup {"input.requested", "session.waiting"}
       ELSE \E p : Started(events, p) /\ events[p].turn = events[i].turn
  /\ root.at = "open" =>
       \E p : Started(events, p) /\ events[p].turn = root.turn /\ \A q : Started(events, q) => q <= p

\* The turn that starts at p is in progress at i.
InProgress(events, p, i) ==
  Started(events, p) /\ p < i /\ \A q : Started(events, q) /\ q < i => q <= p

\* A question is asked once, in the turn in progress, by its root or by a sub-agent that
\* it had called.
QuestionsAreOfTurns(events) ==
  /\ \A i \in 1..Len(events) : events[i].type = "actions.requested" => events[i].id \in Agents
  /\ \A i : AskedAt(events, i) => events[i].id \in Questions
  /\ \A i, j : AskedAt(events, i) /\ AskedAt(events, j) /\ events[i].id = events[j].id => i = j
  /\ \A i : AskedAt(events, i) => \E p :
       /\ InProgress(events, p, i)
       /\ \/ events[i].turn = events[p].turn
          \/ events[i].turn = 0 /\ Requested(events, events[p].turn)

\* A set of numbers that is not empty has a least one.
LEMMA LeastOfNumbers ==
  ASSUME NEW T \in SUBSET Nat, T # {}
  PROVE  \E n \in T : \A m \in T : n <= m
<1> DEFINE R == {ss \in Nat \X Nat : ss[1] < ss[2]}
<1>1. IsWellFoundedOn(R, Nat)
  BY NatLessThanWellFounded DEF OpToRel
<1>2. \A x, y \in Nat : x < y => <<x, y>> \in R
  OBVIOUS
<1> HIDE DEF R
<1>3. PICK n \in T : \A m \in T : ~ (<<m, n>> \in R)
  BY <1>1, WFMin
<1>4. \A m \in T : ~ (m < n)
  BY <1>2, <1>3
<1> QED BY <1>4

\* Latest and Earliest are the last and the first of a set of positions.
LEMMA LatestIsLast ==
  ASSUME NEW l \in Nat, NEW S \in SUBSET (1..l)
  PROVE  /\ S = {} => Latest(S) = 0
         /\ S # {} => Latest(S) \in S /\ \A j \in S : j <= Latest(S)
<1> SUFFICES ASSUME S # {} PROVE Latest(S) \in S /\ \A j \in S : j <= Latest(S)
  BY DEF Latest
<1> DEFINE T == {k \in Nat : \E i \in S : k = l - i}
<1>1. T \in SUBSET Nat /\ T # {}
  <2>1. \A i \in S : l - i \in Nat
    OBVIOUS
  <2> QED BY <2>1
<1>2. PICK k \in T : \A m \in T : k <= m
  <2> HIDE DEF T
  <2> QED BY <1>1, LeastOfNumbers
<1>3. PICK i \in S : k = l - i
  BY <1>2
<1>4. \A j \in S : i >= j
  <2> SUFFICES ASSUME NEW j \in S PROVE i >= j
    OBVIOUS
  <2>1. l - j \in T
    OBVIOUS
  <2> HIDE DEF T
  <2>2. l - i <= l - j
    BY <1>2, <1>3, <2>1
  <2> QED BY <2>2
<1>5. Max(S) \in S /\ \A j \in S : Max(S) >= j
  BY <1>4 DEF Max
<1> QED BY <1>5 DEF Latest

\* The first of a set of positions, likewise.
LEMMA EarliestIsFirst ==
  ASSUME NEW l \in Nat, NEW S \in SUBSET (1..l)
  PROVE  /\ S = {} => Earliest(S) = 0
         /\ S # {} => Earliest(S) \in S /\ \A j \in S : Earliest(S) <= j
<1> SUFFICES ASSUME S # {} PROVE Earliest(S) \in S /\ \A j \in S : Earliest(S) <= j
  BY DEF Earliest
<1>1. S \in SUBSET Nat
  OBVIOUS
<1>2. \E n \in S : \A m \in S : n <= m
  BY <1>1, LeastOfNumbers
<1>3. Min(S) \in S /\ \A j \in S : Min(S) <= j
  BY <1>2 DEF Min
<1> QED BY <1>3 DEF Earliest

\* The events of a turn that started: what follows its start, until the next one starts.
LEMMA EventsOfTurn ==
  ASSUME NEW events \in Seq(SessionEvent), NEW root, EventsAreOfTurns(events, root),
         NEW p, Started(events, p)
  PROVE  \E e \in Nat :
           /\ EventsForRootTurn(events, events[p].turn) = SubSeq(events, p, e)
           /\ p <= e /\ e <= Len(events)
           /\ \A q : Started(events, q) /\ p < q => e < q
           /\ e = Len(events) \/ Started(events, e + 1)
<1> DEFINE l == Len(events)
           t == events[p].turn
           starts == Indexes(events, {"turn.started"})
           next == {i \in starts : i > p}
<1>1. l \in Nat /\ DOMAIN events = 1..l
  OBVIOUS
<1>2. starts \in SUBSET (1..l) /\ \A q : q \in starts <=> Started(events, q)
  BY <1>1 DEF Indexes, Started
<1>3. {i \in starts : events[i].turn = t} = {p}
  BY <1>2 DEF EventsAreOfTurns
<1>4. Earliest({i \in starts : events[i].turn = t}) = p
  <2>1. {p} \in SUBSET (1..l)
    BY <1>2
  <2> QED BY <1>1, <1>3, <2>1, EarliestIsFirst
<1>5. p \in 1..l /\ p # 0
  BY <1>2
<1>6. EventsForRootTurn(events, t) =
        SubSeq(events, p, IF Earliest(next) = 0 THEN l ELSE Earliest(next) - 1)
  BY <1>4, <1>5 DEF EventsForRootTurn
<1>7. next \in SUBSET (1..l) /\ \A q : q \in next <=> Started(events, q) /\ p < q
  <2>1. \A q \in starts : q \in 1..l
    BY <1>2
  <2> HIDE DEF starts, l
  <2> QED BY <1>1, <1>2, <1>5, <2>1
<1> HIDE DEF next, starts, l, t
<1>8. CASE next = {}
  <2>1. Earliest(next) = 0
    BY <1>1, <1>7, <1>8, EarliestIsFirst
  <2>2. \A q : ~(Started(events, q) /\ p < q)
    BY <1>7, <1>8
  <2>3. EventsForRootTurn(events, t) = SubSeq(events, p, l)
    BY <1>6, <2>1
  <2>4. l \in Nat /\ p <= l /\ l <= l
    BY <1>1, <1>5
  <2> QED BY <2>2, <2>3, <2>4 DEF l, t
<1>9. CASE next # {}
  <2> DEFINE f == Earliest(next)
  <2>1. f \in next /\ \A j \in next : f <= j
    BY <1>1, <1>7, <1>9, EarliestIsFirst
  <2> HIDE DEF f
  <2>8. f \in 1..l
    BY <1>7, <2>1
  <2>2. f # 0 /\ f \in 1..l /\ p < f
    BY <1>1, <1>7, <2>1, <2>8
  <2>3. \A q : Started(events, q) /\ p < q => f <= q /\ q \in 1..l
    <3> SUFFICES ASSUME NEW q, Started(events, q), p < q PROVE f <= q /\ q \in 1..l
      OBVIOUS
    <3>1. q \in next
      BY <1>7
    <3> QED BY <1>7, <2>1, <3>1
  <2>4. EventsForRootTurn(events, t) = SubSeq(events, p, f - 1)
    BY <1>6, <2>2 DEF f
  <2>5. Started(events, f)
    BY <1>7, <2>1
  <2>6. f - 1 \in Nat /\ p <= f - 1 /\ f - 1 <= l /\ (f - 1) + 1 = f
    BY <1>1, <1>5, <2>2
  <2>7. \A q : Started(events, q) /\ p < q => f - 1 < q
    BY <1>1, <2>2, <2>3
  <2> QED BY <2>4, <2>5, <2>6, <2>7 DEF l, t
<1> QED BY <1>8, <1>9

\* The questions that wait for an answer were asked since the latest turn started.
LEMMA UnresolvedIsRecent ==
  ASSUME NEW events \in Seq(SessionEvent), NEW r \in Unresolved(events)
  PROVE  \E i : AskedAt(events, i) /\ events[i].id = r /\ \A q : Started(events, q) => q < i
<1> DEFINE l == Len(events)
           ends == Indexes(events, SessionEnds \cup {"turn.started"})
           cleared == Latest(ends)
<1>1. l \in Nat /\ DOMAIN events = 1..l
  OBVIOUS
<1>2. ends \in SUBSET (1..l) /\ \A q : Started(events, q) => q \in ends
  BY <1>1 DEF Indexes, Started
<1>3. \A q : Started(events, q) => q \in Nat /\ q <= cleared /\ cleared \in Nat
  <2> SUFFICES ASSUME NEW q, Started(events, q) PROVE q \in Nat /\ q <= cleared /\ cleared \in Nat
    OBVIOUS
  <2>1. q \in ends
    BY <1>2
  <2> HIDE DEF l, ends
  <2>2. Latest(ends) \in ends /\ \A j \in ends : j <= Latest(ends)
    BY <1>1, <1>2, <2>1, LatestIsLast
  <2>3. ends \subseteq 1..l /\ 1..l \subseteq Nat
    BY <1>1, <1>2
  <2>4. q \in Nat /\ Latest(ends) \in Nat /\ q <= Latest(ends)
    BY <2>1, <2>2, <2>3
  <2> QED BY <2>4
<1>4. PICK i \in {j \in Indexes(events, {"input.requested"}) : j > cleared} : r = events[i].id
  BY DEF Unresolved
<1>5. AskedAt(events, i) /\ i \in Nat
  BY <1>1, <1>4 DEF Indexes, AskedAt
<1>6. i > cleared
  BY <1>4
<1> HIDE DEF cleared
<1>7. \A q : Started(events, q) => q < i
  BY <1>3, <1>5, <1>6
<1> QED BY <1>4, <1>5, <1>7

\* What is asked in the events of a turn.
LEMMA AskedInTurn ==
  ASSUME NEW events \in Seq(SessionEvent), NEW p \in 1..Len(events), NEW e \in Nat,
         p <= e, e <= Len(events), NEW r
  PROVE  r \in AskedIn(SubSeq(events, p, e)) <=>
           \E i \in p..e : events[i].type = "input.requested" /\ events[i].id = r
<1> DEFINE own == SubSeq(events, p, e)
<1>1. /\ Len(own) = (e - p) + 1 /\ DOMAIN own = 1..((e - p) + 1)
      /\ \A k \in 1..((e - p) + 1) : own[k] = events[p + k - 1]
  BY SubSeqProperties
<1> HIDE DEF own
<1>2. r \in AskedIn(own) <=> \E k \in 1..((e - p) + 1) : own[k].type = "input.requested" /\ own[k].id = r
  BY <1>1 DEF AskedIn, Indexes
<1>3. ASSUME NEW k \in 1..((e - p) + 1) PROVE p + k - 1 \in p..e
  OBVIOUS
<1>4. ASSUME NEW i \in p..e PROVE (i - p) + 1 \in 1..((e - p) + 1) /\ own[(i - p) + 1] = events[i]
  <2>1. (i - p) + 1 \in 1..((e - p) + 1) /\ p + ((i - p) + 1) - 1 = i
    OBVIOUS
  <2> QED BY <1>1, <2>1
<1> QED BY <1>1, <1>2, <1>3, <1>4 DEF own

\* A message that is no orphan belongs to a turn that started.
LEMMA ShownHasStarted ==
  ASSUME NEW events \in Seq(SessionEvent), NEW root, EventsAreOfTurns(events, root),
         QuestionsAreOfTurns(events),
         NEW t \in AssistantMessages(events), ~IsProxiedInputOnly(events, t)
  PROVE  \E p : Started(events, p) /\ events[p].turn = t
<1>1. Len(events) \in Nat /\ DOMAIN events = 1..Len(events)
  OBVIOUS
<1>2. PICK i \in 1..Len(events) : /\ events[i].turn = t
                                  /\ events[i].type \in TextTypes \cup {"actions.requested", "input.requested"}
  BY <1>1 DEF AssistantMessages, ToSet
<1>3. CASE t # 0
  BY <1>2, <1>3 DEF EventsAreOfTurns
<1>4. CASE t = 0
  <2>1. \A j \in 1..Len(events) : events[j].turn = t =>
          events[j].type \in {"session.completed", "session.failed", "input.requested", "session.waiting"}
    BY <1>4 DEF EventsAreOfTurns, SessionEnds
  <2>2. events[i].type = "input.requested"
    BY <1>2, <2>1 DEF TextTypes, TextKinds, Appended, Finished
  <2>3. events[i].id \in Questions /\ events[i].id \in ToolParts(events, t)
    BY <1>1, <1>2, <2>2 DEF QuestionsAreOfTurns, AskedAt, ToolParts, ToSet
  <2>4. ApprovalParts(events, t) # {}
    BY <2>3 DEF ApprovalParts
  <2>5. TextSteps(events, t) = {}
    BY <1>1, <2>1 DEF TextSteps, ToSet, Appended, Finished
  <2>6. ToolParts(events, t) \subseteq Questions
    <3> SUFFICES ASSUME NEW j \in 1..Len(events), events[j].turn = t,
                        events[j].type \in {"actions.requested", "input.requested"}
                 PROVE  events[j].id \in Questions
      BY <1>1 DEF ToolParts, ToSet
    <3>1. events[j].type = "input.requested"
      BY <2>1
    <3> QED BY <3>1 DEF QuestionsAreOfTurns, AskedAt
  <2>7. ~ \E e \in ToSet(events) : e.type = "turn.started" /\ e.turn = t
    BY <1>1, <2>1 DEF ToSet
  <2>8. ToolParts(events, t) \subseteq ApprovalParts(events, t)
    BY <2>6 DEF ApprovalParts
  <2> QED BY <2>4, <2>5, <2>7, <2>8 DEF IsProxiedInputOnly
<1> QED BY <1>3, <1>4

\* Every unresolved question has one place in the transcript.
LEMMA UnresolvedIsShownOnce ==
  ASSUME NEW events \in Seq(SessionEvent), NEW root, EventsAreOfTurns(events, root),
         QuestionsAreOfTurns(events), NEW r \in Unresolved(events)
  PROVE  Cardinality(AnswerableAt(events, r)) = 1
<1>1. Len(events) \in Nat /\ DOMAIN events = 1..Len(events)
  OBVIOUS
<1>2. PICK i : AskedAt(events, i) /\ events[i].id = r /\ \A q : Started(events, q) => q < i
  BY UnresolvedIsRecent
<1>3. i \in 1..Len(events) /\ r \in Questions /\ r \notin Agents
  BY <1>2, EventViewAssumption DEF QuestionsAreOfTurns, AskedAt
<1>4. PICK p : /\ InProgress(events, p, i)
               /\ \/ events[i].turn = events[p].turn
                  \/ events[i].turn = 0 /\ Requested(events, events[p].turn)
  BY <1>2 DEF QuestionsAreOfTurns
<1> DEFINE c == events[p].turn
           shown == {t \in AssistantMessages(events) : ~IsProxiedInputOnly(events, t)}
<1>5. p \in 1..Len(events) /\ Started(events, p) /\ p < i /\ \A q : Started(events, q) => q <= p
  BY <1>2, <1>4 DEF InProgress, Started
<1>6. c # 0
  <2>1. events[p].turn = 0 => events[p].type \in {"session.completed", "session.failed", "input.requested", "session.waiting"}
    BY <1>5 DEF EventsAreOfTurns, SessionEnds
  <2> QED BY <1>5, <2>1 DEF Started
<1>7. c \in shown
  <2>1. ~IsProxiedInputOnly(events, c)
    <3>1. \E e \in ToSet(events) : e.type = "turn.started" /\ e.turn = c
      BY <1>1, <1>5 DEF ToSet, Started
    <3> QED BY <3>1 DEF IsProxiedInputOnly
  <2>2. c \in AssistantMessages(events)
    BY <1>1, <1>2, <1>4 DEF AssistantMessages, ToSet, AskedAt, Requested
  <2> QED BY <2>1, <2>2
<1>8. \A t : r \in ApprovalParts(events, t) <=> events[i].turn = t
  <2> SUFFICES ASSUME NEW t PROVE r \in ToolParts(events, t) <=> events[i].turn = t
    BY <1>3 DEF ApprovalParts
  <2>1. events[i].turn = t => r \in ToolParts(events, t)
    BY <1>1, <1>2 DEF ToolParts, ToSet, AskedAt
  <2>2. ASSUME r \in ToolParts(events, t) PROVE events[i].turn = t
    <3>1. PICK j \in 1..Len(events) : /\ events[j].turn = t /\ events[j].id = r
                                      /\ events[j].type \in {"actions.requested", "input.requested"}
      BY <1>1, <2>2 DEF ToolParts, ToSet
    <3>2. events[j].type = "input.requested"
      BY <1>3, <3>1 DEF QuestionsAreOfTurns
    <3>3. j = i
      BY <1>2, <3>1, <3>2 DEF QuestionsAreOfTurns, AskedAt
    <3> QED BY <3>1, <3>3
  <2> QED BY <2>1, <2>2
<1>9. \A t \in shown : r \in PendingRequests(events, t) <=> t = c
  <2> SUFFICES ASSUME NEW t \in shown PROVE r \in AskedIn(EventsForRootTurn(events, t)) <=> t = c
    BY DEF PendingRequests
  <2>1. PICK q : Started(events, q) /\ events[q].turn = t
    BY ShownHasStarted
  <2>2. PICK e \in Nat :
           /\ EventsForRootTurn(events, t) = SubSeq(events, q, e)
           /\ q <= e /\ e <= Len(events)
           /\ \A f : Started(events, f) /\ q < f => e < f
           /\ e = Len(events) \/ Started(events, e + 1)
    BY <2>1, EventsOfTurn
  <2>3. q \in 1..Len(events)
    BY <2>1 DEF Started
  <2>4. r \in AskedIn(SubSeq(events, q, e)) <=>
           \E k \in q..e : events[k].type = "input.requested" /\ events[k].id = r
    BY <2>2, <2>3, AskedInTurn
  <2>5. \A k \in q..e : events[k].type = "input.requested" /\ events[k].id = r => k = i
    <3>1. \A k \in q..e : k \in 1..Len(events)
      <4>1. e \in Nat /\ q \in Nat /\ 1 <= q /\ e <= Len(events) /\ Len(events) \in Nat
        <5>1. e <= Len(events)
          BY <2>2
        <5> QED BY <1>1, <2>3, <5>1
      <4> QED BY <4>1
    <3> QED BY <1>2, <3>1 DEF QuestionsAreOfTurns, AskedAt
  <2>6. r \in AskedIn(EventsForRootTurn(events, t)) <=> i \in q..e
    BY <1>2, <2>2, <2>4, <2>5 DEF AskedAt
  <2>7. CASE t = c
    <3>1. q = p
      BY <1>5, <2>1, <2>7 DEF EventsAreOfTurns
    <3>2. e = Len(events)
      <4>1. ASSUME Started(events, e + 1) PROVE FALSE
        BY <1>5, <2>2, <2>3, <3>1, <4>1
      <4> QED BY <2>2, <4>1
    <3>3. i \in q..e
      BY <1>1, <1>3, <1>5, <2>2, <2>3, <3>1, <3>2
    <3> QED BY <2>6, <2>7, <3>3
  <2>8. CASE t # c
    <3>1. q # p /\ q <= p
      BY <1>5, <2>1, <2>8
    <3>2. e < p
      BY <1>5, <2>2, <2>3, <3>1
    <3>3. i \notin q..e
      <4>1. i \in Nat /\ p \in Nat /\ q \in Nat /\ e \in Nat
        BY <1>1, <1>3, <1>5, <2>3
      <4>2. e < i
        BY <1>5, <3>2, <4>1
      <4> QED BY <4>1, <4>2
    <3> QED BY <2>6, <2>8, <3>3
  <2> QED BY <2>7, <2>8
<1>10. \A t \in shown : r \in PresentAgentTurn(events, t).proxied <=> t = c /\ events[i].turn # t
  <2> SUFFICES ASSUME NEW t \in shown
               PROVE  r \in PresentAgentTurn(events, t).proxied <=> t = c /\ events[i].turn # t
    OBVIOUS
  <2>1. r \in PendingRequests(events, t) => HasTools(events, t)
    BY DEF HasTools
  <2>2. PresentAgentTurn(events, t).proxied = IF HasTools(events, t) THEN ProxiedInput(events, t) ELSE {}
    BY DEF PresentAgentTurn
  <2>3. r \in ProxiedInput(events, t) <=> r \in PendingRequests(events, t) /\ events[i].turn # t
    BY <1>8 DEF ProxiedInput
  <2> QED BY <1>9, <2>1, <2>2, <2>3
<1>11. AnswerableAt(events, r) =
         {<<t, "own">> : t \in {u \in shown : r \in ApprovalParts(events, u)}}
         \cup {<<t, "proxied">> : t \in {u \in shown : r \in PresentAgentTurn(events, u).proxied}}
  BY DEF AnswerableAt
<1> HIDE DEF shown, c
<1>12. CASE events[i].turn = c
  <2>1. {u \in shown : r \in ApprovalParts(events, u)} = {c}
    BY <1>7, <1>8, <1>12
  <2>2. {u \in shown : r \in PresentAgentTurn(events, u).proxied} = {}
    BY <1>10, <1>12
  <2>3. AnswerableAt(events, r) = {<<c, "own">>}
    BY <1>11, <2>1, <2>2
  <2> QED BY <2>3, FS_Singleton
<1>13. CASE events[i].turn # c
  <2>1. events[i].turn = 0
    BY <1>4, <1>13 DEF c
  <2>2. {u \in shown : r \in ApprovalParts(events, u)} = {}
    <3>1. \A u \in shown : u # 0
      <4> SUFFICES ASSUME NEW u \in shown PROVE u # 0
        OBVIOUS
      <4>1. PICK q : Started(events, q) /\ events[q].turn = u
        BY ShownHasStarted DEF shown
      <4>2. events[q].turn = 0 => events[q].type \in {"session.completed", "session.failed", "input.requested", "session.waiting"}
        BY <4>1 DEF EventsAreOfTurns, SessionEnds, Started
      <4> QED BY <4>1, <4>2 DEF Started
    <3> QED BY <1>8, <2>1, <3>1
  <2>3. {u \in shown : r \in PresentAgentTurn(events, u).proxied} = {c}
    BY <1>7, <1>10, <1>13
  <2>4. AnswerableAt(events, r) = {<<c, "proxied">>}
    BY <1>11, <2>2, <2>3
  <2> QED BY <2>4, FS_Singleton
<1> QED BY <1>12, <1>13

\* No event of a compact list could have been absorbed by the next.
IsCompact(events) ==
  \A i \in 1..Len(events) : i < Len(events) => ~Absorbs(events[i], events[i + 1])

\* Only texts absorb, and are absorbed, in their turn.
LEMMA AbsorbedIsText ==
  ASSUME NEW a, NEW e, Absorbs(a, e)
  PROVE  /\ a.turn = e.turn /\ a.step = e.step
         /\ a.type \in TextTypes /\ e.type \in TextTypes
BY DEF Absorbs, TextTypes

\* What the browser does with an event: it is the last of the list, in a new place or in
\* that of the text it absorbs.
LEMMA EventIsLast ==
  ASSUME NEW events \in Seq(SessionEvent), NEW e \in SessionEvent
  PROVE  \E l \in 1..(Len(events) + 1) :
           /\ AppendThreadEvent(events, e) \in Seq(SessionEvent)
           /\ Len(AppendThreadEvent(events, e)) = l
           /\ AppendThreadEvent(events, e)[l] = e
           /\ \A i \in 1..Len(events) : i < l => AppendThreadEvent(events, e)[i] = events[i]
           /\ IF l = Len(events) THEN events # <<>> /\ Absorbs(events[l], e)
              ELSE l = Len(events) + 1 /\ (events # <<>> => ~Absorbs(events[Len(events)], e))
<1>1. Len(events) \in Nat
  OBVIOUS
<1>2. CASE events # <<>> /\ Absorbs(Last(events), e)
  <2>1. AppendThreadEvent(events, e) = [events EXCEPT ![Len(events)] = e]
    BY <1>2 DEF AppendThreadEvent
  <2>2. Len(events) \in 1..(Len(events) + 1) /\ Len(events) \in 1..Len(events) /\ Absorbs(events[Len(events)], e)
    BY <1>1, <1>2, EmptySeq DEF Last
  <2>3. /\ [events EXCEPT ![Len(events)] = e] \in Seq(SessionEvent)
        /\ Len([events EXCEPT ![Len(events)] = e]) = Len(events)
    BY <2>2, ExceptSeq
  <2>4. /\ [events EXCEPT ![Len(events)] = e][Len(events)] = e
        /\ \A i \in 1..Len(events) : i < Len(events) => [events EXCEPT ![Len(events)] = e][i] = events[i]
    BY <1>1, <2>2
  <2> QED BY <1>2, <2>1, <2>2, <2>3, <2>4
<1>3. CASE ~(events # <<>> /\ Absorbs(Last(events), e))
  <2>1. AppendThreadEvent(events, e) = Append(events, e)
    BY <1>3 DEF AppendThreadEvent
  <2>2. /\ Append(events, e) \in Seq(SessionEvent) /\ Len(Append(events, e)) = Len(events) + 1
        /\ Append(events, e)[Len(events) + 1] = e
        /\ \A i \in 1..Len(events) : Append(events, e)[i] = events[i]
    BY AppendProperties
  <2>3. Len(events) + 1 \in 1..(Len(events) + 1) /\ Len(events) + 1 # Len(events)
    BY <1>1
  <2>4. events # <<>> => ~Absorbs(events[Len(events)], e)
    BY <1>3 DEF Last
  <2> QED BY <2>1, <2>2, <2>3, <2>4
<1> QED BY <1>2, <1>3

\* The places of the events that are no texts: the old ones, and that of a new one.
LEMMA PlacesAreKept ==
  ASSUME NEW events \in Seq(SessionEvent), NEW e \in SessionEvent
  PROVE  \E l \in 1..(Len(events) + 1) :
           /\ Len(AppendThreadEvent(events, e)) = l /\ AppendThreadEvent(events, e)[l] = e
           /\ \A i \in 1..Len(events) : i < l => AppendThreadEvent(events, e)[i] = events[i]
           /\ \A i \in 1..Len(events) : events[i].type \notin TextTypes => i < l
<1>1. PICK l \in 1..(Len(events) + 1) :
           /\ AppendThreadEvent(events, e) \in Seq(SessionEvent)
           /\ Len(AppendThreadEvent(events, e)) = l
           /\ AppendThreadEvent(events, e)[l] = e
           /\ \A i \in 1..Len(events) : i < l => AppendThreadEvent(events, e)[i] = events[i]
           /\ IF l = Len(events) THEN events # <<>> /\ Absorbs(events[l], e)
              ELSE l = Len(events) + 1 /\ (events # <<>> => ~Absorbs(events[Len(events)], e))
  BY EventIsLast
<1>2. ASSUME NEW i \in 1..Len(events), events[i].type \notin TextTypes PROVE i < l
  <2>1. CASE l = Len(events)
    <3>1. i # l
      BY <1>1, <1>2, <2>1, AbsorbedIsText
    <3> QED BY <2>1, <3>1
  <2>2. CASE l = Len(events) + 1
    BY <2>2
  <2> QED BY <1>1, <2>1, <2>2
<1> QED BY <1>1, <1>2

\* Compaction leaves a list compact.
LEMMA StaysCompact ==
  ASSUME NEW events \in Seq(SessionEvent), NEW e \in SessionEvent, IsCompact(events)
  PROVE  IsCompact(AppendThreadEvent(events, e))
<1> DEFINE new == AppendThreadEvent(events, e)
<1>1. PICK l \in 1..(Len(events) + 1) :
           /\ new \in Seq(SessionEvent)
           /\ Len(new) = l
           /\ new[l] = e
           /\ \A i \in 1..Len(events) : i < l => new[i] = events[i]
           /\ IF l = Len(events) THEN events # <<>> /\ Absorbs(events[l], e)
              ELSE l = Len(events) + 1 /\ (events # <<>> => ~Absorbs(events[Len(events)], e))
  BY EventIsLast
<1> HIDE DEF new
<1> SUFFICES ASSUME NEW i \in 1..l, i < l PROVE ~Absorbs(new[i], new[i + 1])
  BY <1>1 DEF IsCompact, new
<1>2. Len(events) \in Nat /\ l \in Nat /\ i \in 1..Len(events) /\ new[i] = events[i]
  BY <1>1
<1>3. CASE i + 1 < l
  <2>1. i + 1 \in 1..Len(events) /\ i < Len(events)
    BY <1>1, <1>2, <1>3
  <2>2. new[i + 1] = events[i + 1]
    BY <1>1, <1>3, <2>1
  <2> QED BY <1>2, <2>1, <2>2 DEF IsCompact
<1>4. CASE i + 1 = l
  <2>1. new[i + 1] = e
    BY <1>1, <1>4
  <2>2. CASE l = Len(events)
    <3>1. Absorbs(events[i + 1], e) /\ ~Absorbs(events[i], events[i + 1])
      BY <1>1, <1>2, <1>4, <2>2 DEF IsCompact
    <3>2. Absorbs(events[i], e) => Absorbs(events[i], events[i + 1])
      BY <3>1 DEF Absorbs, TextKinds, Appended, Finished
    <3> QED BY <1>2, <2>1, <3>1, <3>2
  <2>3. CASE l # Len(events)
    <3>1. i = Len(events) /\ events # <<>> /\ ~Absorbs(events[i], e)
      BY <1>1, <1>2, <1>4, <2>3
    <3> QED BY <1>2, <2>1, <3>1
  <2> QED BY <2>2, <2>3
<1> QED BY <1>2, <1>3, <1>4

\* What a compact list begins with is extended by its next event.
LEMMA PrefixGrows ==
  ASSUME NEW events \in Seq(SessionEvent), IsCompact(events), NEW i \in 1..Len(events)
  PROVE  AppendThreadEvent(SubSeq(events, 1, i - 1), events[i]) = SubSeq(events, 1, i)
<1> DEFINE before == SubSeq(events, 1, i - 1)
           upto == SubSeq(events, 1, i)
<1>1. Len(events) \in Nat /\ i \in Nat /\ events[i] \in SessionEvent
  OBVIOUS
<1>2. /\ before \in Seq(SessionEvent) /\ Len(before) = i - 1
      /\ \A k \in 1..(i - 1) : before[k] = events[k]
  <2>1. i - 1 \in 0..Len(events) /\ 1 \in 1..(Len(events) + 1) /\ 1 <= (i - 1) + 1
    BY <1>1
  <2> QED BY <1>1, <2>1, SubSeqProperties
<1>3. /\ upto \in Seq(SessionEvent) /\ Len(upto) = i
      /\ \A k \in 1..i : upto[k] = events[k]
  BY <1>1, SubSeqProperties
<1> HIDE DEF before, upto
<1>4. before # <<>> => ~Absorbs(Last(before), events[i])
  <2> SUFFICES ASSUME before # <<>> PROVE ~Absorbs(Last(before), events[i])
    OBVIOUS
  <2>1. i - 1 \in 1..Len(events) /\ i - 1 < Len(events) /\ (i - 1) + 1 = i /\ i - 1 \in 1..(i - 1)
    BY <1>1, <1>2, EmptySeq
  <2>2. Last(before) = events[i - 1]
    BY <1>2, <2>1 DEF Last
  <2>3. ~Absorbs(events[i - 1], events[(i - 1) + 1])
    BY <2>1 DEF IsCompact
  <2> QED BY <2>1, <2>2, <2>3
<1>5. AppendThreadEvent(before, events[i]) = Append(before, events[i])
  BY <1>4 DEF AppendThreadEvent
<1>6. /\ Append(before, events[i]) \in Seq(SessionEvent)
      /\ Len(Append(before, events[i])) = (i - 1) + 1
      /\ Append(before, events[i])[(i - 1) + 1] = events[i]
      /\ \A k \in 1..(i - 1) : Append(before, events[i])[k] = before[k]
  BY <1>1, <1>2, AppendProperties
<1>7. Len(Append(before, events[i])) = Len(upto)
  BY <1>1, <1>3, <1>6
<1>8. \A k \in 1..i : Append(before, events[i])[k] = upto[k]
  <2> SUFFICES ASSUME NEW k \in 1..i PROVE Append(before, events[i])[k] = events[k]
    BY <1>3
  <2>1. k \in 1..(i - 1) \/ k = (i - 1) + 1
    BY <1>1
  <2> QED BY <1>1, <1>2, <1>6, <2>1
<1>9. Append(before, events[i]) = upto
  BY <1>3, <1>6, <1>7, <1>8, SeqEqual
<1> QED BY <1>5, <1>9 DEF before, upto

\* The list that a reload compacts is the list it stored.
LEMMA CompactIsKept ==
  ASSUME NEW events \in Seq(SessionEvent), IsCompact(events)
  PROVE  CompactThreadEvents(events) = events
<1> DEFINE l == Len(events)
           Compacts(h) == h = [i \in 0..l |-> IF i = 0 THEN <<>> ELSE AppendThreadEvent(h[i - 1], events[i])]
           prefixes == [i \in 0..l |-> SubSeq(events, 1, i)]
<1>1. l \in Nat
  OBVIOUS
<1>2. SubSeq(events, 1, 0) = <<>> /\ SubSeq(events, 1, l) = events
  <2>1. SubSeq(events, 1, 0) = <<>>
    BY SubSeqEmpty
  <2>2. SubSeq(events, 1, l) = events
    BY SubSeqFull
  <2> QED BY <2>1, <2>2
<1> HIDE DEF l
<1>3. Compacts(prefixes)
  <2>1. \A i \in 0..l : prefixes[i] = IF i = 0 THEN <<>> ELSE AppendThreadEvent(prefixes[i - 1], events[i])
    <3> SUFFICES ASSUME NEW i \in 0..l
                 PROVE  prefixes[i] = IF i = 0 THEN <<>> ELSE AppendThreadEvent(prefixes[i - 1], events[i])
      OBVIOUS
    <3>1. CASE i = 0
      BY <1>2, <3>1
    <3>2. CASE i # 0
      <4>1. i \in 1..l /\ i - 1 \in 0..l
        BY <1>1, <3>2
      <4>2. AppendThreadEvent(SubSeq(events, 1, i - 1), events[i]) = SubSeq(events, 1, i)
        BY <4>1, PrefixGrows DEF l
      <4> QED BY <3>2, <4>1, <4>2
    <3> QED BY <3>1, <3>2
  <2>2. prefixes = [i \in 0..l |-> prefixes[i]]
    OBVIOUS
  <2> HIDE DEF prefixes
  <2> QED BY <2>1, <2>2
<1>4. PICK h : h = CHOOSE g : Compacts(g)
  OBVIOUS
<1>5. Compacts(h)
  BY <1>3, <1>4
<1>6. CompactThreadEvents(events) = h[l]
  BY <1>4 DEF CompactThreadEvents, l
<1>7. \A i \in 0..l : h[i] = IF i = 0 THEN <<>> ELSE AppendThreadEvent(h[i - 1], events[i])
  BY <1>5
<1> HIDE DEF Compacts, prefixes
<1>8. \A n \in 0..l : h[n] = SubSeq(events, 1, n)
  <2> DEFINE wrong == {n \in 0..l : h[n] # SubSeq(events, 1, n)}
  <2> SUFFICES ASSUME wrong # {} PROVE FALSE
    OBVIOUS
  <2>1. wrong \in SUBSET Nat
    BY <1>1
  <2>2. PICK n \in wrong : \A m \in wrong : n <= m
    <3> HIDE DEF wrong
    <3> QED BY <2>1, LeastOfNumbers
  <2>3. CASE n = 0
    BY <1>2, <1>7, <2>2, <2>3
  <2>4. CASE n # 0
    <3>1. n \in 1..l /\ n - 1 \in 0..l /\ n - 1 < n
      BY <1>1, <2>4
    <3>2. h[n - 1] = SubSeq(events, 1, n - 1)
      BY <2>2, <3>1
    <3>3. h[n] = AppendThreadEvent(SubSeq(events, 1, n - 1), events[n])
      BY <1>7, <2>4, <3>2
    <3>4. h[n] = SubSeq(events, 1, n)
      BY <3>1, <3>3, PrefixGrows DEF l
    <3> QED BY <3>4
  <2> QED BY <2>3, <2>4
<1>9. h[l] = events
  BY <1>1, <1>2, <1>8
<1> QED BY <1>6, <1>9

\* The next event belongs to the turn in progress, or starts one; a question is new, and
\* a sub-agent that asks was called in the turn.
NextEvent(events, root, e, after) ==
  /\ IF e.type = "turn.started" THEN e.turn = root.turn + 1 /\ after.turn = e.turn
     ELSE /\ after.turn = root.turn /\ (after.at = "open" => root.at = "open")
          /\ IF e.turn = 0 THEN e.type \in SessionEnds \cup {"input.requested", "session.waiting"}
             ELSE root.at = "open" /\ e.turn = root.turn
  /\ e.type = "actions.requested" => e.id \in Agents
  /\ e.type = "input.requested" =>
       /\ root.at = "open" /\ e.id \in Questions
       /\ \A i : AskedAt(events, i) => events[i].id # e.id
       /\ e.turn = 0 => Requested(events, root.turn)

\* The next event leaves every event in its turn, and every question in the turn that
\* asked it.
LEMMA NextEventFits ==
  ASSUME NEW events \in Seq(SessionEvent), NEW e \in SessionEvent, NEW root, root.turn \in Nat, NEW after,
         NextEvent(events, root, e, after), EventsAreOfTurns(events, root), QuestionsAreOfTurns(events)
  PROVE  /\ EventsAreOfTurns(AppendThreadEvent(events, e), after)
         /\ QuestionsAreOfTurns(AppendThreadEvent(events, e))
<1> DEFINE new == AppendThreadEvent(events, e)
           n == Len(events)
<1>1. PICK l \in 1..(n + 1) :
           /\ Len(new) = l /\ new[l] = e
           /\ \A i \in 1..n : i < l => new[i] = events[i]
           /\ \A i \in 1..n : events[i].type \notin TextTypes => i < l
  BY PlacesAreKept
<1>2. n \in Nat /\ l \in Nat
  OBVIOUS
<1> HIDE DEF new
<1>3. \A i \in 1..l : i # l => i \in 1..n /\ i < l /\ new[i] = events[i]
  BY <1>1, <1>2
<1>4. \A i \in 1..n : events[i].type \notin TextTypes => i \in 1..l /\ i < l /\ new[i] = events[i]
  <2> SUFFICES ASSUME NEW i \in 1..n, events[i].type \notin TextTypes
               PROVE  i \in 1..l /\ i < l /\ new[i] = events[i]
    OBVIOUS
  <2>1. i < l
    BY <1>1
  <2> QED BY <1>1, <1>2, <2>1
<1>5. {"turn.started", "input.requested", "actions.requested"} \cap TextTypes = {}
  BY DEF TextTypes, TextKinds, Appended, Finished
<1> HIDE DEF n
<1>6. \A p : Started(new, p) <=> Started(events, p) \/ (p = l /\ e.type = "turn.started")
  <2>1. ASSUME NEW p, Started(new, p), p # l PROVE Started(events, p)
    BY <1>1, <1>3, <2>1 DEF Started, n
  <2>2. ASSUME NEW p, Started(events, p) PROVE Started(new, p)
    BY <1>1, <1>4, <1>5, <2>2 DEF Started, n
  <2>3. Started(new, l) <=> e.type = "turn.started"
    BY <1>1, <1>2 DEF Started
  <2>4. Started(events, l) => e.type = "turn.started"
    BY <2>2, <2>3
  <2> QED BY <2>1, <2>2, <2>3
<1>7. \A p : Started(events, p) => p \in 1..n /\ p \in Nat /\ p < l /\ new[p] = events[p]
  BY <1>2, <1>4, <1>5 DEF Started, n
<1>8. \A i : AskedAt(new, i) <=> AskedAt(events, i) \/ (i = l /\ e.type = "input.requested")
  <2>1. ASSUME NEW p, AskedAt(new, p), p # l PROVE AskedAt(events, p)
    BY <1>1, <1>3, <2>1 DEF AskedAt, n
  <2>2. ASSUME NEW p, AskedAt(events, p) PROVE AskedAt(new, p)
    BY <1>1, <1>4, <1>5, <2>2 DEF AskedAt, n
  <2>3. AskedAt(new, l) <=> e.type = "input.requested"
    BY <1>1, <1>2 DEF AskedAt
  <2> QED BY <2>1, <2>2, <2>3
<1>9. \A i : AskedAt(events, i) => i \in 1..n /\ i \in Nat /\ i < l /\ new[i] = events[i]
  BY <1>2, <1>4, <1>5 DEF AskedAt, n
<1>10. \A t : Requested(events, t) => Requested(new, t)
  BY <1>1, <1>4, <1>5 DEF Requested, n
<1>11. e.type = "turn.started" => \A p : Started(events, p) => events[p].turn # e.turn
  <2>1. \A p : Started(events, p) => events[p].turn \in 1..root.turn
    BY DEF EventsAreOfTurns
  <2> QED BY <2>1 DEF NextEvent
<1>12. EventsAreOfTurns(new, after)
  <2>1. ASSUME NEW p, Started(new, p) PROVE new[p].turn \in 1..after.turn
    <3>1. CASE Started(events, p)
      <4>1. new[p].turn \in 1..root.turn
        BY <1>7, <3>1 DEF EventsAreOfTurns
      <4>2. after.turn = root.turn \/ after.turn = root.turn + 1
        BY DEF NextEvent
      <4> QED BY <4>1, <4>2
    <3>2. CASE p = l /\ e.type = "turn.started"
      <4>1. e.turn = root.turn + 1 /\ after.turn = root.turn + 1
        BY <3>2 DEF NextEvent
      <4> QED BY <1>1, <3>2, <4>1
    <3> QED BY <1>6, <2>1, <3>1, <3>2
  <2>2. ASSUME NEW p, NEW q, Started(new, p), Started(new, q), new[p].turn = new[q].turn PROVE p = q
    <3>1. CASE Started(events, p) /\ Started(events, q)
      BY <1>7, <2>2, <3>1 DEF EventsAreOfTurns
    <3>2. CASE ~(Started(events, p) /\ Started(events, q))
      BY <1>1, <1>6, <1>7, <1>11, <2>2, <3>2
    <3> QED BY <3>1, <3>2
  <2>3. ASSUME NEW i \in 1..Len(new)
        PROVE  IF new[i].turn = 0 THEN new[i].type \in SessionEnds \cup {"input.requested", "session.waiting"}
               ELSE \E p : Started(new, p) /\ new[p].turn = new[i].turn
    <3>1. CASE i # l
      <4>1. i \in 1..n /\ new[i] = events[i]
        BY <1>1, <1>3, <3>1
      <4>2. IF events[i].turn = 0 THEN events[i].type \in SessionEnds \cup {"input.requested", "session.waiting"}
            ELSE \E p : Started(events, p) /\ events[p].turn = events[i].turn
        BY <4>1 DEF EventsAreOfTurns, n
      <4> QED BY <1>6, <1>7, <4>1, <4>2
    <3>2. CASE i = l /\ e.type = "turn.started"
      <4>1. e.turn # 0
        BY <3>2 DEF NextEvent
      <4> QED BY <1>1, <1>6, <3>2, <4>1
    <3>3. CASE i = l /\ e.type # "turn.started"
      <4>1. CASE e.turn = 0
        BY <1>1, <3>3, <4>1 DEF NextEvent
      <4>2. CASE e.turn # 0
        <5>1. root.at = "open" /\ e.turn = root.turn
          BY <3>3, <4>2 DEF NextEvent
        <5>2. \E p : Started(events, p) /\ events[p].turn = root.turn
          BY <5>1 DEF EventsAreOfTurns
        <5> QED BY <1>1, <1>6, <1>7, <3>3, <4>2, <5>1, <5>2
      <4> QED BY <4>1, <4>2
    <3> QED BY <3>1, <3>2, <3>3
  <2>4. ASSUME after.at = "open"
        PROVE  \E p : Started(new, p) /\ new[p].turn = after.turn /\ \A q : Started(new, q) => q <= p
    <3>1. CASE e.type = "turn.started"
      <4>1. Started(new, l) /\ new[l].turn = after.turn
        BY <1>1, <1>6, <3>1 DEF NextEvent
      <4>2. \A q : Started(new, q) => q <= l
        BY <1>2, <1>6, <1>7
      <4> QED BY <4>1, <4>2
    <3>2. CASE e.type # "turn.started"
      <4>1. root.at = "open" /\ after.turn = root.turn
        BY <2>4, <3>2 DEF NextEvent
      <4>2. PICK p : Started(events, p) /\ events[p].turn = root.turn /\ \A q : Started(events, q) => q <= p
        BY <4>1 DEF EventsAreOfTurns
      <4> QED BY <1>6, <1>7, <3>2, <4>1, <4>2
    <3> QED BY <3>1, <3>2
  <2> QED BY <2>1, <2>2, <2>3, <2>4 DEF EventsAreOfTurns
<1>13. QuestionsAreOfTurns(new)
  <2>1. ASSUME NEW i \in 1..Len(new), new[i].type = "actions.requested" PROVE new[i].id \in Agents
    <3>1. CASE i # l
      BY <1>1, <1>3, <2>1, <3>1 DEF QuestionsAreOfTurns, n
    <3>2. CASE i = l
      BY <1>1, <2>1, <3>2 DEF NextEvent
    <3> QED BY <3>1, <3>2
  <2>2. ASSUME NEW i, AskedAt(new, i) PROVE new[i].id \in Questions
    <3>1. CASE AskedAt(events, i)
      BY <1>9, <3>1 DEF QuestionsAreOfTurns
    <3>2. CASE i = l /\ e.type = "input.requested"
      BY <1>1, <3>2 DEF NextEvent
    <3> QED BY <1>8, <2>2, <3>1, <3>2
  <2>3. ASSUME NEW i, NEW j, AskedAt(new, i), AskedAt(new, j), new[i].id = new[j].id PROVE i = j
    <3>1. CASE AskedAt(events, i) /\ AskedAt(events, j)
      BY <1>9, <2>3, <3>1 DEF QuestionsAreOfTurns
    <3>2. CASE ~(AskedAt(events, i) /\ AskedAt(events, j))
      <4>1. e.type = "input.requested" => \A k : AskedAt(events, k) => events[k].id # e.id
        BY DEF NextEvent
      <4> QED BY <1>1, <1>8, <1>9, <2>3, <3>2, <4>1
    <3> QED BY <3>1, <3>2
  <2>4. ASSUME NEW i, AskedAt(new, i)
        PROVE  \E p : /\ InProgress(new, p, i)
                      /\ \/ new[i].turn = new[p].turn
                         \/ new[i].turn = 0 /\ Requested(new, new[p].turn)
    <3>1. CASE AskedAt(events, i)
      <4>1. PICK p : /\ InProgress(events, p, i)
                     /\ \/ events[i].turn = events[p].turn
                        \/ events[i].turn = 0 /\ Requested(events, events[p].turn)
        BY <3>1 DEF QuestionsAreOfTurns
      <4>2. Started(events, p) /\ p < i /\ \A q : Started(events, q) /\ q < i => q <= p
        BY <4>1 DEF InProgress
      <4>3. i < l /\ i \in Nat /\ new[i] = events[i] /\ new[p] = events[p]
        BY <1>7, <1>9, <3>1, <4>2
      <4>4. \A q : Started(new, q) /\ q < i => q <= p
        <5> SUFFICES ASSUME NEW q, Started(new, q), q < i PROVE q <= p
          OBVIOUS
        <5>1. q # l
          BY <1>2, <4>3
        <5>2. Started(events, q)
          BY <1>6, <5>1
        <5> QED BY <4>2, <5>2
      <4>5. InProgress(new, p, i)
        BY <1>6, <4>2, <4>4 DEF InProgress
      <4> QED BY <1>10, <4>1, <4>3, <4>5
    <3>2. CASE i = l /\ e.type = "input.requested"
      <4>1. root.at = "open" /\ (e.turn = root.turn \/ (e.turn = 0 /\ Requested(events, root.turn)))
        BY <3>2 DEF NextEvent
      <4>2. PICK p : Started(events, p) /\ events[p].turn = root.turn /\ \A q : Started(events, q) => q <= p
        BY <4>1 DEF EventsAreOfTurns
      <4>3. InProgress(new, p, i)
        <5>1. Started(new, p) /\ p < i
          BY <1>6, <1>7, <3>2, <4>2
        <5>2. \A q : Started(new, q) => Started(events, q)
          BY <1>6, <3>2
        <5> QED BY <4>2, <5>1, <5>2 DEF InProgress
      <4> QED BY <1>1, <1>7, <1>10, <3>2, <4>1, <4>2, <4>3
    <3> QED BY <1>8, <2>4, <3>1, <3>2
  <2> QED BY <2>1, <2>2, <2>3, <2>4 DEF QuestionsAreOfTurns
<1> QED BY <1>12, <1>13 DEF new

\* The browser keeps every event that is no text, and a sub-agent is called after the
\* root asked for it.
FactsAreKept(all, events) ==
  \A e \in SessionEvent : e.type \notin TextTypes => (e \in ToSet(events) <=> e \in ToSet(all))
CallsWereRequested(all) ==
  \A e \in ToSet(all) : e.type = "subagent.called" =>
    \E f \in ToSet(all) : f.type = "actions.requested" /\ f.turn = e.turn

\* The inductive invariant of a session's events.
EventViewInv ==
  /\ EventViewTypeOK
  /\ Len(stream) <= MaxEvents /\ rootTurn.step <= Len(stream)
  /\ IsCompact(kept) /\ FactsAreKept(stream, kept)
  /\ CallsWereRequested(stream)
  /\ EventsAreOfTurns(kept, rootTurn)
  /\ QuestionsAreOfTurns(kept)

\* A list that is appended to gains one event.
LEMMA ListGains ==
  ASSUME NEW all \in Seq(SessionEvent), NEW e \in SessionEvent
  PROVE  /\ Append(all, e) \in Seq(SessionEvent) /\ Len(Append(all, e)) = Len(all) + 1
         /\ ToSet(Append(all, e)) = ToSet(all) \cup {e}
<1>1. /\ Append(all, e) \in Seq(SessionEvent) /\ Len(Append(all, e)) = Len(all) + 1 /\ Len(all) \in Nat
      /\ Append(all, e)[Len(all) + 1] = e
      /\ \A i \in 1..Len(all) : Append(all, e)[i] = all[i]
  BY AppendProperties
<1>2. DOMAIN Append(all, e) = 1..(Len(all) + 1) /\ DOMAIN all = 1..Len(all)
  BY <1>1
<1>3. \A i \in 1..(Len(all) + 1) : i \in 1..Len(all) \/ i = Len(all) + 1
  BY <1>1
<1>4. ToSet(all) \cup {e} \subseteq ToSet(Append(all, e))
  <2>1. \A i \in 1..Len(all) : i \in 1..(Len(all) + 1)
    BY <1>1
  <2>2. Len(all) + 1 \in 1..(Len(all) + 1)
    BY <1>1
  <2> QED BY <1>1, <1>2, <2>1, <2>2 DEF ToSet
<1>5. ToSet(Append(all, e)) \subseteq ToSet(all) \cup {e}
  BY <1>1, <1>2, <1>3 DEF ToSet
<1> QED BY <1>1, <1>4, <1>5

\* The event that arrives is kept if it is no text, and takes the place of no other that
\* is none.
LEMMA FactsStayKept ==
  ASSUME NEW all \in Seq(SessionEvent), NEW events \in Seq(SessionEvent), NEW e \in SessionEvent,
         FactsAreKept(all, events)
  PROVE  FactsAreKept(Append(all, e), AppendThreadEvent(events, e))
<1> DEFINE new == AppendThreadEvent(events, e)
<1>1. PICK l \in 1..(Len(events) + 1) :
           /\ new \in Seq(SessionEvent)
           /\ Len(new) = l /\ new[l] = e
           /\ \A i \in 1..Len(events) : i < l => new[i] = events[i]
           /\ IF l = Len(events) THEN events # <<>> /\ Absorbs(events[l], e)
              ELSE l = Len(events) + 1 /\ (events # <<>> => ~Absorbs(events[Len(events)], e))
  BY EventIsLast
<1>2. \A i \in 1..Len(events) : events[i].type \notin TextTypes => i < l
  <2>1. PICK k \in 1..(Len(events) + 1) :
           /\ Len(new) = k
           /\ \A i \in 1..Len(events) : events[i].type \notin TextTypes => i < k
    BY PlacesAreKept
  <2> QED BY <1>1, <2>1
<1> HIDE DEF new
<1>3. DOMAIN new = 1..l /\ DOMAIN events = 1..Len(events) /\ Len(events) \in Nat /\ l \in Nat
  BY <1>1
<1>6. 1 <= l /\ l <= Len(events) + 1 /\ l \in 1..l
  BY <1>3
<1>4. ASSUME NEW f \in SessionEvent, f.type \notin TextTypes
      PROVE  f \in ToSet(new) <=> f \in ToSet(events) \/ f = e
  <2>1. e \in ToSet(new)
    BY <1>1, <1>3, <1>6 DEF ToSet
  <2>2. ASSUME NEW i \in 1..Len(events), events[i] = f PROVE f \in ToSet(new)
    <3>1. i < l /\ i \in 1..l
      BY <1>2, <1>3, <1>4, <2>2
    <3> QED BY <1>1, <1>3, <2>2, <3>1 DEF ToSet
  <2>3. ASSUME NEW i \in 1..l, new[i] = f, i # l PROVE f \in ToSet(events)
    <3>1. i \in 1..Len(events) /\ i < l
      BY <1>3, <1>6, <2>3
    <3> QED BY <1>1, <1>3, <2>3, <3>1 DEF ToSet
  <2> QED BY <1>1, <1>3, <2>1, <2>2, <2>3 DEF ToSet
<1>5. ToSet(Append(all, e)) = ToSet(all) \cup {e}
  BY ListGains
<1> QED BY <1>4, <1>5 DEF FactsAreKept, new

\* The step in which Eve writes e, and the browser appends it.
LEMMA ArrivesStep ==
  ASSUME EventViewInv, NEW e \in SessionEvent, Arrives(e),
         NEW after \in [at: {"idle", "open", "ended", "over"}, turn: 0..MaxTurnIds, step: Nat],
         rootTurn' = after, after.step <= Len(stream) + 1,
         NextEvent(kept, rootTurn, e, after),
         e.type = "subagent.called" => \E f \in ToSet(stream) : f.type = "actions.requested" /\ f.turn = e.turn
  PROVE  EventViewInv'
<1> DEFINE all == Append(stream, e)
           new == AppendThreadEvent(kept, e)
<1>1. /\ stream \in Seq(SessionEvent) /\ kept \in Seq(SessionEvent) /\ Len(stream) \in Nat
      /\ rootTurn.turn \in Nat /\ MaxEvents \in Nat
  BY EventViewAssumption DEF EventViewInv, EventViewTypeOK
<1>2. stream' = all /\ kept' = new /\ Len(stream) < MaxEvents
  BY DEF Arrives
<1>3. all \in Seq(SessionEvent) /\ Len(all) = Len(stream) + 1 /\ ToSet(all) = ToSet(stream) \cup {e}
  BY <1>1, ListGains
<1>4. new \in Seq(SessionEvent)
  BY <1>1, EventIsLast
<1>5. IsCompact(new) /\ FactsAreKept(all, new)
  BY <1>1, StaysCompact, FactsStayKept DEF EventViewInv
<1>6. CallsWereRequested(all)
  BY <1>3 DEF CallsWereRequested, EventViewInv
<1>7. EventsAreOfTurns(new, after) /\ QuestionsAreOfTurns(new)
  BY <1>1, NextEventFits DEF EventViewInv
<1>8. after \in [at: {"idle", "open", "ended", "over"}, turn: 0..MaxTurnIds, step: 0..MaxEvents]
  BY <1>1, <1>2
<1>9. Len(all) <= MaxEvents /\ after.step <= Len(all)
  BY <1>1, <1>2, <1>3
<1> HIDE DEF all, new
<1> QED BY <1>2, <1>3, <1>4, <1>5, <1>6, <1>7, <1>8, <1>9 DEF EventViewInv, EventViewTypeOK

\* While a turn is open, it has a number, and what the stream saw is in the browser.
LEMMA OpenTurn ==
  ASSUME EventViewInv, rootTurn.at = "open"
  PROVE  rootTurn.turn # 0
<1>1. PICK p : Started(kept, p) /\ kept[p].turn = rootTurn.turn
  BY DEF EventViewInv, EventsAreOfTurns
<1>2. kept[p].turn \in 1..rootTurn.turn
  BY <1>1 DEF EventViewInv, EventsAreOfTurns
<1> QED BY <1>1, <1>2 DEF EventViewInv, EventViewTypeOK

\* A question that Eve has not asked yet is not in the browser.
LEMMA UnseenIsUnasked ==
  ASSUME EventViewInv, NEW r, ~Seen("input.requested", r)
  PROVE  \A i : AskedAt(kept, i) => kept[i].id # r
<1> SUFFICES ASSUME NEW i, AskedAt(kept, i), kept[i].id = r PROVE FALSE
  OBVIOUS
<1>1. kept \in Seq(SessionEvent) /\ i \in 1..Len(kept) /\ kept[i].type = "input.requested"
  BY DEF EventViewInv, EventViewTypeOK, AskedAt
<1>2. kept[i] \in SessionEvent /\ kept[i] \in ToSet(kept)
  BY <1>1 DEF ToSet
<1>3. kept[i].type \notin TextTypes
  BY <1>1 DEF TextTypes, TextKinds, Appended, Finished
<1>4. kept[i] \in ToSet(stream)
  BY <1>2, <1>3 DEF EventViewInv, FactsAreKept
<1> QED BY <1>1, <1>4 DEF Seen

\* The root's request for a sub-agent that was called in this turn is in the browser.
LEMMA CalledIsRequested ==
  ASSUME EventViewInv, NEW c, SeenInTurn("subagent.called", c)
  PROVE  Requested(kept, rootTurn.turn)
<1>1. PICK f \in ToSet(stream) : f.type = "actions.requested" /\ f.turn = rootTurn.turn
  BY DEF SeenInTurn, EventViewInv, CallsWereRequested
<1>2. f \in SessionEvent
  BY <1>1 DEF EventViewInv, EventViewTypeOK, ToSet
<1>3. f.type \notin TextTypes
  BY <1>1 DEF TextTypes, TextKinds, Appended, Finished
<1>4. f \in ToSet(kept)
  BY <1>1, <1>2, <1>3 DEF EventViewInv, FactsAreKept
<1>5. PICK i \in 1..Len(kept) : kept[i] = f
  BY <1>4 DEF ToSet, EventViewInv, EventViewTypeOK
<1> QED BY <1>1, <1>5 DEF Requested

\* An event of the turn in progress.
LEMMA EventOfTurn ==
  ASSUME EventViewInv, rootTurn.at = "open",
         NEW type \in EventTypes \ {"turn.started"}, NEW id \in Agents \cup Questions \cup {NoId},
         NEW size \in Nat, NEW final \in BOOLEAN,
         NEW after \in [at: {"idle", "open", "ended", "over"}, turn: 0..MaxTurnIds, step: Nat],
         after.turn = rootTurn.turn, after.step <= rootTurn.step + 1,
         Arrives(NewEvent(type, rootTurn.turn, id, size, final)), rootTurn' = after,
         type = "actions.requested" => id \in Agents,
         type = "input.requested" => id \in Questions /\ ~Seen("input.requested", id),
         type = "subagent.called" => SeenInTurn("actions.requested", id)
  PROVE  EventViewInv'
<1> DEFINE e == NewEvent(type, rootTurn.turn, id, size, final)
<1>1. /\ rootTurn \in [at: {"idle", "open", "ended", "over"}, turn: 0..MaxTurnIds, step: 0..MaxEvents]
      /\ rootTurn.step <= Len(stream) /\ stream \in Seq(SessionEvent) /\ MaxEvents \in Nat
  BY EventViewAssumption DEF EventViewInv, EventViewTypeOK
<1>2. e \in SessionEvent /\ e.type = type /\ e.turn = rootTurn.turn /\ e.id = id
  BY <1>1 DEF NewEvent, SessionEvent
<1>3. e.turn # 0
  BY <1>2, OpenTurn
<1>4. after.step <= Len(stream) + 1
  <2>1. after.step \in Nat /\ rootTurn.step \in Nat /\ Len(stream) \in Nat
    BY <1>1
  <2> QED BY <1>1, <2>1
<1>5. type = "input.requested" => \A i : AskedAt(kept, i) => kept[i].id # id
  BY UnseenIsUnasked
<1>6. type = "subagent.called" => \E f \in ToSet(stream) : f.type = "actions.requested" /\ f.turn = e.turn
  BY <1>2 DEF SeenInTurn
<1> HIDE DEF e
<1>7. NextEvent(kept, rootTurn, e, after)
  BY <1>2, <1>3, <1>5 DEF NextEvent
<1> QED BY <1>2, <1>4, <1>6, <1>7, ArrivesStep DEF e

\* The same, when the turn goes on.
LEMMA EventNowStep ==
  ASSUME EventViewInv,
         NEW type \in EventTypes \ {"turn.started"}, NEW id \in Agents \cup Questions \cup {NoId},
         NEW size \in Nat, NEW final \in BOOLEAN, EventNow(type, id, size, final),
         type = "actions.requested" => id \in Agents,
         type = "input.requested" => id \in Questions /\ ~Seen("input.requested", id),
         type = "subagent.called" => SeenInTurn("actions.requested", id)
  PROVE  EventViewInv'
<1>1. /\ rootTurn \in [at: {"idle", "open", "ended", "over"}, turn: 0..MaxTurnIds, step: Nat]
      /\ rootTurn.step <= rootTurn.step + 1
  BY EventViewAssumption DEF EventViewInv, EventViewTypeOK
<1>2. /\ rootTurn.at = "open" /\ rootTurn' = rootTurn
      /\ Arrives(NewEvent(type, rootTurn.turn, id, size, final))
  BY DEF EventNow
<1> QED BY <1>1, <1>2, EventOfTurn

\* The length of a text under way is a number.
LEMMA TextsAreFinite == ASSUME EventViewInv, NEW k PROVE Cardinality(TextNow(k)) \in Nat
<1>1. stream \in Seq(SessionEvent) /\ Len(stream) \in Nat /\ DOMAIN stream = 1..Len(stream)
  BY DEF EventViewInv, EventViewTypeOK
<1>2. stream \in Surjection(1..Len(stream), ToSet(stream))
  BY <1>1 DEF Surjection, ToSet
<1>3. IsFiniteSet(ToSet(stream))
  BY <1>1, <1>2, FS_Interval, FS_Surjection
<1>4. IsFiniteSet(TextNow(k))
  BY <1>3, FS_Subset DEF TextNow
<1> QED BY <1>4, FS_CardinalityType

\* Messages and texts.
LEMMA TextEventSteps ==
  ASSUME EventViewInv, \/ MessageIsReceived
                       \/ \E k \in TextKinds : TextGrows(k)
                       \/ \E k \in TextKinds, final \in BOOLEAN : TextEnds(k, final)
  PROVE  EventViewInv'
<1>1. CASE MessageIsReceived
  <2>1. EventNow("message.received", NoId, 1, FALSE)
    BY <1>1 DEF MessageIsReceived
  <2>2. "message.received" \in EventTypes \ {"turn.started"}
    BY DEF EventTypes
  <2> QED BY <2>1, <2>2, EventNowStep
<1>2. ASSUME NEW k \in TextKinds PROVE {Appended[k], Finished[k]} \subseteq
        EventTypes \ {"turn.started", "actions.requested", "input.requested", "subagent.called"}
  BY DEF TextKinds, EventTypes, TextTypes, Appended, Finished
<1>3. ASSUME NEW k \in TextKinds, TextGrows(k) PROVE EventViewInv'
  <2>1. EventNow(Appended[k], NoId, Cardinality(TextNow(k)) + 1, FALSE)
    BY <1>3 DEF TextGrows
  <2>2. Cardinality(TextNow(k)) \in Nat
    BY TextsAreFinite
  <2>3. Cardinality(TextNow(k)) + 1 \in Nat
    BY <2>2
  <2> QED BY <1>2, <2>1, <2>3, EventNowStep
<1>4. ASSUME NEW k \in TextKinds, NEW final \in BOOLEAN, TextEnds(k, final) PROVE EventViewInv'
  <2>1. EventNow(Finished[k], NoId, Cardinality(TextNow(k)), final) /\ Cardinality(TextNow(k)) \in Nat
    BY <1>4, TextsAreFinite DEF TextEnds
  <2> QED BY <1>2, <2>1, EventNowStep
<1> QED BY <1>1, <1>3, <1>4

\* Delegated calls, their results, and the questions of the root.
LEMMA CallSteps ==
  ASSUME EventViewInv,
         \/ \E c \in Agents : AgentIsRequested(c) \/ AgentIsCalled(c) \/ AgentCompletes(c)
         \/ \E c \in Agents, ok \in {0, 1} : AgentResult(c, ok)
         \/ \E r \in Questions : RootAsks(r)
  PROVE  EventViewInv'
<1>1. {"actions.requested", "subagent.called", "subagent.completed", "action.result", "input.requested"}
        \subseteq EventTypes \ {"turn.started"}
  BY DEF EventTypes
<1>2. ASSUME NEW c \in Agents, AgentIsRequested(c) PROVE EventViewInv'
  <2>1. EventNow("actions.requested", c, 0, FALSE)
    BY <1>2 DEF AgentIsRequested
  <2> QED BY <1>1, <2>1, EventNowStep
<1>3. ASSUME NEW c \in Agents, AgentIsCalled(c) PROVE EventViewInv'
  <2>1. EventNow("subagent.called", c, 0, FALSE) /\ SeenInTurn("actions.requested", c)
    BY <1>3 DEF AgentIsCalled
  <2> QED BY <1>1, <2>1, EventNowStep
<1>4. ASSUME NEW c \in Agents, AgentCompletes(c) PROVE EventViewInv'
  <2>1. EventNow("subagent.completed", c, 0, FALSE)
    BY <1>4 DEF AgentCompletes
  <2> QED BY <1>1, <2>1, EventNowStep
<1>5. ASSUME NEW c \in Agents, NEW ok \in {0, 1}, AgentResult(c, ok) PROVE EventViewInv'
  <2>1. EventNow("action.result", c, ok, FALSE)
    BY <1>5 DEF AgentResult
  <2>2. ok \in Nat
    OBVIOUS
  <2> QED BY <1>1, <2>1, <2>2, EventNowStep
<1>6. ASSUME NEW r \in Questions, RootAsks(r) PROVE EventViewInv'
  <2>1. EventNow("input.requested", r, 0, FALSE) /\ ~Seen("input.requested", r)
    BY <1>6 DEF RootAsks
  <2> QED BY <1>1, <2>1, EventNowStep
<1> QED BY <1>2, <1>3, <1>4, <1>5, <1>6

\* A sub-agent's question carries no turn of the root; it was called in the one in progress.
LEMMA AgentAsksStep ==
  ASSUME EventViewInv, NEW c \in Agents, NEW r \in Questions, AgentAsks(c, r)
  PROVE  EventViewInv'
<1> DEFINE e == NewEvent("input.requested", NoTurnId, r, 0, FALSE)
<1>1. /\ rootTurn \in [at: {"idle", "open", "ended", "over"}, turn: 0..MaxTurnIds, step: 0..MaxEvents]
      /\ rootTurn.step <= Len(stream) /\ stream \in Seq(SessionEvent) /\ MaxEvents \in Nat /\ MaxTurnIds \in Nat
  BY EventViewAssumption DEF EventViewInv, EventViewTypeOK
<1>2. "input.requested" \in EventTypes
  BY DEF EventTypes
<1>3. e \in SessionEvent /\ e.type = "input.requested" /\ e.turn = 0 /\ e.id = r
  BY <1>1, <1>2 DEF NewEvent, SessionEvent, NoTurnId
<1>4. Arrives(e) /\ rootTurn' = rootTurn /\ rootTurn.at = "open"
  BY DEF AgentAsks
<1>5. Requested(kept, rootTurn.turn) /\ \A i : AskedAt(kept, i) => kept[i].id # r
  BY UnseenIsUnasked, CalledIsRequested DEF AgentAsks
<1> HIDE DEF e
<1>6. NextEvent(kept, rootTurn, e, rootTurn)
  BY <1>3, <1>4, <1>5 DEF NextEvent
<1>7. /\ rootTurn \in [at: {"idle", "open", "ended", "over"}, turn: 0..MaxTurnIds, step: Nat]
      /\ rootTurn.step <= Len(stream) + 1
  BY <1>1
<1> QED BY <1>3, <1>4, <1>6, <1>7, ArrivesStep

\* A turn starts.
LEMMA TurnStartsStep == ASSUME EventViewInv, TurnStarts PROVE EventViewInv'
<1> DEFINE after == [at |-> "open", turn |-> rootTurn.turn + 1, step |-> 0]
           e == [type |-> "turn.started", turn |-> rootTurn.turn + 1, step |-> 0, id |-> NoId,
                 size |-> 0, final |-> FALSE]
<1>1. /\ rootTurn \in [at: {"idle", "open", "ended", "over"}, turn: 0..MaxTurnIds, step: 0..MaxEvents]
      /\ stream \in Seq(SessionEvent) /\ Len(stream) \in Nat /\ MaxEvents \in Nat /\ MaxTurnIds \in Nat
  BY EventViewAssumption DEF EventViewInv, EventViewTypeOK
<1>2. rootTurn.turn < MaxTurnIds /\ rootTurn' = after /\ Arrives(e)
  BY DEF TurnStarts
<1>3. rootTurn.turn + 1 \in 0..MaxTurnIds
  BY <1>1, <1>2
<1>4. "turn.started" \in EventTypes
  BY DEF EventTypes
<1>5. e \in SessionEvent /\ e.type = "turn.started" /\ e.turn = rootTurn.turn + 1
  BY <1>1, <1>3, <1>4 DEF SessionEvent
<1>6. /\ after \in [at: {"idle", "open", "ended", "over"}, turn: 0..MaxTurnIds, step: Nat]
      /\ after.step <= Len(stream) + 1 /\ after.turn = rootTurn.turn + 1
  BY <1>1, <1>3
<1> HIDE DEF e, after
<1>7. NextEvent(kept, rootTurn, e, after)
  BY <1>5, <1>6 DEF NextEvent
<1> QED BY <1>2, <1>5, <1>6, <1>7, ArrivesStep

\* A step ends, or the turn.
LEMMA TurnEndsSteps ==
  ASSUME EventViewInv, \/ \E usage \in {0, 1} : StepEnds(usage)
                       \/ \E type \in TurnEnds : TurnEndsAs(type)
  PROVE  EventViewInv'
<1>1. rootTurn \in [at: {"idle", "open", "ended", "over"}, turn: 0..MaxTurnIds, step: Nat]
  BY EventViewAssumption DEF EventViewInv, EventViewTypeOK
<1>2. ASSUME NEW usage \in {0, 1}, StepEnds(usage) PROVE EventViewInv'
  <2> DEFINE after == [rootTurn EXCEPT !.step = @ + 1]
  <2>1. /\ after \in [at: {"idle", "open", "ended", "over"}, turn: 0..MaxTurnIds, step: Nat]
        /\ after.turn = rootTurn.turn /\ after.step <= rootTurn.step + 1
    BY <1>1
  <2>2. /\ rootTurn.at = "open" /\ rootTurn' = after
        /\ Arrives(NewEvent("step.completed", rootTurn.turn, NoId, usage, FALSE))
    BY <1>2 DEF StepEnds
  <2>4. usage \in Nat
    OBVIOUS
  <2>3. "step.completed" \in EventTypes \ {"turn.started"}
    BY DEF EventTypes
  <2> HIDE DEF after
  <2> QED BY <2>1, <2>2, <2>3, <2>4, EventOfTurn
<1>3. ASSUME NEW type \in TurnEnds, TurnEndsAs(type) PROVE EventViewInv'
  <2> DEFINE after == [rootTurn EXCEPT !.at = "ended"]
  <2>1. /\ after \in [at: {"idle", "open", "ended", "over"}, turn: 0..MaxTurnIds, step: Nat]
        /\ after.turn = rootTurn.turn /\ after.step <= rootTurn.step + 1
    BY <1>1
  <2>2. /\ rootTurn.at = "open" /\ rootTurn' = after
        /\ Arrives(NewEvent(type, rootTurn.turn, NoId, 0, FALSE))
    BY <1>3 DEF TurnEndsAs
  <2>3. type \in EventTypes \ {"turn.started", "actions.requested", "input.requested", "subagent.called"}
    BY DEF EventTypes, TurnEnds
  <2> HIDE DEF after
  <2> QED BY <2>1, <2>2, <2>3, EventOfTurn
<1> QED BY <1>2, <1>3

\* The session waits for the next message, or ends.
LEMMA SessionSettlesStep ==
  ASSUME EventViewInv, NEW type \in SessionEnds \cup {"session.waiting"}, SessionSettles(type)
  PROVE  EventViewInv'
<1> DEFINE e == NewEvent(type, NoTurnId, NoId, 0, FALSE)
           after == [rootTurn EXCEPT !.at = IF type = "session.waiting" THEN "idle" ELSE "over"]
<1>1. /\ rootTurn \in [at: {"idle", "open", "ended", "over"}, turn: 0..MaxTurnIds, step: 0..MaxEvents]
      /\ rootTurn.step <= Len(stream) /\ stream \in Seq(SessionEvent) /\ MaxEvents \in Nat /\ MaxTurnIds \in Nat
  BY EventViewAssumption DEF EventViewInv, EventViewTypeOK
<1>2. type \in EventTypes /\ type \notin {"turn.started", "actions.requested", "input.requested", "subagent.called"}
  BY DEF EventTypes, SessionEnds
<1>3. e \in SessionEvent /\ e.type = type /\ e.turn = 0
  BY <1>1, <1>2 DEF NewEvent, SessionEvent, NoTurnId
<1>4. Arrives(e) /\ rootTurn' = after
  BY DEF SessionSettles
<1>5. /\ after \in [at: {"idle", "open", "ended", "over"}, turn: 0..MaxTurnIds, step: Nat]
      /\ after.step <= Len(stream) + 1 /\ after.turn = rootTurn.turn /\ after.at # "open"
  BY <1>1
<1> HIDE DEF e, after
<1>6. NextEvent(kept, rootTurn, e, after)
  BY <1>2, <1>3, <1>5 DEF NextEvent
<1> QED BY <1>2, <1>3, <1>4, <1>5, <1>6, ArrivesStep

\* A reload compacts the stored list, which is compact already.
LEMMA ReloadKeepsEvents == ASSUME EventViewInv, ReloadThread PROVE EventViewInv'
<1>1. kept' = kept
  BY CompactIsKept DEF ReloadThread, EventViewInv, EventViewTypeOK
<1>2. UNCHANGED <<stream, rootTurn>>
  BY DEF ReloadThread
<1> QED BY <1>1, <1>2 DEF EventViewInv, EventViewTypeOK

\* A session begins with no events.
LEMMA EventViewBegins == EventViewInit => EventViewInv
<1> SUFFICES ASSUME EventViewInit PROVE EventViewInv
  OBVIOUS
<1>1. /\ stream = <<>> /\ kept = <<>> /\ rootTurn = [at |-> "idle", turn |-> 0, step |-> 0]
      /\ MaxEvents \in Nat /\ MaxTurnIds \in Nat
  BY EventViewAssumption DEF EventViewInit
<1>2. EventViewTypeOK /\ Len(stream) <= MaxEvents /\ rootTurn.step <= Len(stream)
  BY <1>1 DEF EventViewTypeOK
<1>3. IsCompact(kept) /\ FactsAreKept(stream, kept) /\ CallsWereRequested(stream)
  BY <1>1 DEF IsCompact, FactsAreKept, CallsWereRequested, ToSet
<1>4. (\A p : ~Started(kept, p)) /\ (\A i : ~AskedAt(kept, i))
  BY <1>1 DEF Started, AskedAt
<1>5. EventsAreOfTurns(kept, rootTurn) /\ QuestionsAreOfTurns(kept)
  BY <1>1, <1>4 DEF EventsAreOfTurns, QuestionsAreOfTurns
<1> QED BY <1>2, <1>3, <1>5 DEF EventViewInv

\* Every event and every reload keeps the invariant.
LEMMA EventViewSteps ==
  ASSUME EventViewInv, [EventViewNext]_eventViewVars
  PROVE  EventViewInv'
<1>1. CASE TurnStarts
  BY <1>1, TurnStartsStep
<1>2. CASE \/ MessageIsReceived
           \/ \E k \in TextKinds : TextGrows(k)
           \/ \E k \in TextKinds, final \in BOOLEAN : TextEnds(k, final)
  BY <1>2, TextEventSteps
<1>3. CASE \/ \E c \in Agents : AgentIsRequested(c) \/ AgentIsCalled(c) \/ AgentCompletes(c)
           \/ \E c \in Agents, ok \in {0, 1} : AgentResult(c, ok)
           \/ \E r \in Questions : RootAsks(r)
  BY <1>3, CallSteps
<1>4. CASE \E c \in Agents, r \in Questions : AgentAsks(c, r)
  BY <1>4, AgentAsksStep
<1>5. CASE (\E usage \in {0, 1} : StepEnds(usage)) \/ \E type \in TurnEnds : TurnEndsAs(type)
  BY <1>5, TurnEndsSteps
<1>6. CASE \E type \in SessionEnds \cup {"session.waiting"} : SessionSettles(type)
  BY <1>6, SessionSettlesStep
<1>7. CASE ReloadThread
  BY <1>7, ReloadKeepsEvents
<1>8. CASE UNCHANGED eventViewVars
  BY <1>8 DEF eventViewVars, EventViewInv, EventViewTypeOK
<1> QED BY <1>1, <1>2, <1>3, <1>4, <1>5, <1>6, <1>7, <1>8 DEF EventViewNext

\* Every unresolved question has exactly one place in the transcript: its own message, or
\* the message of the root turn in which its sub-agent was called (turn-presentation.ts:83).
THEOREM QuestionsAreShownOnce == EventViewSpec => []QuestionsShownOnce
<1>1. EventViewInv => QuestionsShownOnce
  BY UnresolvedIsShownOnce DEF EventViewInv, EventViewTypeOK, QuestionsShownOnce
<1> QED BY <1>1, EventViewBegins, EventViewSteps, PTL DEF EventViewSpec

-----------------------------------------------------------------------------
(* EventView: what is computed from the kept events is what the stream says. *)

\* Where the events of a compacted list were in the whole one: in the same order, and what
\* is missing is a text that the next event replaced.
Places(all, events, at) ==
  /\ at \in [1..Len(events) -> 1..Len(all)]
  /\ \A i, j \in 1..Len(events) : i < j => at[i] < at[j]
  /\ \A i \in 1..Len(events) : events[i] = all[at[i]]
  /\ \A j \in 1..Len(all) :
       (\A i \in 1..Len(events) : at[i] # j) => j < Len(all) /\ Absorbs(all[j], all[j + 1])

\* The place of an event, or none.
PlaceAt(at, i) == IF i = 0 THEN 0 ELSE at[i]

\* Events of which the last one is never replaced by an event of another sort, and events
\* that are never replaced.
Lasting(E) == \A a \in E, b \in SessionEvent : Absorbs(a, b) => b \in E
Solid(E) == \A a \in E, b \in SessionEvent : ~Absorbs(a, b)

\* The events of a sort after a place.
After(events, E, c) == {i \in 1..Len(events) : events[i] \in E /\ c < i}

\* Two lists, of which the second is the first compacted.
Compacts(all, events) ==
  /\ all \in Seq(SessionEvent) /\ events \in Seq(SessionEvent)
  /\ \E at : Places(all, events, at)

\* The place of an event is a number, and places are ordered like the events.
LEMMA PlacesAreOrdered ==
  ASSUME NEW all \in Seq(SessionEvent), NEW events \in Seq(SessionEvent), NEW at, Places(all, events, at)
  PROVE  /\ \A i \in 0..Len(events) : PlaceAt(at, i) \in 0..Len(all)
         /\ \A i, j \in 0..Len(events) : i < j <=> PlaceAt(at, i) < PlaceAt(at, j)
         /\ \A i \in 1..Len(events) : PlaceAt(at, i) = at[i]
<1>1. Len(all) \in Nat /\ Len(events) \in Nat
  OBVIOUS
<1>2. \A i \in 1..Len(events) : at[i] \in 1..Len(all) /\ PlaceAt(at, i) = at[i]
  BY DEF Places, PlaceAt
<1>3. \A i \in 0..Len(events) : i = 0 \/ i \in 1..Len(events)
  BY <1>1
<1>4. PlaceAt(at, 0) = 0
  BY DEF PlaceAt
<1>5. \A i \in 0..Len(events) : PlaceAt(at, i) \in 0..Len(all)
  BY <1>1, <1>2, <1>3, <1>4
<1>6. ASSUME NEW i \in 0..Len(events), NEW j \in 0..Len(events), i < j
      PROVE  PlaceAt(at, i) < PlaceAt(at, j)
  <2>1. j \in 1..Len(events)
    BY <1>1, <1>6
  <2>2. CASE i = 0
    BY <1>1, <1>2, <1>4, <2>1, <2>2
  <2>3. CASE i \in 1..Len(events)
    BY <1>2, <1>6, <2>1, <2>3 DEF Places
  <2> QED BY <1>3, <2>2, <2>3
<1>7. ASSUME NEW i \in 0..Len(events), NEW j \in 0..Len(events), PlaceAt(at, i) < PlaceAt(at, j)
      PROVE  i < j
  <2>1. CASE i = j
    BY <1>5, <1>7, <2>1
  <2>2. CASE j < i
    <3>1. PlaceAt(at, j) < PlaceAt(at, i)
      BY <1>6, <2>2
    <3> QED BY <1>5, <1>7, <3>1
  <2> QED BY <1>1, <2>1, <2>2
<1> QED BY <1>2, <1>5, <1>6, <1>7

\* The latest event of a lasting sort is kept.
LEMMA LatestIsKept ==
  ASSUME NEW all \in Seq(SessionEvent), NEW events \in Seq(SessionEvent), NEW at, Places(all, events, at),
         NEW E, Lasting(E), NEW c \in 0..Len(events)
  PROVE  /\ Latest(After(all, E, PlaceAt(at, c))) = PlaceAt(at, Latest(After(events, E, c)))
         /\ After(events, E, c) = {} <=> After(all, E, PlaceAt(at, c)) = {}
         /\ After(events, E, c) # {} => Latest(After(events, E, c)) \in After(events, E, c)
         /\ After(all, E, PlaceAt(at, c)) # {} =>
              /\ Latest(After(all, E, PlaceAt(at, c))) \in After(all, E, PlaceAt(at, c))
              /\ all[Latest(After(all, E, PlaceAt(at, c)))] = events[Latest(After(events, E, c))]
<1> DEFINE S == After(events, E, c)
           T == After(all, E, PlaceAt(at, c))
<1>0. /\ S = {i \in 1..Len(events) : events[i] \in E /\ c < i}
      /\ T = {j \in 1..Len(all) : all[j] \in E /\ PlaceAt(at, c) < j}
  BY DEF After
<1> SUFFICES /\ Latest(T) = PlaceAt(at, Latest(S))
             /\ S = {} <=> T = {}
             /\ S # {} => Latest(S) \in S
             /\ T # {} => Latest(T) \in T /\ all[Latest(T)] = events[Latest(S)]
  OBVIOUS
<1> HIDE DEF S, T
<1>1. Len(all) \in Nat /\ Len(events) \in Nat
  OBVIOUS
<1>2. S \in SUBSET (1..Len(events)) /\ T \in SUBSET (1..Len(all))
  BY <1>0
<1>3. \A i \in S : at[i] \in T /\ at[i] \in 1..Len(all)
  <2> SUFFICES ASSUME NEW i \in S PROVE at[i] \in T /\ at[i] \in 1..Len(all)
    OBVIOUS
  <2>1. i \in 1..Len(events) /\ i \in 0..Len(events) /\ c < i /\ events[i] \in E
    BY <1>0, <1>1
  <2>2. at[i] \in 1..Len(all) /\ events[i] = all[at[i]]
    BY <2>1 DEF Places
  <2>3. PlaceAt(at, c) < at[i]
    BY <2>1, PlacesAreOrdered
  <2> QED BY <1>0, <2>1, <2>2, <2>3
<1>4. ASSUME NEW j \in T, \A k \in T : k <= j PROVE \E i \in S : at[i] = j
  <2>1. j \in 1..Len(all) /\ all[j] \in E /\ PlaceAt(at, c) < j
    BY <1>0
  <2>2. PICK i \in 1..Len(events) : at[i] = j
    <3> SUFFICES ASSUME \A i \in 1..Len(events) : at[i] # j PROVE FALSE
      OBVIOUS
    <3>1. j < Len(all) /\ Absorbs(all[j], all[j + 1])
      BY <2>1 DEF Places
    <3>2. j + 1 \in 1..Len(all) /\ all[j + 1] \in SessionEvent
      BY <1>1, <2>1, <3>1
    <3>3. all[j + 1] \in E
      BY <2>1, <3>1, <3>2 DEF Lasting
    <3>5. PlaceAt(at, c) \in Int
      BY <1>1, PlacesAreOrdered
    <3>4. PlaceAt(at, c) < j + 1
      BY <1>1, <2>1, <3>5
    <3>6. j + 1 \in T
      BY <1>0, <3>2, <3>3, <3>4
    <3>7. j + 1 <= j
      BY <1>4, <3>6
    <3> QED BY <1>1, <2>1, <3>7
  <2>3. i \in 0..Len(events) /\ PlaceAt(at, c) < PlaceAt(at, i)
    BY <1>1, <2>1, <2>2, PlacesAreOrdered
  <2>4. c < i
    BY <2>3, PlacesAreOrdered
  <2>5. events[i] \in E
    BY <2>1, <2>2 DEF Places
  <2> QED BY <1>0, <2>2, <2>4, <2>5
<1>5. CASE T = {}
  <2>1. S = {}
    BY <1>3, <1>5
  <2>2. Latest(S) = 0 /\ Latest(T) = 0
    BY <1>5, <2>1 DEF Latest
  <2> QED BY <1>5, <2>1, <2>2 DEF PlaceAt
<1>6. CASE T # {}
  <2>1. Latest(T) \in T /\ \A k \in T : k <= Latest(T)
    BY <1>1, <1>2, <1>6, LatestIsLast
  <2>2. PICK i \in S : at[i] = Latest(T)
    BY <1>4, <2>1
  <2>3. Latest(S) \in S /\ \A k \in S : k <= Latest(S)
    BY <1>1, <1>2, <2>2, LatestIsLast
  <2>4. Latest(S) = i
    <3>1. i <= Latest(S) /\ i \in 1..Len(events) /\ Latest(S) \in 1..Len(events)
      BY <1>2, <2>2, <2>3
    <3>2. at[Latest(S)] <= at[i]
      BY <1>3, <2>1, <2>2, <2>3
    <3>3. i < Latest(S) => at[i] < at[Latest(S)]
      BY <3>1 DEF Places
    <3>4. at[i] \in 1..Len(all) /\ at[Latest(S)] \in 1..Len(all)
      BY <1>3, <2>2, <2>3
    <3> QED BY <3>1, <3>2, <3>3, <3>4
  <2>5. Latest(S) \in 1..Len(events) /\ Latest(S) # 0
    <3>1. Latest(S) \in 1..Len(events)
      BY <1>2, <2>3
    <3> QED BY ONLY <1>1, <3>1
  <2>6. PlaceAt(at, Latest(S)) = Latest(T)
    BY <2>2, <2>4, <2>5 DEF PlaceAt
  <2>7. all[Latest(T)] = events[Latest(S)]
    BY <2>2, <2>4, <2>5 DEF Places
  <2> QED BY <1>6, <2>1, <2>2, <2>3, <2>6, <2>7
<1> QED BY <1>5, <1>6

\* An event that is never replaced is kept.
LEMMA SolidIsKept ==
  ASSUME NEW all \in Seq(SessionEvent), NEW events \in Seq(SessionEvent), NEW at, Places(all, events, at),
         NEW E, Solid(E), NEW j \in 1..Len(all), all[j] \in E
  PROVE  \E i \in 1..Len(events) : at[i] = j /\ events[i] = all[j]
<1> SUFFICES ASSUME \A i \in 1..Len(events) : at[i] # j PROVE FALSE
  BY DEF Places
<1>1. j < Len(all) /\ Absorbs(all[j], all[j + 1])
  BY DEF Places
<1>2. j + 1 \in 1..Len(all)
  BY <1>1
<1> QED BY <1>1, <1>2 DEF Solid

\* The first event of a solid sort after a kept one.
LEMMA EarliestIsKept ==
  ASSUME NEW all \in Seq(SessionEvent), NEW events \in Seq(SessionEvent), NEW at, Places(all, events, at),
         NEW E, Solid(E), NEW c \in 0..Len(events)
  PROVE  /\ Earliest(After(all, E, PlaceAt(at, c))) = PlaceAt(at, Earliest(After(events, E, c)))
         /\ After(events, E, c) = {} <=> After(all, E, PlaceAt(at, c)) = {}
         /\ After(events, E, c) # {} => Earliest(After(events, E, c)) \in After(events, E, c)
         /\ After(all, E, PlaceAt(at, c)) # {} => Earliest(After(all, E, PlaceAt(at, c))) \in After(all, E, PlaceAt(at, c))
<1> DEFINE S == After(events, E, c)
           T == After(all, E, PlaceAt(at, c))
<1>0. /\ S = {i \in 1..Len(events) : events[i] \in E /\ c < i}
      /\ T = {j \in 1..Len(all) : all[j] \in E /\ PlaceAt(at, c) < j}
  BY DEF After
<1> SUFFICES /\ Earliest(T) = PlaceAt(at, Earliest(S))
             /\ S = {} <=> T = {}
             /\ S # {} => Earliest(S) \in S
             /\ T # {} => Earliest(T) \in T
  OBVIOUS
<1> HIDE DEF S, T
<1>1. Len(all) \in Nat /\ Len(events) \in Nat
  OBVIOUS
<1>2. S \in SUBSET (1..Len(events)) /\ T \in SUBSET (1..Len(all))
  BY <1>0
<1>3. \A i \in S : at[i] \in T /\ at[i] \in 1..Len(all)
  <2> SUFFICES ASSUME NEW i \in S PROVE at[i] \in T /\ at[i] \in 1..Len(all)
    OBVIOUS
  <2>1. i \in 1..Len(events) /\ i \in 0..Len(events) /\ c < i /\ events[i] \in E
    BY <1>0, <1>1
  <2>2. at[i] \in 1..Len(all) /\ events[i] = all[at[i]]
    BY <2>1 DEF Places
  <2>3. PlaceAt(at, c) < at[i]
    BY <2>1, PlacesAreOrdered
  <2> QED BY <1>0, <2>1, <2>2, <2>3
<1>4. \A j \in T : \E i \in S : at[i] = j
  <2> SUFFICES ASSUME NEW j \in T PROVE \E i \in S : at[i] = j
    OBVIOUS
  <2>1. j \in 1..Len(all) /\ all[j] \in E /\ PlaceAt(at, c) < j
    BY <1>0
  <2>2. PICK i \in 1..Len(events) : at[i] = j /\ events[i] = all[j]
    BY <2>1, SolidIsKept
  <2>3. i \in 0..Len(events) /\ PlaceAt(at, c) < PlaceAt(at, i)
    BY <1>1, <2>1, <2>2, PlacesAreOrdered
  <2>4. c < i
    BY <2>3, PlacesAreOrdered
  <2> QED BY <1>0, <2>1, <2>2, <2>4
<1>5. CASE T = {}
  <2>1. S = {}
    BY <1>3, <1>5
  <2>2. Earliest(S) = 0 /\ Earliest(T) = 0
    BY <1>5, <2>1 DEF Earliest
  <2> QED BY <1>5, <2>1, <2>2 DEF PlaceAt
<1>6. CASE T # {}
  <2>1. Earliest(T) \in T /\ \A k \in T : Earliest(T) <= k
    <3> HIDE DEF Earliest
    <3>1. Len(all) \in Nat /\ T \in SUBSET (1..Len(all)) /\ T # {}
      BY <1>1, <1>2, <1>6
    <3> QED BY ONLY <3>1, EarliestIsFirst
  <2>2. PICK i \in S : at[i] = Earliest(T)
    BY <1>4, <2>1
  <2>3. Earliest(S) \in S /\ \A k \in S : Earliest(S) <= k
    BY <1>1, <1>2, <2>2, EarliestIsFirst
  <2>4. Earliest(S) = i
    <3>1. Earliest(S) <= i /\ i \in 1..Len(events) /\ Earliest(S) \in 1..Len(events)
      BY <1>2, <2>2, <2>3
    <3>2. at[i] <= at[Earliest(S)]
      BY <1>3, <2>1, <2>2, <2>3
    <3>3. Earliest(S) < i => at[Earliest(S)] < at[i]
      BY <3>1 DEF Places
    <3>4. at[i] \in 1..Len(all) /\ at[Earliest(S)] \in 1..Len(all)
      BY <1>3, <2>2, <2>3
    <3> QED BY <3>1, <3>2, <3>3, <3>4
  <2>5. Earliest(S) \in 1..Len(events) /\ Earliest(S) # 0
    <3>1. Earliest(S) \in 1..Len(events)
      BY <1>2, <2>3
    <3> QED BY ONLY <1>1, <3>1
  <2>6. PlaceAt(at, Earliest(S)) = Earliest(T)
    BY <2>2, <2>4, <2>5 DEF PlaceAt
  <2> QED BY <1>6, <2>1, <2>2, <2>3, <2>6
<1> QED BY <1>5, <1>6

\* Whether there is an event of a lasting sort.
LEMMA SortIsKept ==
  ASSUME NEW all, NEW events, Compacts(all, events), NEW E, Lasting(E)
  PROVE  (\E e \in ToSet(all) : e \in E) <=> (\E e \in ToSet(events) : e \in E)
<1>1. PICK at : Places(all, events, at)
  BY DEF Compacts
<1>2. all \in Seq(SessionEvent) /\ events \in Seq(SessionEvent) /\ PlaceAt(at, 0) = 0
  BY DEF Compacts, PlaceAt
<1>3. After(all, E, 0) = {} <=> After(events, E, 0) = {}
  <2>1. 0 \in 0..Len(events)
    BY <1>2
  <2> QED BY <1>1, <1>2, <2>1, LatestIsKept
<1>4. ASSUME NEW list \in Seq(SessionEvent)
      PROVE  (\E e \in ToSet(list) : e \in E) <=> After(list, E, 0) # {}
  BY DEF ToSet, After
<1> QED BY <1>2, <1>3, <1>4

\* The events of a solid sort after a kept one, whatever is asked of them.
LEMMA SolidSinceIsKept ==
  ASSUME NEW all \in Seq(SessionEvent), NEW events \in Seq(SessionEvent), NEW at, Places(all, events, at),
         NEW E, Solid(E), NEW c \in 0..Len(events), NEW e \in E
  PROVE  (\E j \in 1..Len(all) : all[j] = e /\ PlaceAt(at, c) < j) <=>
           (\E i \in 1..Len(events) : events[i] = e /\ c < i)
<1>0. \A i \in 1..Len(events) : i \in 0..Len(events)
  OBVIOUS
<1>1. ASSUME NEW j \in 1..Len(all), all[j] = e, PlaceAt(at, c) < j
      PROVE  \E i \in 1..Len(events) : events[i] = e /\ c < i
  <2>1. PICK i \in 1..Len(events) : at[i] = j /\ events[i] = all[j]
    BY <1>1, SolidIsKept
  <2>2. PlaceAt(at, c) < PlaceAt(at, i)
    BY <1>1, <2>1, PlacesAreOrdered
  <2> QED BY <1>0, <1>1, <2>1, <2>2, PlacesAreOrdered
<1>2. ASSUME NEW i \in 1..Len(events), events[i] = e, c < i
      PROVE  \E j \in 1..Len(all) : all[j] = e /\ PlaceAt(at, c) < j
  <2>1. at[i] \in 1..Len(all) /\ all[at[i]] = e
    BY <1>2 DEF Places
  <2>2. PlaceAt(at, c) < at[i]
    BY <1>0, <1>2, PlacesAreOrdered
  <2> QED BY <2>1, <2>2
<1> QED BY <1>1, <1>2

\* The sorts of events that the screen asks for.
LEMMA FactsAreSolid ==
  ASSUME NEW types, \A k \in TextKinds : Appended[k] \notin types
  PROVE  Solid({e \in SessionEvent : e.type \in types})
BY DEF Solid, Absorbs

\* What is never replaced is not replaced by another sort.
LEMMA SolidIsLasting == ASSUME NEW E, Solid(E) PROVE Lasting(E)
BY DEF Solid, Lasting

\* A part of a sort that is never replaced is never replaced.
LEMMA PartIsSolid == ASSUME NEW E, Solid(E), NEW F \in SUBSET E PROVE Solid(F)
BY DEF Solid

\* The last event of the compacted list is the last of the whole one.
LEMMA LastIsKept ==
  ASSUME NEW all \in Seq(SessionEvent), NEW events \in Seq(SessionEvent), NEW at, Places(all, events, at)
  PROVE  PlaceAt(at, Len(events)) = Len(all)
<1>1. Len(all) \in Nat /\ Len(events) \in Nat
  OBVIOUS
<1>2. CASE Len(all) = 0
  <2>1. PlaceAt(at, Len(events)) \in 0..Len(all)
    BY <1>1, PlacesAreOrdered
  <2> QED BY <1>2, <2>1
<1>3. CASE Len(all) # 0
  <2>1. PICK i \in 1..Len(events) : at[i] = Len(all)
    <3>1. Len(all) \in 1..Len(all)
      BY <1>1, <1>3
    <3> QED BY <1>1, <3>1 DEF Places
  <2>2. i <= Len(events) /\ Len(events) \in 1..Len(events)
    BY <1>1, <2>1
  <2>3. at[Len(events)] \in 1..Len(all)
    BY <2>2 DEF Places
  <2>4. i < Len(events) => at[i] < at[Len(events)]
    BY <2>1, <2>2 DEF Places
  <2>5. i = Len(events)
    BY <1>1, <2>1, <2>2, <2>3, <2>4
  <2> QED BY <2>1, <2>2, <2>5, PlacesAreOrdered
<1> QED BY <1>2, <1>3

\* An event that arrives keeps the browser's list the compacted one.
LEMMA CompactsGrow ==
  ASSUME NEW all, NEW events, Compacts(all, events), NEW e \in SessionEvent
  PROVE  Compacts(Append(all, e), AppendThreadEvent(events, e))
<1> DEFINE new == AppendThreadEvent(events, e)
           whole == Append(all, e)
<1>1. /\ all \in Seq(SessionEvent) /\ events \in Seq(SessionEvent)
      /\ Len(all) \in Nat /\ Len(events) \in Nat
  BY DEF Compacts
<1>2. PICK at : Places(all, events, at)
  BY DEF Compacts
<1>3. PICK l \in 1..(Len(events) + 1) :
           /\ new \in Seq(SessionEvent)
           /\ Len(new) = l /\ new[l] = e
           /\ \A i \in 1..Len(events) : i < l => new[i] = events[i]
           /\ IF l = Len(events) THEN events # <<>> /\ Absorbs(events[l], e)
              ELSE l = Len(events) + 1 /\ (events # <<>> => ~Absorbs(events[Len(events)], e))
  BY <1>1, EventIsLast
<1>4. /\ whole \in Seq(SessionEvent) /\ Len(whole) = Len(all) + 1 /\ whole[Len(all) + 1] = e
      /\ \A j \in 1..Len(all) : whole[j] = all[j]
  BY <1>1, AppendProperties
<1> DEFINE to == [i \in 1..l |-> IF i = l THEN Len(all) + 1 ELSE at[i]]
<1>5. \A i \in 1..l : i # l => i \in 1..Len(events) /\ i < l
  BY <1>1
<1>6. \A i \in 1..Len(events) : at[i] \in 1..Len(all)
  BY <1>2 DEF Places
<1>7. to[l] = Len(all) + 1 /\ \A i \in 1..l : i # l => to[i] = at[i]
  BY <1>1
<1>8. to \in [1..l -> 1..(Len(all) + 1)]
  <2>1. \A i \in 1..l : (IF i = l THEN Len(all) + 1 ELSE at[i]) \in 1..(Len(all) + 1)
    BY <1>1, <1>5, <1>6
  <2> QED BY <2>1
<1> HIDE DEF to, new, whole
<1>9. ASSUME NEW i \in 1..l, NEW j \in 1..l, i < j PROVE to[i] < to[j]
  <2>1. i \in 1..Len(events) /\ i # l /\ to[i] = at[i]
    BY <1>1, <1>5, <1>7, <1>9
  <2>2. CASE j = l
    BY <1>1, <1>6, <1>7, <2>1, <2>2
  <2>3. CASE j # l
    BY <1>2, <1>5, <1>7, <1>9, <2>1, <2>3 DEF Places
  <2> QED BY <2>2, <2>3
<1>10. ASSUME NEW i \in 1..l PROVE new[i] = whole[to[i]]
  <2>1. CASE i = l
    BY <1>3, <1>4, <1>7, <2>1
  <2>2. CASE i # l
    <3>1. i \in 1..Len(events) /\ i < l /\ to[i] = at[i] /\ at[i] \in 1..Len(all)
      BY <1>5, <1>6, <1>7, <2>2
    <3>2. new[i] = events[i] /\ events[i] = all[at[i]] /\ whole[at[i]] = all[at[i]]
      BY <1>2, <1>3, <1>4, <3>1 DEF Places
    <3> QED BY <3>1, <3>2
  <2> QED BY <2>1, <2>2
<1>11. ASSUME NEW j \in 1..(Len(all) + 1), \A i \in 1..l : to[i] # j
       PROVE  j < Len(all) + 1 /\ Absorbs(whole[j], whole[j + 1])
  <2>1. j \in 1..Len(all)
    <3>1. l \in 1..l
      BY <1>1
    <3>2. j # Len(all) + 1
      BY <1>7, <1>11, <3>1
    <3> QED BY <1>1, <3>2
  <2>2. CASE \A i \in 1..Len(events) : at[i] # j
    <3>1. j < Len(all) /\ Absorbs(all[j], all[j + 1])
      BY <1>2, <2>1, <2>2 DEF Places
    <3>2. j + 1 \in 1..Len(all)
      BY <1>1, <2>1, <3>1
    <3> QED BY <1>1, <1>4, <2>1, <3>1, <3>2
  <2>3. ASSUME NEW i \in 1..Len(events), at[i] = j PROVE Absorbs(whole[j], whole[j + 1])
    <3>1. i = l
      <4>1. i \in 1..l => i = l
        BY <1>7, <1>11, <2>3
      <4>2. i \in 1..l
        BY <1>1, <1>3
      <4> QED BY <4>1, <4>2
    <3>2. l = Len(events) /\ Absorbs(events[l], e)
      <4>1. l # Len(events) + 1
        BY <1>1, <3>1
      <4> QED BY <1>3, <4>1
    <3>3. j = Len(all)
      <4>1. PlaceAt(at, Len(events)) = Len(all)
        BY <1>1, <1>2, LastIsKept
      <4>2. PlaceAt(at, Len(events)) = at[Len(events)]
        BY <1>1, <1>2, <2>3, <3>1, <3>2, PlacesAreOrdered
      <4> QED BY <2>3, <3>1, <3>2, <4>1, <4>2
    <3>4. whole[j] = events[l]
      BY <1>2, <1>4, <2>1, <2>3, <3>1 DEF Places
    <3> QED BY <1>4, <3>2, <3>3, <3>4
  <2> QED BY <1>1, <2>1, <2>2, <2>3
<1>12. Places(whole, new, to)
  BY <1>3, <1>4, <1>8, <1>9, <1>10, <1>11 DEF Places
<1> QED BY <1>3, <1>4, <1>12 DEF Compacts, new, whole

\* The browser's list is the compacted stream.
KeptIsCompacted == EventViewInv /\ Compacts(stream, kept)

\* It is so at the start: nothing was written and nothing is kept.
LEMMA KeptBegins == EventViewInit => KeptIsCompacted
<1> SUFFICES ASSUME EventViewInit PROVE KeptIsCompacted
  OBVIOUS
<1>1. stream = <<>> /\ kept = <<>> /\ <<>> \in Seq(SessionEvent) /\ Len(<<>>) = 0
  BY DEF EventViewInit
<1>2. Places(<<>>, <<>>, [i \in 1..0 |-> 1])
  BY DEF Places
<1> QED BY <1>1, <1>2, EventViewBegins DEF KeptIsCompacted, Compacts

\* Every event that arrives, and a reload, keep it so.
LEMMA KeptStays ==
  ASSUME KeptIsCompacted, [EventViewNext]_eventViewVars
  PROVE  KeptIsCompacted'
<1>1. EventViewInv /\ EventViewInv'
  BY EventViewSteps DEF KeptIsCompacted
<1>2. ASSUME NEW e, Arrives(e) PROVE Compacts(stream, kept)'
  <2>1. stream' = Append(stream, e) /\ kept' = AppendThreadEvent(kept, e)
    BY <1>2 DEF Arrives
  <2>2. e \in SessionEvent
    <3>1. stream \in Seq(SessionEvent) /\ Append(stream, e) \in Seq(SessionEvent)
      BY <1>1, <2>1 DEF EventViewInv, EventViewTypeOK
    <3>2. Append(stream, e)[Len(stream) + 1] = e /\ Len(Append(stream, e)) = Len(stream) + 1
      BY <3>1
    <3>3. Len(stream) + 1 \in 1..Len(Append(stream, e))
      BY <3>1, <3>2
    <3> QED BY <3>1, <3>2, <3>3, ElementOfSeq
  <2> QED BY <2>1, <2>2, CompactsGrow DEF KeptIsCompacted
<1>3. CASE ReloadThread \/ UNCHANGED eventViewVars
  <2>1. kept' = kept /\ stream' = stream
    BY <1>1, <1>3, CompactIsKept DEF ReloadThread, EventViewInv, EventViewTypeOK, eventViewVars
  <2>2. Compacts(stream, kept)
    BY DEF KeptIsCompacted
  <2>3. Compacts(stream', kept')
    BY <2>1, <2>2
  <2>4. Compacts(stream, kept)'
    BY <2>3 DEF Compacts, Places, Absorbs
  <2> QED BY <1>1, <2>4 DEF KeptIsCompacted
<1>4. CASE EventViewNext /\ ~ReloadThread
  <2>1. \E e : Arrives(e)
    BY <1>4 DEF EventViewNext, TurnStarts, MessageIsReceived, TextGrows, TextEnds, AgentIsRequested,
         AgentIsCalled, AgentCompletes, AgentResult, RootAsks, AgentAsks, StepEnds, TurnEndsAs,
         SessionSettles, EventNow
  <2>2. PICK e : Arrives(e)
    BY <2>1
  <2> QED BY <1>1, <1>2, <2>2 DEF KeptIsCompacted
<1> QED BY <1>1, <1>2, <1>3, <1>4 DEF KeptIsCompacted

\* The events of some types, and what else is asked of them.
LEMMA IndexesAreAfter ==
  ASSUME NEW events \in Seq(SessionEvent), NEW types
  PROVE  Indexes(events, types) = After(events, {e \in SessionEvent : e.type \in types}, 0)
<1>1. \A i \in 1..Len(events) : events[i] \in SessionEvent /\ 0 < i
  OBVIOUS
<1> QED BY <1>1 DEF Indexes, After

\* The latest event of a lasting sort is the same in both lists.
LEMMA LatestIsSame ==
  ASSUME NEW all, NEW events, Compacts(all, events), NEW E, Lasting(E)
  PROVE  /\ After(all, E, 0) = {} <=> After(events, E, 0) = {}
         /\ Latest(After(all, E, 0)) \in Nat /\ Latest(After(events, E, 0)) \in Nat
         /\ Latest(After(all, E, 0)) = 0 <=> Latest(After(events, E, 0)) = 0
         /\ After(events, E, 0) = {} <=> Latest(After(events, E, 0)) = 0
         /\ Latest(After(all, E, 0)) # 0 =>
              /\ all[Latest(After(all, E, 0))] = events[Latest(After(events, E, 0))]
              /\ Latest(After(all, E, 0)) \in 1..Len(all)
              /\ Latest(After(events, E, 0)) \in 1..Len(events)
<1>1. PICK at : Places(all, events, at)
  BY DEF Compacts
<1>2. /\ all \in Seq(SessionEvent) /\ events \in Seq(SessionEvent) /\ PlaceAt(at, 0) = 0
      /\ Len(all) \in Nat /\ Len(events) \in Nat /\ 0 \in 0..Len(events)
  BY DEF Compacts, PlaceAt
<1>3. /\ After(all, E, 0) \in SUBSET (1..Len(all)) /\ After(events, E, 0) \in SUBSET (1..Len(events))
  BY DEF After
<1>4. /\ After(all, E, 0) = {} => Latest(After(all, E, 0)) = 0
      /\ After(events, E, 0) = {} => Latest(After(events, E, 0)) = 0
  BY DEF Latest
<1>5. /\ After(events, E, 0) = {} <=> After(all, E, 0) = {}
      /\ After(events, E, 0) # {} => Latest(After(events, E, 0)) \in After(events, E, 0)
      /\ After(all, E, 0) # {} =>
           /\ Latest(After(all, E, 0)) \in After(all, E, 0)
           /\ all[Latest(After(all, E, 0))] = events[Latest(After(events, E, 0))]
  BY <1>1, <1>2, LatestIsKept
<1> DEFINE m == Latest(After(all, E, 0))
           n == Latest(After(events, E, 0))
<1> HIDE DEF m, n
<1>6. CASE After(all, E, 0) = {}
  BY <1>4, <1>5, <1>6 DEF m, n
<1>7. CASE After(all, E, 0) # {}
  <2>1. m \in 1..Len(all) /\ n \in 1..Len(events)
    BY <1>3, <1>5, <1>7 DEF m, n
  <2>2. m # 0 /\ n # 0 /\ m \in Nat /\ n \in Nat
    BY <1>2, <2>1
  <2> QED BY <1>5, <1>7, <2>1, <2>2 DEF m, n
<1> QED BY <1>6, <1>7

\* The earliest event of a solid sort is the same in both lists.
LEMMA EarliestIsSame ==
  ASSUME NEW all, NEW events, NEW at, all \in Seq(SessionEvent), events \in Seq(SessionEvent),
         Places(all, events, at), NEW E, Solid(E)
  PROVE  /\ After(all, E, 0) = {} <=> After(events, E, 0) = {}
         /\ Earliest(After(events, E, 0)) \in 0..Len(events)
         /\ Earliest(After(all, E, 0)) = PlaceAt(at, Earliest(After(events, E, 0)))
         /\ Earliest(After(all, E, 0)) = 0 <=> Earliest(After(events, E, 0)) = 0
         /\ After(events, E, 0) = {} <=> Earliest(After(events, E, 0)) = 0
         /\ Earliest(After(all, E, 0)) # 0 =>
              /\ all[Earliest(After(all, E, 0))] = events[Earliest(After(events, E, 0))]
              /\ Earliest(After(all, E, 0)) \in 1..Len(all)
              /\ Earliest(After(events, E, 0)) \in 1..Len(events)
<1>2. /\ PlaceAt(at, 0) = 0
      /\ Len(all) \in Nat /\ Len(events) \in Nat /\ 0 \in 0..Len(events)
  BY DEF Compacts, PlaceAt
<1>3. /\ After(all, E, 0) \in SUBSET (1..Len(all)) /\ After(events, E, 0) \in SUBSET (1..Len(events))
  BY DEF After
<1>4. /\ After(all, E, 0) = {} => Earliest(After(all, E, 0)) = 0
      /\ After(events, E, 0) = {} => Earliest(After(events, E, 0)) = 0
  BY DEF Earliest
<1>5. /\ Earliest(After(all, E, 0)) = PlaceAt(at, Earliest(After(events, E, 0)))
      /\ After(events, E, 0) = {} <=> After(all, E, 0) = {}
      /\ After(events, E, 0) # {} => Earliest(After(events, E, 0)) \in After(events, E, 0)
      /\ After(all, E, 0) # {} => Earliest(After(all, E, 0)) \in After(all, E, 0)
  BY <1>2, EarliestIsKept
<1> DEFINE m == Earliest(After(all, E, 0))
           n == Earliest(After(events, E, 0))
<1> HIDE DEF m, n
<1>6. CASE After(all, E, 0) = {}
  BY <1>2, <1>4, <1>5, <1>6 DEF m, n
<1>7. CASE After(all, E, 0) # {}
  <2>1. m \in 1..Len(all) /\ n \in 1..Len(events)
    BY <1>3, <1>5, <1>7 DEF m, n
  <2>2. m # 0 /\ n # 0 /\ n \in 0..Len(events)
    BY <1>2, <2>1
  <2>3. m = PlaceAt(at, n)
    BY <1>5 DEF m, n
  <2>4. events[n] = all[m]
    BY <2>1, <2>2, <2>3 DEF Places, PlaceAt
  <2> QED BY <1>5, <1>7, <2>1, <2>2, <2>4 DEF m, n
<1> QED BY <1>6, <1>7

\* The questions that wait for an answer.
LEMMA UnresolvedIsSame ==
  ASSUME NEW all, NEW events, Compacts(all, events)
  PROVE  Unresolved(all) = Unresolved(events)
<1> DEFINE ends == {e \in SessionEvent : e.type \in SessionEnds \cup {"turn.started"}}
           asked == {e \in SessionEvent : e.type \in {"input.requested"}}
<1>1. PICK at : Places(all, events, at)
  BY DEF Compacts
<1>2. all \in Seq(SessionEvent) /\ events \in Seq(SessionEvent)
  BY DEF Compacts
<1>3. Solid(ends) /\ Lasting(ends) /\ Solid(asked)
  <2>1. \A k \in TextKinds : Appended[k] \notin SessionEnds \cup {"turn.started"} /\ Appended[k] # "input.requested"
    BY DEF TextKinds, Appended, SessionEnds
  <2> QED BY <2>1, FactsAreSolid, SolidIsLasting
<1> DEFINE c == Latest(After(events, ends, 0))
           d == Latest(After(all, ends, 0))
<1>4. PlaceAt(at, 0) = 0 /\ 0 \in 0..Len(events) /\ Len(events) \in Nat /\ Len(all) \in Nat
  BY <1>2 DEF PlaceAt
<1>5. d = PlaceAt(at, c) /\ c \in 0..Len(events)
  <2>1. /\ Latest(After(all, ends, PlaceAt(at, 0))) = PlaceAt(at, Latest(After(events, ends, 0)))
        /\ After(events, ends, 0) # {} => Latest(After(events, ends, 0)) \in After(events, ends, 0)
    BY <1>1, <1>2, <1>3, <1>4, LatestIsKept
  <2>2. After(events, ends, 0) \in SUBSET (0..Len(events))
    BY <1>4 DEF After
  <2>3. After(events, ends, 0) = {} => c = 0
    BY DEF Latest
  <2> QED BY <1>4, <2>1, <2>2, <2>3
<1>6. /\ Unresolved(events) = {events[i].id : i \in {j \in After(events, asked, 0) : j > c}}
      /\ Unresolved(all) = {all[i].id : i \in {j \in After(all, asked, 0) : j > d}}
  BY <1>2, IndexesAreAfter DEF Unresolved
<1> HIDE DEF c, d, asked, ends
<1>7. ASSUME NEW list \in Seq(SessionEvent), NEW b
      PROVE  {list[i].id : i \in {j \in After(list, asked, 0) : j > b}} =
               {e.id : e \in {f \in asked : \E i \in 1..Len(list) : list[i] = f /\ b < i}}
  <2>1. \A j : j \in After(list, asked, 0) <=> j \in 1..Len(list) /\ list[j] \in asked
    BY DEF After
  <2> QED BY <2>1
<1>8. \A e \in asked : (\E j \in 1..Len(all) : all[j] = e /\ d < j) <=>
                         (\E i \in 1..Len(events) : events[i] = e /\ c < i)
  BY <1>1, <1>2, <1>3, <1>5, SolidSinceIsKept
<1>9. /\ Unresolved(all) = {e.id : e \in {f \in asked : \E i \in 1..Len(all) : all[i] = f /\ d < i}}
      /\ Unresolved(events) = {e.id : e \in {f \in asked : \E i \in 1..Len(events) : events[i] = f /\ c < i}}
  BY <1>2, <1>6, <1>7
<1> QED BY ONLY <1>8, <1>9

\* A part of the list that ends where no text is replaced.
LEMMA PartIsCompacted ==
  ASSUME NEW all \in Seq(SessionEvent), NEW events \in Seq(SessionEvent), NEW at, Places(all, events, at),
         NEW p \in 1..Len(events), NEW q \in p..Len(events), NEW n \in Nat, at[p] <= n, n <= Len(all),
         \/ q = Len(events) /\ n = Len(all)
         \/ q < Len(events) /\ n = at[q + 1] - 1 /\ events[q + 1].type \notin TextTypes
  PROVE  Compacts(SubSeq(all, at[p], n), SubSeq(events, p, q))
<1> DEFINE whole == SubSeq(all, at[p], n)
           part == SubSeq(events, p, q)
           l == (q - p) + 1
           m == (n - at[p]) + 1
           to == [i \in 1..l |-> (at[(i + p) - 1] - at[p]) + 1]
<1>1. /\ Len(all) \in Nat /\ Len(events) \in Nat /\ p \in Nat /\ q \in Nat
      /\ \A i \in 1..Len(events) : at[i] \in 1..Len(all) /\ events[i] = all[at[i]]
      /\ \A i, j \in 1..Len(events) : i < j => at[i] < at[j]
  <2>1. Len(all) \in Nat /\ Len(events) \in Nat /\ p \in Nat /\ q \in Nat
    OBVIOUS
  <2> QED BY <2>1 DEF Places
<1>2. p \in 1..Len(events) /\ p <= q /\ q \in 1..Len(events) /\ at[p] \in 1..Len(all) /\ at[p] \in Nat
  BY <1>1
<1>3. /\ part \in Seq(SessionEvent) /\ Len(part) = l
      /\ \A i \in 1..l : part[i] = events[(i + p) - 1]
  <2>1. /\ Len(part) = (q - p) + 1 /\ part \in Seq(SessionEvent)
        /\ \A i \in 1..((q - p) + 1) : part[i] = events[p + i - 1]
    BY <1>1, <1>2, SubSeqProperties
  <2>2. \A i \in 1..l : p + i - 1 = (i + p) - 1
    BY <1>1
  <2> QED BY <2>1, <2>2
<1>4. /\ whole \in Seq(SessionEvent) /\ Len(whole) = m /\ m \in Nat
      /\ \A j \in 1..m : whole[j] = all[(j + at[p]) - 1]
  <2> DEFINE b == at[p]
  <2>0. b \in 1..Len(all) /\ b <= n /\ n <= Len(all) /\ n \in Nat
    BY <1>2
  <2> HIDE DEF b
  <2>1. /\ Len(SubSeq(all, b, n)) = (n - b) + 1 /\ SubSeq(all, b, n) \in Seq(SessionEvent)
        /\ \A i \in 1..((n - b) + 1) : SubSeq(all, b, n)[i] = all[b + i - 1]
    BY <1>1, <2>0, SubSeqProperties
  <2>2. \A i \in 1..((n - b) + 1) : b + i - 1 = (i + b) - 1
    BY <1>1, <2>0
  <2>3. (n - b) + 1 \in Nat
    BY <1>1, <2>0
  <2> QED BY <2>1, <2>2, <2>3 DEF b
<1>5. \A i \in 1..l : (i + p) - 1 \in p..q /\ (i + p) - 1 \in 1..Len(events)
  BY <1>1, <1>2
<1>6. \A i \in p..q : at[p] <= at[i] /\ at[i] <= n /\ at[i] \in Nat
  <2> SUFFICES ASSUME NEW i \in p..q PROVE at[p] <= at[i] /\ at[i] <= n /\ at[i] \in Nat
    OBVIOUS
  <2>1. i \in 1..Len(events) /\ at[i] \in 1..Len(all) /\ at[i] \in Nat
    BY <1>1, <1>2
  <2>2. at[p] <= at[i]
    <3>1. CASE p < i
      <4>1. at[p] < at[i]
        BY <1>1, <1>2, <2>1, <3>1
      <4> QED BY <1>2, <2>1, <4>1
    <3>2. CASE p = i
      BY <1>2, <3>2
    <3> QED BY <1>1, <2>1, <3>1, <3>2
  <2>3. at[i] <= n
    <3>1. CASE n = Len(all)
      BY <1>1, <2>1, <3>1
    <3>2. CASE q < Len(events) /\ n = at[q + 1] - 1
      <4>1. q + 1 \in 1..Len(events) /\ i < q + 1
        BY <1>1, <2>1, <3>2
      <4>2. at[i] < at[q + 1] /\ at[q + 1] \in 1..Len(all)
        BY <1>1, <2>1, <4>1
      <4> QED BY <1>1, <2>1, <3>2, <4>2
    <3> QED BY <3>1, <3>2
  <2> QED BY <2>1, <2>2, <2>3
<1>7. \A i \in 1..l : to[i] = (at[(i + p) - 1] - at[p]) + 1
  OBVIOUS
<1>8. to \in [1..l -> 1..m]
  <2>1. ASSUME NEW i \in 1..l PROVE (at[(i + p) - 1] - at[p]) + 1 \in 1..m
    <3> DEFINE a == at[(i + p) - 1]
    <3>1. at[p] <= a /\ a <= n /\ a \in Nat
      BY <1>5, <1>6
    <3> HIDE DEF a
    <3>2. (a - at[p]) + 1 \in 1..((n - at[p]) + 1)
      BY <1>2, <3>1
    <3> QED BY <3>2 DEF a
  <2> QED BY <2>1
<1> HIDE DEF to, whole, part, l, m
<1>9. ASSUME NEW i \in 1..l, NEW j \in 1..l, i < j PROVE to[i] < to[j]
  <2> DEFINE a == at[(i + p) - 1]
             b == at[(j + p) - 1]
  <2>1. (i + p) - 1 < (j + p) - 1
    BY <1>1, <1>9
  <2>2. a < b /\ a \in Nat /\ b \in Nat
    BY <1>1, <1>5, <1>6, <2>1
  <2>3. to[i] = (a - at[p]) + 1 /\ to[j] = (b - at[p]) + 1
    BY <1>7
  <2> HIDE DEF a, b
  <2> QED BY <1>2, <2>2, <2>3
<1>10. ASSUME NEW i \in 1..l PROVE part[i] = whole[to[i]]
  <2> DEFINE a == at[(i + p) - 1]
  <2>1. to[i] \in 1..m /\ to[i] = (a - at[p]) + 1 /\ a \in Nat /\ part[i] = all[a]
    BY <1>1, <1>3, <1>5, <1>6, <1>7, <1>8
  <2> HIDE DEF a
  <2>2. (to[i] + at[p]) - 1 = a
    BY <1>2, <2>1
  <2> QED BY <1>4, <2>1, <2>2
<1>11. ASSUME NEW j \in 1..m, \A i \in 1..l : to[i] # j
       PROVE  j < m /\ Absorbs(whole[j], whole[j + 1])
  <2> DEFINE k == (j + at[p]) - 1
  <2>1. k \in Nat /\ at[p] <= k /\ k <= n /\ k \in 1..Len(all) /\ whole[j] = all[k]
    <3> DEFINE b == at[p]
    <3>1. b \in 1..Len(all) /\ b <= n /\ n <= Len(all) /\ j \in 1..((n - b) + 1)
      BY <1>2, <1>11 DEF m
    <3>2. whole[j] = all[(j + b) - 1]
      BY <1>4
    <3> HIDE DEF b
    <3>3. (j + b) - 1 \in Nat /\ b <= (j + b) - 1 /\ (j + b) - 1 <= n /\ (j + b) - 1 \in 1..Len(all)
      BY ONLY <1>1, <3>1, n \in Nat
    <3> QED BY <3>2, <3>3 DEF b
  <2>2. ASSUME NEW i \in 1..Len(events), at[i] = k PROVE FALSE
    <3>1. i >= p
      <4>1. i < p => at[i] < at[p]
        BY <1>1, <1>2
      <4> QED BY <1>1, <1>2, <2>1, <2>2, <4>1
    <3>2. i <= q
      <4> SUFFICES ASSUME q < i PROVE FALSE
        BY <1>1, <1>2
      <4>1. q < Len(events) /\ n = at[q + 1] - 1 /\ q + 1 \in 1..Len(events)
        BY <1>1, <1>2
      <4>2. at[q + 1] <= at[i]
        <5>1. CASE q + 1 = i
          BY <1>1, <5>1
        <5>2. CASE q + 1 < i
          BY <1>1, <4>1, <5>2
        <5> QED BY <1>1, <5>1, <5>2
      <4>3. at[q + 1] \in Nat /\ at[i] \in Nat
        BY <1>1, <4>1
      <4> QED BY <2>1, <2>2, <4>1, <4>2, <4>3
    <3>3. (i - p) + 1 \in 1..l /\ (((i - p) + 1) + p) - 1 = i
      BY <1>1, <1>2, <3>1, <3>2 DEF l
    <3>4. to[(i - p) + 1] = (at[i] - at[p]) + 1
      BY <1>7, <3>3
    <3>5. (k - at[p]) + 1 = j
      BY <1>2, <1>4
    <3> QED BY <1>11, <2>2, <3>3, <3>4, <3>5
  <2>3. k < Len(all) /\ Absorbs(all[k], all[k + 1])
    BY <2>1, <2>2 DEF Places
  <2>4. k # n
    <3> SUFFICES ASSUME k = n PROVE FALSE
      OBVIOUS
    <3>1. q < Len(events) /\ n = at[q + 1] - 1 /\ events[q + 1].type \notin TextTypes /\ q + 1 \in 1..Len(events)
      BY <1>1, <1>2, <2>3
    <3>2. at[q + 1] = k + 1
      BY <1>1, <2>1, <3>1
    <3>3. all[k + 1].type \notin TextTypes
      BY <1>1, <3>1, <3>2
    <3> QED BY <2>3, <3>3, AbsorbedIsText
  <2>5. j < m /\ j + 1 \in 1..m /\ ((j + 1) + at[p]) - 1 = k + 1
    <3> DEFINE b == at[p]
    <3>1. b \in Nat /\ j \in 1..((n - b) + 1) /\ (j + b) - 1 # n
      BY <1>2, <1>11, <2>4 DEF m
    <3> HIDE DEF b
    <3>2. /\ j < (n - b) + 1 /\ j + 1 \in 1..((n - b) + 1)
          /\ ((j + 1) + b) - 1 = ((j + b) - 1) + 1
      BY ONLY <3>1, n \in Nat
    <3> QED BY <3>2 DEF b, m
  <2> QED BY <1>4, <2>1, <2>3, <2>5
<1>12. Places(whole, part, to)
  BY <1>3, <1>4, <1>8, <1>9, <1>10, <1>11 DEF Places
<1> QED BY <1>3, <1>4, <1>12 DEF Compacts, whole, part

\* A turn without events has none.
LEMMA NothingOfTurn ==
  ASSUME NEW events \in Seq(SessionEvent), NEW t, \A i \in 1..Len(events) : events[i].turn # t
  PROVE  OfTurn(events, t) = <<>>
<1> DEFINE l == Len(events)
           Owned(h) == h = [i \in 0..l |-> IF i = 0 THEN <<>>
                                           ELSE IF events[i].turn = t THEN Append(h[i - 1], events[i])
                                           ELSE h[i - 1]]
           none == [i \in 0..l |-> <<>>]
<1>1. l \in Nat
  OBVIOUS
<1>2. Owned(none)
  <2>1. \A i \in 0..l : i # 0 => i \in 1..l /\ i - 1 \in 0..l
    BY <1>1
  <2> QED BY <2>1
<1>3. PICK h : h = CHOOSE g : Owned(g)
  OBVIOUS
<1>4. Owned(h)
  BY <1>2, <1>3
<1>5. OfTurn(events, t) = h[l]
  BY <1>3 DEF OfTurn
<1>6. h[0] = <<>> /\ \A i \in 1..l : h[i] = h[i - 1]
  <2>1. \A i \in 1..l : i # 0 /\ i \in 0..l
    BY <1>1
  <2>2. \A i \in 0..l : h[i] = IF i = 0 THEN <<>> ELSE IF events[i].turn = t THEN Append(h[i - 1], events[i])
                                                 ELSE h[i - 1]
    BY <1>4
  <2> QED BY <1>1, <2>1, <2>2
<1> HIDE DEF Owned, none
<1>7. \A n \in 0..l : h[n] = <<>>
  <2> DEFINE wrong == {n \in 0..l : h[n] # <<>>}
  <2> SUFFICES ASSUME wrong # {} PROVE FALSE
    OBVIOUS
  <2>1. wrong \in SUBSET Nat
    BY <1>1
  <2>2. PICK n \in wrong : \A m \in wrong : n <= m
    <3> HIDE DEF wrong
    <3> QED BY <2>1, LeastOfNumbers
  <2>3. n \in 1..l /\ n - 1 \in 0..l /\ n - 1 < n
    BY <1>1, <1>6, <2>2
  <2> QED BY <1>6, <2>2, <2>3
<1> QED BY <1>1, <1>5, <1>7

\* A turn that started, or of which there is no event.
OwnedOrNone(events, t) ==
  \/ \E p \in 1..Len(events) : events[p].type = "turn.started" /\ events[p].turn = t
  \/ \A i \in 1..Len(events) : events[i].turn # t

\* The events of a turn are those of the stream, compacted.
LEMMA OwnIsCompacted ==
  ASSUME NEW all, NEW events, Compacts(all, events), NEW t, OwnedOrNone(events, t)
  PROVE  Compacts(EventsForRootTurn(all, t), EventsForRootTurn(events, t))
<1> DEFINE here == {e \in SessionEvent : e.type = "turn.started" /\ e.turn = t}
           any == {e \in SessionEvent : e.type \in {"turn.started"}}
<1>1. PICK at : Places(all, events, at)
  BY DEF Compacts
<1>2. /\ all \in Seq(SessionEvent) /\ events \in Seq(SessionEvent) /\ Len(all) \in Nat /\ Len(events) \in Nat
      /\ PlaceAt(at, 0) = 0
  BY DEF Compacts, PlaceAt
<1>3. Solid(any) /\ Solid(here)
  <2>1. \A k \in TextKinds : Appended[k] # "turn.started"
    BY DEF TextKinds, Appended
  <2>2. here \in SUBSET any
    OBVIOUS
  <2> QED BY <2>1, <2>2, FactsAreSolid, PartIsSolid
<1> DEFINE s == Earliest(After(events, here, 0))
           b == Earliest(After(all, here, 0))
<1>4. ASSUME NEW list \in Seq(SessionEvent)
      PROVE  {i \in Indexes(list, {"turn.started"}) : list[i].turn = t} = After(list, here, 0)
  BY <1>4, IndexesAreAfter DEF After
<1>5. ASSUME NEW list \in Seq(SessionEvent), NEW c \in Nat
      PROVE  {i \in Indexes(list, {"turn.started"}) : i > c} = After(list, any, c)
  <2>1. \A i \in 1..Len(list) : (0 < i) /\ (i > c <=> c < i)
    OBVIOUS
  <2> QED BY <2>1, IndexesAreAfter DEF After
<1>6. /\ After(all, here, 0) = {} <=> After(events, here, 0) = {}
      /\ s \in 0..Len(events) /\ b = PlaceAt(at, s) /\ (b = 0 <=> s = 0)
      /\ After(events, here, 0) = {} <=> s = 0
      /\ b # 0 => b \in 1..Len(all) /\ s \in 1..Len(events)
  <2> HIDE DEF here
  <2> QED BY <1>1, <1>2, <1>3, EarliestIsSame
<1>60. b \in Nat /\ s \in Nat
  BY <1>2, <1>6
<1> DEFINE next == Earliest(After(events, any, s))
           after == Earliest(After(all, any, b))
<1>7. /\ EventsForRootTurn(events, t) =
           IF s = 0 THEN OfTurn(events, t)
           ELSE SubSeq(events, s, IF next = 0 THEN Len(events) ELSE next - 1)
      /\ EventsForRootTurn(all, t) =
           IF b = 0 THEN OfTurn(all, t)
           ELSE SubSeq(all, b, IF after = 0 THEN Len(all) ELSE after - 1)
  BY <1>2, <1>4, <1>5, <1>60 DEF EventsForRootTurn
<1>8. CASE s = 0
  <2>1. \A i \in 1..Len(events) : events[i].turn # t
    <3>1. \A p \in 1..Len(events) : ~(events[p].type = "turn.started" /\ events[p].turn = t)
      <4>1. \A p \in 1..Len(events) : events[p] \in SessionEvent /\ 0 < p
        BY <1>2
      <4>2. After(events, here, 0) = {}
        BY <1>6, <1>8
      <4> QED BY <4>1, <4>2 DEF After
    <3> QED BY <3>1 DEF OwnedOrNone
  <2>2. \A j \in 1..Len(all) : all[j].turn # t
    <3> DEFINE E == {e \in SessionEvent : e.turn = t}
    <3>1. Lasting(E)
      BY DEF Lasting, Absorbs
    <3>2. ~ \E e \in ToSet(events) : e \in E
      BY <1>2, <2>1 DEF ToSet
    <3>3. ~ \E e \in ToSet(all) : e \in E
      <4> HIDE DEF E
      <4> QED BY <3>1, <3>2, SortIsKept
    <3>4. \A j \in 1..Len(all) : all[j] \in ToSet(all) /\ all[j] \in SessionEvent
      BY <1>2 DEF ToSet
    <3> QED BY <3>3, <3>4
  <2>3. EventsForRootTurn(events, t) = <<>> /\ EventsForRootTurn(all, t) = <<>>
    BY <1>2, <1>6, <1>7, <1>8, <2>1, <2>2, NothingOfTurn
  <2>4. Places(<<>>, <<>>, [i \in 1..0 |-> 1]) /\ <<>> \in Seq(SessionEvent)
    BY DEF Places
  <2> QED BY <2>3, <2>4 DEF Compacts
<1>9. CASE s # 0
  <2>1. s \in 1..Len(events) /\ b = at[s] /\ b # 0 /\ s \in 0..Len(events) /\ b \in 1..Len(all)
    BY <1>6, <1>9 DEF PlaceAt
  <2>2. /\ after = PlaceAt(at, next)
        /\ After(events, any, s) = {} <=> After(all, any, b) = {}
        /\ After(events, any, s) # {} => next \in After(events, any, s)
    <3> HIDE DEF s, b, any
    <3>1. b = PlaceAt(at, s)
      BY <1>6
    <3> QED BY <1>1, <1>2, <1>3, <2>1, <3>1, EarliestIsKept
  <2> HIDE DEF s, b
  <2>3. CASE After(events, any, s) = {}
    <3>1. next = 0 /\ after = 0
      BY <1>2, <2>2, <2>3 DEF Earliest, PlaceAt
    <3>2. Len(events) \in s..Len(events) /\ at[s] <= Len(all)
      BY <1>2, <2>1
    <3>3. Compacts(SubSeq(all, at[s], Len(all)), SubSeq(events, s, Len(events)))
      BY <1>1, <1>2, <2>1, <3>2, PartIsCompacted
    <3> QED BY <1>7, <1>9, <2>1, <3>1, <3>3
  <2>4. CASE After(events, any, s) # {}
    <3>1. next \in 1..Len(events) /\ s < next /\ events[next].type = "turn.started"
      BY <2>2, <2>4 DEF After
    <3> HIDE DEF next, after
    <3>2. after = at[next] /\ after \in 1..Len(all) /\ next # 0 /\ after # 0
      BY <1>1, <1>2, <2>2, <3>1 DEF PlaceAt, Places
    <3>3. next - 1 \in s..Len(events) /\ next - 1 < Len(events) /\ (next - 1) + 1 = next
      BY <1>2, <2>1, <3>1
    <3>4. at[s] < at[next]
      BY <1>1, <2>1, <3>1 DEF Places
    <3>5. after - 1 \in Nat /\ at[s] <= after - 1 /\ after - 1 <= Len(all)
      <4>1. at[s] \in 1..Len(all)
        BY <2>1
      <4> QED BY <1>2, <3>2, <3>4, <4>1
    <3>6. events[(next - 1) + 1].type \notin TextTypes /\ after - 1 = at[(next - 1) + 1] - 1
      BY <3>1, <3>2, <3>3 DEF TextTypes, TextKinds, Appended, Finished
    <3>7. Compacts(SubSeq(all, at[s], after - 1), SubSeq(events, s, next - 1))
      BY <1>1, <1>2, <2>1, <3>3, <3>5, <3>6, PartIsCompacted
    <3> QED BY <1>7, <1>9, <2>1, <3>2, <3>7
  <2> QED BY <2>3, <2>4
<1> QED BY <1>8, <1>9

\* The lists of a compaction and their events.
LEMMA CompactedLists ==
  ASSUME NEW all, NEW events, Compacts(all, events)
  PROVE  /\ all \in Seq(SessionEvent) /\ events \in Seq(SessionEvent)
         /\ \A e \in ToSet(all) : e \in SessionEvent
         /\ \A e \in ToSet(events) : e \in SessionEvent
BY DEF Compacts, ToSet

\* The questions asked in a list.
LEMMA AskedIsSame == ASSUME NEW all, NEW events, Compacts(all, events) PROVE AskedIn(all) = AskedIn(events)
<1> DEFINE E(r) == {e \in SessionEvent : e.type \in {"input.requested"} /\ e.id = r}
<1>1. ASSUME NEW r PROVE Lasting(E(r))
  <2>1. \A k \in TextKinds : Appended[k] \notin {"input.requested"}
    BY DEF TextKinds, Appended
  <2>2. E(r) \in SUBSET {e \in SessionEvent : e.type \in {"input.requested"}}
    OBVIOUS
  <2> QED BY <2>1, <2>2, FactsAreSolid, PartIsSolid, SolidIsLasting
<1>2. ASSUME NEW list \in Seq(SessionEvent), NEW r
      PROVE  r \in AskedIn(list) <=> \E e \in ToSet(list) : e \in E(r)
  BY DEF AskedIn, Indexes, ToSet
<1> HIDE DEF E
<1>3. ASSUME NEW r PROVE r \in AskedIn(all) <=> r \in AskedIn(events)
  <2>1. (\E e \in ToSet(all) : e \in E(r)) <=> (\E e \in ToSet(events) : e \in E(r))
    BY <1>1, SortIsKept
  <2> QED BY <1>2, <2>1, CompactedLists
<1> QED BY <1>3

\* The steps of a turn that have text.
LEMMA TextStepsAreSame ==
  ASSUME NEW all, NEW events, Compacts(all, events), NEW t
  PROVE  TextSteps(all, t) = TextSteps(events, t)
<1> DEFINE E(s) == {e \in SessionEvent : e.turn = t /\ e.step = s
                                           /\ e.type \in {Appended["message"], Finished["message"]}}
<1>1. ASSUME NEW s PROVE Lasting(E(s))
  BY DEF Lasting, Absorbs, Appended, Finished, TextKinds
<1>2. ASSUME NEW list \in Seq(SessionEvent), NEW s
      PROVE  s \in TextSteps(list, t) <=> \E e \in ToSet(list) : e \in E(s)
  BY DEF TextSteps, ToSet
<1> HIDE DEF E
<1>3. ASSUME NEW s PROVE s \in TextSteps(all, t) <=> s \in TextSteps(events, t)
  <2>1. (\E e \in ToSet(all) : e \in E(s)) <=> (\E e \in ToSet(events) : e \in E(s))
    BY <1>1, SortIsKept
  <2> QED BY <1>2, <2>1, CompactedLists
<1> QED BY <1>3 DEF TextSteps

\* The tools and questions of a message.
LEMMA ToolPartsAreSame ==
  ASSUME NEW all, NEW events, Compacts(all, events), NEW t
  PROVE  ToolParts(all, t) = ToolParts(events, t) /\ ApprovalParts(all, t) = ApprovalParts(events, t)
<1> DEFINE E(s) == {e \in SessionEvent : e.turn = t /\ e.id = s /\ e.type \in {"actions.requested", "input.requested"}}
<1>1. ASSUME NEW s PROVE Lasting(E(s))
  BY DEF Lasting, Absorbs, Appended, Finished, TextKinds
<1>2. ASSUME NEW list \in Seq(SessionEvent), NEW s
      PROVE  s \in ToolParts(list, t) <=> \E e \in ToSet(list) : e \in E(s)
  BY DEF ToolParts, ToSet
<1> HIDE DEF E
<1>3. ASSUME NEW s PROVE s \in ToolParts(all, t) <=> s \in ToolParts(events, t)
  <2>1. (\E e \in ToSet(all) : e \in E(s)) <=> (\E e \in ToSet(events) : e \in E(s))
    BY <1>1, SortIsKept
  <2> QED BY <1>2, <2>1, CompactedLists
<1>4. ToolParts(all, t) = ToolParts(events, t)
  BY <1>3 DEF ToolParts
<1> QED BY <1>4 DEF ApprovalParts

\* The turns that have a message.
LEMMA MessagesAreSame ==
  ASSUME NEW all, NEW events, Compacts(all, events)
  PROVE  AssistantMessages(all) = AssistantMessages(events)
<1> DEFINE E(s) == {e \in SessionEvent : e.turn = s /\ e.type \in TextTypes \cup {"actions.requested", "input.requested"}}
<1>1. ASSUME NEW s PROVE Lasting(E(s))
  BY DEF Lasting, Absorbs, TextTypes
<1>2. ASSUME NEW list \in Seq(SessionEvent), NEW s
      PROVE  s \in AssistantMessages(list) <=> \E e \in ToSet(list) : e \in E(s)
  BY DEF AssistantMessages, ToSet
<1> HIDE DEF E
<1>3. ASSUME NEW s PROVE s \in AssistantMessages(all) <=> s \in AssistantMessages(events)
  <2>1. (\E e \in ToSet(all) : e \in E(s)) <=> (\E e \in ToSet(events) : e \in E(s))
    BY <1>1, SortIsKept
  <2> QED BY <1>2, <2>1, CompactedLists
<1> QED BY <1>3 DEF AssistantMessages

\* The questions of a turn that wait for an answer.
LEMMA PendingIsSame ==
  ASSUME NEW all, NEW events, Compacts(all, events), NEW t, OwnedOrNone(events, t)
  PROVE  /\ PendingRequests(all, t) = PendingRequests(events, t)
         /\ ProxiedInput(all, t) = ProxiedInput(events, t)
BY OwnIsCompacted, AskedIsSame, UnresolvedIsSame, ToolPartsAreSame DEF PendingRequests, ProxiedInput

\* Whether a turn has tools.
LEMMA ToolsAreSame ==
  ASSUME NEW all, NEW events, Compacts(all, events), NEW t, OwnedOrNone(events, t)
  PROVE  HasTools(all, t) <=> HasTools(events, t)
<1> DEFINE E == {e \in SessionEvent : e.type \in {"actions.requested"}}
           whole == EventsForRootTurn(all, t)
           own == EventsForRootTurn(events, t)
<1>1. Lasting(E)
  <2>1. \A k \in TextKinds : Appended[k] \notin {"actions.requested"}
    BY DEF TextKinds, Appended
  <2> QED BY <2>1, FactsAreSolid, SolidIsLasting
<1>2. Compacts(whole, own)
  BY OwnIsCompacted
<1>3. Indexes(whole, {"actions.requested"}) = After(whole, E, 0) /\ Indexes(own, {"actions.requested"}) = After(own, E, 0)
  <2> HIDE DEF whole, own
  <2> QED BY <1>2, CompactedLists, IndexesAreAfter
<1>4. After(whole, E, 0) = {} <=> After(own, E, 0) = {}
  <2> HIDE DEF whole, own, E
  <2> QED BY <1>1, <1>2, LatestIsSame
<1> QED BY <1>3, <1>4, PendingIsSame, ToolPartsAreSame DEF HasTools

\* How a turn ended.
LEMMA TurnStatusIsSame ==
  ASSUME NEW all, NEW events, Compacts(all, events), NEW t, OwnedOrNone(events, t)
  PROVE  TurnStatus(all, t) = TurnStatus(events, t)
<1> DEFINE E == {e \in SessionEvent : e.type \in TurnEnds}
           whole == EventsForRootTurn(all, t)
           own == EventsForRootTurn(events, t)
<1>1. Lasting(E)
  <2>1. \A k \in TextKinds : Appended[k] \notin TurnEnds
    BY DEF TextKinds, Appended, TurnEnds
  <2> QED BY <2>1, FactsAreSolid, SolidIsLasting
<1>2. Compacts(whole, own)
  BY OwnIsCompacted
<1>3. Indexes(whole, TurnEnds) = After(whole, E, 0) /\ Indexes(own, TurnEnds) = After(own, E, 0)
  <2> HIDE DEF whole, own
  <2> QED BY <1>2, CompactedLists, IndexesAreAfter
<1> DEFINE m == Latest(After(whole, E, 0))
           n == Latest(After(own, E, 0))
<1>4. (m = 0 <=> n = 0) /\ (m # 0 => whole[m] = own[n])
  <2> HIDE DEF whole, own, E
  <2> QED BY <1>1, <1>2, LatestIsSame
<1>5. /\ TurnStatus(all, t) = CASE PendingRequests(all, t) # {} -> "waiting"
                                [] PendingRequests(all, t) = {} /\ m = 0 -> "running"
                                [] OTHER -> whole[m].type
      /\ TurnStatus(events, t) = CASE PendingRequests(events, t) # {} -> "waiting"
                                [] PendingRequests(events, t) = {} /\ n = 0 -> "running"
                                [] OTHER -> own[n].type
  BY <1>3 DEF TurnStatus
<1> HIDE DEF m, n, whole, own
<1>6. PendingRequests(all, t) = PendingRequests(events, t)
  BY PendingIsSame
<1> QED BY <1>4, <1>5, <1>6

\* The steps of the events of a sort.
StepsOf(events, types) == {events[i].step : i \in Indexes(events, types)}

\* They are the same when no text in progress is of the sort.
LEMMA StepsAreSame ==
  ASSUME NEW all, NEW events, Compacts(all, events), NEW types, \A k \in TextKinds : Appended[k] \notin types
  PROVE  StepsOf(all, types) = StepsOf(events, types)
<1> DEFINE E(s) == {e \in SessionEvent : e.type \in types /\ e.step = s}
<1>1. ASSUME NEW s PROVE Lasting(E(s))
  <2>1. E(s) \in SUBSET {e \in SessionEvent : e.type \in types}
    OBVIOUS
  <2> QED BY <2>1, FactsAreSolid, PartIsSolid, SolidIsLasting
<1>2. ASSUME NEW list \in Seq(SessionEvent), NEW s
      PROVE  s \in StepsOf(list, types) <=> \E e \in ToSet(list) : e \in E(s)
  BY DEF StepsOf, Indexes, ToSet
<1> HIDE DEF E
<1>3. ASSUME NEW s PROVE s \in StepsOf(all, types) <=> s \in StepsOf(events, types)
  <2>1. (\E e \in ToSet(all) : e \in E(s)) <=> (\E e \in ToSet(events) : e \in E(s))
    BY <1>1, SortIsKept
  <2> QED BY <1>2, <2>1, CompactedLists
<1> QED BY <1>3 DEF StepsOf

\* The step that delivers the answer of a turn.
LEMMA DeliveryIsSame ==
  ASSUME NEW all, NEW events, Compacts(all, events), NEW t, OwnedOrNone(events, t)
  PROVE  FinalDelivery(all, t) = FinalDelivery(events, t)
<1> DEFINE E == {e \in SessionEvent : e.type = Finished["message"] /\ e.size > 0 /\ e.final}
           whole == EventsForRootTurn(all, t)
           own == EventsForRootTurn(events, t)
<1>1. Lasting(E)
  BY DEF Lasting, Absorbs, TextKinds, Appended, Finished
<1>2. Compacts(whole, own)
  BY OwnIsCompacted
<1>3. ASSUME NEW list \in Seq(SessionEvent)
      PROVE  {i \in Indexes(list, {Finished["message"]}) : list[i].size > 0 /\ list[i].final} = After(list, E, 0)
  <2>1. \A i \in 1..Len(list) : list[i] \in SessionEvent /\ 0 < i
    OBVIOUS
  <2> QED BY <2>1 DEF Indexes, After
<1> DEFINE m == Latest(After(whole, E, 0))
           n == Latest(After(own, E, 0))
<1>4. (m = 0 <=> n = 0) /\ (m # 0 => whole[m] = own[n]) /\ m \in Nat /\ n \in Nat
  <2> HIDE DEF whole, own, E
  <2> QED BY <1>1, <1>2, LatestIsSame
<1>5. /\ StepsOf(whole, {"actions.requested"}) = StepsOf(own, {"actions.requested"})
      /\ whole \in Seq(SessionEvent) /\ own \in Seq(SessionEvent)
  <2>1. \A k \in TextKinds : Appended[k] \notin {"actions.requested"}
    BY DEF TextKinds, Appended
  <2> HIDE DEF whole, own
  <2> QED BY <1>2, <2>1, StepsAreSame, CompactedLists
<1> DEFINE acted == StepsOf(own, {"actions.requested"})
           texts == TextSteps(events, t)
           waits == {s \in texts : s = Max(texts) /\ \A a \in acted : s > a}
<1>6. TextSteps(all, t) = texts /\ TurnStatus(all, t) = TurnStatus(events, t)
  BY TextStepsAreSame, TurnStatusIsSame
<1>7. /\ FinalDelivery(all, t) = IF m > 0 THEN {whole[m].step}
                                 ELSE IF TurnStatus(events, t) = "running" THEN waits ELSE {}
      /\ FinalDelivery(events, t) = IF n > 0 THEN {own[n].step}
                                    ELSE IF TurnStatus(events, t) = "running" THEN waits ELSE {}
  <2>1. /\ {i \in Indexes(whole, {Finished["message"]}) : whole[i].size > 0 /\ whole[i].final} = After(whole, E, 0)
        /\ {i \in Indexes(own, {Finished["message"]}) : own[i].size > 0 /\ own[i].final} = After(own, E, 0)
    BY <1>3, <1>5
  <2>2. {whole[i].step : i \in Indexes(whole, {"actions.requested"})} = acted
    BY <1>5 DEF StepsOf
  <2>3. {own[i].step : i \in Indexes(own, {"actions.requested"})} = acted
    BY DEF StepsOf
  <2>4. FinalDelivery(all, t) = IF m > 0 THEN {whole[m].step}
                                ELSE IF TurnStatus(events, t) = "running" THEN waits ELSE {}
    BY <1>6, <2>1, <2>2 DEF FinalDelivery
  <2>5. FinalDelivery(events, t) = IF n > 0 THEN {own[n].step}
                                   ELSE IF TurnStatus(events, t) = "running" THEN waits ELSE {}
    BY <2>1, <2>3 DEF FinalDelivery
  <2> QED BY <2>4, <2>5
<1> HIDE DEF m, n, whole, own, waits
<1>8. m > 0 <=> n > 0
  BY <1>4
<1>9. m > 0 => whole[m].step = own[n].step
  BY <1>4
<1> QED BY <1>7, <1>8, <1>9

\* What the transcript says of a turn.
LEMMA TurnIsSame ==
  ASSUME NEW all, NEW events, Compacts(all, events), NEW t, OwnedOrNone(events, t)
  PROVE  PresentAgentTurn(all, t) = PresentAgentTurn(events, t)
BY ToolsAreSame, TurnStatusIsSame, DeliveryIsSame, PendingIsSame DEF PresentAgentTurn

\* Whether an answer was delivered after the turn.
LEMMA LaterIsSame ==
  ASSUME NEW all, NEW events, Compacts(all, events), NEW t
  PROVE  HasLaterFinalDelivery(all, t) <=> HasLaterFinalDelivery(events, t)
<1> DEFINE ends == {e \in SessionEvent : e.type \in TurnEnds /\ e.turn = t}
           E == {e \in SessionEvent : e.type = Finished["message"] /\ e.final /\ e.size > 0}
<1>1. PICK at : Places(all, events, at)
  BY DEF Compacts
<1>2. all \in Seq(SessionEvent) /\ events \in Seq(SessionEvent) /\ Len(all) \in Nat /\ Len(events) \in Nat
  BY DEF Compacts
<1>3. Lasting(E) /\ Solid(ends)
  BY DEF Lasting, Solid, Absorbs, TextKinds, Appended, Finished, TurnEnds
<1>4. ASSUME NEW list \in Seq(SessionEvent), NEW c \in Nat
      PROVE  /\ {i \in Indexes(list, TurnEnds) : list[i].turn = t} = After(list, ends, 0)
             /\ (\E i \in Indexes(list, {Finished["message"]}) : i > c /\ list[i].final /\ list[i].size > 0)
                  <=> After(list, E, c) # {}
  <2>1. \A i \in 1..Len(list) : list[i] \in SessionEvent /\ 0 < i /\ (i > c <=> c < i)
    OBVIOUS
  <2> QED BY <2>1 DEF Indexes, After
<1> DEFINE m == Earliest(After(all, ends, 0))
           n == Earliest(After(events, ends, 0))
<1>5. n \in 0..Len(events) /\ m = PlaceAt(at, n) /\ (m = 0 <=> n = 0) /\ m \in Nat
  <2> HIDE DEF ends
  <2>1. n \in 0..Len(events) /\ m = PlaceAt(at, n) /\ (m = 0 <=> n = 0)
    BY <1>1, <1>2, <1>3, EarliestIsSame
  <2>2. PlaceAt(at, n) \in 0..Len(all)
    BY <1>1, <1>2, <2>1, PlacesAreOrdered
  <2> QED BY <1>2, <2>1, <2>2
<1>6. /\ HasLaterFinalDelivery(all, t) <=> m > 0 /\ After(all, E, m) # {}
      /\ HasLaterFinalDelivery(events, t) <=> n > 0 /\ After(events, E, n) # {}
  <2> DEFINE Later(list, c) == \E i \in Indexes(list, {Finished["message"]}) : i > c /\ list[i].final /\ list[i].size > 0
  <2>1. /\ HasLaterFinalDelivery(all, t) <=> m > 0 /\ Later(all, m)
        /\ HasLaterFinalDelivery(events, t) <=> n > 0 /\ Later(events, n)
    BY <1>2, <1>4 DEF HasLaterFinalDelivery
  <2>2. n \in Nat /\ m \in Nat
    BY <1>2, <1>5
  <2> HIDE DEF m, n
  <2>3. (Later(all, m) <=> After(all, E, m) # {}) /\ (Later(events, n) <=> After(events, E, n) # {})
    BY <1>2, <1>4, <2>2
  <2> QED BY <2>1, <2>3
<1> HIDE DEF m, n, E, ends
<1>7. After(events, E, n) = {} <=> After(all, E, m) = {}
  BY <1>1, <1>2, <1>3, <1>5, LatestIsKept
<1>8. m > 0 <=> n > 0
  BY <1>2, <1>5
<1> QED BY <1>6, <1>7, <1>8

\* Whether the execution group of a turn folds.
LEMMA FoldsAreSame ==
  ASSUME NEW all, NEW events, Compacts(all, events), NEW t, OwnedOrNone(events, t)
  PROVE  Folds(all, t) <=> Folds(events, t)
BY TurnIsSame, DeliveryIsSame, LaterIsSame DEF Folds

\* What the transcript and the menu say of a sub-agent's call.
LEMMA CallIsSame ==
  ASSUME NEW all, NEW events, Compacts(all, events), NEW c
  PROVE  /\ PresentSubagentCall(all, c) = PresentSubagentCall(events, c)
         /\ (\E e \in ToSet(all) : e.type = "subagent.called" /\ e.id = c) <=>
              (\E e \in ToSet(events) : e.type = "subagent.called" /\ e.id = c)
<1> DEFINE Sort(types) == {e \in SessionEvent : e.type \in types /\ e.id = c}
           Ended(t) == {e \in SessionEvent : e.type \in {"turn.cancelled"} /\ e.turn = t}
           over == {e \in SessionEvent : e.type \in SessionEnds}
<1>1. PICK at : Places(all, events, at)
  BY DEF Compacts
<1>2. all \in Seq(SessionEvent) /\ events \in Seq(SessionEvent) /\ Len(all) \in Nat /\ Len(events) \in Nat
  BY DEF Compacts
<1>3. /\ Solid(Sort({"subagent.called"})) /\ Lasting(Sort({"subagent.called"}))
      /\ Lasting(Sort({"action.result"})) /\ Lasting(Sort({"subagent.completed", "action.result"}))
      /\ Lasting(over) /\ \A t : Lasting(Ended(t))
  BY DEF Lasting, Solid, Absorbs, TextKinds, Appended, Finished, SessionEnds
<1>4. ASSUME NEW list \in Seq(SessionEvent)
      PROVE  /\ \A types : {i \in Indexes(list, types) : list[i].id = c} = After(list, Sort(types), 0)
             /\ \A t : (\E i \in Indexes(list, {"turn.cancelled"}) : list[i].turn = t) <=> After(list, Ended(t), 0) # {}
             /\ Indexes(list, SessionEnds) = After(list, over, 0)
             /\ (\E e \in ToSet(list) : e.type = "subagent.called" /\ e.id = c)
                  <=> After(list, Sort({"subagent.called"}), 0) # {}
  <2>1. \A i \in 1..Len(list) : list[i] \in SessionEvent /\ 0 < i
    OBVIOUS
  <2> QED BY <2>1 DEF Indexes, After, ToSet
<1> DEFINE Status(list, called, result, finished, stopped, ended) ==
             CASE result > 0 /\ list[result].size = 0 -> "failed"
               [] finished # {} /\ ~(result > 0 /\ list[result].size = 0) -> "completed"
               [] finished = {} ->
                    IF called > 0 /\ stopped THEN "cancelled"
                    ELSE IF ended # {} THEN "failed"
                    ELSE IF called = 0 THEN "starting" ELSE "running"
           CallAt(list) == Earliest(After(list, Sort({"subagent.called"}), 0))
           Result(list) == Latest(After(list, Sort({"action.result"}), 0))
           Done(list) == After(list, Sort({"subagent.completed", "action.result"}), 0)
           Stopped(list) == After(list, Ended(list[CallAt(list)].turn), 0) # {}
<1>5. ASSUME NEW list \in Seq(SessionEvent)
      PROVE  PresentSubagentCall(list, c) =
               Status(list, CallAt(list), Result(list), Done(list), Stopped(list), After(list, over, 0))
  <2>1. /\ {i \in Indexes(list, {"subagent.called"}) : list[i].id = c} = After(list, Sort({"subagent.called"}), 0)
        /\ {i \in Indexes(list, {"action.result"}) : list[i].id = c} = After(list, Sort({"action.result"}), 0)
        /\ {i \in Indexes(list, {"subagent.completed", "action.result"}) : list[i].id = c} = Done(list)
        /\ Indexes(list, SessionEnds) = After(list, over, 0)
    BY <1>4
  <2>2. (\E i \in Indexes(list, {"turn.cancelled"}) : list[i].turn = list[CallAt(list)].turn) <=> Stopped(list)
    BY <1>4
  <2> QED BY <2>1, <2>2 DEF PresentSubagentCall
<1>6. /\ (CallAt(all) = 0 <=> CallAt(events) = 0) /\ (CallAt(all) # 0 => all[CallAt(all)] = events[CallAt(events)])
      /\ CallAt(all) \in Nat /\ CallAt(events) \in Nat
  <2> DEFINE E == Sort({"subagent.called"})
  <2>1. Solid(E)
    BY <1>3
  <2> HIDE DEF E
  <2> DEFINE m == Earliest(After(all, E, 0))
             n == Earliest(After(events, E, 0))
  <2>2. n \in 0..Len(events) /\ m = PlaceAt(at, n) /\ (m = 0 <=> n = 0) /\ (m # 0 => all[m] = events[n])
    BY <1>1, <1>2, <2>1, EarliestIsSame
  <2>3. PlaceAt(at, n) \in 0..Len(all)
    BY <1>1, <1>2, <2>2, PlacesAreOrdered
  <2>4. m \in Nat /\ n \in Nat
    BY <1>2, <2>2, <2>3
  <2> QED BY <2>2, <2>4 DEF E
<1>7. /\ (Result(all) = 0 <=> Result(events) = 0) /\ (Result(all) # 0 => all[Result(all)] = events[Result(events)])
      /\ Result(all) \in Nat /\ Result(events) \in Nat
  <2> DEFINE E == Sort({"action.result"})
  <2>1. Lasting(E)
    BY <1>3
  <2> HIDE DEF E
  <2>2. /\ Latest(After(all, E, 0)) = 0 <=> Latest(After(events, E, 0)) = 0
        /\ Latest(After(all, E, 0)) # 0 => all[Latest(After(all, E, 0))] = events[Latest(After(events, E, 0))]
        /\ Latest(After(all, E, 0)) \in Nat /\ Latest(After(events, E, 0)) \in Nat
    BY <2>1, LatestIsSame
  <2> QED BY <2>2 DEF E
<1>8. /\ Done(all) = {} <=> Done(events) = {}
      /\ After(all, Sort({"subagent.called"}), 0) = {} <=> After(events, Sort({"subagent.called"}), 0) = {}
      /\ After(all, over, 0) = {} <=> After(events, over, 0) = {}
      /\ \A t : After(all, Ended(t), 0) = {} <=> After(events, Ended(t), 0) = {}
  <2> HIDE DEF Sort, over, Ended
  <2> QED BY <1>3, LatestIsSame
<1>9. CallAt(all) # 0 => (Stopped(all) <=> Stopped(events))
  <2> SUFFICES ASSUME CallAt(all) # 0 PROVE Stopped(all) <=> Stopped(events)
    OBVIOUS
  <2> HIDE DEF CallAt, Ended
  <2>1. PICK t : t = all[CallAt(all)].turn
    OBVIOUS
  <2>2. t = events[CallAt(events)].turn
    BY <1>6, <2>1
  <2>3. After(all, Ended(t), 0) = {} <=> After(events, Ended(t), 0) = {}
    BY <1>8
  <2> QED BY <2>1, <2>2, <2>3
<1>10. /\ PresentSubagentCall(all, c) =
             Status(all, CallAt(all), Result(all), Done(all), Stopped(all), After(all, over, 0))
       /\ PresentSubagentCall(events, c) =
             Status(events, CallAt(events), Result(events), Done(events), Stopped(events), After(events, over, 0))
  <2> HIDE DEF Status, CallAt, Result, Done, Stopped, over
  <2> QED BY <1>2, <1>5
<1>11. /\ (\E e \in ToSet(all) : e.type = "subagent.called" /\ e.id = c)
            <=> After(all, Sort({"subagent.called"}), 0) # {}
       /\ (\E e \in ToSet(events) : e.type = "subagent.called" /\ e.id = c)
            <=> After(events, Sort({"subagent.called"}), 0) # {}
  BY <1>2, <1>4
<1> HIDE DEF CallAt, Result, Done, Stopped, over, Sort, Ended
<1>12. (CallAt(all) > 0 <=> CallAt(events) > 0) /\ (Result(all) > 0 <=> Result(events) > 0)
  BY <1>6, <1>7
<1>13. Status(all, CallAt(all), Result(all), Done(all), Stopped(all), After(all, over, 0)) =
         Status(events, CallAt(events), Result(events), Done(events), Stopped(events), After(events, over, 0))
  BY <1>6, <1>7, <1>8, <1>9, <1>12
<1> QED BY <1>8, <1>10, <1>11, <1>13

\* The menu of the sub-agents and their lines.
LEMMA AgentsAreSame ==
  ASSUME NEW all, NEW events, Compacts(all, events)
  PROVE  SubagentMenu(all) = SubagentMenu(events) /\ SubagentProgress(all) = SubagentProgress(events)
<1> DEFINE WasCalled(list, c) == \E e \in ToSet(list) : e.type = "subagent.called" /\ e.id = c
<1>1. \A c : /\ PresentSubagentCall(all, c) = PresentSubagentCall(events, c)
             /\ WasCalled(all, c) <=> WasCalled(events, c)
  BY CallIsSame
<1>2. {c \in Agents : WasCalled(all, c)} = {c \in Agents : WasCalled(events, c)}
  <2> HIDE DEF WasCalled
  <2> QED BY <1>1
<1>3. ASSUME NEW calls
      PROVE  {c \in calls : PresentSubagentCall(all, c) \in {"running", "starting"}} =
               {c \in calls : PresentSubagentCall(events, c) \in {"running", "starting"}}
  BY <1>1
<1> DEFINE Menu(list, calls) == [active |-> {c \in calls : PresentSubagentCall(list, c) \in {"running", "starting"}},
                                 done |-> calls \ {c \in calls : PresentSubagentCall(list, c) \in {"running", "starting"}}]
<1>4. \A list : SubagentMenu(list) = Menu(list, {c \in Agents : WasCalled(list, c)})
  BY DEF SubagentMenu
<1>5. SubagentMenu(all) = SubagentMenu(events)
  <2>1. \A calls : Menu(all, calls) = Menu(events, calls)
    BY <1>3
  <2> HIDE DEF Menu, WasCalled
  <2> QED BY <1>2, <1>4, <2>1
<1>6. SubagentProgress(all) = SubagentProgress(events)
  <2>1. \A list : SubagentProgress(list) =
                    [c \in Agents |-> [status |-> PresentSubagentCall(list, c), opens |-> WasCalled(list, c)]]
    BY DEF SubagentProgress
  <2>2. \A c : WasCalled(all, c) = WasCalled(events, c)
    BY <1>1
  <2> HIDE DEF WasCalled
  <2> QED BY <1>1, <2>1, <2>2
<1> QED BY <1>5, <1>6

\* The last event, and whether there is one.
LEMMA LastIsSame ==
  ASSUME NEW all, NEW events, Compacts(all, events)
  PROVE  /\ all = <<>> <=> events = <<>>
         /\ events # <<>> => Last(all) = Last(events)
<1>1. PICK at : Places(all, events, at)
  BY DEF Compacts
<1>2. all \in Seq(SessionEvent) /\ events \in Seq(SessionEvent) /\ Len(all) \in Nat /\ Len(events) \in Nat
  BY DEF Compacts
<1>3. PlaceAt(at, Len(events)) = Len(all)
  BY <1>1, <1>2, LastIsKept
<1>4. CASE Len(events) = 0
  <2>1. Len(all) = 0
    BY <1>3, <1>4 DEF PlaceAt
  <2> QED BY <1>2, <1>4, <2>1
<1>5. CASE Len(events) # 0
  <2>1. Len(events) \in 1..Len(events)
    BY <1>2, <1>5
  <2>2. at[Len(events)] = Len(all) /\ Len(all) \in 1..Len(all) /\ events[Len(events)] = all[Len(all)]
    BY <1>1, <1>3, <1>5, <2>1 DEF PlaceAt, Places
  <2> QED BY <1>2, <1>5, <2>2 DEF Last
<1> QED BY <1>4, <1>5

\* The state of the thread.
LEMMA StatusIsSame ==
  ASSUME NEW all, NEW events, Compacts(all, events)
  PROVE  StatusFromEvents(all) = StatusFromEvents(events)
<1> DEFINE E == {e \in SessionEvent : e.type \in TurnEnds}
           m == Latest(After(all, E, 0))
           n == Latest(After(events, E, 0))
<1>1. Lasting(E)
  <2>1. \A k \in TextKinds : Appended[k] \notin TurnEnds
    BY DEF TextKinds, Appended, TurnEnds
  <2> QED BY <2>1, FactsAreSolid, SolidIsLasting
<1>2. Indexes(all, TurnEnds) = After(all, E, 0) /\ Indexes(events, TurnEnds) = After(events, E, 0)
  BY CompactedLists, IndexesAreAfter
<1>3. m \in Nat /\ n \in Nat /\ (m = 0 <=> n = 0) /\ (m # 0 => all[m] = events[n])
  <2> HIDE DEF E
  <2> QED BY <1>1, LatestIsSame
<1> DEFINE Status(empty, last, ended, failed, waits) ==
             IF empty THEN "ready"
             ELSE CASE last = "session.failed" -> "error"
                    [] last # "session.failed" /\ ended /\ failed -> "error"
                    [] OTHER -> IF last = "session.waiting" THEN (IF waits THEN "waiting" ELSE "ready")
                                ELSE IF last = "session.completed" THEN "ready"
                                ELSE IF last \in {"turn.started", Appended["message"], Appended["reasoning"]} THEN "streaming"
                                ELSE "submitted"
<1>4. /\ StatusFromEvents(all) = Status(all = <<>>, Last(all).type, m > 0, all[m].type = "turn.failed", Unresolved(all) # {})
      /\ StatusFromEvents(events) =
           Status(events = <<>>, Last(events).type, n > 0, events[n].type = "turn.failed", Unresolved(events) # {})
  BY <1>2 DEF StatusFromEvents
<1> HIDE DEF m, n
<1>5. m > 0 <=> n > 0
  BY <1>3
<1>6. Unresolved(all) = Unresolved(events)
  BY UnresolvedIsSame
<1>7. (all = <<>> <=> events = <<>>) /\ (events # <<>> => Last(all).type = Last(events).type)
  BY LastIsSame
<1>8. m > 0 => all[m].type = events[n].type
  BY <1>3
<1> QED BY <1>4, <1>5, <1>6, <1>7, <1>8

\* Whether something of the current turn shows.
LEMMA ProcessIsSame ==
  ASSUME NEW all, NEW events, Compacts(all, events)
  PROVE  HasCurrentTurnVisibleProcess(all) <=> HasCurrentTurnVisibleProcess(events)
<1> DEFINE E == {e \in SessionEvent : e.type \in {"turn.started"}}
           Shown(t) == {e \in SessionEvent : e.turn = t /\ e.type \in TextTypes \cup {"actions.requested"}}
           m == Latest(After(all, E, 0))
           n == Latest(After(events, E, 0))
<1>1. Lasting(E) /\ \A t : Lasting(Shown(t))
  <2>1. \A k \in TextKinds : Appended[k] \notin {"turn.started"}
    BY DEF TextKinds, Appended
  <2>2. \A t : Lasting(Shown(t))
    BY DEF Lasting, Absorbs, TextTypes
  <2> QED BY <2>1, <2>2, FactsAreSolid, SolidIsLasting
<1>2. Indexes(all, {"turn.started"}) = After(all, E, 0) /\ Indexes(events, {"turn.started"}) = After(events, E, 0)
  BY CompactedLists, IndexesAreAfter
<1>3. m \in Nat /\ n \in Nat /\ (m = 0 <=> n = 0) /\ (m # 0 => all[m] = events[n])
  <2> HIDE DEF E
  <2> QED BY <1>1, LatestIsSame
<1>4. ASSUME NEW list, \A e \in ToSet(list) : e \in SessionEvent, NEW t
      PROVE  (\E e \in ToSet(list) : e.turn = t /\ e.type \in TextTypes \cup {"actions.requested"}) <=>
               (\E e \in ToSet(list) : e \in Shown(t))
  BY <1>4
<1>5. /\ HasCurrentTurnVisibleProcess(all) <=> m > 0 /\ \E e \in ToSet(all) : e \in Shown(all[m].turn)
      /\ HasCurrentTurnVisibleProcess(events) <=> n > 0 /\ \E e \in ToSet(events) : e \in Shown(events[n].turn)
  BY <1>2, CompactedLists DEF HasCurrentTurnVisibleProcess
<1> HIDE DEF m, n, Shown
<1>6. m > 0 <=> n > 0
  BY <1>3
<1>7. \A t : (\E e \in ToSet(all) : e \in Shown(t)) <=> (\E e \in ToSet(events) : e \in Shown(t))
  BY <1>1, SortIsKept
<1> QED BY <1>3, <1>5, <1>6, <1>7

\* The types of the events of a sort.
TurnEndTypes(events, t) == {events[i].type : i \in {j \in Indexes(events, TurnEnds) : events[j].turn = t}}

\* They are the same: no end of a turn is replaced.
LEMMA EndsAreSame ==
  ASSUME NEW all, NEW events, Compacts(all, events), NEW t
  PROVE  TurnEndTypes(all, t) = TurnEndTypes(events, t)
<1> DEFINE E(s) == {e \in SessionEvent : e.turn = t /\ e.type \in TurnEnds /\ e.type = s}
<1>1. ASSUME NEW s PROVE Lasting(E(s))
  BY DEF Lasting, Absorbs, Appended, Finished, TextKinds, TurnEnds
<1>2. ASSUME NEW list \in Seq(SessionEvent), NEW s
      PROVE  s \in TurnEndTypes(list, t) <=> \E e \in ToSet(list) : e \in E(s)
  BY DEF TurnEndTypes, ToSet, Indexes
<1> HIDE DEF E
<1>3. ASSUME NEW s PROVE s \in TurnEndTypes(all, t) <=> s \in TurnEndTypes(events, t)
  <2>1. (\E e \in ToSet(all) : e \in E(s)) <=> (\E e \in ToSet(events) : e \in E(s))
    BY <1>1, SortIsKept
  <2> QED BY <1>2, <2>1, CompactedLists
<1> QED BY <1>3 DEF TurnEndTypes

\* A text of a message: what the last of its events says.
LEMMA TextIsSame ==
  ASSUME NEW all, NEW events, Compacts(all, events), NEW t, NEW k \in TextKinds, NEW s
  PROVE  TextPart(all, t, k, s) = TextPart(events, t, k, s)
<1> DEFINE E == {e \in SessionEvent : e.type \in {Appended[k], Finished[k]} /\ e.turn = t /\ e.step = s}
<1>1. Lasting(E)
  BY DEF Lasting, Absorbs, TextKinds, Appended, Finished
<1>2. ASSUME NEW list \in Seq(SessionEvent)
      PROVE  TextPart(list, t, k, s) = IF After(list, E, 0) = {} THEN 0 ELSE list[Latest(After(list, E, 0))].size
  <2>1. \A i \in 1..Len(list) : list[i] \in SessionEvent /\ 0 < i
    OBVIOUS
  <2>2. {i \in Indexes(list, {Appended[k], Finished[k]}) : list[i].turn = t /\ list[i].step = s} = After(list, E, 0)
    BY <2>1 DEF Indexes, After
  <2> HIDE DEF E
  <2> QED BY <2>2 DEF TextPart, Latest
<1> HIDE DEF E
<1>3. all \in Seq(SessionEvent) /\ events \in Seq(SessionEvent)
  BY CompactedLists
<1>4. /\ After(all, E, 0) = {} <=> After(events, E, 0) = {}
      /\ Latest(After(all, E, 0)) = 0 <=> Latest(After(events, E, 0)) = 0
      /\ After(events, E, 0) = {} <=> Latest(After(events, E, 0)) = 0
      /\ Latest(After(all, E, 0)) # 0 => all[Latest(After(all, E, 0))] = events[Latest(After(events, E, 0))]
  BY <1>1, LatestIsSame
<1> QED BY <1>2, <1>3, <1>4

\* A tool or question of a message: its approval and its result.
LEMMA ToolIsSame ==
  ASSUME NEW all, NEW events, Compacts(all, events), NEW c
  PROVE  DynamicToolPart(all, c) = DynamicToolPart(events, c)
<1> DEFINE E == {e \in SessionEvent : e.type \in {"action.result"} /\ e.id = c}
<1>1. Lasting(E)
  BY DEF Lasting, Absorbs, TextKinds, Appended, Finished
<1>2. ASSUME NEW list \in Seq(SessionEvent)
      PROVE  {i \in Indexes(list, {"action.result"}) : list[i].id = c} = After(list, E, 0)
  <2>1. \A i \in 1..Len(list) : list[i] \in SessionEvent /\ 0 < i
    OBVIOUS
  <2> QED BY <2>1 DEF Indexes, After
<1> DEFINE m == Latest(After(all, E, 0))
           n == Latest(After(events, E, 0))
<1>3. (m = 0 <=> n = 0) /\ (m # 0 => all[m] = events[n])
  <2> HIDE DEF E
  <2> QED BY <1>1, LatestIsSame
<1> DEFINE Part(waits, none, failed) ==
             [approval |-> IF c \notin Questions THEN "none" ELSE IF waits THEN "asked" ELSE "answered",
              result |-> IF none THEN "none" ELSE IF failed THEN "error" ELSE "output"]
<1>4. /\ DynamicToolPart(all, c) = Part(c \in Unresolved(all), m = 0, all[m].size = 0)
      /\ DynamicToolPart(events, c) = Part(c \in Unresolved(events), n = 0, events[n].size = 0)
  <2>1. all \in Seq(SessionEvent) /\ events \in Seq(SessionEvent)
    BY CompactedLists
  <2> QED BY <1>2, <2>1 DEF DynamicToolPart
<1> HIDE DEF m, n
<1>5. Unresolved(all) = Unresolved(events)
  BY UnresolvedIsSame
<1>6. m # 0 => all[m].size = events[n].size
  BY <1>3
<1> QED BY <1>3, <1>4, <1>5, <1>6

\* The whole message of a turn.
LEMMA MessageIsSame ==
  ASSUME NEW all, NEW events, Compacts(all, events), NEW t
  PROVE  ConvertEveMessage(all, t) = ConvertEveMessage(events, t)
<1>1. /\ TextSteps(all, t) = TextSteps(events, t) /\ ToolParts(all, t) = ToolParts(events, t)
      /\ ApprovalParts(all, t) = ApprovalParts(events, t) /\ Unresolved(all) = Unresolved(events)
      /\ AssistantMessages(all) = AssistantMessages(events) /\ TurnEndTypes(all, t) = TurnEndTypes(events, t)
  BY TextStepsAreSame, ToolPartsAreSame, UnresolvedIsSame, MessagesAreSame, EndsAreSame
<1>2. MessageStatus(all, t, FALSE) = MessageStatus(events, t, FALSE)
  <2> DEFINE Status(asked, ends, isLast) ==
               CASE asked # {} -> "requires-action"
                 [] OTHER -> IF "turn.failed" \in ends THEN "error"
                             ELSE IF isLast /\ FALSE THEN "running"
                             ELSE IF ends = {} THEN "cancelled" ELSE "complete"
  <2>1. \A list : MessageStatus(list, t, FALSE) =
                    Status(ApprovalParts(list, t) \cap Unresolved(list), TurnEndTypes(list, t),
                           t = Max(AssistantMessages(list)))
    BY DEF MessageStatus, TurnEndTypes
  <2> HIDE DEF Status
  <2> QED BY <1>1, <2>1
<1>3. [c \in ToolParts(all, t) |-> DynamicToolPart(all, c)] = [c \in ToolParts(events, t) |-> DynamicToolPart(events, c)]
  <2>1. \A c : DynamicToolPart(all, c) = DynamicToolPart(events, c)
    BY ToolIsSame
  <2> QED BY <1>1, <2>1
<1>4. [k \in TextKinds |-> [s \in TextSteps(all, t) |-> TextPart(all, t, k, s)]] =
        [k \in TextKinds |-> [s \in TextSteps(events, t) |-> TextPart(events, t, k, s)]]
  <2>1. \A k \in TextKinds : \A s : TextPart(all, t, k, s) = TextPart(events, t, k, s)
    BY TextIsSame
  <2>2. \A k \in TextKinds : [s \in TextSteps(all, t) |-> TextPart(all, t, k, s)] =
                               [s \in TextSteps(events, t) |-> TextPart(events, t, k, s)]
    BY <1>1, <2>1
  <2> QED BY <2>2
<1> QED BY <1>2, <1>3, <1>4 DEF ConvertEveMessage

\* A set of numbers that has 0 and, with a number, the next one has all of them.
LEMMA CountsUpTo ==
  ASSUME NEW l \in Nat, NEW T, 0 \in T, \A n \in 0..l : n \in T /\ n < l => n + 1 \in T
  PROVE  \A n \in 0..l : n \in T
<1> DEFINE wrong == {n \in 0..l : n \notin T}
<1> SUFFICES ASSUME wrong # {} PROVE FALSE
  OBVIOUS
<1>1. wrong \in SUBSET Nat
  OBVIOUS
<1>2. PICK n \in wrong : \A m \in wrong : n <= m
  <2> HIDE DEF wrong
  <2> QED BY <1>1, LeastOfNumbers
<1>3. n \in 0..l /\ n # 0 /\ n \notin T
  BY <1>2
<1>4. n - 1 \in 0..l /\ n - 1 < l /\ n - 1 < n /\ (n - 1) + 1 = n
  BY <1>3
<1>5. n - 1 \in T
  BY <1>2, <1>4
<1> QED BY <1>3, <1>4, <1>5

\* What an event adds to the reported usage.
UsageOf(e) == IF e.type = "step.completed" THEN e.size ELSE 0

\* The reported usage is the sum, event after event.
LEMMA InputIsDefined ==
  ASSUME NEW events \in Seq(SessionEvent)
  PROVE  \E f : /\ f[0] = 0 /\ \A n \in 1..Len(events) : f[n] = f[n - 1] + UsageOf(events[n])
                /\ \A n \in 0..Len(events) : f[n] \in Nat
                /\ InputTokens(events) = f[Len(events)]
<1> DEFINE Defines(f, m) == f = [n \in 0..m |-> IF n = 0 THEN 0 ELSE f[n - 1] + UsageOf(events[n])]
           T == {m \in 0..Len(events) : \E f : Defines(f, m)}
<1>0. Len(events) \in Nat
  OBVIOUS
<1>1. 0 \in T
  <2> DEFINE f == [n \in 0..0 |-> 0]
  <2>1. \A n \in 0..0 : n = 0
    OBVIOUS
  <2>2. \E h : Defines(h, 0)
    <3>1. Defines(f, 0)
      BY <2>1
    <3> QED BY <3>1
  <2>3. 0 \in 0..Len(events)
    OBVIOUS
  <2> HIDE DEF Defines
  <2> QED BY <2>2, <2>3
<1>2. ASSUME NEW m \in 0..Len(events), m \in T, m < Len(events) PROVE m + 1 \in T
  <2>1. PICK f : Defines(f, m)
    BY <1>2
  <2> DEFINE g == [n \in 0..(m + 1) |-> IF n <= m THEN f[n] ELSE f[m] + UsageOf(events[m + 1])]
  <2>2. ASSUME NEW n \in 0..(m + 1)
        PROVE  g[n] = IF n = 0 THEN 0 ELSE g[n - 1] + UsageOf(events[n])
    <3>1. CASE n = 0
      BY <2>1, <3>1
    <3>2. CASE n # 0 /\ n <= m
      BY <2>1, <3>2
    <3>3. CASE n = m + 1
      BY <3>3
    <3> QED BY <3>1, <3>2, <3>3
  <2>3. g = [n \in 0..(m + 1) |-> g[n]]
    OBVIOUS
  <2> HIDE DEF g
  <2>4. \E h : Defines(h, m + 1)
    BY <2>2, <2>3
  <2>5. m + 1 \in 0..Len(events)
    BY <1>2
  <2> HIDE DEF Defines
  <2> QED BY <2>4, <2>5
<1> HIDE DEF T
<1>3. \A m \in 0..Len(events) : m \in T
  BY <1>0, <1>1, <1>2, CountsUpTo
<1>4. \E f : Defines(f, Len(events))
  BY <1>0, <1>3 DEF T
<1>5. PICK h : h = CHOOSE f : Defines(f, Len(events))
  OBVIOUS
<1>6. Defines(h, Len(events))
  BY <1>4, <1>5
<1>7. InputTokens(events) = h[Len(events)]
  BY <1>5 DEF InputTokens, UsageOf
<1>8. h[0] = 0 /\ \A n \in 1..Len(events) : h[n] = h[n - 1] + UsageOf(events[n])
  <2>1. \A n \in 0..Len(events) : h[n] = IF n = 0 THEN 0 ELSE h[n - 1] + UsageOf(events[n])
    BY <1>6
  <2>2. \A n \in 1..Len(events) : n \in 0..Len(events) /\ n # 0
    BY <1>0
  <2> QED BY <1>0, <2>1, <2>2
<1> HIDE DEF Defines
<1>9. \A n \in 0..Len(events) : h[n] \in Nat
  <2> DEFINE S == {n \in 0..Len(events) : h[n] \in Nat}
  <2>1. 0 \in S
    BY <1>0, <1>8
  <2>2. ASSUME NEW n \in 0..Len(events), n \in S, n < Len(events) PROVE n + 1 \in S
    <3>1. n + 1 \in 1..Len(events) /\ n + 1 \in 0..Len(events) /\ (n + 1) - 1 = n
      BY <1>0, <2>2
    <3>2. events[n + 1] \in SessionEvent
      BY <3>1
    <3>3. UsageOf(events[n + 1]) \in Nat
      BY <3>2 DEF UsageOf, SessionEvent
    <3>4. h[n + 1] = h[n] + UsageOf(events[n + 1])
      BY <1>8, <3>1
    <3> QED BY <2>2, <3>1, <3>3, <3>4
  <2> HIDE DEF S
  <2>3. \A n \in 0..Len(events) : n \in S
    BY <1>0, <2>1, <2>2, CountsUpTo
  <2> QED BY <2>3 DEF S
<1> QED BY <1>7, <1>8, <1>9

\* A sum does not change where nothing is added.
LEMMA SumIsFlat ==
  ASSUME NEW all \in Seq(SessionEvent), NEW f, \A n \in 1..Len(all) : f[n] = f[n - 1] + UsageOf(all[n]),
         \A n \in 0..Len(all) : f[n] \in Nat,
         NEW a \in 0..Len(all), NEW b \in a..Len(all), \A j \in (a + 1)..b : UsageOf(all[j]) = 0
  PROVE  f[b] = f[a]
<1>1. a \in Nat /\ b \in Nat /\ a <= b /\ b <= Len(all) /\ Len(all) \in Nat
  OBVIOUS
<1> DEFINE T == {n \in 0..(b - a) : f[a + n] = f[a]}
<1>2. 0 \in T
  BY <1>1
<1>3. ASSUME NEW n \in 0..(b - a), n \in T, n < b - a PROVE n + 1 \in T
  <2>1. /\ (a + n) + 1 \in 1..Len(all) /\ (a + n) + 1 \in (a + 1)..b /\ ((a + n) + 1) - 1 = a + n
        /\ a + n \in 0..Len(all) /\ n + 1 \in 0..(b - a) /\ a + (n + 1) = (a + n) + 1
    BY <1>1, <1>3
  <2>2. f[(a + n) + 1] = f[a + n] + UsageOf(all[(a + n) + 1]) /\ UsageOf(all[(a + n) + 1]) = 0 /\ f[a + n] \in Nat
    BY <2>1
  <2>3. f[(a + n) + 1] = f[a + n]
    BY <2>2
  <2>4. f[a + n] = f[a]
    BY <1>3
  <2> QED BY <2>1, <2>3, <2>4
<1> HIDE DEF T
<1>4. \A n \in 0..(b - a) : n \in T
  <2>1. b - a \in Nat
    BY <1>1
  <2> QED BY <1>2, <1>3, <2>1, CountsUpTo
<1>5. b - a \in 0..(b - a) /\ a + (b - a) = b
  BY <1>1
<1>6. b - a \in T
  BY <1>4, <1>5
<1> QED BY <1>5, <1>6 DEF T

\* The reported usage: what compaction replaces is text.
LEMMA InputIsSame ==
  ASSUME NEW all, NEW events, Compacts(all, events)
  PROVE  InputTokens(all) = InputTokens(events)
<1>1. PICK at : Places(all, events, at)
  BY DEF Compacts
<1>2. all \in Seq(SessionEvent) /\ events \in Seq(SessionEvent) /\ Len(all) \in Nat /\ Len(events) \in Nat
  BY DEF Compacts
<1>3. PICK f : /\ f[0] = 0 /\ \A n \in 1..Len(all) : f[n] = f[n - 1] + UsageOf(all[n])
               /\ \A n \in 0..Len(all) : f[n] \in Nat
               /\ InputTokens(all) = f[Len(all)]
  BY <1>2, InputIsDefined
<1>4. PICK g : /\ g[0] = 0 /\ \A n \in 1..Len(events) : g[n] = g[n - 1] + UsageOf(events[n])
               /\ \A n \in 0..Len(events) : g[n] \in Nat
               /\ InputTokens(events) = g[Len(events)]
  BY <1>2, InputIsDefined
<1> DEFINE T == {n \in 0..Len(events) : f[PlaceAt(at, n)] = g[n]}
<1>5. 0 \in T
  BY <1>2, <1>3, <1>4 DEF PlaceAt
<1>6. ASSUME NEW n \in 0..Len(events), n \in T, n < Len(events) PROVE n + 1 \in T
  <2> DEFINE a == PlaceAt(at, n)
             b == at[n + 1]
  <2>1. n + 1 \in 1..Len(events) /\ n + 1 \in 0..Len(events) /\ (n + 1) - 1 = n /\ n \in Nat
    BY <1>2, <1>6
  <2>2. a \in 0..Len(all) /\ PlaceAt(at, n + 1) = b /\ b \in 1..Len(all) /\ a < b /\ events[n + 1] = all[b]
    <3>1. a \in 0..Len(all) /\ PlaceAt(at, n + 1) = at[n + 1] /\ PlaceAt(at, n) < PlaceAt(at, n + 1)
      BY <1>1, <1>2, <1>6, <2>1, PlacesAreOrdered
    <3>2. b \in 1..Len(all) /\ events[n + 1] = all[b]
      BY <1>1, <2>1 DEF Places
    <3> QED BY <3>1, <3>2
  <2>3. ASSUME NEW j \in (a + 1)..(b - 1) PROVE UsageOf(all[j]) = 0
    <3> HIDE DEF a, b
    <3>1. j \in 1..Len(all) /\ a < j /\ j < b
      BY <1>2, <2>2, <2>3
    <3>2. ASSUME NEW i \in 1..Len(events), at[i] = j PROVE FALSE
      <4>1. i \in 0..Len(events) /\ PlaceAt(at, i) = j
        BY <1>1, <1>2, <3>2, PlacesAreOrdered
      <4>2. n < i
        BY <1>1, <1>2, <3>1, <4>1, PlacesAreOrdered DEF a
      <4>3. i < n + 1
        BY <1>1, <1>2, <2>1, <2>2, <3>1, <4>1, PlacesAreOrdered
      <4> QED BY <2>1, <3>2, <4>2, <4>3
    <3>3. Absorbs(all[j], all[j + 1])
      BY <1>1, <3>1, <3>2 DEF Places
    <3>4. all[j].type \in TextTypes
      BY <3>3, AbsorbedIsText
    <3>5. all[j].type # "step.completed"
      BY <3>4 DEF TextTypes, TextKinds, Appended, Finished
    <3> QED BY <3>5 DEF UsageOf
  <2> HIDE DEF a, b
  <2>4. b - 1 \in a..Len(all) /\ b - 1 \in 0..Len(all)
    BY <1>2, <2>2
  <2>5. f[b - 1] = f[a]
    BY <1>2, <1>3, <2>2, <2>3, <2>4, SumIsFlat
  <2>6. f[b] = f[b - 1] + UsageOf(all[b])
    BY <1>3, <2>2
  <2>7. g[n + 1] = g[n] + UsageOf(events[n + 1])
    BY <1>4, <2>1
  <2>8. f[a] = g[n]
    BY <1>6 DEF a
  <2>9. f[PlaceAt(at, n + 1)] = g[n + 1]
    BY <2>2, <2>5, <2>6, <2>7, <2>8
  <2> QED BY <2>1, <2>9
<1> HIDE DEF T
<1>7. Len(events) \in T
  <2>1. \A n \in 0..Len(events) : n \in T
    BY <1>2, <1>5, <1>6, CountsUpTo
  <2> QED BY <1>2, <2>1
<1>8. PlaceAt(at, Len(events)) = Len(all)
  BY <1>1, <1>2, LastIsKept
<1> QED BY <1>3, <1>4, <1>7, <1>8 DEF T

\* There are as many events of a solid sort after a kept one.
LEMMA CountIsSame ==
  ASSUME NEW all \in Seq(SessionEvent), NEW events \in Seq(SessionEvent), NEW at, Places(all, events, at),
         NEW E, Solid(E), NEW c \in 0..Len(events)
  PROVE  /\ Cardinality(After(all, E, PlaceAt(at, c))) = Cardinality(After(events, E, c))
         /\ Cardinality(After(events, E, c)) \in Nat
<1> DEFINE S == After(events, E, c)
           T == After(all, E, PlaceAt(at, c))
           f == [i \in S |-> at[i]]
<1>0. /\ S = {i \in 1..Len(events) : events[i] \in E /\ c < i}
      /\ T = {j \in 1..Len(all) : all[j] \in E /\ PlaceAt(at, c) < j}
  BY DEF After
<1> HIDE DEF S, T
<1>1. Len(all) \in Nat /\ Len(events) \in Nat
  OBVIOUS
<1>2. \A i \in S : at[i] \in T
  <2> SUFFICES ASSUME NEW i \in S PROVE at[i] \in T
    OBVIOUS
  <2>1. i \in 1..Len(events) /\ i \in 0..Len(events) /\ c < i /\ events[i] \in E
    BY <1>0, <1>1
  <2>2. at[i] \in 1..Len(all) /\ events[i] = all[at[i]]
    BY <2>1 DEF Places
  <2>3. PlaceAt(at, c) < at[i]
    BY <2>1, PlacesAreOrdered
  <2> QED BY <1>0, <2>1, <2>2, <2>3
<1>3. \A j \in T : \E i \in S : at[i] = j
  <2> SUFFICES ASSUME NEW j \in T PROVE \E i \in S : at[i] = j
    OBVIOUS
  <2>1. j \in 1..Len(all) /\ all[j] \in E /\ PlaceAt(at, c) < j
    BY <1>0
  <2>2. PICK i \in 1..Len(events) : at[i] = j /\ events[i] = all[j]
    BY <2>1, SolidIsKept
  <2>3. i \in 0..Len(events) /\ PlaceAt(at, c) < PlaceAt(at, i)
    BY <1>1, <2>1, <2>2, PlacesAreOrdered
  <2>4. c < i
    BY <2>3, PlacesAreOrdered
  <2> QED BY <1>0, <2>1, <2>2, <2>4
<1>4. f \in Surjection(S, T)
  BY <1>2, <1>3 DEF Surjection
<1>5. f \in Injection(S, T)
  <2>1. ASSUME NEW i \in S, NEW j \in S, at[i] = at[j] PROVE i = j
    <3>1. i \in 1..Len(events) /\ j \in 1..Len(events)
      BY <1>0
    <3>2. (i < j => at[i] < at[j]) /\ (j < i => at[j] < at[i]) /\ at[i] \in 1..Len(all) /\ at[j] \in 1..Len(all)
      BY <3>1 DEF Places
    <3> QED BY <1>1, <2>1, <3>1, <3>2
  <2> QED BY <1>2, <2>1 DEF Injection, IsInjective
<1>6. IsFiniteSet(S)
  <2>1. S \in SUBSET (1..Len(events)) /\ IsFiniteSet(1..Len(events))
    BY <1>0, <1>1, FS_Interval
  <2> QED BY <2>1, FS_Subset
<1>7. Cardinality(T) = Cardinality(S) /\ Cardinality(S) \in Nat
  <2> HIDE DEF f
  <2> QED BY <1>4, <1>5, <1>6, FS_Surjection, FS_CardinalityType
<1> QED BY <1>7 DEF S, T

\* The kind of a text.
LEMMA KindIs == \A k \in TextKinds : KindOf(Appended[k]) = k /\ KindOf(Finished[k]) = k
BY DEF KindOf, TextKinds, Appended, Finished

\* A text is replaced by one of its kind.
LEMMA AbsorbedIsOfKind ==
  ASSUME NEW a, NEW b, Absorbs(a, b)
  PROVE  KindOf(a.type) = KindOf(b.type)
BY KindIs DEF Absorbs

\* The text of a step, by what it is called.
TextKey(e) == [kind |-> KindOf(e.type), turn |-> e.turn, step |-> e.step]
OfKey(k) == {e \in SessionEvent : e.type \in TextTypes /\ k = TextKey(e)}

\* A text of a step is replaced by a text of the same step.
LEMMA KeysAreLasting == ASSUME NEW k PROVE Lasting(OfKey(k))
<1> SUFFICES ASSUME NEW a \in OfKey(k), NEW b \in SessionEvent, Absorbs(a, b) PROVE b \in OfKey(k)
  BY DEF Lasting
<1>1. a.turn = b.turn /\ a.step = b.step /\ b.type \in TextTypes /\ KindOf(a.type) = KindOf(b.type)
  BY AbsorbedIsText, AbsorbedIsOfKind
<1>2. TextKey(a) = TextKey(b)
  BY <1>1 DEF TextKey
<1> QED BY <1>1, <1>2 DEF OfKey

\* The reported steps, the texts since, and what else was said since.
Reported == {e \in SessionEvent : e.type \in {"step.completed"} /\ e.size > 0}
Said == {e \in SessionEvent : e.type \in {"message.received", "action.result"}}
KeysAfter(events, c) == {k \in {TextKey(e) : e \in SessionEvent} : After(events, OfKey(k), c) # {}}
LengthsAfter(events, c) == [k \in KeysAfter(events, c) |-> events[Latest(After(events, OfKey(k), c))].size]

\* The usage in terms of the events since the last reported step.
LEMMA SummaryIs ==
  ASSUME NEW events \in Seq(SessionEvent)
  PROVE  LET steps == After(events, Reported, 0)
             text == SumFunction(LengthsAfter(events, Latest(steps)))
             other == Cardinality(After(events, Said, Latest(steps)))
         IN SummarizeUsage(events) =
              [steps |-> Cardinality(steps), input |-> InputTokens(events),
               context |-> (IF steps = {} THEN 0 ELSE events[Latest(steps)].size) + text + other,
               output |-> text, estimated |-> text + other > 0]
<1> DEFINE steps == After(events, Reported, 0)
           c == Latest(steps)
           pending == {i \in DOMAIN events : i > c}
           keys == {[kind |-> KindOf(events[i].type), turn |-> events[i].turn, step |-> events[i].step] :
                      i \in {j \in pending : events[j].type \in TextTypes}}
<1>0. \A i \in 1..Len(events) : events[i] \in SessionEvent /\ 0 < i
  OBVIOUS
<1>1. {i \in Indexes(events, {"step.completed"}) : events[i].size > 0} = steps
  BY <1>0 DEF Indexes, After, Reported
<1>2. c \in Nat /\ (steps # {} => Max(steps) = c)
  <2>1. steps \in SUBSET (1..Len(events)) /\ Len(events) \in Nat
    BY DEF After
  <2> HIDE DEF steps
  <2>2. CASE steps = {}
    BY <2>2 DEF Latest
  <2>3. CASE steps # {}
    <3>1. Latest(steps) \in steps
      BY <2>1, <2>3, LatestIsLast
    <3> DEFINE d == Latest(steps)
    <3> HIDE DEF d
    <3>3. d \in steps
      BY <3>1 DEF d
    <3>4. d \in 1..Len(events)
      BY <2>1, <3>3
    <3>2. d \in Nat
      BY <2>1, <3>4
    <3> QED BY <2>3, <3>2 DEF d, Latest
  <2> QED BY <2>2, <2>3
<1> HIDE DEF c, steps
<1>3. pending = {i \in 1..Len(events) : c < i} /\ \A i \in pending : events[i] \in SessionEvent
  <2>1. \A i \in 1..Len(events) : i > c <=> c < i
    BY <1>2
  <2> QED BY <1>0, <2>1
<1> HIDE DEF pending
<1>4. {i \in pending : events[i].type \in {"message.received", "action.result"}} = After(events, Said, c)
  BY <1>3 DEF After, Said
<1>5. ASSUME NEW k
      PROVE  {i \in pending : events[i].type \in TextTypes
                 /\ k = [kind |-> KindOf(events[i].type), turn |-> events[i].turn, step |-> events[i].step]} =
               After(events, OfKey(k), c)
  BY <1>3 DEF After, OfKey, TextKey
<1>6. keys = KeysAfter(events, c)
  <2>1. ASSUME NEW k \in keys PROVE k \in KeysAfter(events, c)
    <3>1. PICK i \in pending : events[i].type \in TextTypes /\ k = TextKey(events[i])
      BY <2>1 DEF TextKey
    <3>2. i \in After(events, OfKey(k), c) /\ events[i] \in SessionEvent
      BY <1>3, <3>1 DEF After, OfKey
    <3> QED BY <3>1, <3>2 DEF KeysAfter
  <2>2. ASSUME NEW k \in KeysAfter(events, c) PROVE k \in keys
    <3>1. PICK i : i \in After(events, OfKey(k), c)
      BY <2>2 DEF KeysAfter
    <3>2. i \in pending /\ events[i].type \in TextTypes /\ k = TextKey(events[i])
      BY <1>3, <3>1 DEF After, OfKey
    <3> QED BY <3>2 DEF TextKey
  <2> QED BY <2>1, <2>2
<1> HIDE DEF keys
<1>7. [k \in keys |-> LET last == Latest({i \in pending : events[i].type \in TextTypes
                                     /\ k = [kind |-> KindOf(events[i].type), turn |-> events[i].turn,
                                             step |-> events[i].step]})
                       IN events[last].size] = LengthsAfter(events, c)
  BY <1>5, <1>6 DEF LengthsAfter
<1>8. SummarizeUsage(events) =
        [steps |-> Cardinality(steps), input |-> InputTokens(events),
         context |-> (IF steps = {} THEN 0 ELSE events[Max(steps)].size) + SumFunction(LengthsAfter(events, c))
                       + Cardinality(After(events, Said, c)),
         output |-> SumFunction(LengthsAfter(events, c)),
         estimated |-> SumFunction(LengthsAfter(events, c)) + Cardinality(After(events, Said, c)) > 0]
  BY <1>1, <1>4, <1>7 DEF SummarizeUsage, keys, pending, c
<1> QED BY <1>2, <1>8 DEF c, steps

\* The usage and its estimate.
LEMMA UsageIsSame ==
  ASSUME NEW all, NEW events, Compacts(all, events)
  PROVE  SummarizeUsage(all) = SummarizeUsage(events)
<1>1. PICK at : Places(all, events, at)
  BY DEF Compacts
<1>2. /\ all \in Seq(SessionEvent) /\ events \in Seq(SessionEvent) /\ Len(all) \in Nat /\ Len(events) \in Nat
      /\ 0 \in 0..Len(events) /\ PlaceAt(at, 0) = 0
  BY DEF Compacts, PlaceAt
<1>3. Solid(Reported) /\ Lasting(Reported) /\ Solid(Said)
  BY DEF Reported, Said, Lasting, Solid, Absorbs, TextKinds, Appended, Finished
<1> DEFINE steps == After(all, Reported, 0)
           told == After(events, Reported, 0)
           m == Latest(steps)
           n == Latest(told)
<1>4. /\ m = PlaceAt(at, n) /\ n \in 0..Len(events)
      /\ steps = {} <=> told = {}
      /\ steps # {} => all[m].size = events[n].size
  <2>1. /\ m = PlaceAt(at, n) /\ (steps = {} <=> told = {}) /\ (told # {} => n \in told)
        /\ steps # {} => all[m] = events[n]
    BY <1>1, <1>2, <1>3, LatestIsKept
  <2>2. told \in SUBSET (0..Len(events))
    BY <1>2 DEF After
  <2>3. told = {} => n = 0
    BY DEF Latest
  <2> QED BY <1>2, <2>1, <2>2, <2>3
<1>5. Cardinality(steps) = Cardinality(told)
  BY <1>1, <1>2, <1>3, CountIsSame
<1> HIDE DEF m, n, steps, told
<1>6. Cardinality(After(all, Said, m)) = Cardinality(After(events, Said, n))
  BY <1>1, <1>2, <1>3, <1>4, CountIsSame
<1>7. LengthsAfter(all, m) = LengthsAfter(events, n)
  <2>1. ASSUME NEW k
        PROVE  /\ After(all, OfKey(k), m) = {} <=> After(events, OfKey(k), n) = {}
               /\ After(all, OfKey(k), m) # {} =>
                    all[Latest(After(all, OfKey(k), m))] = events[Latest(After(events, OfKey(k), n))]
    BY <1>1, <1>2, <1>4, KeysAreLasting, LatestIsKept
  <2>2. KeysAfter(all, m) = KeysAfter(events, n)
    BY <2>1 DEF KeysAfter
  <2>3. \A k \in KeysAfter(all, m) :
          all[Latest(After(all, OfKey(k), m))].size = events[Latest(After(events, OfKey(k), n))].size
    BY <2>1 DEF KeysAfter
  <2> QED BY <2>2, <2>3 DEF LengthsAfter
<1>8. InputTokens(all) = InputTokens(events)
  BY InputIsSame
<1>9. /\ SummarizeUsage(all) =
           [steps |-> Cardinality(steps), input |-> InputTokens(all),
            context |-> (IF steps = {} THEN 0 ELSE all[m].size) + SumFunction(LengthsAfter(all, m))
                          + Cardinality(After(all, Said, m)),
            output |-> SumFunction(LengthsAfter(all, m)),
            estimated |-> SumFunction(LengthsAfter(all, m)) + Cardinality(After(all, Said, m)) > 0]
      /\ SummarizeUsage(events) =
           [steps |-> Cardinality(told), input |-> InputTokens(events),
            context |-> (IF told = {} THEN 0 ELSE events[n].size) + SumFunction(LengthsAfter(events, n))
                          + Cardinality(After(events, Said, n)),
            output |-> SumFunction(LengthsAfter(events, n)),
            estimated |-> SumFunction(LengthsAfter(events, n)) + Cardinality(After(events, Said, n)) > 0]
  BY <1>2, SummaryIs DEF m, n, steps, told
<1> QED BY <1>4, <1>5, <1>6, <1>7, <1>8, <1>9

\* The screen, of the browser's events and of the stream.
LEMMA ScreenIsSame ==
  ASSUME NEW all, NEW events, Compacts(all, events), \A t \in TurnIds : OwnedOrNone(events, t)
  PROVE  Screen(all) = Screen(events)
<1>1. [t \in TurnIds |-> PresentAgentTurn(all, t)] = [t \in TurnIds |-> PresentAgentTurn(events, t)]
  <2>1. \A t \in TurnIds : PresentAgentTurn(all, t) = PresentAgentTurn(events, t)
    BY TurnIsSame
  <2> QED BY <2>1
<1>2. {t \in TurnIds : Folds(all, t)} = {t \in TurnIds : Folds(events, t)}
  <2>1. \A t \in TurnIds : Folds(all, t) <=> Folds(events, t)
    BY FoldsAreSame
  <2> QED BY <2>1
<1>3. [t \in AssistantMessages(all) |-> ConvertEveMessage(all, t)] =
        [t \in AssistantMessages(events) |-> ConvertEveMessage(events, t)]
  <2>1. \A t : ConvertEveMessage(all, t) = ConvertEveMessage(events, t)
    BY MessageIsSame
  <2> QED BY <2>1, MessagesAreSame
<1>4. HasCurrentTurnVisibleProcess(all) = HasCurrentTurnVisibleProcess(events)
  <2>1. HasCurrentTurnVisibleProcess(all) \in BOOLEAN /\ HasCurrentTurnVisibleProcess(events) \in BOOLEAN
    BY DEF HasCurrentTurnVisibleProcess
  <2> QED BY <2>1, ProcessIsSame
<1>5. /\ SubagentMenu(all) = SubagentMenu(events) /\ SubagentProgress(all) = SubagentProgress(events)
      /\ SummarizeUsage(all) = SummarizeUsage(events) /\ StatusFromEvents(all) = StatusFromEvents(events)
      /\ Unresolved(all) = Unresolved(events)
  BY AgentsAreSame, UsageIsSame, StatusIsSame, UnresolvedIsSame
<1> QED BY <1>1, <1>2, <1>3, <1>4, <1>5 DEF Screen

\* What the transcript, the menu of sub-agents, the usage and the state of the thread say is
\* what the whole stream says, whatever the browser compacted (thread-storage.ts:204).
THEOREM CompactionShowsTheStream == EventViewSpec => []CompactionIsInvisible
<1>1. KeptIsCompacted => CompactionIsInvisible
  <2> SUFFICES ASSUME KeptIsCompacted PROVE Screen(kept) = Screen(stream)
    BY DEF CompactionIsInvisible
  <2>1. \A t \in TurnIds : OwnedOrNone(kept, t)
    <3>1. EventsAreOfTurns(kept, rootTurn) /\ \A t \in TurnIds : t # 0
      BY EventViewAssumption DEF KeptIsCompacted, EventViewInv, TurnIds
    <3> QED BY <3>1 DEF EventsAreOfTurns, OwnedOrNone, Started
  <2> QED BY <2>1, ScreenIsSame DEF KeptIsCompacted
<1> QED BY <1>1, KeptBegins, KeptStays, PTL DEF EventViewSpec

-----------------------------------------------------------------------------
(* Disclosure: what one turn's message unfolds.                            *)

\* What the events can say of a turn, and what can be on screen of it.
TurnMessages ==
  [parts : Seq(Tools \cup {NoTool}), tools : [Tools -> ToolStates], proxied : SUBSET Delegated,
   outcome : Outcomes, delivered : BOOLEAN, next : BOOLEAN, later : BOOLEAN]
Screens ==
  [execution : [open : BOOLEAN, was : Outcomes \cup {"waiting", "absent"}, final : BOOLEAN],
   groups : [Tools -> Fold], folds : [Tools \cup Delegated -> Fold]]

\* Where a tool stands in the message, and where its run starts.
PlaceOf(m, t) == CHOOSE i \in DOMAIN m.parts : m.parts[i] = t
StartsRun(m, i, j) ==
  /\ j \in 1..i
  /\ NoTool \notin {m.parts[k] : k \in j..i}
  /\ j = 1 \/ m.parts[j - 1] = NoTool

\* A message names a tool once, and every tool is in a run of tools.
PartsAreInRuns(m) ==
  /\ \A i, j \in 1..Len(m.parts) : m.parts[i] = m.parts[j] /\ m.parts[i] # NoTool => i = j
  /\ \A i \in 1..Len(m.parts) : m.parts[i] # NoTool => \E j : StartsRun(m, i, j)

\* The screen s holds what the message m calls for, and nothing of another one.
Fits(m, s) ==
  /\ IF HasExecution(m) THEN s.execution.was = StatusOfTurn(m) /\ s.execution.final = HasFinalDelivery(m)
                        ELSE s.execution = NoExecution
  /\ \A g \in Tools : s.groups[g] # "absent" <=> s.execution.open /\ Members(m, g) # {}
  /\ \A t \in Tools \cup Delegated : s.folds[t] # "absent" <=>
       /\ s.execution.open
       /\ t \in m.proxied \/ (t \in Called(m) /\ s.groups[GroupOf(m, t)] = "open")

\* What is remembered as folded away is a question of an open turn, and says which of
\* them have their buttons.
FoldsAreTold(m, s, away) ==
  /\ away \subseteq Asking(m)
  /\ IF s.execution.open THEN \A t \in Asking(m) : s.folds[t] = "open" <=> t \notin away
                         ELSE away = {}

\* A turn that the user did not toggle is open until its answer is delivered.
OpenUntilDelivered(m, s, toggled) ==
  HasExecution(m) /\ ~toggled => s.execution.open = ~HasFinalDelivery(m)

\* The inductive invariant of the folds.
DisclosureInv ==
  /\ shownTurn \in TurnMessages /\ disclosed \in Screens /\ byUser \in BOOLEAN
  /\ PartsAreInRuns(shownTurn)
  /\ Fits(shownTurn, disclosed)
  /\ FoldsAreTold(shownTurn, disclosed, foldedAway)
  /\ OpenUntilDelivered(shownTurn, disclosed, byUser)

\* The message n says of a turn no less than m: tools keep their groups, and a turn that
\* is over keeps its end and its answer.
GrowsInto(m, n) ==
  /\ \A t \in Called(m) : t \in Called(n) /\ GroupOf(n, t) = GroupOf(m, t)
  /\ m.outcome # "running" =>
       n.outcome = m.outcome /\ (m.delivered => n.delivered) /\ (m.later => n.later)

\* Of the questions that n asks and m did not, extra holds those that s shows folded.
AskedFolded(m, n, s, extra) ==
  \A t \in Asking(n) :
    t \in extra <=> /\ t \notin Asking(m)
                    /\ \/ s.folds[t] = "closed"
                       \/ t \in Called(n) /\ s.groups[GroupOf(n, t)] = "closed"

\* The status of a turn is one of five.
LEMMA StatusIsOne ==
  ASSUME NEW m \in TurnMessages
  PROVE  /\ StatusOfTurn(m) \in Outcomes \cup {"waiting"}
         /\ StatusOfTurn(m) # "absent" /\ HasFinalDelivery(m) \in BOOLEAN
BY DEF TurnMessages, StatusOfTurn, HasFinalDelivery, Outcomes

\* What is called is a tool, and what asks is a tool that was called or a sub-agent's question.
LEMMA CalledAreTools ==
  ASSUME NEW m \in TurnMessages
  PROVE  /\ Called(m) \subseteq Tools /\ m.proxied \subseteq Delegated
         /\ Asking(m) \subseteq m.proxied \cup Called(m)
         /\ Asking(m) = {t \in m.proxied \cup Called(m) : NeedsInput(m, t)}
BY DEF TurnMessages, Called, ToSet, Asking, NeedsInput

\* The group of a tool is the first part of its run.
LEMMA GroupIsStart ==
  ASSUME NEW m, NEW t
  PROVE  GroupOf(m, t) = m.parts[CHOOSE j : StartsRun(m, PlaceOf(m, t), j)]
BY Zenon DEF GroupOf, PlaceOf, StartsRun

\* The place of a tool is the only place that names it.
LEMMA PlaceIsOnly ==
  ASSUME NEW m \in TurnMessages, PartsAreInRuns(m), NEW i \in 1..Len(m.parts), m.parts[i] # NoTool
  PROVE  PlaceOf(m, m.parts[i]) = i
<1>1. m.parts \in Seq(Tools \cup {NoTool}) /\ DOMAIN m.parts = 1..Len(m.parts)
  BY DEF TurnMessages
<1>2. \E j \in DOMAIN m.parts : m.parts[j] = m.parts[i]
  BY <1>1
<1>3. PlaceOf(m, m.parts[i]) \in DOMAIN m.parts /\ m.parts[PlaceOf(m, m.parts[i])] = m.parts[i]
  BY <1>2 DEF PlaceOf
<1> QED BY <1>1, <1>3 DEF PartsAreInRuns

\* What is called has a place in the message.
LEMMA CalledHasPlace ==
  ASSUME NEW m \in TurnMessages, NEW t
  PROVE  t \in Called(m) <=> t # NoTool /\ \E i \in 1..Len(m.parts) : m.parts[i] = t
BY DEF Called, ToSet, TurnMessages

\* The group of a tool is a tool of the message.
LEMMA GroupIsCalled ==
  ASSUME NEW m \in TurnMessages, PartsAreInRuns(m), NEW i \in 1..Len(m.parts), m.parts[i] # NoTool
  PROVE  LET j == CHOOSE j : StartsRun(m, i, j)
         IN /\ StartsRun(m, i, j) /\ j \in 1..i
            /\ GroupOf(m, m.parts[i]) = m.parts[j] /\ m.parts[j] \in Called(m)
<1> DEFINE start == CHOOSE j : StartsRun(m, i, j)
<1>1. StartsRun(m, i, start)
  BY DEF PartsAreInRuns
<1>2. GroupOf(m, m.parts[i]) = m.parts[start]
  BY PlaceIsOnly, GroupIsStart
<1> HIDE DEF start
<1>3. start \in 1..i /\ m.parts[start] # NoTool
  <2>1. start \in 1..i /\ i \in start..i /\ start \in start..i
    BY <1>1 DEF StartsRun
  <2> QED BY <1>1, <2>1 DEF StartsRun
<1>4. Len(m.parts) \in Nat
  BY DEF TurnMessages
<1>5. m.parts[start] \in Called(m)
  BY <1>3, <1>4, CalledHasPlace
<1> QED BY <1>1, <1>2, <1>3, <1>5 DEF start

\* So a called tool has a group among them.
LEMMA GroupsAreCalled ==
  ASSUME NEW m \in TurnMessages, PartsAreInRuns(m), NEW t \in Called(m)
  PROVE  GroupOf(m, t) \in Called(m)
BY GroupIsCalled, CalledHasPlace

\* The execution group's next state.
LEMMA ExecutionFits ==
  ASSUME NEW m \in TurnMessages, NEW s \in Screens
  PROVE  /\ Execution(m, s.execution) \in [open : BOOLEAN, was : Outcomes \cup {"waiting", "absent"}, final : BOOLEAN]
         /\ IF HasExecution(m) THEN /\ Execution(m, s.execution).was = StatusOfTurn(m)
                                    /\ Execution(m, s.execution).final = HasFinalDelivery(m)
                               ELSE Execution(m, s.execution) = NoExecution
<1> USE StatusIsOne
<1> DEFINE e == s.execution
<1>1. e \in [open : BOOLEAN, was : Outcomes \cup {"waiting", "absent"}, final : BOOLEAN]
  BY DEF Screens
<1>2. HasExecution(m) \in BOOLEAN
  BY DEF HasExecution
<1> HIDE DEF e
<1>3. CASE ~HasExecution(m)
  <2>1. Execution(m, e) = NoExecution
    BY <1>3 DEF Execution
  <2> QED BY <1>3, <2>1 DEF NoExecution, e
<1>4. CASE HasExecution(m) /\ e = NoExecution
  <2>1. Execution(m, e) = [open |-> ~HasFinalDelivery(m), was |-> StatusOfTurn(m), final |-> HasFinalDelivery(m)]
    BY <1>4 DEF Execution
  <2> QED BY <1>4, <2>1 DEF e
<1>5. CASE HasExecution(m) /\ e # NoExecution
  <2>1. \E left \in {e, [e EXCEPT !.open = TRUE], [e EXCEPT !.open = FALSE]} :
          Execution(m, e) = [left EXCEPT !.was = StatusOfTurn(m), !.final = HasFinalDelivery(m)]
    BY <1>5 DEF Execution
  <2>2. PICK left \in {e, [e EXCEPT !.open = TRUE], [e EXCEPT !.open = FALSE]} :
          Execution(m, e) = [left EXCEPT !.was = StatusOfTurn(m), !.final = HasFinalDelivery(m)]
    BY <2>1
  <2>3. left \in [open : BOOLEAN, was : Outcomes \cup {"waiting", "absent"}, final : BOOLEAN]
    BY <1>1, <2>2
  <2> QED BY <1>5, <2>2, <2>3 DEF e
<1> QED BY <1>2, <1>3, <1>4, <1>5

\* What the message puts on screen, part by part.
LEMMA UnfoldedIs ==
  ASSUME NEW m \in TurnMessages, PartsAreInRuns(m), NEW s \in Screens,
         NEW n, n = Unfolded(m, s)
  PROVE  /\ n \in Screens
         /\ n.execution = Execution(m, s.execution)
         /\ \A g \in Tools : n.groups[g] =
              IF n.execution.open /\ Members(m, g) # {} THEN ToolGroup(m, s.groups[g], g) ELSE "absent"
         /\ \A t \in Tools \cup Delegated : n.folds[t] =
              IF n.execution.open /\ (t \in m.proxied \/ (t \in Called(m) /\ n.groups[GroupOf(m, t)] = "open"))
                THEN ToolFold(m, s.folds[t], t) ELSE "absent"
<1> DEFINE e == Execution(m, s.execution)
           groups == [g \in Tools |-> IF e.open /\ Members(m, g) # {} THEN ToolGroup(m, s.groups[g], g) ELSE "absent"]
           onScreen == IF ~e.open THEN {}
                       ELSE m.proxied \cup {t \in Called(m) : groups[GroupOf(m, t)] = "open"}
           folds == [t \in Tools \cup Delegated |-> IF t \in onScreen THEN ToolFold(m, s.folds[t], t) ELSE "absent"]
<1>1. n = [execution |-> e, groups |-> groups, folds |-> folds]
  BY DEF Unfolded
<1>2. e \in [open : BOOLEAN, was : Outcomes \cup {"waiting", "absent"}, final : BOOLEAN]
  BY ExecutionFits
<1>3. s.groups \in [Tools -> Fold] /\ s.folds \in [Tools \cup Delegated -> Fold]
  BY DEF Screens
<1>4. groups \in [Tools -> Fold]
  BY <1>3 DEF ToolGroup, Mounted, Fold
<1>5. folds \in [Tools \cup Delegated -> Fold]
  BY <1>3 DEF ToolFold, Mounted, Fold
<1>6. \A g \in Tools : groups[g] = IF e.open /\ Members(m, g) # {} THEN ToolGroup(m, s.groups[g], g) ELSE "absent"
  OBVIOUS
<1>7. \A t \in Tools \cup Delegated : folds[t] =
        IF e.open /\ (t \in m.proxied \/ (t \in Called(m) /\ groups[GroupOf(m, t)] = "open"))
          THEN ToolFold(m, s.folds[t], t) ELSE "absent"
  OBVIOUS
<1> HIDE DEF e, groups, folds
<1>8. n.execution = e /\ n.groups = groups /\ n.folds = folds
  BY <1>1
<1>9. n \in Screens
  BY <1>1, <1>2, <1>4, <1>5 DEF Screens
<1> QED BY <1>6, <1>7, <1>8, <1>9 DEF e

\* Whatever was on screen, what is rendered fits the message.
LEMMA RenderedFits ==
  ASSUME NEW m \in TurnMessages, PartsAreInRuns(m), NEW s \in Screens
  PROVE  Unfolded(m, s) \in Screens /\ Fits(m, Unfolded(m, s))
<1> DEFINE n == Unfolded(m, s)
<1>1. /\ n \in Screens
      /\ n.execution = Execution(m, s.execution)
      /\ \A g \in Tools : n.groups[g] =
           IF n.execution.open /\ Members(m, g) # {} THEN ToolGroup(m, s.groups[g], g) ELSE "absent"
      /\ \A t \in Tools \cup Delegated : n.folds[t] =
           IF n.execution.open /\ (t \in m.proxied \/ (t \in Called(m) /\ n.groups[GroupOf(m, t)] = "open"))
             THEN ToolFold(m, s.folds[t], t) ELSE "absent"
  BY UnfoldedIs
<1> HIDE DEF n
<1>2. IF HasExecution(m) THEN n.execution.was = StatusOfTurn(m) /\ n.execution.final = HasFinalDelivery(m)
                         ELSE n.execution = NoExecution
  BY <1>1, ExecutionFits
<1>3. \A g \in Tools : n.groups[g] # "absent" <=> n.execution.open /\ Members(m, g) # {}
  BY <1>1 DEF ToolGroup, Mounted
<1>4. \A t \in Tools \cup Delegated : n.folds[t] # "absent" <=>
        n.execution.open /\ (t \in m.proxied \/ (t \in Called(m) /\ n.groups[GroupOf(m, t)] = "open"))
  BY <1>1 DEF ToolFold, Mounted
<1> QED BY <1>1, <1>2, <1>3, <1>4 DEF Fits, n

\* A question keeps its buttons, or its place behind a fold, when the message changes;
\* one that is asked now is behind a fold if what it is shown in was folded.
LEMMA ChangeIsTold ==
  ASSUME NEW m \in TurnMessages, PartsAreInRuns(m), NEW n \in TurnMessages, PartsAreInRuns(n),
         NEW s \in Screens, Fits(m, s), NEW away, FoldsAreTold(m, s, away),
         GrowsInto(m, n), NEW extra, AskedFolded(m, n, s, extra),
         NEW k, k = Unfolded(n, s)
  PROVE  FoldsAreTold(n, k, IF k.execution.open THEN (away \cup extra) \cap Asking(n) ELSE {})
<1>1. /\ k \in Screens
      /\ \A g \in Tools : k.groups[g] =
           IF k.execution.open /\ Members(n, g) # {} THEN ToolGroup(n, s.groups[g], g) ELSE "absent"
      /\ \A t \in Tools \cup Delegated : k.folds[t] =
           IF k.execution.open /\ (t \in n.proxied \/ (t \in Called(n) /\ k.groups[GroupOf(n, t)] = "open"))
             THEN ToolFold(n, s.folds[t], t) ELSE "absent"
  BY UnfoldedIs
<1> SUFFICES ASSUME k.execution.open, NEW t \in Asking(n)
             PROVE  k.folds[t] = "open" <=> t \notin away \cup extra
  BY DEF FoldsAreTold
<1>2. /\ t \in Tools \cup Delegated /\ NeedsInput(n, t) /\ t \in n.proxied \cup Called(n)
      /\ n.proxied \subseteq Delegated /\ m.proxied \subseteq Delegated
      /\ Called(n) \subseteq Tools /\ Called(m) \subseteq Tools
      /\ t \in Asking(m) => t \in m.proxied \cup Called(m)
  BY CalledAreTools DEF Asking
<1>3. s.folds[t] \in Fold /\ \A g \in Tools : s.groups[g] \in Fold
  BY <1>2 DEF Screens
<1>4. /\ \A g \in Tools : s.groups[g] # "absent" <=> s.execution.open /\ Members(m, g) # {}
      /\ s.folds[t] # "absent" <=>
           /\ s.execution.open
           /\ t \in m.proxied \/ (t \in Called(m) /\ s.groups[GroupOf(m, t)] = "open")
  BY <1>2 DEF Fits
<1>5. /\ t \notin Asking(m) => t \notin away
      /\ t \in Asking(m) /\ s.execution.open => (s.folds[t] = "open" <=> t \notin away)
      /\ ~s.execution.open => t \notin away
  BY DEF FoldsAreTold
<1>6. t \in extra <=> /\ t \notin Asking(m)
                      /\ s.folds[t] = "closed" \/ (t \in Called(n) /\ s.groups[GroupOf(n, t)] = "closed")
  BY DEF AskedFolded
<1>7. ToolFold(n, s.folds[t], t) = IF s.folds[t] = "absent" THEN "open" ELSE s.folds[t]
  BY <1>2, <1>3 DEF ToolFold, Mounted
<1>8. t \in Called(m) => t \in Called(n) /\ GroupOf(n, t) = GroupOf(m, t)
  BY DEF GrowsInto
<1>9. CASE t \in n.proxied
  <2>1. t \notin Tools /\ k.folds[t] = ToolFold(n, s.folds[t], t)
    BY <1>1, <1>2, <1>9, DisclosureAssumption
  <2>2. CASE t \in Asking(m)
    BY <1>2, <1>4, <1>5, <1>6, <1>7, <2>1, <2>2
  <2>3. CASE t \notin Asking(m)
    BY <1>2, <1>3, <1>5, <1>6, <1>7, <2>1, <2>3 DEF Fold
  <2> QED BY <2>2, <2>3
<1>10. CASE t \in Called(n) /\ t \notin n.proxied
  <2> DEFINE g == GroupOf(n, t)
  <2>1. g \in Tools /\ t \in Members(n, g) /\ t \notin Delegated
    BY <1>2, <1>10, GroupsAreCalled, DisclosureAssumption DEF Members
  <2>2. k.groups[g] = IF s.groups[g] = "absent" THEN "open" ELSE s.groups[g]
    <3>1. \E u \in Members(n, g) : NeedsInput(n, u)
      BY <1>2, <2>1
    <3>2. k.groups[g] = ToolGroup(n, s.groups[g], g)
      BY <1>1, <2>1
    <3> QED BY <3>1, <3>2 DEF ToolGroup, Mounted
  <2>3. k.folds[t] = IF k.groups[g] = "open" THEN ToolFold(n, s.folds[t], t) ELSE "absent"
    BY <1>1, <1>2, <1>10
  <2>4. t \in Called(m) => t \in Members(m, g) /\ GroupOf(m, t) = g
    BY <1>8 DEF Members
  <2>5. s.groups[g] \in Fold
    BY <1>3, <2>1
  <2>6. t \notin m.proxied
    BY <1>2, <2>1
  <2> HIDE DEF g
  <2>7. CASE t \in Asking(m)
    <3>1. t \in Called(m) /\ GroupOf(m, t) = g /\ Members(m, g) # {}
      BY <1>2, <2>4, <2>6, <2>7
    <3>2. t \notin extra
      BY <1>6, <2>7
    <3>3. CASE ~s.execution.open
      <4>1. s.groups[g] = "absent" /\ s.folds[t] = "absent"
        BY <1>4, <2>1, <3>3
      <4> QED BY <1>5, <1>7, <2>2, <2>3, <3>2, <3>3, <4>1
    <3>4. CASE s.execution.open
      <4>1. s.groups[g] # "absent"
        BY <1>4, <2>1, <3>1, <3>4
      <4>2. s.folds[t] # "absent" <=> s.groups[g] = "open"
        BY <1>4, <2>6, <3>1, <3>4
      <4> QED BY <1>5, <1>7, <2>2, <2>3, <2>7, <3>2, <3>4, <4>1, <4>2
    <3> QED BY <3>3, <3>4
  <2>8. CASE t \notin Asking(m)
    <3>1. t \in extra <=> s.folds[t] = "closed" \/ s.groups[g] = "closed"
      BY <1>6, <1>10, <2>8 DEF g
    <3>2. s.groups[g] # "open" => s.folds[t] = "absent"
      BY <1>4, <2>4, <2>6
    <3> QED BY <1>3, <1>5, <1>7, <2>2, <2>3, <2>5, <2>8, <3>1, <3>2 DEF Fold
  <2> QED BY <2>7, <2>8
<1> QED BY <1>2, <1>9, <1>10

\* The execution group follows the turn: it is open until the answer is delivered,
\* unless the user toggled it since the turn last came to wait, ended or was answered.
LEMMA ChangeIsFollowed ==
  ASSUME NEW m \in TurnMessages, NEW n \in TurnMessages, PartsAreInRuns(n), NEW s \in Screens,
         Fits(m, s), GrowsInto(m, n), NEW toggled \in BOOLEAN, OpenUntilDelivered(m, s, toggled),
         NEW k, k = Unfolded(n, s),
         NEW turns \in BOOLEAN,
         turns <=> \/ StatusOfTurn(n) \notin {"running", StatusOfTurn(m)}
                   \/ HasFinalDelivery(n) # HasFinalDelivery(m)
  PROVE  OpenUntilDelivered(n, k, toggled /\ ~turns)
<1> SUFFICES ASSUME HasExecution(n), ~(toggled /\ ~turns)
             PROVE  k.execution.open = ~HasFinalDelivery(n)
  BY DEF OpenUntilDelivered
<1> DEFINE e == s.execution
           status == StatusOfTurn(n)
           final == HasFinalDelivery(n)
<1>1. k.execution = Execution(n, e)
  BY UnfoldedIs
<1>2. e \in [open : BOOLEAN, was : Outcomes \cup {"waiting", "absent"}, final : BOOLEAN]
  BY DEF Screens
<1>3. /\ status \in Outcomes \cup {"waiting"} /\ final \in BOOLEAN
      /\ final => status = "completed"
      /\ StatusOfTurn(m) \in Outcomes \cup {"waiting"} /\ StatusOfTurn(m) # "absent"
      /\ HasFinalDelivery(m) \in BOOLEAN /\ (HasFinalDelivery(m) => StatusOfTurn(m) = "completed")
  BY StatusIsOne DEF HasFinalDelivery
<1>4. HasExecution(m) => e.was = StatusOfTurn(m) /\ e.final = HasFinalDelivery(m)
  BY DEF Fits
<1>5. ~HasExecution(m) => e = NoExecution
  BY DEF Fits
<1>6. CASE e = NoExecution
  <2>1. Execution(n, e) = [open |-> ~final, was |-> status, final |-> final]
    BY <1>6 DEF Execution
  <2> QED BY <1>1, <2>1
<1>7. CASE e # NoExecution
  <2>1. e.was = StatusOfTurn(m) /\ e.final = HasFinalDelivery(m) /\ HasExecution(m)
    BY <1>4, <1>5, <1>7
  <2>2. ~toggled => e.open = ~e.final
    BY <2>1 DEF OpenUntilDelivered
  <2>3. StatusOfTurn(m) \notin {"running", "waiting"} => m.outcome # "running" /\ m.outcome = StatusOfTurn(m)
    BY DEF StatusOfTurn
  <2>4. StatusOfTurn(m) \notin {"running", "waiting"} =>
          /\ status \in {"waiting", StatusOfTurn(m)}
          /\ HasFinalDelivery(m) /\ status = StatusOfTurn(m) => final
    BY <2>3 DEF GrowsInto, StatusOfTurn, HasFinalDelivery, TurnMessages
  <2>5. Execution(n, e).open =
          IF status = e.was /\ final = e.final THEN e.open
          ELSE IF status = "waiting" THEN TRUE
          ELSE IF (~e.final \/ e.was \in {"running", "waiting"}) /\ final THEN FALSE
          ELSE IF e.was \in {"running", "waiting"} /\ status # "running" THEN TRUE ELSE e.open
    <3> HIDE DEF e, status, final
    <3>1. Execution(n, e) =
            [(IF status = e.was /\ final = e.final THEN e
              ELSE IF status = "waiting" THEN [e EXCEPT !.open = TRUE]
              ELSE IF (~e.final \/ e.was \in {"running", "waiting"}) /\ final THEN [e EXCEPT !.open = FALSE]
              ELSE IF e.was \in {"running", "waiting"} /\ status # "running" THEN [e EXCEPT !.open = TRUE] ELSE e)
             EXCEPT !.was = status, !.final = final]
      BY <1>7 DEF Execution, status, final
    <3> QED BY <1>2, <3>1
  <2>6. turns <=> status \notin {"running", e.was} \/ final # e.final
    BY <2>1
  <2>7. e.final \in BOOLEAN /\ e.open \in BOOLEAN
    BY <1>2
  <2> HIDE DEF e, status, final
  <2> QED BY <1>1, <1>3, <2>1, <2>2, <2>4, <2>5, <2>6, <2>7 DEF status, final
<1> QED BY <1>6, <1>7

\* A message that gains a part keeps the groups of its tools; a tool that it gains
\* joins the run that the message ended with, or starts one.
LEMMA GroupsAreKept ==
  ASSUME NEW m \in TurnMessages, PartsAreInRuns(m), NEW n \in TurnMessages,
         NEW p \in Tools \cup {NoTool}, p \notin Called(m), n.parts = Append(m.parts, p)
  PROVE  /\ PartsAreInRuns(n)
         /\ Called(n) = Called(m) \cup ({p} \ {NoTool})
         /\ \A t \in Called(m) : GroupOf(n, t) = GroupOf(m, t)
         /\ p # NoTool => GroupOf(n, p) = IF m.parts # <<>> /\ Last(m.parts) # NoTool
                                          THEN GroupOf(m, Last(m.parts)) ELSE p
<1> DEFINE l == Len(m.parts)
<1>1. /\ m.parts \in Seq(Tools \cup {NoTool}) /\ l \in Nat
      /\ Len(n.parts) = l + 1 /\ n.parts[l + 1] = p
      /\ \A i \in 1..l : n.parts[i] = m.parts[i]
  BY DEF TurnMessages
<1> HIDE DEF l
<1>2. Called(n) = Called(m) \cup ({p} \ {NoTool})
  <2>1. \A t : t \in Called(n) <=> t # NoTool /\ \E i \in 1..(l + 1) : n.parts[i] = t
    BY <1>1, CalledHasPlace
  <2>2. \A t : t \in Called(m) <=> t # NoTool /\ \E i \in 1..l : m.parts[i] = t
    BY CalledHasPlace DEF l
  <2> QED BY <1>1, <2>1, <2>2
<1>3. \A i, j \in 1..Len(n.parts) : n.parts[i] = n.parts[j] /\ n.parts[i] # NoTool => i = j
  <2>1. \A i \in 1..l : m.parts[i] # NoTool => m.parts[i] \in Called(m)
    BY CalledHasPlace DEF l
  <2>2. \A i, j \in 1..l : m.parts[i] = m.parts[j] /\ m.parts[i] # NoTool => i = j
    BY DEF PartsAreInRuns, l
  <2>3. \A i \in 1..(l + 1) : i = l + 1 \/ i \in 1..l
    BY <1>1
  <2>4. p # NoTool => \A i \in 1..l : n.parts[i] # p
    BY <1>1, <2>1
  <2> QED BY <1>1, <2>2, <2>3, <2>4
<1>4. \A i \in 1..l : m.parts[i] # NoTool => PlaceOf(n, m.parts[i]) = i /\ PlaceOf(m, m.parts[i]) = i
  <2> SUFFICES ASSUME NEW i \in 1..l, m.parts[i] # NoTool
               PROVE  PlaceOf(n, m.parts[i]) = i /\ PlaceOf(m, m.parts[i]) = i
    OBVIOUS
  <2>1. PlaceOf(m, m.parts[i]) = i
    BY PlaceIsOnly DEF l
  <2>2. DOMAIN n.parts = 1..(l + 1) /\ i \in 1..(l + 1)
    BY <1>1 DEF TurnMessages
  <2>3. \E j \in DOMAIN n.parts : n.parts[j] = m.parts[i]
    BY <1>1, <2>2
  <2>4. PlaceOf(n, m.parts[i]) \in DOMAIN n.parts /\ n.parts[PlaceOf(n, m.parts[i])] = m.parts[i]
    BY <2>3 DEF PlaceOf
  <2> QED BY <1>1, <1>3, <2>1, <2>2, <2>4
<1>5. p # NoTool => PlaceOf(n, p) = l + 1
  <2> SUFFICES ASSUME p # NoTool PROVE PlaceOf(n, p) = l + 1
    OBVIOUS
  <2>1. DOMAIN n.parts = 1..(l + 1) /\ l + 1 \in 1..(l + 1)
    BY <1>1 DEF TurnMessages
  <2>2. PlaceOf(n, p) \in DOMAIN n.parts /\ n.parts[PlaceOf(n, p)] = p
    BY <1>1, <2>1 DEF PlaceOf
  <2> QED BY <1>1, <1>3, <2>1, <2>2
<1>6. \A i \in 1..l : \A j : StartsRun(n, i, j) <=> StartsRun(m, i, j)
  <2> SUFFICES ASSUME NEW i \in 1..l, NEW j \in 1..i
               PROVE  StartsRun(n, i, j) <=> StartsRun(m, i, j)
    BY DEF StartsRun
  <2>1. \A k \in j..i : n.parts[k] = m.parts[k]
    BY <1>1
  <2>2. j = 1 \/ n.parts[j - 1] = m.parts[j - 1]
    BY <1>1
  <2> QED BY <2>1, <2>2 DEF StartsRun
<1>7. \A t \in Called(m) : GroupOf(n, t) = GroupOf(m, t)
  <2> SUFFICES ASSUME NEW t \in Called(m) PROVE GroupOf(n, t) = GroupOf(m, t)
    OBVIOUS
  <2>1. PICK i \in 1..l : m.parts[i] = t /\ t # NoTool
    BY CalledHasPlace DEF l
  <2>2. PlaceOf(n, t) = i /\ PlaceOf(m, t) = i
    BY <1>4, <2>1
  <2>3. (CHOOSE j : StartsRun(n, i, j)) = (CHOOSE j : StartsRun(m, i, j))
    BY <1>6
  <2> DEFINE start == CHOOSE j : StartsRun(m, i, j)
  <2>4. GroupOf(n, t) = n.parts[start] /\ GroupOf(m, t) = m.parts[start]
    BY <2>2, <2>3, GroupIsStart
  <2>5. start \in 1..l
    BY <1>1, <2>1, GroupIsCalled DEF l
  <2> QED BY <1>1, <2>4, <2>5
<1>8. ASSUME p # NoTool, NEW q \in 1..l, l > 0, m.parts[l] # NoTool
      PROVE  StartsRun(n, l + 1, q) <=> StartsRun(m, l, q)
  <2> SUFFICES ASSUME q \in 1..(l + 1)
               PROVE  NoTool \notin {n.parts[k] : k \in q..(l + 1)} <=> NoTool \notin {m.parts[k] : k \in q..l}
    BY <1>1 DEF StartsRun
  <2>1. \A k : k \in q..(l + 1) <=> k \in q..l \/ k = l + 1
    BY <1>1
  <2>2. \A k \in q..l : n.parts[k] = m.parts[k]
    BY <1>1
  <2> QED BY <1>1, <1>8, <2>1, <2>2
<1>9. ASSUME p # NoTool, m.parts # <<>>, Last(m.parts) # NoTool
      PROVE  /\ \E j : StartsRun(n, l + 1, j)
             /\ GroupOf(n, p) = GroupOf(m, Last(m.parts))
  <2>1. l > 0 /\ m.parts[l] # NoTool /\ Last(m.parts) = m.parts[l] /\ l \in 1..l
    BY <1>1, <1>9, EmptySeq DEF Last, l
  <2>2. ASSUME NEW q, StartsRun(n, l + 1, q) PROVE q \in 1..l
    <3>1. q \in 1..(l + 1) /\ (q = 1 \/ n.parts[q - 1] = NoTool)
      BY <2>2 DEF StartsRun
    <3> QED BY <1>1, <2>1, <3>1
  <2>3. ASSUME NEW q, StartsRun(m, l, q) PROVE q \in 1..l
    BY <2>3 DEF StartsRun
  <2>4. \A q : StartsRun(n, l + 1, q) <=> StartsRun(m, l, q)
    BY <1>8, <1>9, <2>1, <2>2, <2>3
  <2>5. (CHOOSE q : StartsRun(n, l + 1, q)) = (CHOOSE q : StartsRun(m, l, q))
    BY <2>4
  <2> DEFINE start == CHOOSE q : StartsRun(m, l, q)
  <2>6. StartsRun(m, l, start) /\ start \in 1..l /\ GroupOf(m, m.parts[l]) = m.parts[start]
    BY <2>1, GroupIsCalled DEF l
  <2>7. GroupOf(n, p) = n.parts[start]
    BY <1>5, <1>9, <2>5, GroupIsStart
  <2> HIDE DEF start
  <2> QED BY <1>1, <2>1, <2>4, <2>6, <2>7
<1>10. ASSUME p # NoTool, ~(m.parts # <<>> /\ Last(m.parts) # NoTool)
       PROVE  /\ \E j : StartsRun(n, l + 1, j)
              /\ GroupOf(n, p) = p
  <2>1. l = 0 \/ n.parts[l] = NoTool
    BY <1>1, <1>10, EmptySeq DEF Last, l
  <2>2. StartsRun(n, l + 1, l + 1)
    <3>1. \A k \in (l + 1)..(l + 1) : n.parts[k] # NoTool
      BY <1>1, <1>10
    <3>2. l + 1 = 1 \/ n.parts[(l + 1) - 1] = NoTool
      BY <1>1, <2>1
    <3> QED BY <1>1, <3>1, <3>2 DEF StartsRun
  <2>3. ASSUME NEW q, StartsRun(n, l + 1, q) PROVE q = l + 1
    <3>1. q \in 1..(l + 1) /\ \A k \in q..(l + 1) : n.parts[k] # NoTool
      BY <2>3 DEF StartsRun
    <3>2. q \in 1..l => l \in q..(l + 1) /\ l # 0
      BY <1>1
    <3> QED BY <1>1, <2>1, <3>1, <3>2
  <2>4. (CHOOSE q : StartsRun(n, l + 1, q)) = l + 1
    BY <2>2, <2>3
  <2>5. GroupOf(n, p) = n.parts[l + 1]
    BY <1>5, <1>10, <2>4, GroupIsStart
  <2> QED BY <1>1, <2>2, <2>5
<1>11. \A i \in 1..Len(n.parts) : n.parts[i] # NoTool => \E j : StartsRun(n, i, j)
  <2> SUFFICES ASSUME NEW i \in 1..Len(n.parts), n.parts[i] # NoTool
               PROVE  \E j : StartsRun(n, i, j)
    OBVIOUS
  <2>1. CASE i \in 1..l
    <3>1. m.parts[i] # NoTool
      BY <1>1, <2>1
    <3>2. \E j : StartsRun(m, i, j)
      BY <2>1, <3>1 DEF PartsAreInRuns, l
    <3> QED BY <1>6, <2>1, <3>2
  <2>2. CASE i = l + 1
    BY <1>1, <1>9, <1>10, <2>2
  <2> QED BY <1>1, <2>1, <2>2
<1> QED BY <1>2, <1>3, <1>7, <1>9, <1>10, <1>11 DEF PartsAreInRuns

\* A message whose parts are the same has the same tools, in the same groups.
LEMMA SamePartsSameGroups ==
  ASSUME NEW m \in TurnMessages, PartsAreInRuns(m), NEW n \in TurnMessages, n.parts = m.parts
  PROVE  PartsAreInRuns(n) /\ Called(n) = Called(m) /\ \A t : GroupOf(n, t) = GroupOf(m, t)
<1>1. Called(n) = Called(m)
  BY DEF Called
<1>2. \A t : GroupOf(n, t) = GroupOf(m, t)
  BY DEF GroupOf
<1>3. \A i, j : StartsRun(n, i, j) <=> StartsRun(m, i, j)
  BY DEF StartsRun
<1>4. PartsAreInRuns(n)
  BY <1>3 DEF PartsAreInRuns
<1> QED BY <1>1, <1>2, <1>4

\* The step in which the message becomes n, rendered on top of what was on screen.
LEMMA ChangeStep ==
  ASSUME DisclosureInv, NEW n \in TurnMessages, PartsAreInRuns(n), GrowsInto(shownTurn, n),
         NEW extra, AskedFolded(shownTurn, n, disclosed, extra), Changes(n, extra)
  PROVE  DisclosureInv'
<1> DEFINE k == Unfolded(n, disclosed)
           turns == \/ StatusOfTurn(n) \notin {"running", StatusOfTurn(shownTurn)}
                    \/ HasFinalDelivery(n) # HasFinalDelivery(shownTurn)
           away == IF k.execution.open THEN (foldedAway \cup extra) \cap Asking(n) ELSE {}
<1>1. /\ shownTurn \in TurnMessages /\ disclosed \in Screens /\ byUser \in BOOLEAN
      /\ PartsAreInRuns(shownTurn) /\ Fits(shownTurn, disclosed)
      /\ FoldsAreTold(shownTurn, disclosed, foldedAway)
      /\ OpenUntilDelivered(shownTurn, disclosed, byUser)
  BY DEF DisclosureInv
<1>2. /\ shownTurn' = n /\ disclosed' = k /\ foldedAway' = away
      /\ byUser' = (byUser /\ ~turns)
  BY DEF Changes, Display
<1>3. k \in Screens /\ Fits(n, k)
  BY <1>1, RenderedFits
<1>4. FoldsAreTold(n, k, away)
  BY <1>1, ChangeIsTold
<1>5. OpenUntilDelivered(n, k, byUser /\ ~turns)
  <2>1. turns \in BOOLEAN
    BY DEF turns
  <2>2. turns <=> \/ StatusOfTurn(n) \notin {"running", StatusOfTurn(shownTurn)}
                  \/ HasFinalDelivery(n) # HasFinalDelivery(shownTurn)
    BY DEF turns
  <2>3. k = Unfolded(n, disclosed)
    BY DEF k
  <2> HIDE DEF k, turns
  <2> QED BY <1>1, <2>1, <2>2, <2>3, ChangeIsFollowed
<1>6. (byUser /\ ~turns) \in BOOLEAN
  OBVIOUS
<1> HIDE DEF k, turns, away
<1> QED BY <1>2, <1>3, <1>4, <1>5, <1>6 DEF DisclosureInv

\* Where nothing new is asked, nothing new is folded away.
LEMMA NothingAsked ==
  ASSUME NEW m, NEW n, NEW s, Asking(n) \subseteq Asking(m)
  PROVE  AskedFolded(m, n, s, {})
BY DEF AskedFolded

\* Text and reasoning, the turn's end, its answer, and what the next turns bring, ask nothing.
LEMMA TextAppearsStep == ASSUME DisclosureInv, TextAppears PROVE DisclosureInv'
<1> DEFINE n == [shownTurn EXCEPT !.parts = Append(@, NoTool)]
<1>1. shownTurn \in TurnMessages /\ PartsAreInRuns(shownTurn)
  BY DEF DisclosureInv
<1>8. Append(shownTurn.parts, NoTool) \in Seq(Tools \cup {NoTool})
  BY <1>1, AppendProperties DEF TurnMessages
<1>2. /\ n \in TurnMessages /\ n.parts = Append(shownTurn.parts, NoTool)
      /\ n.tools = shownTurn.tools /\ n.proxied = shownTurn.proxied
      /\ n.outcome = shownTurn.outcome /\ n.delivered = shownTurn.delivered /\ n.later = shownTurn.later
  BY <1>1, <1>8 DEF TurnMessages
<1>3. Changes(n, {})
  BY DEF TextAppears
<1> HIDE DEF n
<1>4. NoTool \notin Called(shownTurn) /\ NoTool \in Tools \cup {NoTool}
  BY DEF Called
<1>5. /\ PartsAreInRuns(n) /\ Called(n) = Called(shownTurn)
      /\ \A t \in Called(shownTurn) : GroupOf(n, t) = GroupOf(shownTurn, t)
  <2>1. Called(n) = Called(shownTurn) \cup ({NoTool} \ {NoTool})
    BY <1>1, <1>2, <1>4, GroupsAreKept
  <2>2. PartsAreInRuns(n) /\ \A t \in Called(shownTurn) : GroupOf(n, t) = GroupOf(shownTurn, t)
    BY <1>1, <1>2, <1>4, GroupsAreKept
  <2> QED BY <2>1, <2>2
<1>6. GrowsInto(shownTurn, n)
  BY <1>2, <1>5 DEF GrowsInto
<1>7. AskedFolded(shownTurn, n, disclosed, {})
  BY <1>2, <1>5, NothingAsked DEF Asking, NeedsInput
<1> QED BY <1>2, <1>3, <1>5, <1>6, <1>7, ChangeStep

\* A change that names no part and asks nothing keeps the invariant.
LEMMA QuietStep ==
  ASSUME DisclosureInv, NEW n \in TurnMessages, n.parts = shownTurn.parts,
         Asking(n) \subseteq Asking(shownTurn), Changes(n, {}),
         shownTurn.outcome # "running" =>
           /\ n.outcome = shownTurn.outcome
           /\ (shownTurn.delivered => n.delivered) /\ (shownTurn.later => n.later)
  PROVE  DisclosureInv'
<1>1. /\ PartsAreInRuns(n) /\ Called(n) = Called(shownTurn)
      /\ \A t : GroupOf(n, t) = GroupOf(shownTurn, t)
  BY SamePartsSameGroups DEF DisclosureInv
<1>2. GrowsInto(shownTurn, n)
  BY <1>1 DEF GrowsInto
<1> QED BY <1>1, <1>2, NothingAsked, ChangeStep

\* The turn's end, its answer, and the turns after it.
LEMMA TurnSteps ==
  ASSUME DisclosureInv,
         \/ \E outcome \in Outcomes \ {"running"} : TurnIsOver(outcome)
         \/ AnswerIsDelivered \/ NextTurnStarts \/ NextTurnDelivers
  PROVE  DisclosureInv'
<1>1. shownTurn \in TurnMessages
  BY DEF DisclosureInv
<1>2. ASSUME NEW outcome \in Outcomes \ {"running"}, TurnIsOver(outcome) PROVE DisclosureInv'
  <2> DEFINE n == [shownTurn EXCEPT !.outcome = outcome]
  <2>1. /\ n \in TurnMessages /\ n.parts = shownTurn.parts
        /\ n.tools = shownTurn.tools /\ n.proxied = shownTurn.proxied
    BY <1>1 DEF TurnMessages
  <2>2. Changes(n, {}) /\ shownTurn.outcome = "running"
    BY <1>2 DEF TurnIsOver
  <2> HIDE DEF n
  <2>3. Asking(n) \subseteq Asking(shownTurn)
    BY <2>1 DEF Asking, NeedsInput, Called
  <2> QED BY <2>1, <2>2, <2>3, QuietStep
<1>3. CASE AnswerIsDelivered
  <2> DEFINE n == [shownTurn EXCEPT !.delivered = TRUE]
  <2>1. /\ n \in TurnMessages /\ n.parts = shownTurn.parts
        /\ n.tools = shownTurn.tools /\ n.proxied = shownTurn.proxied
    BY <1>1 DEF TurnMessages
  <2>2. Changes(n, {}) /\ shownTurn.outcome = "running"
    BY <1>3 DEF AnswerIsDelivered
  <2> HIDE DEF n
  <2>3. Asking(n) \subseteq Asking(shownTurn)
    BY <2>1 DEF Asking, NeedsInput, Called
  <2> QED BY <2>1, <2>2, <2>3, QuietStep
<1>4. CASE NextTurnStarts
  <2> DEFINE tools == [t \in Tools |-> IF NeedsInput(shownTurn, t) THEN "approval-responded" ELSE shownTurn.tools[t]]
             n == [shownTurn EXCEPT !.next = TRUE, !.proxied = {}, !.tools = tools]
  <2>1. tools \in [Tools -> ToolStates]
    BY <1>1 DEF TurnMessages, ToolStates
  <2>2. \A t \in Tools : t \in Called(shownTurn) => tools[t] # "approval-requested"
    BY DEF NeedsInput
  <2> HIDE DEF tools
  <2>3. /\ n \in TurnMessages /\ n.parts = shownTurn.parts /\ n.tools = tools /\ n.proxied = {}
        /\ n.outcome = shownTurn.outcome /\ n.delivered = shownTurn.delivered /\ n.later = shownTurn.later
    BY <1>1, <2>1 DEF TurnMessages
  <2>4. Changes(n, {})
    BY <1>4 DEF NextTurnStarts, tools
  <2> HIDE DEF n
  <2>5. Asking(n) \subseteq Asking(shownTurn)
    <3>1. Called(n) = Called(shownTurn) /\ Called(n) \subseteq Tools
      BY <1>1, <2>3, CalledAreTools DEF Called
    <3> QED BY <2>2, <2>3, <3>1 DEF Asking, NeedsInput
  <2> QED BY <2>3, <2>4, <2>5, QuietStep
<1>5. CASE NextTurnDelivers
  <2> DEFINE n == [shownTurn EXCEPT !.later = TRUE]
  <2>1. /\ n \in TurnMessages /\ n.parts = shownTurn.parts
        /\ n.tools = shownTurn.tools /\ n.proxied = shownTurn.proxied
        /\ n.outcome = shownTurn.outcome /\ n.delivered = shownTurn.delivered /\ n.later
    BY <1>1 DEF TurnMessages
  <2>2. Changes(n, {})
    BY <1>5 DEF NextTurnDelivers
  <2> HIDE DEF n
  <2>3. Asking(n) \subseteq Asking(shownTurn)
    BY <2>1 DEF Asking, NeedsInput, Called
  <2> QED BY <2>1, <2>2, <2>3, QuietStep
<1> QED BY <1>2, <1>3, <1>4, <1>5

\* A tool that appears, or advances, and a sub-agent's question: it is folded away when
\* it is asked exactly if what it is shown in was folded.
LEMMA ToolAppearsStep ==
  ASSUME DisclosureInv, NEW t \in Tools, NEW state \in {"input-streaming", "approval-requested"},
         ToolAppears(t, state)
  PROVE  DisclosureInv'
<1> DEFINE n == [shownTurn EXCEPT !.parts = Append(@, t), !.tools[t] = state, !.delivered = FALSE]
           folded == /\ shownTurn.parts # <<>> /\ Last(shownTurn.parts) # NoTool
                     /\ disclosed.groups[GroupOf(shownTurn, Last(shownTurn.parts))] = "closed"
           extra == IF folded /\ state = "approval-requested" THEN {t} ELSE {}
<1>1. /\ shownTurn \in TurnMessages /\ PartsAreInRuns(shownTurn)
      /\ disclosed \in Screens /\ Fits(shownTurn, disclosed)
  BY DEF DisclosureInv
<1>2. Append(shownTurn.parts, t) \in Seq(Tools \cup {NoTool})
  BY <1>1, AppendProperties DEF TurnMessages
<1>3. /\ n \in TurnMessages /\ n.parts = Append(shownTurn.parts, t)
      /\ n.tools = [shownTurn.tools EXCEPT ![t] = state]
      /\ n.proxied = shownTurn.proxied /\ n.outcome = shownTurn.outcome
  BY <1>1, <1>2 DEF TurnMessages, ToolStates
<1>4. Changes(n, extra) /\ t \notin Called(shownTurn) /\ shownTurn.outcome = "running"
  BY DEF ToolAppears
<1> HIDE DEF n
<1>5. t # NoTool /\ t \in Tools \cup {NoTool} /\ t \notin Delegated
  BY DisclosureAssumption
<1>6. Called(n) = Called(shownTurn) \cup {t}
  <2>1. Called(n) = Called(shownTurn) \cup ({t} \ {NoTool})
    BY <1>1, <1>3, <1>4, <1>5, GroupsAreKept
  <2> QED BY <1>5, <2>1
<1>7. /\ PartsAreInRuns(n) /\ \A u \in Called(shownTurn) : GroupOf(n, u) = GroupOf(shownTurn, u)
      /\ GroupOf(n, t) = IF shownTurn.parts # <<>> /\ Last(shownTurn.parts) # NoTool
                         THEN GroupOf(shownTurn, Last(shownTurn.parts)) ELSE t
  BY <1>1, <1>3, <1>4, <1>5, GroupsAreKept
<1>8. GrowsInto(shownTurn, n)
  BY <1>4, <1>6, <1>7 DEF GrowsInto
<1>9. disclosed.folds[t] = "absent" /\ disclosed.groups[t] = "absent"
  <2>1. t \notin shownTurn.proxied /\ Members(shownTurn, t) = {}
    BY <1>1, <1>4, <1>5, CalledAreTools, GroupsAreCalled DEF Members
  <2> QED BY <1>1, <1>4, <2>1 DEF Fits
<1>10. folded <=> disclosed.groups[GroupOf(n, t)] = "closed"
  BY <1>7, <1>9
<1> HIDE DEF folded
<1>11. \A u \in Tools \cup Delegated : u # t => (u \in Asking(n) <=> u \in Asking(shownTurn))
  <2>1. shownTurn.tools \in [Tools -> ToolStates]
    BY <1>1 DEF TurnMessages
  <2>2. Called(shownTurn) \subseteq Tools
    BY <1>1, CalledAreTools
  <2> QED BY <1>3, <1>6, <2>1, <2>2 DEF Asking, NeedsInput
<1>12. t \in Asking(n) <=> state = "approval-requested"
  <2>1. shownTurn.tools \in [Tools -> ToolStates] /\ t \notin shownTurn.proxied
    BY <1>1, <1>5 DEF TurnMessages
  <2> QED BY <1>3, <1>6, <2>1 DEF Asking, NeedsInput
<1>13. t \notin Asking(shownTurn)
  BY <1>1, <1>4, <1>5, CalledAreTools
<1>14. AskedFolded(shownTurn, n, disclosed, extra)
  <2> SUFFICES ASSUME NEW u \in Asking(n)
               PROVE  u \in extra <=> /\ u \notin Asking(shownTurn)
                                      /\ \/ disclosed.folds[u] = "closed"
                                         \/ u \in Called(n) /\ disclosed.groups[GroupOf(n, u)] = "closed"
    BY DEF AskedFolded
  <2>1. CASE u = t
    BY <1>6, <1>9, <1>10, <1>12, <1>13, <2>1
  <2>2. CASE u # t
    BY <1>11, <2>2 DEF Asking
  <2> QED BY <2>1, <2>2
<1> HIDE DEF extra
<1> QED BY <1>3, <1>4, <1>7, <1>8, <1>14, ChangeStep

\* A tool that is folded when it asks is remembered as folded away.
LEMMA ToolAdvancesStep ==
  ASSUME DisclosureInv, NEW t \in Tools, NEW state \in ToolStates, ToolAdvances(t, state)
  PROVE  DisclosureInv'
<1> DEFINE n == [shownTurn EXCEPT !.tools[t] = state]
           extra == IF state = "approval-requested" /\ FoldedAway(t) THEN {t} ELSE {}
<1>1. shownTurn \in TurnMessages /\ PartsAreInRuns(shownTurn) /\ t \notin Delegated
  BY DisclosureAssumption DEF DisclosureInv
<1>2. shownTurn.tools \in [Tools -> ToolStates]
  BY <1>1 DEF TurnMessages
<1>3. /\ n \in TurnMessages /\ n.parts = shownTurn.parts
      /\ n.tools = [shownTurn.tools EXCEPT ![t] = state] /\ n.proxied = shownTurn.proxied
      /\ n.outcome = shownTurn.outcome /\ n.delivered = shownTurn.delivered /\ n.later = shownTurn.later
  BY <1>1 DEF TurnMessages
<1>4. Changes(n, extra) /\ t \in Called(shownTurn) /\ state \in Follows(shownTurn.tools[t])
  BY DEF ToolAdvances
<1> HIDE DEF n
<1>5. /\ PartsAreInRuns(n) /\ Called(n) = Called(shownTurn)
      /\ \A u : GroupOf(n, u) = GroupOf(shownTurn, u)
  BY <1>1, <1>3, SamePartsSameGroups
<1>6. GrowsInto(shownTurn, n)
  BY <1>3, <1>5 DEF GrowsInto
<1>7. t \notin shownTurn.proxied
  BY <1>1 DEF TurnMessages
<1>8. t \in Asking(n) <=> state = "approval-requested"
  BY <1>2, <1>3, <1>4, <1>5, <1>7 DEF Asking, NeedsInput
<1>9. state = "approval-requested" => t \notin Asking(shownTurn)
  <2>1. state = "approval-requested" => shownTurn.tools[t] = "input-available"
    BY <1>2, <1>4 DEF Follows, ToolStates
  <2> QED BY <1>7, <2>1 DEF Asking, NeedsInput
<1>10. \A u \in Tools \cup Delegated : u # t => (u \in Asking(n) <=> u \in Asking(shownTurn))
  <2>1. Called(shownTurn) \subseteq Tools
    BY <1>1, CalledAreTools
  <2> QED BY <1>2, <1>3, <1>5, <2>1 DEF Asking, NeedsInput
<1>11. FoldedAway(t) <=> \/ disclosed.folds[t] = "closed"
                         \/ t \in Called(n) /\ disclosed.groups[GroupOf(n, t)] = "closed"
  BY <1>5 DEF FoldedAway
<1>12. AskedFolded(shownTurn, n, disclosed, extra)
  <2> SUFFICES ASSUME NEW u \in Asking(n)
               PROVE  u \in extra <=> /\ u \notin Asking(shownTurn)
                                      /\ \/ disclosed.folds[u] = "closed"
                                         \/ u \in Called(n) /\ disclosed.groups[GroupOf(n, u)] = "closed"
    BY DEF AskedFolded
  <2>1. CASE u = t
    BY <1>8, <1>9, <1>11, <2>1
  <2>2. CASE u # t
    BY <1>10, <2>2 DEF Asking
  <2> QED BY <2>1, <2>2
<1> HIDE DEF extra
<1> QED BY <1>3, <1>4, <1>5, <1>6, <1>12, ChangeStep

\* The question of a sub-agent is shown after the parts, unfolded.
LEMMA AgentsQuestionStep ==
  ASSUME DisclosureInv, NEW q \in Delegated, AgentsQuestion(q)
  PROVE  DisclosureInv'
<1> DEFINE n == [shownTurn EXCEPT !.proxied = @ \cup {q}]
           extra == IF FoldedAway(q) THEN {q} ELSE {}
<1>1. shownTurn \in TurnMessages /\ PartsAreInRuns(shownTurn) /\ q \notin Tools
  BY DisclosureAssumption DEF DisclosureInv
<1>2. /\ n \in TurnMessages /\ n.parts = shownTurn.parts
      /\ n.tools = shownTurn.tools /\ n.proxied = shownTurn.proxied \cup {q}
  BY <1>1 DEF TurnMessages
<1>3. Changes(n, extra) /\ q \notin shownTurn.proxied /\ shownTurn.outcome = "running"
  BY DEF AgentsQuestion
<1> HIDE DEF n
<1>4. /\ PartsAreInRuns(n) /\ Called(n) = Called(shownTurn)
      /\ \A u : GroupOf(n, u) = GroupOf(shownTurn, u)
  BY <1>1, <1>2, SamePartsSameGroups
<1>5. GrowsInto(shownTurn, n)
  BY <1>3, <1>4 DEF GrowsInto
<1>6. q \notin Called(shownTurn)
  BY <1>1, CalledAreTools
<1>7. q \notin Asking(shownTurn) /\ \A u : u # q => (u \in Asking(n) <=> u \in Asking(shownTurn))
  BY <1>2, <1>3, <1>4, <1>6 DEF Asking, NeedsInput
<1>8. AskedFolded(shownTurn, n, disclosed, extra)
  BY <1>4, <1>6, <1>7 DEF AskedFolded, FoldedAway
<1> HIDE DEF extra
<1> QED BY <1>2, <1>3, <1>4, <1>5, <1>8, ChangeStep

\* A click leaves the turn as it is, and is rendered on top of the toggled screen s.
LEMMA ClickStep ==
  ASSUME DisclosureInv, NEW s \in Screens, NEW behind, NEW toggled \in BOOLEAN, Click(s, behind, toggled),
         FoldsAreTold(shownTurn, Unfolded(shownTurn, s),
                      IF Unfolded(shownTurn, s).execution.open THEN behind \cap Asking(shownTurn) ELSE {}),
         OpenUntilDelivered(shownTurn, Unfolded(shownTurn, s), toggled)
  PROVE  DisclosureInv'
<1> DEFINE k == Unfolded(shownTurn, s)
           away == IF k.execution.open THEN behind \cap Asking(shownTurn) ELSE {}
<1>1. shownTurn \in TurnMessages /\ PartsAreInRuns(shownTurn)
  BY DEF DisclosureInv
<1>2. shownTurn' = shownTurn /\ disclosed' = k /\ foldedAway' = away /\ byUser' = toggled
  BY DEF Click, Display
<1>3. k \in Screens /\ Fits(shownTurn, k)
  BY <1>1, RenderedFits
<1>4. FoldsAreTold(shownTurn, k, away) /\ OpenUntilDelivered(shownTurn, k, toggled)
  OBVIOUS
<1> HIDE DEF k, away
<1> QED BY <1>1, <1>2, <1>3, <1>4 DEF DisclosureInv

\* An execution group that fits the message stays as it is.
LEMMA ExecutionStays ==
  ASSUME NEW m \in TurnMessages, NEW d \in Screens, Fits(m, d)
  PROVE  Execution(m, d.execution) = d.execution
<1> DEFINE e == d.execution
<1>1. e \in [open : BOOLEAN, was : Outcomes \cup {"waiting", "absent"}, final : BOOLEAN]
  BY DEF Screens
<1>2. IF HasExecution(m) THEN e.was = StatusOfTurn(m) /\ e.final = HasFinalDelivery(m) ELSE e = NoExecution
  BY DEF Fits
<1> HIDE DEF e
<1>3. CASE ~HasExecution(m)
  BY <1>2, <1>3 DEF Execution, e
<1>4. CASE HasExecution(m)
  <2>1. e # NoExecution
    BY <1>2, <1>4, StatusIsOne DEF NoExecution
  <2>2. Execution(m, e) = [e EXCEPT !.was = StatusOfTurn(m), !.final = HasFinalDelivery(m)]
    BY <1>2, <1>4, <2>1 DEF Execution
  <2>3. Execution(m, e) = e
    BY <1>1, <1>2, <1>4, <2>2
  <2> QED BY <2>3 DEF e
<1> QED BY <1>3, <1>4 DEF HasExecution

\* A screen that had nothing of the turn, as after a reload or in a closed execution
\* group, has the buttons of every question once the group is open.
LEMMA OpenedIsTold ==
  ASSUME NEW m \in TurnMessages, PartsAreInRuns(m), NEW s \in Screens,
         \A g \in Tools : s.groups[g] = "absent",
         \A t \in Tools \cup Delegated : s.folds[t] = "absent",
         NEW k, k = Unfolded(m, s)
  PROVE  FoldsAreTold(m, k, {})
<1>1. /\ k \in Screens
      /\ \A g \in Tools : k.groups[g] =
           IF k.execution.open /\ Members(m, g) # {} THEN ToolGroup(m, s.groups[g], g) ELSE "absent"
      /\ \A t \in Tools \cup Delegated : k.folds[t] =
           IF k.execution.open /\ (t \in m.proxied \/ (t \in Called(m) /\ k.groups[GroupOf(m, t)] = "open"))
             THEN ToolFold(m, s.folds[t], t) ELSE "absent"
  BY UnfoldedIs
<1> SUFFICES ASSUME k.execution.open, NEW t \in Asking(m) PROVE k.folds[t] = "open"
  BY DEF FoldsAreTold
<1>2. t \in Tools \cup Delegated /\ NeedsInput(m, t) /\ t \in m.proxied \cup Called(m) /\ Called(m) \subseteq Tools
  BY CalledAreTools DEF Asking
<1>3. ToolFold(m, s.folds[t], t) = "open"
  BY <1>2 DEF ToolFold, Mounted
<1>4. CASE t \in Called(m)
  <2>1. GroupOf(m, t) \in Tools /\ t \in Members(m, GroupOf(m, t))
    BY <1>2, <1>4, GroupsAreCalled DEF Members
  <2>2. k.groups[GroupOf(m, t)] = "open"
    BY <1>1, <1>2, <2>1 DEF ToolGroup, Mounted
  <2> QED BY <1>1, <1>2, <1>3, <1>4, <2>2
<1>5. CASE t \in m.proxied
  BY <1>1, <1>2, <1>3, <1>5
<1> QED BY <1>2, <1>4, <1>5

\* A reload shows the turn as if it came up for the first time.
LEMMA LoadAgainStep == ASSUME DisclosureInv, LoadAgain PROVE DisclosureInv'
<1> DEFINE k == Unfolded(shownTurn, Blank)
<1>1. shownTurn \in TurnMessages /\ PartsAreInRuns(shownTurn)
  BY DEF DisclosureInv
<1>2. Blank \in Screens
  BY DEF Blank, Screens, NoExecution, Fold
<1>3. FoldsAreTold(shownTurn, k, {})
  BY <1>1, <1>2, OpenedIsTold DEF Blank
<1>4. OpenUntilDelivered(shownTurn, k, FALSE)
  <2>1. k.execution = Execution(shownTurn, NoExecution)
    BY <1>1, <1>2, UnfoldedIs DEF Blank
  <2>2. HasExecution(shownTurn) => k.execution.open = ~HasFinalDelivery(shownTurn)
    BY <2>1 DEF Execution
  <2> QED BY <2>2 DEF OpenUntilDelivered
<1>5. Click(Blank, {}, FALSE)
  BY DEF LoadAgain
<1>6. (IF k.execution.open THEN {} \cap Asking(shownTurn) ELSE {}) = {}
  OBVIOUS
<1> HIDE DEF k
<1> QED BY <1>2, <1>3, <1>4, <1>5, <1>6, ClickStep DEF k

\* The user closes the execution group, and forgets its folds, or opens it.
LEMMA ToggleExecutionStep == ASSUME DisclosureInv, ToggleExecution PROVE DisclosureInv'
<1> DEFINE s == [disclosed EXCEPT !.execution.open = ~@]
           k == Unfolded(shownTurn, s)
           away == IF k.execution.open THEN foldedAway \cap Asking(shownTurn) ELSE {}
<1>1. /\ shownTurn \in TurnMessages /\ PartsAreInRuns(shownTurn)
      /\ disclosed \in Screens /\ Fits(shownTurn, disclosed)
      /\ FoldsAreTold(shownTurn, disclosed, foldedAway)
  BY DEF DisclosureInv
<1>2. /\ s \in Screens /\ s.execution = [disclosed.execution EXCEPT !.open = ~@]
      /\ s.groups = disclosed.groups /\ s.folds = disclosed.folds
      /\ disclosed.execution \in [open : BOOLEAN, was : Outcomes \cup {"waiting", "absent"}, final : BOOLEAN]
  BY <1>1 DEF Screens
<1>3. HasExecution(shownTurn) /\ Click(s, foldedAway, TRUE)
  BY DEF ToggleExecution
<1> HIDE DEF s
<1>4. k.execution.open = ~disclosed.execution.open
  <2> DEFINE e == disclosed.execution
  <2>1. e.was = StatusOfTurn(shownTurn) /\ e.final = HasFinalDelivery(shownTurn)
    BY <1>1, <1>3 DEF Fits
  <2>2. /\ s.execution \in [open : BOOLEAN, was : Outcomes \cup {"waiting", "absent"}, final : BOOLEAN]
        /\ s.execution.was = e.was /\ s.execution.final = e.final /\ s.execution.open = ~e.open
    BY <1>2
  <2>3. s.execution # NoExecution
    BY <1>1, <2>1, <2>2, StatusIsOne DEF NoExecution
  <2>4. Execution(shownTurn, s.execution) =
          [s.execution EXCEPT !.was = StatusOfTurn(shownTurn), !.final = HasFinalDelivery(shownTurn)]
    BY <1>3, <2>1, <2>2, <2>3 DEF Execution
  <2>5. k.execution = Execution(shownTurn, s.execution)
    BY <1>1, <1>2, UnfoldedIs
  <2> HIDE DEF e, k
  <2> QED BY <2>2, <2>4, <2>5 DEF e
<1>5. FoldsAreTold(shownTurn, k, away)
  <2>1. CASE disclosed.execution.open
    BY <1>4, <2>1 DEF FoldsAreTold
  <2>2. CASE ~disclosed.execution.open
    <3>1. foldedAway = {}
      BY <1>1, <2>2 DEF FoldsAreTold
    <3>2. /\ \A g \in Tools : s.groups[g] = "absent"
          /\ \A t \in Tools \cup Delegated : s.folds[t] = "absent"
      BY <1>1, <1>2, <2>2 DEF Fits
    <3>3. FoldsAreTold(shownTurn, k, {})
      BY <1>1, <1>2, <3>2, OpenedIsTold
    <3>4. away = {}
      BY <3>1
    <3> QED BY <3>3, <3>4
  <2> QED BY <2>1, <2>2
<1>6. OpenUntilDelivered(shownTurn, k, TRUE)
  BY DEF OpenUntilDelivered
<1> HIDE DEF k, away
<1> QED BY <1>2, <1>3, <1>5, <1>6, ClickStep DEF k, away

\* A screen s that differs from d, which fits the message, only in which of its folds are
\* open is shown as it is, but for the tools of its groups.
LEMMA ToggledIsShown ==
  ASSUME NEW m \in TurnMessages, PartsAreInRuns(m), NEW d \in Screens, Fits(m, d),
         NEW s \in Screens, s.execution = d.execution, d.execution.open,
         \A g \in Tools : s.groups[g] = "absent" <=> d.groups[g] = "absent",
         NEW k, k = Unfolded(m, s)
  PROVE  /\ k.execution = d.execution
         /\ \A g \in Tools : k.groups[g] = s.groups[g]
         /\ \A t \in Tools \cup Delegated : k.folds[t] =
              IF t \in m.proxied \/ (t \in Called(m) /\ s.groups[GroupOf(m, t)] = "open")
                THEN ToolFold(m, s.folds[t], t) ELSE "absent"
<1>1. /\ k \in Screens
      /\ k.execution = Execution(m, s.execution)
      /\ \A g \in Tools : k.groups[g] =
           IF k.execution.open /\ Members(m, g) # {} THEN ToolGroup(m, s.groups[g], g) ELSE "absent"
      /\ \A t \in Tools \cup Delegated : k.folds[t] =
           IF k.execution.open /\ (t \in m.proxied \/ (t \in Called(m) /\ k.groups[GroupOf(m, t)] = "open"))
             THEN ToolFold(m, s.folds[t], t) ELSE "absent"
  BY UnfoldedIs
<1>2. k.execution = d.execution
  BY <1>1, ExecutionStays
<1>3. \A g \in Tools : k.groups[g] = s.groups[g]
  <2>1. \A g \in Tools : d.groups[g] # "absent" <=> Members(m, g) # {}
    BY DEF Fits
  <2> QED BY <1>1, <1>2, <2>1 DEF ToolGroup, Mounted
<1>4. \A t \in Called(m) : GroupOf(m, t) \in Tools
  BY CalledAreTools, GroupsAreCalled
<1> QED BY <1>1, <1>2, <1>3, <1>4

\* The user closes a tool group, with the questions in it, or opens it.
LEMMA ToggleGroupStep == ASSUME DisclosureInv, NEW g \in Tools, ToggleGroup(g) PROVE DisclosureInv'
<1> DEFINE d == disclosed
           m == shownTurn
           s == [disclosed EXCEPT !.groups[g] = Flipped(@)]
           behind == IF d.groups[g] = "open" THEN foldedAway \cup Members(m, g) ELSE foldedAway \ Members(m, g)
           k == Unfolded(m, s)
           away == IF k.execution.open THEN behind \cap Asking(m) ELSE {}
<1>1. /\ m \in TurnMessages /\ PartsAreInRuns(m) /\ d \in Screens /\ Fits(m, d)
      /\ FoldsAreTold(m, d, foldedAway) /\ OpenUntilDelivered(m, d, byUser) /\ byUser \in BOOLEAN
  BY DEF DisclosureInv
<1>2. d.groups \in [Tools -> Fold] /\ d.folds \in [Tools \cup Delegated -> Fold]
  BY <1>1 DEF Screens
<1>3. /\ s \in Screens /\ s.execution = d.execution /\ s.folds = d.folds
      /\ s.groups = [d.groups EXCEPT ![g] = Flipped(@)]
  BY <1>1 DEF Screens, Flipped, Fold
<1>4. Click(s, behind, byUser) /\ d.groups[g] # "absent"
  BY DEF ToggleGroup
<1>5. d.execution.open
  BY <1>1, <1>4 DEF Fits
<1> HIDE DEF d, m, s, k, behind
<1>6. \A h \in Tools : s.groups[h] = "absent" <=> d.groups[h] = "absent"
  BY <1>2, <1>3, <1>4 DEF Flipped
<1>7. /\ k.execution = d.execution
      /\ \A t \in Tools \cup Delegated : k.folds[t] =
           IF t \in m.proxied \/ (t \in Called(m) /\ s.groups[GroupOf(m, t)] = "open")
             THEN ToolFold(m, s.folds[t], t) ELSE "absent"
  BY <1>1, <1>3, <1>5, <1>6, ToggledIsShown DEF k
<1>8. FoldsAreTold(m, k, away)
  <2> SUFFICES ASSUME NEW t \in Asking(m) PROVE k.folds[t] = "open" <=> t \notin behind
    BY <1>5, <1>7 DEF FoldsAreTold
  <2>1. /\ t \in Tools \cup Delegated /\ NeedsInput(m, t) /\ t \in m.proxied \cup Called(m)
        /\ Called(m) \subseteq Tools /\ m.proxied \subseteq Delegated /\ Tools \cap Delegated = {}
    BY <1>1, CalledAreTools, DisclosureAssumption DEF Asking
  <2>2. d.folds[t] = "open" <=> t \notin foldedAway
    BY <1>1, <1>5 DEF FoldsAreTold
  <2>3. d.folds[t] # "absent" <=> t \in m.proxied \/ (t \in Called(m) /\ d.groups[GroupOf(m, t)] = "open")
    BY <1>1, <1>5, <2>1 DEF Fits
  <2>4. k.folds[t] = IF t \in m.proxied \/ (t \in Called(m) /\ s.groups[GroupOf(m, t)] = "open")
                     THEN (IF d.folds[t] = "absent" THEN "open" ELSE d.folds[t]) ELSE "absent"
    BY <1>3, <1>7, <2>1 DEF ToolFold, Mounted
  <2>5. t \in Members(m, g) <=> t \in Called(m) /\ GroupOf(m, t) = g
    BY DEF Members
  <2>6. CASE t \notin Members(m, g)
    <3>1. t \in behind <=> t \in foldedAway
      BY <2>6 DEF behind
    <3>2. t \in Called(m) => GroupOf(m, t) \in Tools /\ s.groups[GroupOf(m, t)] = d.groups[GroupOf(m, t)]
      BY <1>1, <1>2, <1>3, <2>1, <2>5, <2>6, GroupsAreCalled
    <3> QED BY <2>2, <2>3, <2>4, <3>1, <3>2
  <2>7. CASE t \in Members(m, g)
    <3>1. t \in Called(m) /\ GroupOf(m, t) = g /\ t \notin m.proxied
      BY <2>1, <2>5, <2>7
    <3>2. s.groups[g] = IF d.groups[g] = "open" THEN "closed" ELSE "open"
      BY <1>2, <1>3 DEF Flipped
    <3>3. t \in behind <=> d.groups[g] = "open"
      BY <2>7 DEF behind
    <3> QED BY <2>3, <2>4, <3>1, <3>2, <3>3
  <2> QED BY <2>6, <2>7
<1>9. OpenUntilDelivered(m, k, byUser)
  BY <1>1, <1>7 DEF OpenUntilDelivered
<1> HIDE DEF away
<1> QED BY <1>1, <1>3, <1>4, <1>8, <1>9, ClickStep DEF m, k, away

\* The user closes a tool, with its question, or opens it.
LEMMA ToggleToolStep ==
  ASSUME DisclosureInv, NEW u \in Tools \cup Delegated, ToggleTool(u)
  PROVE  DisclosureInv'
<1> DEFINE d == disclosed
           m == shownTurn
           s == [disclosed EXCEPT !.folds[u] = Flipped(@)]
           behind == IF d.folds[u] = "open" THEN foldedAway \cup {u} ELSE foldedAway \ {u}
           k == Unfolded(m, s)
           away == IF k.execution.open THEN behind \cap Asking(m) ELSE {}
<1>1. /\ m \in TurnMessages /\ PartsAreInRuns(m) /\ d \in Screens /\ Fits(m, d)
      /\ FoldsAreTold(m, d, foldedAway) /\ OpenUntilDelivered(m, d, byUser) /\ byUser \in BOOLEAN
  BY DEF DisclosureInv
<1>2. d.groups \in [Tools -> Fold] /\ d.folds \in [Tools \cup Delegated -> Fold]
  BY <1>1 DEF Screens
<1>3. /\ s \in Screens /\ s.execution = d.execution /\ s.groups = d.groups
      /\ s.folds = [d.folds EXCEPT ![u] = Flipped(@)]
  BY <1>1 DEF Screens, Flipped, Fold
<1>4. Click(s, behind, byUser) /\ d.folds[u] # "absent"
  BY DEF ToggleTool
<1>5. d.execution.open
  BY <1>1, <1>4 DEF Fits
<1> HIDE DEF d, m, s, k, behind
<1>6. /\ k.execution = d.execution
      /\ \A t \in Tools \cup Delegated : k.folds[t] =
           IF t \in m.proxied \/ (t \in Called(m) /\ s.groups[GroupOf(m, t)] = "open")
             THEN ToolFold(m, s.folds[t], t) ELSE "absent"
  <2>1. \A g \in Tools : s.groups[g] = "absent" <=> d.groups[g] = "absent"
    BY <1>3
  <2> QED BY <1>1, <1>3, <1>5, <2>1, ToggledIsShown DEF k
<1>7. FoldsAreTold(m, k, away)
  <2> SUFFICES ASSUME NEW t \in Asking(m) PROVE k.folds[t] = "open" <=> t \notin behind
    BY <1>5, <1>6 DEF FoldsAreTold
  <2>1. t \in Tools \cup Delegated
    BY DEF Asking
  <2>2. d.folds[t] = "open" <=> t \notin foldedAway
    BY <1>1, <1>5 DEF FoldsAreTold
  <2>3. d.folds[t] # "absent" <=> t \in m.proxied \/ (t \in Called(m) /\ d.groups[GroupOf(m, t)] = "open")
    BY <1>1, <1>5, <2>1 DEF Fits
  <2>4. s.folds[t] = IF t # u THEN d.folds[t] ELSE IF d.folds[t] = "open" THEN "closed" ELSE "open"
    BY <1>2, <1>3, <2>1 DEF Flipped
  <2>5. k.folds[t] = IF d.folds[t] # "absent" THEN s.folds[t] ELSE "absent"
    BY <1>3, <1>4, <1>6, <2>1, <2>3, <2>4 DEF ToolFold, Mounted
  <2>6. CASE t = u
    BY <1>4, <2>4, <2>5, <2>6 DEF behind
  <2>7. CASE t # u
    BY <2>2, <2>4, <2>5, <2>7 DEF behind
  <2> QED BY <2>6, <2>7
<1>8. OpenUntilDelivered(m, k, byUser)
  BY <1>1, <1>6 DEF OpenUntilDelivered
<1> HIDE DEF away
<1> QED BY <1>1, <1>3, <1>4, <1>7, <1>8, ClickStep DEF m, k, away

\* A turn begins with nothing to show.
LEMMA DisclosureBegins == DisclosureInit => DisclosureInv
<1> SUFFICES ASSUME DisclosureInit PROVE DisclosureInv
  OBVIOUS
<1>1. /\ shownTurn.parts = <<>> /\ shownTurn.proxied = {}
      /\ shownTurn \in TurnMessages
  BY DEF DisclosureInit, TurnMessages, ToolStates, Outcomes
<1>2. Called(shownTurn) = {} /\ Asking(shownTurn) = {} /\ ~HasExecution(shownTurn)
  BY <1>1 DEF Called, ToSet, Asking, NeedsInput, HasExecution
<1>3. /\ disclosed = Blank /\ disclosed \in Screens /\ disclosed.execution = NoExecution
      /\ ~disclosed.execution.open
      /\ foldedAway = {} /\ byUser \in BOOLEAN
  BY DEF DisclosureInit, Blank, Screens, NoExecution, Fold
<1>4. PartsAreInRuns(shownTurn)
  BY <1>1 DEF PartsAreInRuns
<1>5. Fits(shownTurn, disclosed)
  BY <1>1, <1>2, <1>3 DEF Fits, Blank
<1>6. FoldsAreTold(shownTurn, disclosed, foldedAway) /\ OpenUntilDelivered(shownTurn, disclosed, byUser)
  BY <1>2, <1>3 DEF FoldsAreTold, OpenUntilDelivered
<1> QED BY <1>1, <1>3, <1>4, <1>5, <1>6 DEF DisclosureInv

\* Every change of the message and every click keeps the invariant.
LEMMA DisclosureSteps ==
  ASSUME DisclosureInv, [DisclosureNext]_disclosureVars
  PROVE  DisclosureInv'
<1>1. CASE TextAppears
  BY <1>1, TextAppearsStep
<1>2. CASE AnswerIsDelivered \/ NextTurnStarts \/ NextTurnDelivers
           \/ \E outcome \in Outcomes \ {"running"} : TurnIsOver(outcome)
  BY <1>2, TurnSteps
<1>3. CASE ToggleExecution \/ LoadAgain
  BY <1>3, ToggleExecutionStep, LoadAgainStep
<1>4. ASSUME NEW t \in Tools,
             \/ ToggleGroup(t)
             \/ \E state \in {"input-streaming", "approval-requested"} : ToolAppears(t, state)
             \/ \E state \in ToolStates : ToolAdvances(t, state)
      PROVE  DisclosureInv'
  BY <1>4, ToggleGroupStep, ToolAppearsStep, ToolAdvancesStep
<1>5. CASE \E q \in Delegated : AgentsQuestion(q)
  BY <1>5, AgentsQuestionStep
<1>6. CASE \E t \in Tools \cup Delegated : ToggleTool(t)
  BY <1>6, ToggleToolStep
<1>7. CASE UNCHANGED disclosureVars
  BY <1>7 DEF disclosureVars, DisclosureInv
<1> QED BY <1>1, <1>2, <1>3, <1>4, <1>5, <1>6, <1>7 DEF DisclosureNext

\* The folds do not lose a question: a turn that comes to wait, or ends without an
\* answer, is open again even after the user closed it, and in an open turn the buttons
\* of a question are on screen unless the user folded it away or it was asked of a tool
\* that was already shown folded (agent-message.tsx).
THEOREM FoldsKeepQuestions == DisclosureSpec => []QuestionsUnfold
<1>1. DisclosureInv => QuestionsUnfold
  <2> SUFFICES ASSUME DisclosureInv PROVE QuestionsUnfold
    OBVIOUS
  <2>1. HasExecution(shownTurn) /\ ~byUser => disclosed.execution.open = ~HasFinalDelivery(shownTurn)
    BY DEF DisclosureInv, OpenUntilDelivered
  <2>2. disclosed.execution.open => \A t \in Asking(shownTurn) : ButtonsShown(t) <=> t \notin foldedAway
    BY DEF DisclosureInv, FoldsAreTold, ButtonsShown, Asking
  <2> QED BY <2>1, <2>2 DEF QuestionsUnfold
<1> QED BY <1>1, DisclosureBegins, DisclosureSteps, PTL DEF DisclosureSpec

-----------------------------------------------------------------------------
(* Transcript: both together.                                              *)

\* A question of a turn can be answered in exactly one place, which the folds of its
\* message do not lose (turn-presentation.ts:83, agent-message.tsx:946).
THEOREM QuestionsStayReachable == TranscriptSpec => []QuestionsAreReachable
<1>1. QuestionsShownOnce /\ QuestionsUnfold => QuestionsAreReachable
  BY DEF QuestionsAreReachable
<1> QED BY <1>1, QuestionsAreShownOnce, FoldsKeepQuestions, PTL DEF TranscriptSpec
=============================================================================
