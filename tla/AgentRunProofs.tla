--------------------------- MODULE AgentRunProofs ---------------------------
(***************************************************************************)
(* What holds of agent runs for every number of runs, requests and events  *)
(* and every page size.                                                    *)
(*                                                                         *)
(* RunInv is what a request may rely on between two awaits: only the       *)
(* request that reserved a row starts it, a request that serves a run has  *)
(* a copy of a row with a session that is no newer than the stream, and a  *)
(* stop it enforces was recorded.  Types, starts, cancelled rows and what  *)
(* a recorded stop allows follow.                                          *)
(*                                                                         *)
(* UsageInv and StreamInv say what the row has of the stream.  They rest   *)
(* on lemmas about the loop of the projection, proved by induction over    *)
(* the events of a page: LoopCounts, LoopAppend and LoopResumes.           *)
(*                                                                         *)
(* OutcomeInv says what became of a run that was submitted and of one that *)
(* was cancelled.  With it every step is one of RunContract's.             *)
(***************************************************************************)
EXTENDS AgentRun, FiniteSetTheorems, SequenceTheorems, TLAPS

USE AgentRunAssumption

-----------------------------------------------------------------------------
(* Induction over the events of a page.                                    *)

\* A set of numbers that is not empty has a least one.
LEMMA LeastNumber ==
  ASSUME NEW T \in SUBSET Nat, T # {}
  PROVE  \E n \in T : \A m \in T : n <= m
<1> DEFINE R == {ss \in Nat \X Nat : ss[1] < ss[2]}
<1>1. IsWellFoundedOn(R, Nat)
  BY NatLessThanWellFounded DEF OpToRel
<1>2. \A x, y \in Nat : x < y => <<x, y>> \in R
  OBVIOUS
<1> HIDE DEF R
<1>3. PICK n \in T : \A m \in T : ~ (<<m, n>> \in R)
  BY <1>1, WFMin
<1>4. \A m \in T : ~ (m < n)
  BY <1>2, <1>3
<1>5. QED
  BY <1>4

\* A set of numbers that holds 0 and every successor up to k holds every number up to k.
LEMMA Induction ==
  ASSUME NEW k \in Nat, NEW T, 0 \in T, \A n \in 0..k : (n \in T /\ n < k) => n + 1 \in T
  PROVE  \A n \in 0..k : n \in T
<1> SUFFICES ASSUME (0..k) \ T # {} PROVE FALSE
  OBVIOUS
<1>1. PICK n \in (0..k) \ T : \A m \in (0..k) \ T : n <= m
  <2>1. (0..k) \ T \in SUBSET Nat
    OBVIOUS
  <2>2. QED
    BY <2>1, LeastNumber
<1>2. n # 0 /\ n - 1 \in 0..k /\ n - 1 < k /\ n - 1 \notin (0..k) \ T
  BY <1>1
<1>3. QED
  BY <1>1, <1>2

\* The loop is what its recursive definition says.
LEMMA LoopIsDefined ==
  ASSUME NEW a, NEW page, Len(page) \in Nat
  PROVE  Loop(a, page) =
           [n \in 0..Len(page) |-> IF n = 0 THEN a ELSE AfterEvent(Loop(a, page)[n - 1], page[n])]
<1> DEFINE Defines(f, m) == f = [n \in 0..m |-> IF n = 0 THEN a ELSE AfterEvent(f[n - 1], page[n])]
           T == {m \in 0..Len(page) : \E f : Defines(f, m)}
<1>1. 0 \in T
  <2> DEFINE f == [n \in 0..0 |-> a]
  <2>1. \A n \in 0..0 : n = 0
    OBVIOUS
  <2>2. \E h : Defines(h, 0)
    <3>1. Defines(f, 0)
      BY <2>1
    <3>2. QED
      BY <3>1
  <2>3. 0 \in 0..Len(page)
    OBVIOUS
  <2> HIDE DEF Defines
  <2>4. QED
    BY <2>2, <2>3
<1>2. ASSUME NEW m \in 0..Len(page), m \in T, m < Len(page) PROVE m + 1 \in T
  <2>1. PICK f : Defines(f, m)
    BY <1>2
  <2> DEFINE g == [n \in 0..(m + 1) |-> IF n <= m THEN f[n] ELSE AfterEvent(f[m], page[m + 1])]
  <2>2. ASSUME NEW n \in 0..(m + 1)
        PROVE  g[n] = IF n = 0 THEN a ELSE AfterEvent(g[n - 1], page[n])
    <3>1. CASE n = 0
      BY <2>1, <3>1
    <3>2. CASE n # 0 /\ n <= m
      BY <2>1, <3>2
    <3>3. CASE n = m + 1
      BY <3>3
    <3>4. QED
      BY <3>1, <3>2, <3>3
  <2>3. g = [n \in 0..(m + 1) |-> g[n]]
    OBVIOUS
  <2> HIDE DEF g
  <2>4. \E h : Defines(h, m + 1)
    BY <2>2, <2>3
  <2>5. m + 1 \in 0..Len(page)
    BY <1>2
  <2> HIDE DEF Defines
  <2>6. QED
    BY <2>4, <2>5
<1> HIDE DEF T
<1>3. \A m \in 0..Len(page) : m \in T
  BY <1>1, <1>2, Induction
<1>4. \E f : Defines(f, Len(page))
  BY <1>3 DEF T
<1>5. QED
  BY <1>4 DEF Loop

\* The loop starts from a and goes on event by event.
LEMMA LoopSteps ==
  ASSUME NEW a, NEW page, Len(page) \in Nat
  PROVE  /\ Loop(a, page)[0] = a
         /\ \A n \in 0..Len(page) : n < Len(page) =>
              Loop(a, page)[n + 1] = AfterEvent(Loop(a, page)[n], page[n + 1])
BY LoopIsDefined

\* The account the loop keeps.
Account == [status: Statuses, result: Results, failure: BOOLEAN, steps: Nat,
            cancelled: BOOLEAN, input: BOOLEAN, authorization: BOOLEAN]

\* An event keeps the account in its domain.
LEMMA AfterEventType ==
  ASSUME NEW a \in Account, NEW e \in Events
  PROVE  AfterEvent(a, e) \in Account
<1>1. /\ a.status \in Statuses /\ a.result \in Results /\ a.failure \in BOOLEAN /\ a.steps \in Nat
      /\ a.cancelled \in BOOLEAN /\ a.input \in BOOLEAN /\ a.authorization \in BOOLEAN
  BY DEF Account
<1>2. {"running", "waiting-input", "waiting-authorization", "cancelled", "failed", "completed"}
        \subseteq Statuses /\ {"none", "text", "json"} = Results
  BY DEF Statuses, Final, Results
<1>3. CASE e \in {"turn.started", "message.received"}
  BY <1>1, <1>2, <1>3 DEF Account, AfterEvent
<1>4. CASE e \in {"input.requested", "authorization.required", "authorization.completed"}
  BY <1>1, <1>2, <1>4 DEF Account, AfterEvent
<1>5. CASE e \in {"result.completed", "message.completed", "step.completed"}
  BY <1>1, <1>2, <1>5 DEF Account, AfterEvent
<1>6. CASE e \in {"turn.cancelled", "turn.failed", "session.failed"}
  BY <1>1, <1>2, <1>6 DEF Account, AfterEvent
<1>7. CASE e \in {"session.completed", "session.waiting"}
  BY <1>1, <1>2, <1>7 DEF Account, AfterEvent
<1>8. QED
  BY <1>3, <1>4, <1>5, <1>6, <1>7 DEF Events

\* What the events of a page keep, the loop keeps.
LEMMA LoopInvariant ==
  ASSUME NEW a, NEW page, Len(page) \in Nat, NEW S, a \in S,
         \A x \in S : \A i \in 1..Len(page) : AfterEvent(x, page[i]) \in S
  PROVE  \A n \in 0..Len(page) : Loop(a, page)[n] \in S
<1> DEFINE T == {n \in 0..Len(page) : Loop(a, page)[n] \in S}
<1>1. 0 \in T
  BY LoopSteps
<1>2. ASSUME NEW n \in 0..Len(page), n \in T, n < Len(page) PROVE n + 1 \in T
  <2>1. Loop(a, page)[n + 1] = AfterEvent(Loop(a, page)[n], page[n + 1])
    BY <1>2, LoopSteps
  <2>2. n + 1 \in 1..Len(page) /\ n + 1 \in 0..Len(page) /\ Loop(a, page)[n] \in S
    BY <1>2
  <2>3. QED
    BY <2>1, <2>2
<1> HIDE DEF T
<1>3. \A n \in 0..Len(page) : n \in T
  BY <1>1, <1>2, Induction
<1>4. QED
  BY <1>3 DEF T

\* The states the loop takes over a run that was submitted.
Submitted == {a \in Account : a.status \notin {"submitting", "submission-ambiguous"}}

\* No event takes a run back to its submission.
LEMMA AfterEventSubmitted ==
  ASSUME NEW a \in Submitted, NEW e \in Events
  PROVE  AfterEvent(a, e) \in Submitted
<1>1. AfterEvent(a, e) \in Account
  BY AfterEventType DEF Submitted
<1>2. a.status \notin {"submitting", "submission-ambiguous"} /\ a \in Account
  BY DEF Submitted
<1>3. AfterEvent(a, e).status \notin {"submitting", "submission-ambiguous"}
  <2>1. CASE e \in {"turn.started", "message.received"}
    BY <1>2, <2>1 DEF Account, AfterEvent
  <2>2. CASE e \in {"input.requested", "authorization.required", "authorization.completed"}
    BY <1>2, <2>2 DEF Account, AfterEvent
  <2>3. CASE e \in {"result.completed", "message.completed", "step.completed"}
    BY <1>2, <2>3 DEF Account, AfterEvent
  <2>4. CASE e \in {"turn.cancelled", "turn.failed", "session.failed"}
    BY <1>2, <2>4 DEF Account, AfterEvent
  <2>5. CASE e \in {"session.completed", "session.waiting"}
    BY <1>2, <2>5 DEF Account, AfterEvent
  <2>6. QED
    BY <2>1, <2>2, <2>3, <2>4, <2>5 DEF Events
<1>4. QED
  BY <1>1, <1>3 DEF Submitted

\* Only turn.cancelled cancels.
LEMMA AfterEventCancels ==
  ASSUME NEW a \in Account, ~a.cancelled, a.status # "cancelled", NEW e \in Events \ {"turn.cancelled"}
  PROVE  ~AfterEvent(a, e).cancelled /\ AfterEvent(a, e).status # "cancelled"
<1>1. CASE e \in {"turn.started", "message.received"}
  BY <1>1 DEF Account, AfterEvent
<1>2. CASE e \in {"input.requested", "authorization.required", "authorization.completed"}
  BY <1>2 DEF Account, AfterEvent
<1>3. CASE e \in {"result.completed", "message.completed", "step.completed"}
  BY <1>3 DEF Account, AfterEvent
<1>4. CASE e \in {"turn.failed", "session.failed"}
  BY <1>4 DEF Account, AfterEvent
<1>5. CASE e \in {"session.completed", "session.waiting"}
  BY <1>5 DEF Account, AfterEvent
<1>6. QED
  BY <1>1, <1>2, <1>3, <1>4, <1>5 DEF Events

\* What a synchronization makes of a page: it counts its events, ends in a status of a
\* submitted run, and says cancelled only of a page that does.
LEMMA ProjectionIsTyped ==
  ASSUME NEW r \in Record, r.status # "submission-ambiguous", NEW page \in Seq(Events)
  PROVE  LET j == Projection(r, page) IN
           /\ j.count = r.count + Len(page) /\ j.count \in Nat
           /\ j.steps \in Nat /\ j.result \in Results /\ j.failure \in BOOLEAN
           /\ j.status \in Statuses \ {"submitting", "submission-ambiguous"}
           /\ (j.status = "cancelled" /\ r.status # "cancelled")
                => \E i \in 1..Len(page) : page[i] = "turn.cancelled"
<1> DEFINE a == Begin(r)
           z == Loop(a, page)[Len(page)]
<1>1. Len(page) \in Nat /\ \A i \in 1..Len(page) : page[i] \in Events
  OBVIOUS
<1>2. a \in Submitted
  BY DEF Begin, Record, Submitted, Account, Statuses, Final
<1>3. a.cancelled = (a.status = "cancelled") /\ (a.status = "cancelled" => r.status = "cancelled")
  BY DEF Begin
<1> HIDE DEF a
<1>4. z \in Submitted
  <2>1. \A x \in Submitted : \A i \in 1..Len(page) : AfterEvent(x, page[i]) \in Submitted
    BY <1>1, AfterEventSubmitted
  <2>2. \A n \in 0..Len(page) : Loop(a, page)[n] \in Submitted
    BY <1>1, <1>2, <2>1, LoopInvariant
  <2>3. QED
    BY <1>1, <2>2
<1>5. ASSUME r.status # "cancelled", \A i \in 1..Len(page) : page[i] # "turn.cancelled"
      PROVE  z.status # "cancelled"
  <2> DEFINE S == {x \in Account : ~x.cancelled /\ x.status # "cancelled"}
  <2>1. \A x \in S : \A i \in 1..Len(page) : AfterEvent(x, page[i]) \in S
    BY <1>1, <1>5, AfterEventType, AfterEventCancels
  <2>2. a \in S
    BY <1>2, <1>3, <1>5 DEF Submitted
  <2> HIDE DEF S
  <2>3. \A n \in 0..Len(page) : Loop(a, page)[n] \in S
    BY <1>1, <2>1, <2>2, LoopInvariant
  <2>4. QED
    BY <1>1, <2>3 DEF S
<1>6. Projection(r, page) = [count |-> r.count + Len(page), status |-> z.status, steps |-> z.steps,
                             result |-> z.result, failure |-> z.failure]
  BY DEF Projection, a
<1>7. r.count \in Nat
  BY DEF Record
<1> HIDE DEF z
<1>8. QED
  BY <1>1, <1>4, <1>5, <1>6, <1>7 DEF Submitted, Account
-----------------------------------------------------------------------------
(* The inductive invariant.                                                *)

Fresh == [status |-> "submitting", attached |-> FALSE, count |-> 0, steps |-> 0,
          result |-> "none", failure |-> FALSE, asked |-> FALSE]

\* A row has a session, and was not left at its submission, or nothing of a stream.
Shaped(r) ==
  /\ r.attached => r.status \notin {"submitting", "submission-ambiguous"}
  /\ ~r.attached => ~r.asked /\ r.count = 0 /\ r.steps = 0
                    /\ r.status \in {"submitting", "failed", "submission-ambiguous"}
  /\ r.status = "submitting" => r.result = "none" /\ ~r.failure

\* Only the row that was just reserved has not been started.
RowOK(k) ==
  /\ starts[k] \in {0, 1}
  /\ row[k] = None => starts[k] = 0
  /\ starts[k] = 0 => row[k] \in {None, Fresh}
  /\ starts[k] = 0 => eve[k] = "none"
  /\ eve[k] = "none" => log[k] = <<>> /\ waits[k] = {}
  /\ stopping[k] => row[k] # None /\ row[k].asked
  /\ row[k] # None => Shaped(row[k]) /\ row[k].count <= Len(log[k])
  /\ (row[k] # None /\ row[k].status = "cancelled") => Stopped(k)

\* The steps on a run that has its session.
Serving == {"requesting", "interrupting", "sleeping", "reading", "projecting", "deciding",
            "resetting", "cancelling"}

\* What a request knows of its run between two steps.
RequestOK(p) ==
  /\ pc[p] # "idle" => run[p] \in Runs /\ row[run[p]] # None
  /\ pc[p] = "starting" => starts[run[p]] = 0
  /\ pc[p] \notin {"idle", "starting"} => starts[run[p]] = 1
  /\ pc[p] \in Serving =>
       /\ row[run[p]].attached
       /\ rec[p] \in Record /\ rec[p].attached
       /\ rec[p].status \notin {"submitting", "submission-ambiguous"}
       /\ rec[p].asked => row[run[p]].asked
       /\ rec[p].count <= Len(log[run[p]])
  /\ pc[p] \in {"reading", "projecting"} => ~Terminal(rec[p])
  /\ pc[p] = "projecting" => rec[p].count < upto[p] /\ upto[p] <= Len(log[run[p]])
  /\ pc[p] \in {"interrupting", "resetting", "cancelling"} => rec[p].asked
  /\ pc[p] = "cancelling" => eve[run[p]] = "closed"

OneStarter ==
  \A p, q \in Requests :
    (pc[p] = "starting" /\ pc[q] = "starting" /\ run[p] = run[q]) => p = q

RunInv ==
  /\ TypeOK
  /\ \A k \in Runs : RowOK(k)
  /\ \A p \in Requests : RequestOK(p)
  /\ OneStarter

-----------------------------------------------------------------------------
(* What a step leaves alone.                                               *)

\* What no step takes back.
Grows(k) ==
  /\ row[k] # None => row'[k] # None
  /\ (row[k] # None /\ row[k].attached) => row'[k].attached
  /\ (row[k] # None /\ row[k].asked) => row'[k].asked
  /\ Len(log[k]) <= Len(log'[k])
  /\ eve[k] = "closed" => eve'[k] = "closed"

SameRequest(q) ==
  pc'[q] = pc[q] /\ run'[q] = run[q] /\ rec'[q] = rec[q] /\ upto'[q] = upto[q]

\* A request that does not move keeps what it knows.
LEMMA RequestKept ==
  ASSUME TypeOK, TypeOK', NEW q \in Requests, RequestOK(q), SameRequest(q),
         pc[q] # "idle" => Grows(run[q]) /\ starts'[run[q]] = starts[run[q]]
  PROVE  RequestOK(q)'
<1>1. CASE pc[q] = "idle"
  BY <1>1 DEF RequestOK, SameRequest, Serving
<1>2. CASE pc[q] # "idle"
  <2>1. /\ run[q] \in Runs /\ run'[q] = run[q] /\ pc'[q] = pc[q]
        /\ Grows(run[q]) /\ starts'[run[q]] = starts[run[q]]
    BY <1>2 DEF RequestOK, SameRequest
  <2>2. Len(log[run[q]]) \in Nat /\ Len(log'[run[q]]) \in Nat /\ upto[q] \in Nat
    BY <2>1 DEF TypeOK
  <2>3. rec[q] \in Record => rec[q].count \in Nat
    BY DEF Record
  <2>4. QED
    BY <1>2, <2>1, <2>2, <2>3 DEF RequestOK, SameRequest, Serving, Grows
<1>3. QED
  BY <1>1, <1>2

\* A run whose row, session and counter stay is as it was.
LEMMA RowKept ==
  ASSUME NEW k \in Runs, RowOK(k), row'[k] = row[k], eve'[k] = eve[k], log'[k] = log[k],
         waits'[k] = waits[k], stopping'[k] = stopping[k], starts'[k] = starts[k]
  PROVE  RowOK(k)'
BY DEF RowOK, Stopped

\* A step of request p, apart from what it does to its own run.
LEMMA StepKeeps ==
  ASSUME RunInv, TypeOK', NEW p \in Requests, \A q \in Requests \ {p} : SameRequest(q),
         \A k \in Runs : RowOK(k)' /\ Grows(k),
         \A q \in Requests \ {p} : pc[q] # "idle" => starts'[run[q]] = starts[run[q]],
         pc'[p] = "starting" => \A q \in Requests \ {p} : ~(pc[q] = "starting" /\ run[q] = run'[p]),
         RequestOK(p)'
  PROVE  RunInv'
<1>1. ASSUME NEW q \in Requests PROVE RequestOK(q)'
  <2>1. CASE q = p
    BY <2>1
  <2>2. CASE q # p
    <3>1. pc[q] # "idle" => Grows(run[q]) /\ starts'[run[q]] = starts[run[q]]
      BY <2>2 DEF RunInv, RequestOK
    <3>2. QED
      BY <2>2, <3>1, RequestKept DEF RunInv
  <2>3. QED
    BY <2>1, <2>2
<1>2. OneStarter'
  BY DEF RunInv, OneStarter, SameRequest
<1>3. QED
  BY <1>1, <1>2 DEF RunInv

\* Nothing that matters changed.
LEMMA Unchanged ==
  ASSUME RunInv, NEW k \in Runs, row'[k] = row[k], eve'[k] = eve[k], log'[k] = log[k],
         waits'[k] = waits[k], stopping'[k] = stopping[k], starts'[k] = starts[k]
  PROVE  RowOK(k)' /\ Grows(k)
<1>1. Len(log[k]) \in Nat
  BY DEF RunInv, TypeOK
<1>2. QED
  BY <1>1, RowKept DEF RunInv, Grows

\* A step of request p on its copies only.
LEMMA LocalStep ==
  ASSUME RunInv, TypeOK', NEW p \in Requests, \A q \in Requests \ {p} : SameRequest(q),
         UNCHANGED <<row, eve, log, waits, stopping, starts>>,
         pc'[p] # "starting", RequestOK(p)'
  PROVE  RunInv'
<1>1. \A k \in Runs : RowOK(k)' /\ Grows(k)
  BY Unchanged
<1>2. QED
  BY <1>1, StepKeeps

\* A request that returned knows nothing.
LEMMA Returned ==
  ASSUME NEW p \in Requests, TypeOK, Return(p)
  PROVE  /\ RequestOK(p)' /\ pc'[p] = "idle" /\ \A q \in Requests \ {p} : SameRequest(q)
         /\ pc' \in [Requests -> Steps] /\ run' \in [Requests -> Runs \cup {None}]
         /\ rec' \in [Requests -> Record \cup {None}] /\ upto' \in [Requests -> Nat]
<1>1. pc'[p] = "idle" /\ \A q \in Requests \ {p} : SameRequest(q)
  BY DEF Return, TypeOK, SameRequest
<1>2. QED
  BY <1>1 DEF Return, TypeOK, Steps, RequestOK, Serving

\* A request that goes on keeps its copies.
LEMMA WentOn ==
  ASSUME NEW p \in Requests, TypeOK, NEW s \in Steps, Goto(p, s)
  PROVE  /\ pc'[p] = s /\ run'[p] = run[p] /\ rec'[p] = rec[p] /\ upto'[p] = upto[p]
         /\ \A q \in Requests \ {p} : SameRequest(q)
         /\ pc' \in [Requests -> Steps] /\ run' \in [Requests -> Runs \cup {None}]
         /\ rec' \in [Requests -> Record \cup {None}] /\ upto' \in [Requests -> Nat]
BY DEF Goto, TypeOK, SameRequest

-----------------------------------------------------------------------------
(* Steps of a request on its copies.                                       *)

LEMMA FindStep ==
  ASSUME RunInv, NEW p \in Requests, NEW k \in Runs, Inspect(p, k) \/ Cancel(p, k)
  PROVE  RunInv'
<1> DEFINE s == pc'[p]
<1>1. /\ pc[p] = "idle" /\ row[k] # None /\ Live(row[k])
      /\ s \in {"reading", "sleeping", "requesting"}
      /\ Load(p, k, s)
      /\ UNCHANGED <<row, elapsed, eveVars, starts>>
  BY DEF Inspect, Cancel, Load, RunInv, TypeOK
<1>2. /\ run'[p] = k /\ rec'[p] = row[k] /\ row[k] \in Record
      /\ \A q \in Requests \ {p} : SameRequest(q)
  BY <1>1 DEF Load, RunInv, TypeOK, SameRequest
<1>3. TypeOK'
  <2>1. pc' \in [Requests -> Steps] /\ run' \in [Requests -> Runs \cup {None}]
        /\ rec' \in [Requests -> Record \cup {None}] /\ upto' = upto
    BY <1>1, <1>2 DEF Load, RunInv, TypeOK, Steps
  <2>2. QED
    BY <1>1, <2>1 DEF RunInv, TypeOK, eveVars
<1>4. RequestOK(p)'
  <2>1. row'[k] = row[k] /\ log'[k] = log[k] /\ starts'[k] = starts[k]
    BY <1>1 DEF eveVars
  <2>2. starts[k] = 1
    BY <1>1 DEF RunInv, RowOK, Live, Fresh
  <2>3. row[k].attached /\ ~Terminal(row[k]) /\ row[k].count <= Len(log[k])
        /\ row[k].status \notin {"submitting", "submission-ambiguous"}
    BY <1>1 DEF RunInv, RowOK, Live, Shaped
  <2>4. QED
    BY <1>1, <1>2, <2>1, <2>2, <2>3 DEF RequestOK, Serving
<1>5. QED
  BY <1>1, <1>2, <1>3, <1>4, LocalStep DEF eveVars

LEMMA ReturnStep ==
  ASSUME RunInv, NEW p \in Requests, Return(p), UNCHANGED <<row, elapsed, eveVars, starts>>
  PROVE  RunInv'
<1>1. TypeOK'
  BY Returned DEF RunInv, TypeOK, eveVars
<1>2. QED
  BY <1>1, Returned, LocalStep DEF RunInv, eveVars

\* The next step of a request that serves its run and needs nothing more.
LEMMA GotoStep ==
  ASSUME RunInv, NEW p \in Requests, NEW s \in Serving, Goto(p, s), pc[p] \in Serving,
         s \in {"reading", "projecting"} => ~Terminal(rec[p]), s # "projecting",
         s \in {"interrupting", "resetting", "cancelling"} => rec[p].asked,
         s = "cancelling" => eve[run[p]] = "closed",
         UNCHANGED <<row, elapsed, eveVars, starts>>
  PROVE  RunInv'
<1>1. s \in Steps
  BY DEF Serving, Steps
<1>2. TypeOK'
  BY <1>1, WentOn DEF RunInv, TypeOK, eveVars
<1>3. /\ pc'[p] = s /\ run'[p] = run[p] /\ rec'[p] = rec[p]
      /\ \A q \in Requests \ {p} : SameRequest(q)
  BY <1>1, WentOn DEF RunInv
<1>4. RequestOK(p)'
  BY <1>3 DEF RunInv, RequestOK, Serving, eveVars
<1>5. QED
  BY <1>2, <1>3, <1>4, LocalStep DEF Serving, eveVars

LEMMA WakeStep ==
  ASSUME RunInv, NEW p \in Requests, Wake(p)
  PROVE  RunInv'
<1>1. CASE Live(rec[p])
  BY <1>1, GotoStep DEF Wake, Live, Serving
<1>2. CASE ~Live(rec[p])
  BY <1>2, ReturnStep DEF Wake
<1>3. QED
  BY <1>1, <1>2

LEMMA DecideStep ==
  ASSUME RunInv, NEW p \in Requests, Decide(p)
  PROVE  RunInv'
<1>1. CASE rec[p].status # "cancelled" /\ rec[p].asked /\ elapsed[run[p]]
  BY <1>1, GotoStep DEF Decide, Serving
<1>2. CASE ~(rec[p].status # "cancelled" /\ rec[p].asked /\ elapsed[run[p]])
  BY <1>2, ReturnStep DEF Decide
<1>3. QED
  BY <1>1, <1>2

LEMMA ReadStep ==
  ASSUME RunInv, NEW p \in Requests, Read(p)
  PROVE  RunInv'
<1> DEFINE k == run[p]
           tail == Len(log[k])
           end == IF tail > rec[p].count + PageSize THEN rec[p].count + PageSize ELSE tail
<1>1. /\ pc[p] = "reading" /\ k \in Runs /\ rec[p] \in Record /\ rec[p].count <= tail
      /\ ~Terminal(rec[p]) /\ tail \in Nat /\ rec[p].count \in Nat
  BY DEF Read, RunInv, TypeOK, RequestOK, Serving, Record
<1>2. /\ pc'[p] = IF end > rec[p].count THEN "projecting" ELSE "deciding"
      /\ upto'[p] = end /\ run'[p] = k /\ rec'[p] = rec[p]
      /\ \A q \in Requests \ {p} : SameRequest(q)
      /\ UNCHANGED <<run, rec, row, elapsed, eveVars, starts>>
  BY DEF Read, RunInv, TypeOK, SameRequest
<1>3. end \in Nat /\ end <= tail
  BY <1>1
<1>4. TypeOK'
  <2>1. pc' \in [Requests -> Steps] /\ upto' \in [Requests -> Nat]
    BY <1>3 DEF Read, RunInv, TypeOK, Steps
  <2>2. QED
    BY <1>2, <2>1 DEF RunInv, TypeOK, eveVars
<1> HIDE DEF end
<1>5. RequestOK(p)'
  BY <1>1, <1>2, <1>3 DEF RunInv, RequestOK, Serving, eveVars
<1>6. QED
  BY <1>2, <1>4, <1>5, LocalStep DEF eveVars

-----------------------------------------------------------------------------
(* Steps that write the row.                                               *)

LEMMA ReserveStep ==
  ASSUME RunInv, NEW p \in Requests, NEW k \in Runs, Reserve(p, k)
  PROVE  RunInv'
<1>1. /\ pc[p] = "idle" /\ row[k] = None /\ starts[k] = 0 /\ eve[k] = "none" /\ log[k] = <<>>
      /\ row' = [row EXCEPT ![k] = Fresh] /\ pc'[p] = "starting" /\ run'[p] = k
      /\ UNCHANGED <<rec, upto, elapsed, eveVars, starts>>
      /\ \A q \in Requests \ {p} : SameRequest(q)
  BY DEF Reserve, RunInv, TypeOK, RowOK, Fresh, SameRequest
<1>2. Fresh \in Record /\ Fresh # None
  <2>1. Fresh \in Record
    BY DEF Fresh, Record, Statuses, Final, Results
  <2>2. QED
    BY <2>1, NullIsNoRow
<1>3. TypeOK'
  <2>1. pc' \in [Requests -> Steps] /\ run' \in [Requests -> Runs \cup {None}]
    BY DEF Reserve, RunInv, TypeOK, Steps
  <2>2. QED
    BY <1>1, <1>2, <2>1 DEF RunInv, TypeOK, eveVars
<1>4. row'[k] = Fresh /\ \A j \in Runs \ {k} : row'[j] = row[j]
  BY <1>1 DEF RunInv, TypeOK
<1>5. ASSUME NEW j \in Runs PROVE RowOK(j)' /\ Grows(j)
  <2>1. CASE j = k
    <3>1. UNCHANGED <<eve, log, waits, stopping, starts>> /\ RowOK(k)
      BY <1>1 DEF eveVars, RunInv
    <3>2. Shaped(Fresh) /\ Fresh.count <= Len(log[k]) /\ Fresh.status # "cancelled"
      BY <1>1 DEF Shaped, Fresh
    <3>3. QED
      BY <1>1, <1>2, <1>4, <2>1, <3>1, <3>2 DEF RowOK, Grows
  <2>2. CASE j # k
    BY <1>1, <1>4, <2>2, Unchanged DEF eveVars
  <2>3. QED
    BY <2>1, <2>2
<1>6. RequestOK(p)'
  BY <1>1, <1>2, <1>4 DEF RequestOK, Serving
<1>7. \A q \in Requests \ {p} : ~(pc[q] = "starting" /\ run[q] = k)
  BY <1>1 DEF RunInv, RequestOK
<1>8. QED
  BY <1>1, <1>3, <1>5, <1>6, <1>7, StepKeeps

\* A row that is replaced by another of the same run.
LEMMA RowWritten ==
  ASSUME RunInv, NEW k \in Runs, NEW x \in Record, row' = [row EXCEPT ![k] = x],
         row[k] # None, starts[k] = 1, Shaped(x), x.count <= Len(log[k]),
         row[k].attached => x.attached, row[k].asked => x.asked,
         x.status = "cancelled" => Stopped(k),
         UNCHANGED <<eveVars, starts>>
  PROVE  /\ row' \in [Runs -> Record \cup {None}] /\ row'[k] = x /\ x # None
         /\ \A j \in Runs : RowOK(j)' /\ Grows(j)
<1>1. row' \in [Runs -> Record \cup {None}] /\ row'[k] = x /\ \A j \in Runs \ {k} : row'[j] = row[j]
  BY DEF RunInv, TypeOK
<1>2. x # None
  BY NullIsNoRow
<1>3. UNCHANGED <<eve, log, waits, stopping, starts>>
  BY DEF eveVars
<1>4. ASSUME NEW j \in Runs PROVE RowOK(j)' /\ Grows(j)
  <2>1. CASE j = k
    <3>1. RowOK(k)
      BY DEF RunInv
    <3>2. Len(log[k]) \in Nat
      BY DEF RunInv, TypeOK
    <3>3. RowOK(k)'
      BY <1>1, <1>2, <1>3, <3>1 DEF RowOK, Stopped
    <3>4. QED
      BY <1>1, <1>2, <1>3, <2>1, <3>2, <3>3 DEF Grows
  <2>2. CASE j # k
    BY <1>1, <1>3, <2>2, Unchanged
  <2>3. QED
    BY <2>1, <2>2
<1>5. QED
  BY <1>1, <1>2, <1>4

\* The request of a run that writes its row and is answered.
LEMMA WriteAndReturn ==
  ASSUME RunInv, NEW p \in Requests, NEW x \in Record, pc[p] \notin {"idle", "starting"},
         row' = [row EXCEPT ![run[p]] = x], Shaped(x), x.count <= Len(log[run[p]]),
         row[run[p]].attached => x.attached, row[run[p]].asked => x.asked,
         x.status = "cancelled" => Stopped(run[p]),
         Return(p), UNCHANGED <<elapsed, eveVars, starts>>
  PROVE  RunInv'
<1>1. run[p] \in Runs /\ row[run[p]] # None /\ starts[run[p]] = 1
  BY DEF RunInv, RequestOK
<1>2. row' \in [Runs -> Record \cup {None}] /\ \A j \in Runs : RowOK(j)' /\ Grows(j)
  BY <1>1, RowWritten
<1>3. TypeOK'
  BY <1>2, Returned DEF RunInv, TypeOK, eveVars
<1>4. QED
  BY <1>2, <1>3, Returned, StepKeeps DEF RunInv

\* A row that is in its submission.
LEMMA InSubmission ==
  ASSUME RunInv, NEW k \in Runs, row[k] # None, row[k].status = "submitting"
  PROVE  /\ row[k] \in Record /\ ~row[k].attached /\ ~row[k].asked /\ row[k].count = 0
         /\ row[k].steps = 0 /\ row[k].result = "none" /\ ~row[k].failure
BY DEF RunInv, TypeOK, RowOK, Shaped

LEMMA AttachStep ==
  ASSUME RunInv, NEW p \in Requests, Attach(p)
  PROVE  RunInv'
<1> DEFINE k == run[p]
           x == [row[k] EXCEPT !.attached = TRUE, !.status = "running"]
<1>1. pc[p] = "attaching" /\ k \in Runs /\ row[k] # None /\ starts[k] = 1 /\ Len(log[k]) \in Nat
  BY DEF Attach, RunInv, RequestOK, TypeOK
<1>2. UNCHANGED <<elapsed, eveVars, starts>>
  BY DEF Attach
<1>3. ASSUME row[k].status = "submitting"
      PROVE  /\ [row EXCEPT ![k].attached = TRUE, ![k].status = "running"] = [row EXCEPT ![k] = x]
             /\ x \in Record /\ Shaped(x) /\ x.count <= Len(log[k]) /\ x.attached
             /\ ~row[k].asked /\ x.status = "running"
  <2>1. row[k] \in Record /\ row[k].count = 0 /\ ~row[k].asked
    BY <1>1, <1>3, InSubmission
  <2>2. [row EXCEPT ![k].attached = TRUE, ![k].status = "running"] = [row EXCEPT ![k] = x]
    BY <1>1 DEF RunInv, TypeOK
  <2>3. x.attached /\ x.status = "running" /\ x.count = 0
    BY <2>1 DEF Record
  <2>4. x \in Record
    BY <2>1 DEF Record, Statuses
  <2> HIDE DEF x
  <2>5. QED
    BY <1>1, <2>1, <2>2, <2>3, <2>4 DEF Shaped
<1> HIDE DEF x
<1>4. CASE row[k].status = "submitting" /\ row' = [row EXCEPT ![k] = x] /\ Return(p)
  BY <1>1, <1>2, <1>3, <1>4, WriteAndReturn
<1>5. CASE row[k].status = "submitting" /\ row' = [row EXCEPT ![k] = x] /\ Goto(p, "doubting")
  <2>1. row' \in [Runs -> Record \cup {None}] /\ row'[k] # None
        /\ \A j \in Runs : RowOK(j)' /\ Grows(j)
    BY <1>1, <1>2, <1>3, <1>5, RowWritten
  <2>2. /\ pc'[p] = "doubting" /\ run'[p] = k /\ \A q \in Requests \ {p} : SameRequest(q)
        /\ pc' \in [Requests -> Steps] /\ run' \in [Requests -> Runs \cup {None}]
        /\ rec' \in [Requests -> Record \cup {None}] /\ upto' \in [Requests -> Nat]
    BY <1>5, WentOn DEF RunInv, Steps
  <2>3. TypeOK'
    BY <1>2, <2>1, <2>2 DEF RunInv, TypeOK, eveVars
  <2>4. RequestOK(p)'
    BY <1>1, <1>2, <2>1, <2>2 DEF RequestOK, Serving
  <2>5. QED
    BY <1>2, <2>1, <2>2, <2>3, <2>4, StepKeeps
<1>6. CASE UNCHANGED row /\ Goto(p, "doubting")
  <2>1. /\ pc'[p] = "doubting" /\ run'[p] = k /\ \A q \in Requests \ {p} : SameRequest(q)
        /\ pc' \in [Requests -> Steps] /\ run' \in [Requests -> Runs \cup {None}]
        /\ rec' \in [Requests -> Record \cup {None}] /\ upto' \in [Requests -> Nat]
    BY <1>6, WentOn DEF RunInv, Steps
  <2>2. TypeOK'
    BY <1>2, <1>6, <2>1 DEF RunInv, TypeOK, eveVars
  <2>3. RequestOK(p)'
    BY <1>1, <1>2, <1>6, <2>1 DEF RequestOK, Serving
  <2>4. QED
    BY <1>2, <1>6, <2>1, <2>2, <2>3, LocalStep DEF eveVars
<1>7. QED
  BY <1>3, <1>4, <1>5, <1>6 DEF Attach

LEMMA ConcludeStep ==
  ASSUME RunInv, NEW p \in Requests, MarkSubmissionFailed(p) \/ MarkSubmissionAmbiguous(p)
  PROVE  RunInv'
<1> DEFINE k == run[p]
<1>1. PICK status \in {"failed", "submission-ambiguous"} :
        /\ row' = IF row[k].status = "submitting"
                    THEN [row EXCEPT ![k].status = status, ![k].failure = TRUE] ELSE row
        /\ pc[p] \in {"rejecting", "doubting"} /\ Return(p) /\ UNCHANGED <<elapsed, eveVars, starts>>
  BY DEF MarkSubmissionFailed, MarkSubmissionAmbiguous, Conclude
<1>2. k \in Runs /\ row[k] # None /\ Len(log[k]) \in Nat
  BY <1>1 DEF RunInv, RequestOK, TypeOK
<1>3. CASE row[k].status = "submitting"
  <2> DEFINE x == [row[k] EXCEPT !.status = status, !.failure = TRUE]
  <2>1. row[k] \in Record /\ row[k].count = 0 /\ row[k].steps = 0 /\ ~row[k].asked /\ ~row[k].attached
    BY <1>2, <1>3, InSubmission
  <2>2. row' = [row EXCEPT ![k] = x]
    BY <1>1, <1>2, <1>3 DEF RunInv, TypeOK
  <2>3. x.status = status /\ x.count = 0 /\ x.steps = 0 /\ ~x.attached /\ ~x.asked
    BY <2>1 DEF Record
  <2>4. x \in Record
    BY <2>1 DEF Record, Statuses, Final
  <2> HIDE DEF x
  <2>5. x.count <= Len(log[k]) /\ Shaped(x) /\ x.status # "cancelled"
    BY <1>2, <2>3 DEF Shaped
  <2>6. QED
    BY <1>1, <2>1, <2>2, <2>3, <2>4, <2>5, WriteAndReturn
<1>4. CASE row[k].status # "submitting"
  BY <1>1, <1>4, ReturnStep
<1>5. QED
  BY <1>3, <1>4

LEMMA MarkRequestedStep ==
  ASSUME RunInv, NEW p \in Requests, MarkCancellationRequested(p)
  PROVE  RunInv'
<1> DEFINE k == run[p]
           x == [row[k] EXCEPT !.asked = TRUE]
<1>1. /\ pc[p] = "requesting" /\ k \in Runs /\ row[k] \in Record /\ row[k].attached /\ row[k] # None
      /\ starts[k] = 1 /\ Shaped(row[k]) /\ row[k].count <= Len(log[k])
      /\ row[k].status \notin {"submitting", "submission-ambiguous"}
      /\ row[k].status = "cancelled" => Stopped(k)
  BY DEF MarkCancellationRequested, RunInv, RequestOK, Serving, RowOK, Shaped, TypeOK
<1>2. /\ pc' = [pc EXCEPT ![p] = "interrupting"] /\ rec' = [rec EXCEPT ![p] = row'[k]]
      /\ UNCHANGED <<run, upto, elapsed, eveVars, starts>>
  BY DEF MarkCancellationRequested
<1>3. row' = [row EXCEPT ![k] = x]
  BY <1>1 DEF MarkCancellationRequested, RunInv, TypeOK
<1>4. /\ x.attached /\ x.asked /\ x.status = row[k].status /\ x.count = row[k].count
      /\ x.result = row[k].result /\ x.failure = row[k].failure
  BY <1>1 DEF Record
<1>5. x \in Record
  BY <1>1 DEF Record
<1> HIDE DEF x
<1>6. Shaped(x)
  BY <1>1, <1>4 DEF Shaped
<1>7. /\ row' \in [Runs -> Record \cup {None}] /\ row'[k] = x /\ x # None
      /\ \A j \in Runs : RowOK(j)' /\ Grows(j)
  BY <1>1, <1>2, <1>3, <1>4, <1>5, <1>6, RowWritten
<1>8. /\ pc' \in [Requests -> Steps] /\ rec' \in [Requests -> Record \cup {None}]
      /\ pc'[p] = "interrupting" /\ rec'[p] = x /\ \A q \in Requests \ {p} : SameRequest(q)
  BY <1>2, <1>5, <1>7 DEF RunInv, TypeOK, Steps, SameRequest
<1>9. TypeOK'
  BY <1>2, <1>7, <1>8 DEF RunInv, TypeOK, eveVars
<1>10. RequestOK(p)'
  BY <1>1, <1>2, <1>4, <1>5, <1>7, <1>8 DEF RequestOK, Serving, eveVars
<1>11. QED
  BY <1>2, <1>7, <1>8, <1>9, <1>10, StepKeeps

LEMMA MarkCancelledStep ==
  ASSUME RunInv, NEW p \in Requests, MarkCancelled(p)
  PROVE  RunInv'
<1> DEFINE k == run[p]
           x == [row[k] EXCEPT !.status = "cancelled", !.result = "none", !.failure = FALSE]
<1>1. /\ pc[p] = "cancelling" /\ k \in Runs /\ row[k] \in Record /\ row[k].attached /\ row[k] # None
      /\ Shaped(row[k]) /\ row[k].count <= Len(log[k]) /\ Stopped(k)
  BY DEF MarkCancelled, RunInv, RequestOK, Serving, RowOK, Stopped, TypeOK
<1>2. row' = [row EXCEPT ![k] = x]
  BY <1>1 DEF MarkCancelled, RunInv, TypeOK
<1>3. x.attached /\ x.asked = row[k].asked /\ x.status = "cancelled" /\ x.count = row[k].count
  BY <1>1 DEF Record
<1>4. x \in Record
  BY <1>1 DEF Record, Statuses, Final, Results
<1> HIDE DEF x
<1>5. Shaped(x)
  BY <1>1, <1>3 DEF Shaped
<1>6. QED
  BY <1>1, <1>2, <1>3, <1>4, <1>5, WriteAndReturn DEF MarkCancelled

\* The page a synchronization has read.
LEMMA PageRead ==
  ASSUME RunInv, NEW p \in Requests, pc[p] = "projecting"
  PROVE  LET page == SubSeq(log[run[p]], rec[p].count + 1, upto[p]) IN
           /\ page \in Seq(Events) /\ Len(page) \in Nat
           /\ rec[p].count + Len(page) = upto[p]
           /\ \A i \in 1..Len(page) : page[i] = log[run[p]][rec[p].count + i]
                                      /\ rec[p].count + i \in DOMAIN log[run[p]]
<1>1. /\ log[run[p]] \in Seq(Events) /\ rec[p].count \in Nat /\ upto[p] \in Nat
      /\ rec[p].count < upto[p] /\ upto[p] <= Len(log[run[p]])
  BY DEF RunInv, TypeOK, RequestOK, Serving, Record
<1> DEFINE s == log[run[p]]
           m == rec[p].count + 1
           n == upto[p]
<1>2. \A i \in m..n : s[i] \in Events /\ i \in DOMAIN s
  BY <1>1
<1>3. m \in Int /\ n \in Int /\ m <= n
  BY <1>1
<1> DEFINE page == SubSeq(s, m, n)
<1>4. /\ page \in Seq(Events)
      /\ Len(page) = n - m + 1
      /\ \A i \in 1..(n - m + 1) : page[i] = s[m + i - 1]
  BY <1>2, <1>3, SubSeqProperties
<1> HIDE DEF page
<1>5. \A i \in 1..(n - m + 1) : m + i - 1 = rec[p].count + i /\ rec[p].count + i \in m..n
  BY <1>1
<1>6. Len(page) = n - m + 1 /\ Len(page) \in Nat /\ rec[p].count + Len(page) = n
  <2>1. n - m + 1 \in Nat /\ rec[p].count + (n - m + 1) = n
    BY <1>1
  <2>2. Len(page) = n - m + 1
    BY <1>4
  <2>3. QED
    BY <2>1, <2>2
<1>7. \A i \in 1..Len(page) : page[i] = s[rec[p].count + i] /\ rec[p].count + i \in DOMAIN s
  BY <1>2, <1>4, <1>5, <1>6
<1>8. page \in Seq(Events)
  BY <1>4
<1>9. page = SubSeq(log[run[p]], rec[p].count + 1, upto[p])
  BY DEF page
<1>10. QED
  BY <1>6, <1>7, <1>8, <1>9

\* What updateProjection makes of a row that has its session.
LEMMA UpdatedIsTyped ==
  ASSUME NEW r \in Record, NEW j, r.attached, r.status \notin {"submitting", "submission-ambiguous"},
         j.count \in Nat, j.steps \in Nat, j.result \in Results, j.failure \in BOOLEAN,
         j.status \in Statuses \ {"submitting", "submission-ambiguous"}
  PROVE  LET u == Updated(r, j) IN
           /\ u \in Record /\ u.attached /\ u.asked = r.asked /\ Shaped(u)
           /\ u.status \notin {"submitting", "submission-ambiguous"}
           /\ u.count = IF r.count > j.count THEN r.count ELSE j.count
           /\ u.status = "cancelled" => r.status = "cancelled" \/ j.status = "cancelled"
           /\ u.status = "cancelled" => u.result = "none" \/ u = r
           /\ r.asked => u.status \in {r.status, "cancelled"} /\ u.result \in {r.result, "none"}
           /\ Terminal(r) => u.status = r.status
<1> DEFINE status == IF Terminal(r) THEN r.status
                     ELSE IF r.asked /\ j.status # "cancelled" THEN r.status
                     ELSE j.status
           silent == r.asked \/ status = "cancelled"
           result == IF silent THEN "none" ELSE j.result
           failure == IF silent THEN FALSE ELSE j.failure
           u == [r EXCEPT !.status = status, !.count = j.count, !.steps = j.steps,
                          !.result = result, !.failure = failure]
<1>1. /\ status \in Statuses \ {"submitting", "submission-ambiguous"}
      /\ status = "cancelled" => (r.status = "cancelled" \/ j.status = "cancelled") /\ result = "none"
      /\ r.asked => status \in {r.status, "cancelled"} /\ result = "none"
      /\ Terminal(r) => status = r.status
      /\ result \in Results /\ failure \in BOOLEAN
  BY DEF Record, Results
<1> HIDE DEF status, result, failure
<1>2. /\ u \in Record /\ u.attached /\ u.asked = r.asked /\ u.status = status /\ u.result = result
      /\ u.count = j.count
  BY <1>1 DEF Record
<1>3. Updated(r, j) = IF r.count > j.count THEN r ELSE u
  BY DEF Updated, status, result, failure
<1> HIDE DEF u
<1>4. CASE r.count > j.count
  BY <1>3, <1>4 DEF Shaped
<1>5. CASE ~(r.count > j.count)
  BY <1>1, <1>2, <1>3, <1>5 DEF Shaped
<1>6. QED
  BY <1>4, <1>5

\* What a synchronization is about to write.
LEMMA ProjectedIsTyped ==
  ASSUME RunInv, NEW p \in Requests, pc[p] = "projecting"
  PROVE  LET k == run[p]
             page == SubSeq(log[k], rec[p].count + 1, upto[p])
             j == Projection(rec[p], page)
             u == Updated(row[k], j)
         IN  /\ row[k] \in Record /\ row[k] # None
             /\ j.count = upto[p] /\ j.status # "submitting"
             /\ u \in Record /\ u.attached /\ u.asked = row[k].asked /\ Shaped(u)
             /\ u.status \notin {"submitting", "submission-ambiguous"}
             /\ u.count <= Len(log[k])
             /\ u.status = "cancelled" => Stopped(k)
             /\ u.status = "cancelled" => \/ row[k].status = "cancelled"
                                         \/ \E i \in DOMAIN log[k] : log[k][i] = "turn.cancelled"
             /\ u.status = "cancelled" => u.result = "none" \/ u = row[k]
             /\ row[k].asked => u.status \in {row[k].status, "cancelled"}
                                /\ u.result \in {row[k].result, "none"}
             /\ Terminal(row[k]) => u.status = row[k].status
<1> DEFINE k == run[p]
           page == SubSeq(log[k], rec[p].count + 1, upto[p])
           j == Projection(rec[p], page)
           u == Updated(row[k], j)
<1>1. /\ k \in Runs /\ row[k] # None /\ row[k] \in Record /\ row[k].attached
      /\ row[k].status \notin {"submitting", "submission-ambiguous"}
      /\ row[k].count <= Len(log[k]) /\ row[k].count \in Nat
      /\ row[k].status = "cancelled" => Stopped(k)
  BY DEF RunInv, TypeOK, RequestOK, Serving, RowOK, Shaped, Record
<1>2. /\ rec[p] \in Record /\ rec[p].status # "submission-ambiguous" /\ rec[p].status # "cancelled"
      /\ upto[p] \in Nat /\ upto[p] <= Len(log[k]) /\ Len(log[k]) \in Nat
  BY <1>1 DEF RunInv, TypeOK, RequestOK, Serving, Terminal, Final
<1>3. /\ page \in Seq(Events) /\ rec[p].count + Len(page) = upto[p]
      /\ \A i \in 1..Len(page) : page[i] = log[k][rec[p].count + i] /\ rec[p].count + i \in DOMAIN log[k]
  BY PageRead
<1> HIDE DEF page
<1>4. /\ j.count = upto[p] /\ j.steps \in Nat /\ j.result \in Results /\ j.failure \in BOOLEAN
      /\ j.status \in Statuses \ {"submitting", "submission-ambiguous"}
      /\ j.status = "cancelled" => \E i \in 1..Len(page) : page[i] = "turn.cancelled"
  BY <1>2, <1>3, ProjectionIsTyped
<1>5. j.status = "cancelled" => \E i \in DOMAIN log[k] : log[k][i] = "turn.cancelled"
  BY <1>3, <1>4
<1> HIDE DEF j
<1>6. /\ u \in Record /\ u.attached /\ u.asked = row[k].asked /\ Shaped(u)
      /\ u.status \notin {"submitting", "submission-ambiguous"}
      /\ u.count = IF row[k].count > j.count THEN row[k].count ELSE j.count
      /\ u.status = "cancelled" => row[k].status = "cancelled" \/ j.status = "cancelled"
      /\ u.status = "cancelled" => u.result = "none" \/ u = row[k]
      /\ row[k].asked => u.status \in {row[k].status, "cancelled"} /\ u.result \in {row[k].result, "none"}
      /\ Terminal(row[k]) => u.status = row[k].status
  BY <1>1, <1>2, <1>4, UpdatedIsTyped
<1> HIDE DEF u
<1>7. u.count <= Len(log[k])
  BY <1>1, <1>2, <1>4, <1>6
<1>8. u.status = "cancelled" => Stopped(k)
  BY <1>1, <1>5, <1>6 DEF Stopped
<1>9. QED
  BY <1>1, <1>4, <1>5, <1>6, <1>7, <1>8 DEF u, j, page

LEMMA ProjectStep ==
  ASSUME RunInv, NEW p \in Requests, Project(p)
  PROVE  RunInv'
<1> DEFINE k == run[p]
           x == Updated(row[k], Projection(rec[p], SubSeq(log[k], rec[p].count + 1, upto[p])))
<1>1. /\ pc[p] = "projecting" /\ row' = [row EXCEPT ![k] = x] /\ rec' = [rec EXCEPT ![p] = x]
      /\ pc' = [pc EXCEPT ![p] = "deciding"] /\ UNCHANGED <<run, upto, elapsed, eveVars, starts>>
  BY DEF Project
<1>2. /\ x \in Record /\ x.attached /\ x.asked = row[k].asked /\ Shaped(x) /\ x.count <= Len(log[k])
      /\ x.status \notin {"submitting", "submission-ambiguous"}
      /\ x.status = "cancelled" => Stopped(k)
  BY <1>1, ProjectedIsTyped
<1> HIDE DEF x
<1>3. k \in Runs /\ row[k] # None /\ starts[k] = 1
  BY <1>1 DEF RunInv, RequestOK
<1>4. /\ row' \in [Runs -> Record \cup {None}] /\ row'[k] = x /\ x # None
      /\ \A j \in Runs : RowOK(j)' /\ Grows(j)
  BY <1>1, <1>2, <1>3, RowWritten
<1>5. /\ pc' \in [Requests -> Steps] /\ rec' \in [Requests -> Record \cup {None}]
      /\ pc'[p] = "deciding" /\ rec'[p] = x /\ \A q \in Requests \ {p} : SameRequest(q)
  BY <1>1, <1>2 DEF RunInv, TypeOK, Steps, SameRequest
<1>6. TypeOK'
  BY <1>1, <1>4, <1>5 DEF RunInv, TypeOK, eveVars
<1>7. RequestOK(p)'
  <2>1. /\ run'[p] = k /\ log'[k] = log[k] /\ starts'[k] = 1 /\ k \in Runs
        /\ row'[k] = x /\ x # None /\ pc'[p] = "deciding" /\ rec'[p] = x
    BY <1>1, <1>3, <1>4, <1>5 DEF eveVars
  <2>2. x \in Record /\ x.attached /\ x.count <= Len(log[k])
        /\ x.status \notin {"submitting", "submission-ambiguous"}
    BY <1>2
  <2>3. QED
    BY <2>1, <2>2 DEF RequestOK, Serving
<1>8. QED
  BY <1>1, <1>4, <1>5, <1>6, <1>7, StepKeeps

-----------------------------------------------------------------------------
(* Steps of the session and of the clock.                                  *)

LEMMA RuntimeStartStep ==
  ASSUME RunInv, NEW p \in Requests, RuntimeStart(p)
  PROVE  RunInv'
<1>0. PICK k \in Runs : k = run[p]
  BY DEF RuntimeStart, RuntimeCancel, Reset, RunInv, RequestOK
<1>1. /\ pc[p] = "starting" /\ k = run[p] /\ row[k] # None /\ starts[k] = 0 /\ eve[k] = "none"
      /\ row[k] = Fresh /\ log[k] = <<>> /\ waits[k] = {} /\ RowOK(k)
  BY <1>0 DEF RuntimeStart, RunInv, RequestOK, RowOK
<1>2. PICK s \in {"attaching", "rejecting", "doubting"} : Goto(p, s)
  BY DEF RuntimeStart
<1>3. /\ starts' = [starts EXCEPT ![k] = @ + 1] /\ UNCHANGED <<row, elapsed, log, waits, stopping>>
      /\ eve' \in {eve, [eve EXCEPT ![k] = "queued"]}
  BY <1>0 DEF RuntimeStart
<1>4. /\ pc'[p] = s /\ run'[p] = k /\ \A q \in Requests \ {p} : SameRequest(q)
      /\ pc' \in [Requests -> Steps] /\ run' \in [Requests -> Runs \cup {None}]
      /\ rec' \in [Requests -> Record \cup {None}] /\ upto' \in [Requests -> Nat]
  BY <1>1, <1>2, WentOn DEF RunInv, Steps
<1>5. /\ starts'[k] = 1 /\ eve'[k] \in {"none", "queued"}
      /\ \A j \in Runs \ {k} : starts'[j] = starts[j] /\ eve'[j] = eve[j]
  BY <1>1, <1>3 DEF RunInv, TypeOK
<1>6. TypeOK'
  <2>1. starts' \in [Runs -> Nat]
    BY <1>1, <1>3 DEF RunInv, TypeOK
  <2>2. eve' \in [Runs -> {"none", "queued", "turn", "ended", "waiting", "closed"}]
    BY <1>1, <1>3 DEF RunInv, TypeOK
  <2>3. QED
    BY <1>3, <1>4, <2>1, <2>2 DEF RunInv, TypeOK
<1>7. ASSUME NEW j \in Runs PROVE RowOK(j)' /\ Grows(j)
  <2>1. CASE j = k
    <3>1. Shaped(Fresh) /\ Fresh.count = 0 /\ Fresh.status # "cancelled" /\ Len(log[k]) = 0
      BY <1>1 DEF Shaped, Fresh
    <3>2. RowOK(k)'
      BY <1>1, <1>3, <1>5, <3>1 DEF RowOK
    <3>3. QED
      BY <1>1, <1>3, <1>5, <2>1, <3>1, <3>2 DEF Grows
  <2>2. CASE j # k
    BY <1>3, <1>5, <2>2, Unchanged
  <2>3. QED
    BY <2>1, <2>2
<1>8. \A q \in Requests \ {p} : pc[q] # "idle" => starts'[run[q]] = starts[run[q]]
  <2>1. \A q \in Requests \ {p} : pc[q] # "idle" => run[q] \in Runs /\ run[q] # k
    BY <1>1 DEF RunInv, RequestOK, OneStarter
  <2>2. QED
    BY <1>5, <2>1
<1>9. RequestOK(p)'
  BY <1>1, <1>3, <1>4, <1>5 DEF RequestOK, Serving
<1>10. QED
  BY <1>4, <1>6, <1>7, <1>8, <1>9, StepKeeps

LEMMA RuntimeCancelStep ==
  ASSUME RunInv, NEW p \in Requests, RuntimeCancel(p)
  PROVE  RunInv'
<1>0. PICK k \in Runs : k = run[p]
  BY DEF RuntimeStart, RuntimeCancel, Reset, RunInv, RequestOK
<1>1. /\ pc[p] = "interrupting" /\ k = run[p] /\ row[k] # None /\ row[k].asked /\ starts[k] = 1
      /\ UNCHANGED <<row, elapsed, eve, log, waits, starts>> /\ Goto(p, "sleeping")
      /\ stopping' = [stopping EXCEPT ![k] = @ \/ eve[k] = "turn"]
  BY <1>0 DEF RuntimeCancel, RunInv, RequestOK, Serving
<1>2. /\ pc'[p] = "sleeping" /\ run'[p] = k /\ rec'[p] = rec[p]
      /\ \A q \in Requests \ {p} : SameRequest(q)
      /\ pc' \in [Requests -> Steps] /\ run' \in [Requests -> Runs \cup {None}]
      /\ rec' \in [Requests -> Record \cup {None}] /\ upto' \in [Requests -> Nat]
  BY <1>1, WentOn DEF RunInv, Steps
<1>3. stopping' \in [Runs -> BOOLEAN] /\ \A j \in Runs \ {k} : stopping'[j] = stopping[j]
  BY <1>1 DEF RunInv, TypeOK
<1>4. TypeOK'
  BY <1>1, <1>2, <1>3 DEF RunInv, TypeOK
<1>5. ASSUME NEW j \in Runs PROVE RowOK(j)' /\ Grows(j)
  <2>1. CASE j = k
    <3>1. RowOK(k) /\ Len(log[k]) \in Nat
      BY <1>1 DEF RunInv, TypeOK
    <3>2. RowOK(k)'
      BY <1>1, <3>1 DEF RowOK, Stopped
    <3>3. QED
      BY <1>1, <2>1, <3>1, <3>2 DEF Grows
  <2>2. CASE j # k
    BY <1>1, <1>3, <2>2, Unchanged
  <2>3. QED
    BY <2>1, <2>2
<1>6. RequestOK(p)'
  BY <1>1, <1>2 DEF RunInv, RequestOK, Serving
<1>7. QED
  BY <1>1, <1>2, <1>4, <1>5, <1>6, StepKeeps

LEMMA ResetStep ==
  ASSUME RunInv, NEW p \in Requests, Reset(p)
  PROVE  RunInv'
<1>0. PICK k \in Runs : k = run[p]
  BY DEF RuntimeStart, RuntimeCancel, Reset, RunInv, RequestOK
<1>1. /\ pc[p] = "resetting" /\ k = run[p] /\ row[k] # None /\ rec[p].asked /\ starts[k] = 1
      /\ UNCHANGED <<row, elapsed, log, waits, stopping, starts>> /\ Goto(p, "cancelling")
      /\ eve' = [eve EXCEPT ![k] = "closed"]
  BY <1>0 DEF Reset, RunInv, RequestOK, Serving
<1>2. /\ pc'[p] = "cancelling" /\ run'[p] = k /\ rec'[p] = rec[p]
      /\ \A q \in Requests \ {p} : SameRequest(q)
      /\ pc' \in [Requests -> Steps] /\ run' \in [Requests -> Runs \cup {None}]
      /\ rec' \in [Requests -> Record \cup {None}] /\ upto' \in [Requests -> Nat]
  BY <1>1, WentOn DEF RunInv, Steps
<1>3. /\ eve' \in [Runs -> {"none", "queued", "turn", "ended", "waiting", "closed"}]
      /\ eve'[k] = "closed" /\ \A j \in Runs \ {k} : eve'[j] = eve[j]
  BY <1>1 DEF RunInv, TypeOK
<1>4. TypeOK'
  BY <1>1, <1>2, <1>3 DEF RunInv, TypeOK
<1>5. ASSUME NEW j \in Runs PROVE RowOK(j)' /\ Grows(j)
  <2>1. CASE j = k
    <3>1. RowOK(k) /\ Len(log[k]) \in Nat
      BY <1>1 DEF RunInv, TypeOK
    <3>2. RowOK(k)'
      BY <1>1, <1>3, <3>1 DEF RowOK, Stopped
    <3>3. QED
      BY <1>1, <1>3, <2>1, <3>1, <3>2 DEF Grows
  <2>2. CASE j # k
    BY <1>1, <1>3, <2>2, Unchanged
  <2>3. QED
    BY <2>1, <2>2
<1>6. RequestOK(p)'
  BY <1>1, <1>2, <1>3 DEF RunInv, RequestOK, Serving
<1>7. QED
  BY <1>1, <1>2, <1>4, <1>5, <1>6, StepKeeps

\* What a step of the session does.
LEMMA SessionEffect ==
  ASSUME RunInv, NEW k \in Runs, Session(k)
  PROVE  /\ eve[k] \in {"queued", "turn", "ended", "waiting"}
         /\ \E e \in Events : log' = [log EXCEPT ![k] = Append(@, e)]
         /\ \E x \in {"turn", "ended", "waiting", "closed"} : eve' = [eve EXCEPT ![k] = x]
         /\ \E w \in SUBSET {"input", "authorization"} : waits' = [waits EXCEPT ![k] = w]
         /\ UNCHANGED <<row, elapsed, requestVars, starts, stopping>>
<1>1. eve = [eve EXCEPT ![k] = eve[k]] /\ waits = [waits EXCEPT ![k] = waits[k]]
  BY DEF RunInv, TypeOK
<1>2. waits[k] \in SUBSET {"input", "authorization"}
  BY DEF RunInv, TypeOK
<1>3. /\ eve[k] \in {"queued", "turn", "ended", "waiting"}
      /\ \E x \in {"turn", "ended", "waiting", "closed"} : eve' = [eve EXCEPT ![k] = x]
      /\ UNCHANGED <<row, elapsed, requestVars, starts, stopping>>
  BY <1>1 DEF Session, TurnStarts, Works, Asks, Authorized, Replied, SessionWaits,
              SessionCompletes, TurnBreaks, SessionFails
<1>4. \E e \in Events : log' = [log EXCEPT ![k] = Append(@, e)]
  BY DEF Session, TurnStarts, Works, Asks, Authorized, Replied, SessionWaits,
         SessionCompletes, TurnBreaks, SessionFails, Emit, Events
<1>5. \E w \in SUBSET {"input", "authorization"} : waits' = [waits EXCEPT ![k] = w]
  <2>1. CASE \E w \in {"input", "authorization"} : Asks(k, w)
    <3>1. PICK w \in {"input", "authorization"} : Asks(k, w)
      BY <2>1
    <3>2. waits[k] \cup {w} \in SUBSET {"input", "authorization"}
      BY <1>2
    <3>3. QED
      BY <3>1, <3>2 DEF Asks
  <2>2. CASE Authorized(k)
    <3>1. waits[k] \ {"authorization"} \in SUBSET {"input", "authorization"}
      BY <1>2
    <3>2. QED
      BY <2>2, <3>1 DEF Authorized
  <2>3. CASE Replied(k) \/ SessionWaits(k)
    <3>1. {} \in SUBSET {"input", "authorization"}
      OBVIOUS
    <3>2. \E w \in {{}, waits[k]} : waits' = [waits EXCEPT ![k] = w]
      BY <2>3 DEF Replied, SessionWaits
    <3>3. QED
      BY <1>2, <3>1, <3>2
  <2>4. CASE UNCHANGED waits
    BY <1>1, <1>2, <2>4
  <2>5. QED
    BY <2>1, <2>2, <2>3, <2>4
       DEF Session, TurnStarts, Works, SessionCompletes, TurnBreaks, SessionFails
<1>6. QED
  BY <1>3, <1>4, <1>5

LEMMA SessionStep ==
  ASSUME RunInv, NEW k \in Runs, Session(k)
  PROVE  RunInv'
<1>1. PICK e \in Events : log' = [log EXCEPT ![k] = Append(@, e)]
  BY SessionEffect
<1>2. PICK x \in {"turn", "ended", "waiting", "closed"} : eve' = [eve EXCEPT ![k] = x]
  BY SessionEffect
<1>3. PICK w \in SUBSET {"input", "authorization"} : waits' = [waits EXCEPT ![k] = w]
  BY SessionEffect
<1>4. UNCHANGED <<row, elapsed, requestVars, starts, stopping>>
      /\ eve[k] \in {"queued", "turn", "ended", "waiting"}
  BY SessionEffect
<1>5. /\ log' \in [Runs -> Seq(Events)] /\ log[k] \in Seq(Events) /\ Len(log[k]) \in Nat
      /\ eve' \in [Runs -> {"none", "queued", "turn", "ended", "waiting", "closed"}]
      /\ log'[k] = Append(log[k], e) /\ eve'[k] = x
      /\ \A j \in Runs \ {k} : log'[j] = log[j] /\ eve'[j] = eve[j] /\ waits'[j] = waits[j]
  BY <1>1, <1>2, <1>3 DEF RunInv, TypeOK
<1>6. waits' \in [Runs -> SUBSET {"input", "authorization"}]
  BY <1>3 DEF RunInv, TypeOK
<1>7. TypeOK'
  BY <1>4, <1>5, <1>6 DEF RunInv, TypeOK, requestVars
<1>8. /\ Len(log'[k]) = Len(log[k]) + 1
      /\ \A i \in DOMAIN log[k] : i \in DOMAIN log'[k] /\ log'[k][i] = log[k][i]
  BY <1>5
<1>9. ASSUME NEW j \in Runs PROVE RowOK(j)' /\ Grows(j)
  <2>1. CASE j = k
    <3>1. RowOK(k) /\ (row[k] # None => row[k].count \in Nat)
      BY DEF RunInv, TypeOK, Record
    <3>2. row[k] # None => row[k].count <= Len(log'[k])
      BY <1>5, <1>8, <3>1 DEF RowOK
    <3>3. (row[k] # None /\ row[k].status = "cancelled") => Stopped(k)'
      BY <1>4, <1>5, <1>8, <3>1 DEF RowOK, Stopped
    <3>4. RowOK(k)'
      BY <1>4, <1>5, <3>1, <3>2, <3>3 DEF RowOK
    <3>5. QED
      BY <1>4, <1>5, <1>8, <2>1, <3>4 DEF Grows
  <2>2. CASE j # k
    BY <1>4, <1>5, <2>2, Unchanged
  <2>3. QED
    BY <2>1, <2>2
<1>10. ASSUME NEW q \in Requests PROVE RequestOK(q)'
  <2>1. SameRequest(q) /\ (pc[q] # "idle" => run[q] \in Runs)
    BY <1>4 DEF SameRequest, requestVars, RunInv, RequestOK
  <2>2. QED
    BY <1>4, <1>7, <1>9, <2>1, RequestKept DEF RunInv
<1>11. OneStarter'
  BY <1>4 DEF RunInv, OneStarter, requestVars
<1>12. QED
  BY <1>7, <1>9, <1>10, <1>11 DEF RunInv

\* Steps that change nothing the invariant speaks of.
LEMMA QuietStep ==
  ASSUME RunInv, UNCHANGED <<row, requestVars, eveVars, starts>>, elapsed' \in [Runs -> BOOLEAN]
  PROVE  RunInv'
<1>1. TypeOK'
  BY DEF RunInv, TypeOK, requestVars, eveVars
<1>2. ASSUME NEW q \in Requests PROVE RequestOK(q)'
  BY DEF RunInv, RequestOK, requestVars, eveVars
<1>3. ASSUME NEW k \in Runs PROVE RowOK(k)'
  BY RowKept DEF RunInv, eveVars
<1>4. OneStarter'
  BY DEF RunInv, OneStarter, requestVars
<1>5. QED
  BY <1>1, <1>2, <1>3, <1>4 DEF RunInv

LEMMA InitHolds == Init => RunInv
<1> SUFFICES ASSUME Init PROVE RunInv
  OBVIOUS
<1>1. TypeOK
  BY DEF Init, TypeOK, Steps
<1>2. ASSUME NEW k \in Runs PROVE RowOK(k)
  BY DEF Init, RowOK
<1>3. ASSUME NEW p \in Requests PROVE RequestOK(p)
  BY DEF Init, RequestOK, Serving
<1>4. OneStarter
  BY DEF Init, OneStarter
<1>5. QED
  BY <1>1, <1>2, <1>3, <1>4 DEF RunInv

LEMMA NextKeeps == RunInv /\ [Next]_vars => RunInv'
<1> SUFFICES ASSUME RunInv, [Next]_vars PROVE RunInv'
  OBVIOUS
<1>1. ASSUME NEW p \in Requests, NEW k \in Runs, Reserve(p, k) \/ Inspect(p, k) \/ Cancel(p, k)
      PROVE  RunInv'
  BY <1>1, ReserveStep, FindStep
<1>2. ASSUME NEW p \in Requests, Proceeds(p) PROVE RunInv'
  BY <1>2, RuntimeStartStep, AttachStep, ConcludeStep, MarkRequestedStep, RuntimeCancelStep,
     WakeStep, ReadStep, ProjectStep, DecideStep, ResetStep, MarkCancelledStep DEF Proceeds
<1>3. ASSUME NEW p \in Requests, Fails(p) PROVE RunInv'
  BY <1>3, ReturnStep DEF Fails
<1>4. ASSUME NEW k \in Runs, GraceElapses(k) PROVE RunInv'
  <2>1. elapsed' \in [Runs -> BOOLEAN]
    BY <1>4 DEF GraceElapses, RunInv, TypeOK
  <2>2. QED
    BY <1>4, <2>1, QuietStep DEF GraceElapses
<1>5. ASSUME NEW k \in Runs, Session(k) PROVE RunInv'
  BY <1>5, SessionStep
<1>6. CASE UNCHANGED vars
  BY <1>6, QuietStep DEF vars, RunInv, TypeOK
<1>7. QED
  BY <1>1, <1>2, <1>3, <1>4, <1>5, <1>6 DEF Next

\* The invariant from which the theorems below follow.
THEOREM RunInvariant == Spec => []RunInv
<1>1. QED
  BY InitHolds, NextKeeps, PTL DEF Spec

-----------------------------------------------------------------------------
(* The properties.                                                         *)

\* Every variable stays in its domain, for any number of runs and requests.
THEOREM TypeCorrect == Spec => []TypeOK
<1>1. RunInv => TypeOK
  BY DEF RunInv
<1>2. QED
  BY <1>1, RunInvariant, PTL

\* Whatever requests with one idempotency key overlap, fail or are repeated,
\* the runtime is asked to start the run at most once.
THEOREM RunsStartOnce == Spec => []StartedOnce
<1>1. RunInv => StartedOnce
  BY DEF RunInv, RowOK, StartedOnce
<1>2. QED
  BY <1>1, RunInvariant, PTL

\* A row says cancelled only when the session was reset or Eve recorded that
\* the turn was cancelled.
THEOREM CancelledRunsAreStopped == Spec => []CancelledIsStopped
<1>1. RunInv => CancelledIsStopped
  BY DEF RunInv, RowOK, CancelledIsStopped, Stopped, Exists
<1>2. QED
  BY <1>1, RunInvariant, PTL

\* What synchronization p is about to write.
Written(p) ==
  Updated(row[run[p]],
          Projection(rec[p], SubSeq(log[run[p]], rec[p].count + 1, upto[p])))

\* What a step does to a row.
LEMMA RowChanges ==
  ASSUME RunInv, [Next]_vars, NEW k \in Runs
  PROVE  \/ row'[k] = row[k]
         \/ row[k] = None /\ row'[k] = Fresh
         \/ /\ row[k] # None /\ row[k].status = "submitting"
            /\ \/ row'[k] = [row[k] EXCEPT !.attached = TRUE, !.status = "running"]
               \/ \E s \in {"failed", "submission-ambiguous"} :
                    row'[k] = [row[k] EXCEPT !.status = s, !.failure = TRUE]
         \/ row[k] # None /\ row[k].attached /\ row'[k] = [row[k] EXCEPT !.asked = TRUE]
         \/ /\ row[k] # None /\ row[k].asked /\ row[k].attached
            /\ row'[k] = [row[k] EXCEPT !.status = "cancelled", !.result = "none", !.failure = FALSE]
         \/ /\ row[k] # None
            /\ \E p \in Requests : pc[p] = "projecting" /\ run[p] = k /\ row'[k] = Written(p)
<1> DEFINE Attached == row'[k] = [row[k] EXCEPT !.attached = TRUE, !.status = "running"]
           Concluded == \E s \in {"failed", "submission-ambiguous"} :
                          row'[k] = [row[k] EXCEPT !.status = s, !.failure = TRUE]
           Cancelled == row'[k] = [row[k] EXCEPT !.status = "cancelled", !.result = "none",
                                                 !.failure = FALSE]
           Projected == \E p \in Requests : pc[p] = "projecting" /\ run[p] = k /\ row'[k] = Written(p)
           Goal == \/ row'[k] = row[k]
                   \/ row[k] = None /\ row'[k] = Fresh
                   \/ row[k] # None /\ row[k].status = "submitting" /\ (Attached \/ Concluded)
                   \/ row[k] # None /\ row[k].attached /\ row'[k] = [row[k] EXCEPT !.asked = TRUE]
                   \/ row[k] # None /\ row[k].asked /\ row[k].attached /\ Cancelled
                   \/ row[k] # None /\ Projected
<1>1. row \in [Runs -> Record \cup {None}]
  BY DEF RunInv, TypeOK
<1>2. ASSUME NEW p \in Requests, NEW j \in Runs, Reserve(p, j) PROVE Goal
  BY <1>1, <1>2 DEF Reserve, Fresh
<1>4. ASSUME NEW p \in Requests, Attach(p) PROVE Goal
  <2>1. row[run[p]] # None /\ run[p] \in Runs
    BY <1>4 DEF Attach, RunInv, RequestOK
  <2>2. CASE run[p] = k
    BY <1>1, <1>4, <2>1, <2>2 DEF Attach
  <2>3. CASE run[p] # k
    BY <1>1, <1>4, <2>1, <2>3 DEF Attach
  <2>4. QED
    BY <2>2, <2>3
<1>5. ASSUME NEW p \in Requests, MarkSubmissionFailed(p) \/ MarkSubmissionAmbiguous(p) PROVE Goal
  <2>1. row[run[p]] # None /\ run[p] \in Runs
    BY <1>5 DEF MarkSubmissionFailed, MarkSubmissionAmbiguous, Conclude, RunInv, RequestOK
  <2>2. PICK s \in {"failed", "submission-ambiguous"} :
          row' = IF row[run[p]].status = "submitting"
                   THEN [row EXCEPT ![run[p]].status = s, ![run[p]].failure = TRUE] ELSE row
    BY <1>5 DEF MarkSubmissionFailed, MarkSubmissionAmbiguous, Conclude
  <2>3. row'[k] = row[k] \/ (run[p] = k /\ row[k].status = "submitting" /\ Concluded)
    BY <1>1, <2>1, <2>2
  <2>4. QED
    BY <2>1, <2>3
<1>6. ASSUME NEW p \in Requests, MarkCancellationRequested(p) PROVE Goal
  <2>1. row[run[p]] # None /\ row[run[p]].attached /\ run[p] \in Runs
    BY <1>6 DEF MarkCancellationRequested, RunInv, RequestOK, Serving
  <2>2. QED
    BY <1>1, <1>6, <2>1 DEF MarkCancellationRequested
<1>7. ASSUME NEW p \in Requests, MarkCancelled(p) PROVE Goal
  <2>1. run[p] \in Runs /\ row[run[p]] # None /\ row[run[p]].asked /\ row[run[p]].attached
    BY <1>7 DEF MarkCancelled, RunInv, RequestOK, Serving
  <2>2. row'[k] = row[k] \/ (run[p] = k /\ Cancelled)
    BY <1>1, <1>7, <2>1 DEF MarkCancelled
  <2>3. QED
    BY <2>1, <2>2
<1>8. ASSUME NEW p \in Requests, Project(p) PROVE Goal
  <2>1. run[p] \in Runs /\ row[run[p]] # None
    BY <1>8 DEF Project, RunInv, RequestOK
  <2>2. pc[p] = "projecting" /\ row' = [row EXCEPT ![run[p]] = Written(p)]
    BY <1>8 DEF Project, Written
  <2>3. row'[k] = row[k] \/ (run[p] = k /\ row'[k] = Written(p))
    BY <1>1, <2>1, <2>2
  <2>4. QED
    BY <2>1, <2>2, <2>3
<1>9. ASSUME UNCHANGED row PROVE Goal
  BY <1>9
<1> HIDE DEF Goal
<1>10. ASSUME NEW p \in Requests, Proceeds(p) PROVE Goal
  <2>1. ASSUME RuntimeStart(p) \/ RuntimeCancel(p) \/ Wake(p) \/ Read(p) \/ Decide(p) \/ Reset(p)
        PROVE  Goal
    BY <1>9, <2>1 DEF RuntimeStart, RuntimeCancel, Wake, Read, Decide, Reset
  <2>2. QED
    BY <1>4, <1>5, <1>6, <1>7, <1>8, <1>10, <2>1 DEF Proceeds
<1>11. ASSUME NEW p \in Requests, NEW j \in Runs, Inspect(p, j) \/ Cancel(p, j) PROVE Goal
  BY <1>9, <1>11 DEF Inspect, Cancel
<1>12. ASSUME NEW p \in Requests, Fails(p) PROVE Goal
  BY <1>9, <1>12 DEF Fails
<1>13. ASSUME NEW j \in Runs, GraceElapses(j) \/ Session(j) PROVE Goal
  BY <1>9, <1>13 DEF GraceElapses, Session
<1>14. ASSUME UNCHANGED vars PROVE Goal
  BY <1>9, <1>14 DEF vars
<1>15. Goal
  BY <1>2, <1>10, <1>11, <1>12, <1>13, <1>14 DEF Next
<1>16. QED
  BY <1>15 DEF Goal

\* A row after a step of its run: how status and result may move.
LEMMA OutcomeChanges ==
  ASSUME RunInv, [Next]_vars, NEW k \in Runs, row[k] # None
  PROVE  /\ row[k].asked => /\ row'[k].status \in {row[k].status, "cancelled"}
                            /\ row'[k].result \in {row[k].result, "none"}
         /\ Terminal(row[k]) =>
              \/ row'[k].status = row[k].status
              \/ /\ row[k].status \in {"completed", "failed"} /\ row[k].asked
                 /\ row'[k].status = "cancelled"
<1>1. row[k] \in Record
  BY DEF RunInv, TypeOK
<1>2. row[k].status = "submitting" => ~row[k].asked /\ ~Terminal(row[k])
  BY InSubmission DEF Terminal, Final
<1>3. row[k].attached => row[k].status # "submission-ambiguous"
  BY DEF RunInv, RowOK, Shaped
<1>4. CASE row'[k] = row[k]
  BY <1>4
<1>5. CASE row'[k] = [row[k] EXCEPT !.asked = TRUE]
  <2>1. row'[k].status = row[k].status /\ row'[k].result = row[k].result
    BY <1>1, <1>5 DEF Record
  <2>2. QED
    BY <2>1
<1>6. CASE /\ row[k].asked /\ row[k].attached
           /\ row'[k] = [row[k] EXCEPT !.status = "cancelled", !.result = "none", !.failure = FALSE]
  <2>1. row'[k].status = "cancelled" /\ row'[k].result = "none"
    BY <1>1, <1>6 DEF Record
  <2>2. QED
    BY <1>3, <1>6, <2>1 DEF Terminal, Final
<1>7. CASE \E p \in Requests : pc[p] = "projecting" /\ run[p] = k /\ row'[k] = Written(p)
  <2>1. /\ row[k].asked => /\ row'[k].status \in {row[k].status, "cancelled"}
                           /\ row'[k].result \in {row[k].result, "none"}
        /\ Terminal(row[k]) => row'[k].status = row[k].status
    BY <1>7, ProjectedIsTyped DEF Written
  <2>2. QED
    BY <2>1
<1>8. QED
  BY <1>2, <1>4, <1>5, <1>6, <1>7, RowChanges

\* Once a stop is recorded, late output neither publishes a result nor takes
\* the run anywhere but to cancelled.
THEOREM StopsAreHonoured == Spec => StopIsHonoured
<1>1. ASSUME RunInv, [Next]_vars, NEW k \in Runs, Exists(k), row[k].asked
      PROVE  row'[k].status \in {row[k].status, "cancelled"} /\ row'[k].result \in {row[k].result, "none"}
  BY <1>1, OutcomeChanges DEF Exists
<1>2. RunInv /\ [Next]_vars =>
        [\A k \in Runs : (Exists(k) /\ row[k].asked) =>
           /\ row'[k].status \in {row[k].status, "cancelled"}
           /\ row'[k].result \in {row[k].result, "none"}]_vars
  BY <1>1
<1>3. QED
  BY <1>2, RunInvariant, PTL DEF Spec, StopIsHonoured

-----------------------------------------------------------------------------
(* The row as an account of the stream.                                    *)

\* The events of a stream's beginning that count as usage.
StepsIn(s, n) == Cardinality({i \in 1..n : s[i] = "step.completed"})

\* Usage is counted once, in the row and in every copy of it.
UsageInv ==
  /\ \A k \in Runs : row[k] # None => row[k].steps = StepsIn(log[k], row[k].count)
  /\ \A p \in Requests : pc[p] \in Serving =>
       rec[p].steps = StepsIn(log[run[p]], rec[p].count)

\* The account of no event.
Start == [status |-> "running", result |-> "none", failure |-> FALSE, steps |-> 0,
          cancelled |-> FALSE, input |-> FALSE, authorization |-> FALSE]

Over == {"completed", "failed"}

\* Accounts whose status tells all the loop knows, until the run is over.
Steady == {a \in Submitted :
  /\ ~a.cancelled /\ a.status # "cancelled"
  /\ a.status = "failed" => a.failure
  /\ a.status \notin Over => /\ (a.input <=> a.status = "waiting-input")
                             /\ (a.authorization <=> a.status = "waiting-authorization")
                             /\ ~a.failure}

\* What the account of the whole stream tells of the session e and its waits w.
Tracks(a, e, w) ==
  /\ e \in {"none", "queued"} => a = Start /\ w = {}
  /\ e = "turn" => a.status \notin Over
  /\ e = "ended" => a.status = "failed"
  /\ e = "waiting" => (a.status \in Over <=> w = {})
  /\ a.status \notin Over => /\ (a.input <=> "input" \in w)
                             /\ (a.authorization <=> "authorization" \in w)
  /\ a.status = "completed" => e \in {"waiting", "closed"} /\ w = {}

\* A run that nobody asked to stop.
Plain(k) == row[k] # None /\ ~row[k].asked

\* Record r is what the loop makes of its events, account w; until it is
\* terminal it tells everything a later page needs.
Told(r, w) ==
  /\ r.status = w.status /\ r.result = w.result /\ r.failure = w.failure
  /\ ~Terminal(r) => Begin(r) = w

StreamOK(k) ==
  /\ \A n \in 0..Len(log[k]) : Whole(k)[n] \in Steady
  /\ \A m, n \in 0..Len(log[k]) : (m <= n /\ Whole(k)[m].status \in Over) =>
       Whole(k)[n].status = Whole(k)[m].status
  /\ Tracks(Whole(k)[Len(log[k])], eve[k], waits[k])
  /\ row[k].attached => Told(row[k], Whole(k)[row[k].count])
  /\ \A p \in Requests : (pc[p] \in Serving /\ run[p] = k) =>
       Told(rec[p], Whole(k)[rec[p].count])

\* A completed run waits for nothing and does nothing more.
OverOK(k) ==
  (row[k] # None /\ row[k].status = "completed") =>
    waits[k] = {} /\ eve[k] \in {"waiting", "closed"}

StreamInv == \A k \in Runs : (Plain(k) => StreamOK(k)) /\ OverOK(k)

-----------------------------------------------------------------------------
(* What a step does to copies and to the stream.                           *)

\* A copy in use was in use before, or it is the row it is taken from.
LEMMA CopyChanges ==
  ASSUME RunInv, [Next]_vars, NEW p \in Requests, pc'[p] \in Serving
  PROVE  /\ run'[p] \in Runs /\ row'[run'[p]] # None
         /\ \/ pc[p] \in Serving /\ run'[p] = run[p] /\ rec'[p] = rec[p]
            \/ rec'[p] = row'[run'[p]]
<1> DEFINE Same == pc[p] \in Serving /\ run'[p] = run[p] /\ rec'[p] = rec[p]
           Taken == rec'[p] = row'[run'[p]]
<1>1. RunInv' /\ TypeOK
  BY NextKeeps DEF RunInv
<1>2. run'[p] \in Runs /\ row'[run'[p]] # None
  BY <1>1 DEF RunInv, RequestOK, Serving
<1>3. ASSUME NEW q \in Requests, NEW k \in Runs, Reserve(q, k) PROVE Same \/ Taken
  BY <1>1, <1>3 DEF Reserve, TypeOK, Serving
<1>4. ASSUME NEW q \in Requests, NEW k \in Runs, Inspect(q, k) \/ Cancel(q, k) PROVE Same \/ Taken
  <2>1. UNCHANGED row /\ \E s \in {"reading", "sleeping", "requesting"} : Load(q, k, s)
    BY <1>4 DEF Inspect, Cancel
  <2>2. q = p => run'[p] = k /\ rec'[p] = row[k]
    BY <1>1, <2>1 DEF Load, TypeOK
  <2>3. q # p => pc'[p] = pc[p] /\ run'[p] = run[p] /\ rec'[p] = rec[p]
    BY <1>1, <2>1 DEF Load, TypeOK
  <2>4. QED
    BY <2>1, <2>2, <2>3
<1>5. ASSUME NEW q \in Requests, Return(q) PROVE Same
  BY <1>1, <1>5 DEF Return, TypeOK, Serving
<1>6. ASSUME NEW q \in Requests, NEW s \in Steps, Goto(q, s), s \in Serving => pc[q] \in Serving
      PROVE  Same
  BY <1>1, <1>6 DEF Goto, TypeOK
<1>7. ASSUME NEW q \in Requests, MarkCancellationRequested(q) \/ Project(q) PROVE Same \/ Taken
  <2>1. CASE MarkCancellationRequested(q)
    BY <1>1, <2>1 DEF MarkCancellationRequested, TypeOK, Serving
  <2>2. CASE Project(q)
    <3>1. run[q] \in Runs
      BY <1>1, <2>2 DEF Project, RunInv, RequestOK
    <3>2. /\ row' = [row EXCEPT ![run[q]] = Written(q)] /\ rec' = [rec EXCEPT ![q] = Written(q)]
          /\ pc' = [pc EXCEPT ![q] = "deciding"] /\ run' = run /\ pc[q] = "projecting"
      BY <2>2 DEF Project, Written
    <3>3. QED
      BY <1>1, <3>1, <3>2 DEF TypeOK, Serving
  <2>3. QED
    BY <1>7, <2>1, <2>2
<1>8. ASSUME NEW q \in Requests, Read(q) PROVE Same
  BY <1>1, <1>8 DEF Read, TypeOK, Serving
<1>9. ASSUME UNCHANGED <<pc, run, rec>> PROVE Same
  BY <1>9
<1> HIDE DEF Same, Taken
<1>10. ASSUME NEW q \in Requests, Proceeds(q) PROVE Same \/ Taken
  <2>1. CASE RuntimeStart(q) \/ Attach(q)
    BY <1>5, <1>6, <2>1 DEF RuntimeStart, Attach, Serving, Steps
  <2>2. CASE MarkSubmissionFailed(q) \/ MarkSubmissionAmbiguous(q) \/ MarkCancelled(q)
    BY <1>5, <2>2 DEF MarkSubmissionFailed, MarkSubmissionAmbiguous, Conclude, MarkCancelled
  <2>3. CASE RuntimeCancel(q) \/ Wake(q) \/ Decide(q) \/ Reset(q)
    BY <1>5, <1>6, <2>3 DEF RuntimeCancel, Wake, Decide, Reset, Serving, Steps
  <2>4. QED
    BY <1>7, <1>8, <1>10, <2>1, <2>2, <2>3 DEF Proceeds
<1>11. ASSUME NEW q \in Requests, Fails(q) PROVE Same \/ Taken
  BY <1>5, <1>11 DEF Fails
<1>12. ASSUME NEW k \in Runs, GraceElapses(k) \/ Session(k) PROVE Same \/ Taken
  BY <1>9, <1>12 DEF GraceElapses, Session, requestVars
<1>13. ASSUME UNCHANGED vars PROVE Same \/ Taken
  BY <1>9, <1>13 DEF vars, requestVars
<1>14. Same \/ Taken
  BY <1>3, <1>4, <1>10, <1>11, <1>12, <1>13 DEF Next
<1>15. QED
  BY <1>2, <1>14 DEF Same, Taken

\* The session moves, is queued, is reset because of a recorded stop, or stays.
LEMMA SessionChanges ==
  ASSUME RunInv, [Next]_vars, NEW k \in Runs
  PROVE  \/ log'[k] = log[k] /\ waits'[k] = waits[k] /\ eve'[k] = eve[k]
         \/ Session(k)
         \/ /\ log'[k] = log[k] /\ waits'[k] = waits[k] /\ eve[k] = "none" /\ eve'[k] = "queued"
            /\ row' = row
         \/ /\ log'[k] = log[k] /\ waits'[k] = waits[k] /\ eve'[k] = "closed"
            /\ row' = row /\ row[k] # None /\ row[k].asked
<1> DEFINE Goal == \/ log'[k] = log[k] /\ waits'[k] = waits[k] /\ eve'[k] = eve[k]
                   \/ Session(k)
                   \/ /\ log'[k] = log[k] /\ waits'[k] = waits[k]
                      /\ eve[k] = "none" /\ eve'[k] = "queued" /\ row' = row
                   \/ /\ log'[k] = log[k] /\ waits'[k] = waits[k] /\ eve'[k] = "closed"
                      /\ row' = row /\ row[k] # None /\ row[k].asked
<1>1. TypeOK
  BY DEF RunInv
<1>2. ASSUME UNCHANGED <<eve, log, waits>> PROVE Goal
  BY <1>2
<1>3. ASSUME NEW p \in Requests, RuntimeStart(p) PROVE Goal
  <2>1. run[p] \in Runs /\ eve[run[p]] = "none"
    BY <1>3 DEF RuntimeStart, RunInv, RequestOK, RowOK
  <2>2. eve' \in {eve, [eve EXCEPT ![run[p]] = "queued"]} /\ UNCHANGED <<row, log, waits>>
    BY <1>3 DEF RuntimeStart
  <2>3. eve'[k] = eve[k] \/ (eve[k] = "none" /\ eve'[k] = "queued")
    BY <1>1, <2>1, <2>2 DEF TypeOK
  <2>4. QED
    BY <2>2, <2>3
<1>4. ASSUME NEW p \in Requests, Reset(p) PROVE Goal
  <2>1. run[p] \in Runs /\ row[run[p]] # None /\ row[run[p]].asked
    BY <1>4 DEF Reset, RunInv, RequestOK, Serving
  <2>2. eve'[k] = eve[k] \/ (run[p] = k /\ eve'[k] = "closed")
    BY <1>1, <1>4, <2>1 DEF Reset, TypeOK
  <2>3. QED
    BY <1>4, <2>1, <2>2 DEF Reset
<1>5. ASSUME NEW j \in Runs, Session(j) PROVE Goal
  <2>1. CASE j = k
    BY <1>5, <2>1
  <2>2. CASE j # k
    <3>1. /\ \E e \in Events : log' = [log EXCEPT ![j] = Append(@, e)]
          /\ \E x \in {"turn", "ended", "waiting", "closed"} : eve' = [eve EXCEPT ![j] = x]
          /\ \E w \in SUBSET {"input", "authorization"} : waits' = [waits EXCEPT ![j] = w]
      BY <1>5, SessionEffect
    <3>2. log'[k] = log[k] /\ waits'[k] = waits[k] /\ eve'[k] = eve[k]
      BY <1>1, <2>2, <3>1 DEF TypeOK
    <3>3. QED
      BY <3>2
  <2>3. QED
    BY <2>1, <2>2
<1> HIDE DEF Goal
<1>6. ASSUME NEW p \in Requests, Proceeds(p) PROVE Goal
  <2>1. CASE \/ Attach(p) \/ MarkSubmissionFailed(p) \/ MarkSubmissionAmbiguous(p)
             \/ MarkCancellationRequested(p) \/ RuntimeCancel(p) \/ MarkCancelled(p)
    BY <1>2, <2>1 DEF Attach, MarkSubmissionFailed, MarkSubmissionAmbiguous, Conclude,
       MarkCancellationRequested, RuntimeCancel, MarkCancelled, eveVars
  <2>2. CASE Wake(p) \/ Read(p) \/ Project(p) \/ Decide(p)
    BY <1>2, <2>2 DEF Wake, Read, Project, Decide, eveVars
  <2>3. QED
    BY <1>3, <1>4, <1>6, <2>1, <2>2 DEF Proceeds
<1>7. ASSUME NEW p \in Requests, NEW j \in Runs, Reserve(p, j) \/ Inspect(p, j) \/ Cancel(p, j)
      PROVE  Goal
  BY <1>2, <1>7 DEF Reserve, Inspect, Cancel, eveVars
<1>8. ASSUME NEW p \in Requests, Fails(p) PROVE Goal
  BY <1>2, <1>8 DEF Fails, eveVars
<1>9. ASSUME NEW j \in Runs, GraceElapses(j) PROVE Goal
  BY <1>2, <1>9 DEF GraceElapses, eveVars
<1>10. ASSUME UNCHANGED vars PROVE Goal
  BY <1>2, <1>10 DEF vars, eveVars
<1>11. Goal
  BY <1>5, <1>6, <1>7, <1>8, <1>9, <1>10 DEF Next
<1>12. QED
  BY <1>11 DEF Goal

\* A stream only grows at its end.
LEMMA StreamGrows ==
  ASSUME RunInv, [Next]_vars, NEW k \in Runs
  PROVE  /\ log[k] \in Seq(Events) /\ log'[k] \in Seq(Events)
         /\ Len(log[k]) \in Nat /\ Len(log'[k]) \in Nat /\ Len(log[k]) <= Len(log'[k])
         /\ \A i \in 1..Len(log[k]) : log'[k][i] = log[k][i]
<1>1. log[k] \in Seq(Events)
  BY DEF RunInv, TypeOK
<1>2. log'[k] = log[k] \/ \E e \in Events : log'[k] = Append(log[k], e)
  <2>1. Session(k) => \E e \in Events : log'[k] = Append(log[k], e)
    BY SessionEffect DEF RunInv, TypeOK
  <2>2. QED
    BY <2>1, SessionChanges
<1>3. CASE log'[k] = log[k]
  BY <1>1, <1>3
<1>4. ASSUME NEW e \in Events, log'[k] = Append(log[k], e)
      PROVE  /\ log'[k] \in Seq(Events) /\ Len(log'[k]) = Len(log[k]) + 1
             /\ \A i \in 1..Len(log[k]) : log'[k][i] = log[k][i]
  BY <1>1, <1>4
<1>5. QED
  BY <1>1, <1>2, <1>3, <1>4

-----------------------------------------------------------------------------
(* Usage.                                                                  *)

LEMMA StepsInNext ==
  ASSUME NEW s, NEW n \in Nat
  PROVE  /\ StepsIn(s, n) \in Nat
         /\ StepsIn(s, n + 1) = StepsIn(s, n) + IF s[n + 1] = "step.completed" THEN 1 ELSE 0
<1> DEFINE A == {i \in 1..n : s[i] = "step.completed"}
           B == {i \in 1..(n + 1) : s[i] = "step.completed"}
<1>1. IsFiniteSet(A)
  <2>1. IsFiniteSet(1..n) /\ A \subseteq 1..n
    BY FS_Interval
  <2>2. QED
    BY <2>1, FS_Subset
<1>2. Cardinality(A) \in Nat
  BY <1>1, FS_CardinalityType
<1>3. CASE s[n + 1] = "step.completed"
  <2>1. B = A \cup {n + 1} /\ n + 1 \notin A
    BY <1>3
  <2>2. Cardinality(B) = Cardinality(A) + 1
    BY <1>1, <2>1, FS_AddElement
  <2>3. QED
    BY <1>2, <1>3, <2>2 DEF StepsIn
<1>4. CASE s[n + 1] # "step.completed"
  <2>1. B = A
    BY <1>4
  <2>2. QED
    BY <1>2, <1>4, <2>1 DEF StepsIn
<1>5. QED
  BY <1>3, <1>4

LEMMA StepsInNone == ASSUME NEW s PROVE StepsIn(s, 0) = 0
<1>1. {i \in 1..0 : s[i] = "step.completed"} = {}
  OBVIOUS
<1>2. QED
  BY <1>1, FS_EmptySet DEF StepsIn

LEMMA StepsInSame ==
  ASSUME NEW s, NEW t, NEW n \in Nat, \A i \in 1..n : s[i] = t[i]
  PROVE  StepsIn(s, n) = StepsIn(t, n)
<1>1. {i \in 1..n : s[i] = "step.completed"} = {i \in 1..n : t[i] = "step.completed"}
  OBVIOUS
<1>2. QED
  BY <1>1 DEF StepsIn

LEMMA AfterEventCounts ==
  ASSUME NEW a \in Account, NEW e \in Events
  PROVE  AfterEvent(a, e).steps = a.steps + IF e = "step.completed" THEN 1 ELSE 0
<1>1. a.steps \in Nat
  BY DEF Account
<1>2. CASE e \in {"turn.started", "message.received"}
  BY <1>1, <1>2 DEF Account, AfterEvent
<1>3. CASE e \in {"input.requested", "authorization.required", "authorization.completed"}
  BY <1>1, <1>3 DEF Account, AfterEvent
<1>4. CASE e \in {"result.completed", "message.completed", "step.completed"}
  BY <1>1, <1>4 DEF Account, AfterEvent
<1>5. CASE e \in {"turn.cancelled", "turn.failed", "session.failed"}
  BY <1>1, <1>5 DEF Account, AfterEvent
<1>6. CASE e \in {"session.completed", "session.waiting"}
  BY <1>1, <1>6 DEF Account, AfterEvent
<1>7. QED
  BY <1>2, <1>3, <1>4, <1>5, <1>6 DEF Events

\* A page adds the steps it has, wherever it was cut from the stream.
LEMMA LoopCounts ==
  ASSUME NEW a \in Account, NEW s, NEW c \in Nat, a.steps = StepsIn(s, c),
         NEW page \in Seq(Events), \A i \in 1..Len(page) : page[i] = s[c + i]
  PROVE  Loop(a, page)[Len(page)].steps = StepsIn(s, c + Len(page))
<1> DEFINE L(n) == Loop(a, page)[n]
           T == {n \in 0..Len(page) : L(n) \in Account /\ L(n).steps = StepsIn(s, c + n)}
<1>1. Len(page) \in Nat /\ \A i \in 1..Len(page) : page[i] \in Events
  OBVIOUS
<1>2. L(0) = a /\ \A n \in 0..Len(page) : n < Len(page) => L(n + 1) = AfterEvent(L(n), page[n + 1])
  BY <1>1, LoopSteps
<1> HIDE DEF L
<1>3. 0 \in T
  BY <1>1, <1>2
<1>4. ASSUME NEW n \in 0..Len(page), n \in T, n < Len(page) PROVE n + 1 \in T
  <2>1. /\ L(n) \in Account /\ L(n).steps = StepsIn(s, c + n) /\ page[n + 1] \in Events
        /\ page[n + 1] = s[c + n + 1] /\ L(n + 1) = AfterEvent(L(n), page[n + 1])
        /\ n + 1 \in 0..Len(page) /\ c + n \in Nat /\ c + (n + 1) = (c + n) + 1
    BY <1>1, <1>2, <1>4
  <2>2. L(n + 1) \in Account
    BY <2>1, AfterEventType
  <2>3. L(n + 1).steps = StepsIn(s, c + n) + IF page[n + 1] = "step.completed" THEN 1 ELSE 0
    BY <2>1, AfterEventCounts
  <2>4. PICK m \in Nat : m = c + n
    BY <2>1
  <2>5. StepsIn(s, m + 1) = StepsIn(s, m) + IF s[m + 1] = "step.completed" THEN 1 ELSE 0
    BY StepsInNext
  <2>6. c + (n + 1) = m + 1 /\ s[m + 1] = page[n + 1]
    BY <2>1, <2>4
  <2>7. L(n + 1).steps = StepsIn(s, c + (n + 1))
    BY <2>3, <2>4, <2>5, <2>6
  <2>8. QED
    BY <2>1, <2>2, <2>7
<1> HIDE DEF T
<1>5. \A n \in 0..Len(page) : n \in T
  BY <1>1, <1>3, <1>4, Induction
<1>6. Len(page) \in T
  BY <1>1, <1>5
<1>7. QED
  BY <1>6 DEF T, L

\* The steps of what a synchronization writes are the steps of the events it counts.
LEMMA WrittenCounts ==
  ASSUME RunInv, UsageInv, NEW p \in Requests, pc[p] = "projecting"
  PROVE  Written(p).steps = StepsIn(log[run[p]], Written(p).count)
<1> DEFINE k == run[p]
           c == rec[p].count
           page == SubSeq(log[k], c + 1, upto[p])
           j == Projection(rec[p], page)
<1>1. /\ k \in Runs /\ row[k] \in Record /\ row[k] # None /\ rec[p] \in Record
      /\ rec[p].status # "submission-ambiguous"
      /\ row[k].steps = StepsIn(log[k], row[k].count) /\ rec[p].steps = StepsIn(log[k], c)
  BY DEF RunInv, RequestOK, TypeOK, Serving, UsageInv
<1>2. /\ page \in Seq(Events) /\ Len(page) \in Nat /\ c + Len(page) = upto[p]
      /\ \A i \in 1..Len(page) : page[i] = log[k][c + i]
  BY PageRead
<1>3. c \in Nat /\ Begin(rec[p]) \in Account /\ Begin(rec[p]).steps = rec[p].steps
  BY <1>1 DEF Record, Begin, Account, Statuses, Final
<1> HIDE DEF page
<1>4. Loop(Begin(rec[p]), page)[Len(page)].steps = StepsIn(log[k], c + Len(page))
  <2> DEFINE a == Begin(rec[p])
             s == log[k]
  <2>1. /\ a \in Account /\ a.steps = StepsIn(s, c) /\ c \in Nat /\ page \in Seq(Events)
        /\ \A i \in 1..Len(page) : page[i] = s[c + i]
    BY <1>1, <1>2, <1>3
  <2> HIDE DEF a, s, c
  <2>2. Loop(a, page)[Len(page)].steps = StepsIn(s, c + Len(page))
    BY ONLY <2>1, LoopCounts
  <2>3. QED
    BY <2>2 DEF a, s, c
<1>5. j.steps = StepsIn(log[k], upto[p]) /\ j.count = upto[p]
  BY <1>2, <1>4 DEF Projection
<1> HIDE DEF j
<1>6. Written(p) = Updated(row[k], j)
  BY DEF Written, j, page
<1>7. CASE row[k].count > j.count
  BY <1>1, <1>6, <1>7 DEF Updated
<1>8. CASE ~(row[k].count > j.count)
  <2>1. Updated(row[k], j).steps = j.steps /\ Updated(row[k], j).count = j.count
    BY <1>1, <1>8 DEF Updated, Record
  <2>2. QED
    BY <1>5, <1>6, <2>1
<1>9. QED
  BY <1>7, <1>8

LEMMA UsageKept == RunInv /\ UsageInv /\ [Next]_vars => UsageInv'
<1> SUFFICES ASSUME RunInv, UsageInv, [Next]_vars PROVE UsageInv'
  OBVIOUS
<1>1. RunInv'
  BY NextKeeps
<1>2. ASSUME NEW k \in Runs, NEW n \in Nat, n <= Len(log[k])
      PROVE  StepsIn(log'[k], n) = StepsIn(log[k], n)
  <2>1. \A i \in 1..n : log'[k][i] = log[k][i]
    BY <1>2, StreamGrows
  <2>2. QED
    BY <2>1, StepsInSame
<1>3. ASSUME NEW k \in Runs, row'[k] # None PROVE row'[k].steps = StepsIn(log'[k], row'[k].count)
  <2>1. row[k] # None => /\ row[k] \in Record /\ row[k].count \in Nat /\ row[k].count <= Len(log[k])
                         /\ row[k].steps = StepsIn(log'[k], row[k].count)
    BY <1>2 DEF RunInv, TypeOK, RowOK, Record, UsageInv
  <2>2. CASE row[k] # None /\ row'[k].steps = row[k].steps /\ row'[k].count = row[k].count
    BY <2>1, <2>2
  <2>3. CASE row'[k] = Fresh
    BY <2>3, StepsInNone DEF Fresh
  <2>4. CASE \E p \in Requests : pc[p] = "projecting" /\ run[p] = k /\ row'[k] = Written(p)
    <3>1. PICK p \in Requests : pc[p] = "projecting" /\ run[p] = k /\ row'[k] = Written(p)
      BY <2>4
    <3>2. row'[k].steps = StepsIn(log[k], row'[k].count)
      BY <3>1, WrittenCounts
    <3>3. row'[k].count <= Len(log[k]) /\ row'[k].count \in Nat
      BY <3>1, ProjectedIsTyped DEF Written, Record
    <3>4. QED
      BY <1>2, <3>2, <3>3
  <2>5. row[k] # None /\ row[k].status = "submitting" => row[k] \in Record
    BY <2>1
  <2>6. QED
    <3>1. CASE row'[k] = row[k]
      BY <1>3, <2>2, <3>1
    <3>2. CASE row[k] # None /\ row'[k] = [row[k] EXCEPT !.asked = TRUE]
      BY <2>1, <2>2, <3>2 DEF Record
    <3>3. CASE row[k] # None /\ row'[k] = [row[k] EXCEPT !.status = "cancelled", !.result = "none",
                                                        !.failure = FALSE]
      BY <2>1, <2>2, <3>3 DEF Record
    <3>4. CASE row[k] # None /\ row'[k] = [row[k] EXCEPT !.attached = TRUE, !.status = "running"]
      BY <2>1, <2>2, <3>4 DEF Record
    <3>5. CASE row[k] # None /\ \E s \in {"failed", "submission-ambiguous"} :
                 row'[k] = [row[k] EXCEPT !.status = s, !.failure = TRUE]
      BY <2>1, <2>2, <3>5 DEF Record
    <3>6. QED
      BY <2>3, <2>4, <3>1, <3>2, <3>3, <3>4, <3>5, RowChanges
<1>4. ASSUME NEW p \in Requests, pc'[p] \in Serving
      PROVE  rec'[p].steps = StepsIn(log'[run'[p]], rec'[p].count)
  <2>1. CASE rec'[p] = row'[run'[p]]
    BY <1>3, <1>4, <2>1, CopyChanges
  <2>2. CASE pc[p] \in Serving /\ run'[p] = run[p] /\ rec'[p] = rec[p]
    <3>1. run[p] \in Runs /\ rec[p].count \in Nat /\ rec[p].count <= Len(log[run[p]])
      BY <2>2 DEF RunInv, RequestOK, Serving, Record
    <3>2. QED
      BY <1>2, <2>2, <3>1 DEF UsageInv
  <2>3. QED
    BY <1>4, <2>1, <2>2, CopyChanges
<1>5. QED
  BY <1>3, <1>4 DEF UsageInv

\* Usage is never counted twice or lost, however synchronizations overlap.
THEOREM UsageIsCountedOnce == Spec => []UsageInv
<1>1. Init => UsageInv
  BY DEF Init, UsageInv, Serving
<1>2. QED
  BY <1>1, UsageKept, RunInvariant, PTL DEF Spec

-----------------------------------------------------------------------------
(* The stream and its account.                                             *)

\* An event at the end changes no account before it.
LEMMA LoopAppend ==
  ASSUME NEW a, NEW s \in Seq(Events), NEW e \in Events
  PROVE  /\ \A n \in 0..Len(s) : Loop(a, Append(s, e))[n] = Loop(a, s)[n]
         /\ Loop(a, Append(s, e))[Len(s) + 1] = AfterEvent(Loop(a, s)[Len(s)], e)
<1> DEFINE t == Append(s, e)
           T == {n \in 0..Len(s) : Loop(a, t)[n] = Loop(a, s)[n]}
<1>1. /\ Len(s) \in Nat /\ Len(t) \in Nat /\ Len(t) = Len(s) + 1 /\ t[Len(s) + 1] = e
      /\ \A i \in 1..Len(s) : t[i] = s[i]
  OBVIOUS
<1> HIDE DEF t
<1>2. /\ Loop(a, t)[0] = a /\ Loop(a, s)[0] = a
      /\ \A n \in 0..Len(t) : n < Len(t) => Loop(a, t)[n + 1] = AfterEvent(Loop(a, t)[n], t[n + 1])
      /\ \A n \in 0..Len(s) : n < Len(s) => Loop(a, s)[n + 1] = AfterEvent(Loop(a, s)[n], s[n + 1])
  BY <1>1, LoopSteps
<1>3. 0 \in T
  BY <1>1, <1>2
<1>4. ASSUME NEW n \in 0..Len(s), n \in T, n < Len(s) PROVE n + 1 \in T
  <2>1. n \in 0..Len(t) /\ n < Len(t) /\ n + 1 \in 1..Len(s) /\ n + 1 \in 0..Len(s)
    BY <1>1, <1>4
  <2>2. QED
    BY <1>1, <1>2, <1>4, <2>1
<1> HIDE DEF T
<1>5. \A n \in 0..Len(s) : n \in T
  BY <1>1, <1>3, <1>4, Induction
<1>6. Loop(a, t)[Len(s)] = Loop(a, s)[Len(s)]
  BY <1>1, <1>5 DEF T
<1>7. Len(s) \in 0..Len(t) /\ Len(s) < Len(t)
  BY <1>1
<1>8. Loop(a, t)[Len(s) + 1] = AfterEvent(Loop(a, s)[Len(s)], e)
  BY <1>1, <1>2, <1>6, <1>7
<1>9. QED
  BY <1>5, <1>8 DEF T, t

\* A page, projected from the account of what precedes it, ends in the account of the stream.
LEMMA LoopResumes ==
  ASSUME NEW a, NEW s \in Seq(Events), NEW c \in Nat, NEW page \in Seq(Events),
         c + Len(page) <= Len(s), \A i \in 1..Len(page) : page[i] = s[c + i]
  PROVE  Loop(Loop(a, s)[c], page)[Len(page)] = Loop(a, s)[c + Len(page)]
<1> DEFINE b == Loop(a, s)[c]
           T == {n \in 0..Len(page) : Loop(b, page)[n] = Loop(a, s)[c + n]}
<1>1. Len(s) \in Nat /\ Len(page) \in Nat
  OBVIOUS
<1>2. /\ Loop(b, page)[0] = b
      /\ \A n \in 0..Len(page) : n < Len(page) =>
           Loop(b, page)[n + 1] = AfterEvent(Loop(b, page)[n], page[n + 1])
      /\ \A n \in 0..Len(s) : n < Len(s) => Loop(a, s)[n + 1] = AfterEvent(Loop(a, s)[n], s[n + 1])
  BY <1>1, LoopSteps
<1>3. 0 \in T
  <2>1. c + 0 = c /\ 0 \in 0..Len(page)
    BY <1>1
  <2>2. QED
    BY <1>2, <2>1
<1> HIDE DEF b
<1>4. ASSUME NEW n \in 0..Len(page), n \in T, n < Len(page) PROVE n + 1 \in T
  <2>1. PICK m \in Nat : m = c + n
    OBVIOUS
  <2>2. m \in 0..Len(s) /\ m < Len(s) /\ m + 1 = c + (n + 1) /\ n + 1 \in 1..Len(page)
        /\ n + 1 \in 0..Len(page)
    BY <1>1, <1>4, <2>1
  <2>3. page[n + 1] = s[m + 1]
    BY <2>2
  <2>4. Loop(a, s)[m + 1] = AfterEvent(Loop(a, s)[m], s[m + 1])
    BY <1>2, <2>2
  <2>5. Loop(b, page)[n + 1] = AfterEvent(Loop(a, s)[m], page[n + 1])
    BY <1>2, <1>4, <2>1
  <2>6. QED
    BY <2>2, <2>3, <2>4, <2>5
<1> HIDE DEF T
<1>5. \A n \in 0..Len(page) : n \in T
  BY <1>1, <1>3, <1>4, Induction
<1>6. Len(page) \in T
  BY <1>1, <1>5
<1>7. QED
  BY <1>6 DEF T, b

LEMMA WholeIs ==
  \A k : Whole(k) = Loop(Start, log[k]) /\ Whole(k)' = Loop(Start, log'[k])
<1>1. Begin([status |-> "running", result |-> "none", failure |-> FALSE, steps |-> 0]) = Start
  BY DEF Begin, Start
<1>2. QED
  BY <1>1 DEF Whole

LEMMA StartIsSteady == Start \in Steady /\ Start.status \notin Over
BY DEF Start, Steady, Submitted, Account, Statuses, Final, Results, Over

\* The account after another event of the session.
LEMMA SessionTracks ==
  ASSUME RunInv, ~BothWaits, NEW k \in Runs, Session(k), ~stopping[k], NEW a \in Steady,
         Tracks(a, eve[k], waits[k]), NEW e \in Events, log'[k] = Append(log[k], e)
  PROVE  /\ AfterEvent(a, e) \in Steady
         /\ Tracks(AfterEvent(a, e), eve'[k], waits'[k])
         /\ a.status \in Over => AfterEvent(a, e).status = a.status
<1> DEFINE b == AfterEvent(a, e)
           Goal == /\ b \in Steady /\ Tracks(b, eve'[k], waits'[k])
                   /\ a.status \in Over => b.status = a.status
<1>1. /\ a \in Submitted /\ a \in Account /\ ~a.cancelled /\ a.status # "cancelled"
      /\ a.status = "failed" => a.failure
      /\ a.status \notin Over => /\ (a.input <=> a.status = "waiting-input")
                                 /\ (a.authorization <=> a.status = "waiting-authorization")
                                 /\ ~a.failure
  BY DEF Steady, Submitted
<1>2. b \in Submitted /\ b \in Account
  BY <1>1, AfterEventSubmitted DEF Submitted
<1>3. log[k] \in Seq(Events) /\ k \in DOMAIN log /\ k \in DOMAIN eve /\ k \in DOMAIN waits
      /\ waits[k] \in SUBSET {"input", "authorization"}
  BY DEF RunInv, TypeOK
<1>4. \A x, y : (log' = [log EXCEPT ![k] = Append(log[k], x)]) => x = e
  <2>1. ASSUME NEW x, log' = [log EXCEPT ![k] = Append(log[k], x)] PROVE x = e
    <3>1. Append(log[k], x) = Append(log[k], e)
      BY <1>3, <2>1
    <3>2. Append(log[k], x)[Len(log[k]) + 1] = x /\ Append(log[k], e)[Len(log[k]) + 1] = e
      BY <1>3
    <3>3. QED
      BY <3>1, <3>2
  <2>2. QED
    BY <2>1
<1>5. /\ a.input \in BOOLEAN /\ a.authorization \in BOOLEAN /\ a.failure \in BOOLEAN
      /\ a.status \in Statuses \ {"submitting", "submission-ambiguous", "cancelled"}
  BY <1>1 DEF Account, Submitted
<1>6. ASSUME TurnStarts(k) PROVE Goal
  <2>1. e = "turn.started" /\ a = Start /\ eve'[k] = "turn" /\ waits'[k] = {}
    BY <1>3, <1>4, <1>6 DEF TurnStarts, Emit, Tracks
  <2>2. b = Start
    BY <2>1 DEF AfterEvent, Start
  <2>3. Tracks(Start, "turn", {})
    BY DEF Tracks, Start, Over
  <2>4. QED
    BY <2>1, <2>2, <2>3, StartIsSteady
<1>7. ASSUME Works(k) PROVE Goal
  <2>1. /\ e \in {"step.completed", "message.completed", "result.completed"}
        /\ eve[k] = "turn" /\ eve'[k] = "turn" /\ waits'[k] = waits[k]
    BY <1>3, <1>4, <1>7 DEF Works, Emit
  <2>2. /\ b.status = a.status /\ b.failure = a.failure /\ b.cancelled = a.cancelled
        /\ b.input = a.input /\ b.authorization = a.authorization
    BY <1>1, <2>1 DEF AfterEvent, Account
  <2>3. QED
    BY <1>1, <1>2, <2>1, <2>2 DEF Steady, Tracks, Over
<1>8. ASSUME NEW w \in {"input", "authorization"}, Asks(k, w) PROVE Goal
  <2>1. /\ e = IF w = "input" THEN "input.requested" ELSE "authorization.required"
        /\ eve[k] = "turn" /\ eve'[k] = "turn" /\ waits[k] = {} /\ waits'[k] = {w}
        /\ a.status \notin Over
    BY <1>3, <1>4, <1>8 DEF Asks, Emit, Tracks
  <2>2. ~a.input /\ ~a.authorization /\ ~a.failure
    BY <1>1, <1>5, <2>1 DEF Tracks
  <2>3. /\ b.status = IF w = "input" THEN "waiting-input" ELSE "waiting-authorization"
        /\ b.failure = a.failure /\ b.cancelled = a.cancelled
        /\ b.input = (w = "input") /\ b.authorization = (w = "authorization")
    BY <1>1, <2>1, <2>2 DEF AfterEvent, Account
  <2>4. QED
    BY <1>1, <1>2, <2>1, <2>2, <2>3 DEF Steady, Tracks, Over
<1>9. ASSUME Authorized(k) \/ Replied(k) PROVE Goal
  <2>1. /\ eve[k] \in {"turn", "waiting"} /\ waits[k] # {} /\ eve'[k] = "turn"
        /\ \/ /\ e = "authorization.completed" /\ "authorization" \in waits[k]
              /\ waits'[k] = waits[k] \ {"authorization"}
           \/ e = "message.received" /\ waits'[k] = {}
    BY <1>3, <1>4, <1>9 DEF Authorized, Replied, Emit
  <2>2. a.status \notin Over
    BY <2>1 DEF Tracks
  <2>3. ~(a.input /\ a.authorization)
    BY <1>1, <2>2
  <2>4. waits'[k] = {} /\ (e = "authorization.completed" => ~a.input)
    BY <1>3, <1>5, <2>1, <2>2, <2>3 DEF Tracks
  <2>5. /\ b.status = "running" /\ b.failure = a.failure /\ b.cancelled = a.cancelled
        /\ ~b.input /\ ~b.authorization
    BY <1>1, <2>1, <2>2, <2>4 DEF AfterEvent, Account
  <2>6. b \in Steady
    BY <1>1, <1>2, <2>2, <2>5 DEF Steady, Over
  <2>7. Tracks(b, "turn", {})
    BY <2>5 DEF Tracks, Over
  <2>8. QED
    BY <2>1, <2>2, <2>4, <2>6, <2>7
<1>10. ASSUME SessionWaits(k) PROVE Goal
  <2>1. /\ e = "session.waiting" /\ eve[k] \in {"turn", "ended"} /\ eve'[k] = "waiting"
        /\ waits'[k] = IF eve[k] = "ended" THEN {} ELSE waits[k]
    BY <1>3, <1>4, <1>10 DEF SessionWaits, Emit
  <2>2. /\ b.failure = a.failure /\ b.cancelled = a.cancelled
        /\ b.input = a.input /\ b.authorization = a.authorization
        /\ b.status = IF a.failure THEN "failed"
                      ELSE IF a.input THEN "waiting-input"
                      ELSE IF a.authorization THEN "waiting-authorization"
                      ELSE "completed"
    BY <1>1, <2>1 DEF AfterEvent, Account
  <2>3. CASE eve[k] = "ended"
    <3>1. a.status = "failed" /\ a.failure /\ b.status = "failed" /\ b.failure
      BY <1>1, <2>2, <2>3 DEF Tracks
    <3>2. QED
      BY <1>1, <1>2, <2>1, <2>2, <2>3, <3>1 DEF Steady, Tracks, Over
  <2>4. CASE eve[k] = "turn"
    <3>1. /\ a.status \notin Over /\ ~a.failure /\ (a.input <=> "input" \in waits[k])
          /\ (a.authorization <=> "authorization" \in waits[k]) /\ ~(a.input /\ a.authorization)
      BY <1>1, <2>4 DEF Tracks
    <3>2. b.status = "completed" <=> waits[k] = {}
      BY <1>3, <2>2, <3>1
    <3>3. QED
      BY <1>1, <1>2, <2>1, <2>2, <2>4, <3>1, <3>2 DEF Steady, Tracks, Over
  <2>5. QED
    BY <2>1, <2>3, <2>4
<1>11. ASSUME SessionCompletes(k) PROVE Goal
  <2>1. /\ e = "session.completed" /\ eve[k] = "turn" /\ eve'[k] = "closed"
        /\ waits[k] = {} /\ waits'[k] = {} /\ a.status \notin Over /\ ~a.failure
    BY <1>1, <1>3, <1>4, <1>11 DEF SessionCompletes, Emit, Tracks
  <2>2. b.status = "completed" /\ b.cancelled = a.cancelled
    BY <1>1, <2>1 DEF AfterEvent, Account
  <2>3. QED
    BY <1>1, <1>2, <2>1, <2>2 DEF Steady, Tracks, Over
<1>12. ASSUME TurnBreaks(k) \/ SessionFails(k) PROVE Goal
  <2>1. /\ e \in {"turn.failed", "session.failed"} /\ eve'[k] \in {"ended", "closed"}
        /\ eve[k] \in {"turn", "ended"} \/ (eve[k] = "waiting" /\ waits[k] # {})
    BY <1>3, <1>4, <1>12 DEF TurnBreaks, SessionFails, Emit
  <2>2. a.status \in Over => a.status = "failed"
    BY <2>1 DEF Tracks, Over
  <2>3. b.status = "failed" /\ b.failure /\ b.cancelled = a.cancelled
    BY <1>1, <2>1 DEF AfterEvent, Account
  <2>4. QED
    BY <1>1, <1>2, <2>1, <2>2, <2>3 DEF Steady, Tracks, Over
<1> HIDE DEF Goal
<1>13. Goal
  BY <1>6, <1>7, <1>8, <1>9, <1>10, <1>11, <1>12 DEF Session
<1>14. QED
  BY <1>13 DEF Goal

-----------------------------------------------------------------------------
(* The row is what the loop makes of the stream.                           *)

\* The account of the stream stays what it was and goes on as the session does.
LEMMA StreamKept ==
  ASSUME RunInv, ~BothWaits, [Next]_vars, NEW k \in Runs, Plain(k), StreamOK(k)
  PROVE  /\ \A n \in 0..Len(log[k]) : Whole(k)'[n] = Whole(k)[n]
         /\ \A n \in 0..Len(log'[k]) : Whole(k)'[n] \in Steady
         /\ \A m, n \in 0..Len(log'[k]) : (m <= n /\ Whole(k)'[m].status \in Over) =>
              Whole(k)'[n].status = Whole(k)'[m].status
         /\ Tracks(Whole(k)'[Len(log'[k])], eve'[k], waits'[k])
<1> DEFINE V == Whole(k)
           W == Loop(Start, log'[k])
           N == Len(log[k])
<1>1. Whole(k)' = W /\ V = Loop(Start, log[k])
  BY WholeIs
<1>2. log[k] \in Seq(Events) /\ N \in Nat
  BY DEF RunInv, TypeOK
<1>3. /\ \A n \in 0..N : V[n] \in Steady
      /\ \A m, n \in 0..N : (m <= n /\ V[m].status \in Over) => V[n].status = V[m].status
      /\ Tracks(V[N], eve[k], waits[k])
  BY DEF StreamOK
<1>4. row[k] # None /\ ~row[k].asked /\ ~stopping[k]
  BY DEF Plain, RunInv, RowOK
<1>5. CASE log'[k] = log[k] /\ ~Session(k)
  <2>1. W = V
    BY <1>1, <1>5
  <2>2. Tracks(V[N], eve'[k], waits'[k])
    <3>1. waits'[k] = waits[k] /\ (eve'[k] = eve[k] \/ (eve[k] = "none" /\ eve'[k] = "queued"))
      BY <1>4, <1>5, SessionChanges
    <3>2. eve[k] = "none" => V[N] = Start /\ waits[k] = {}
      BY <1>3 DEF Tracks
    <3>3. Tracks(Start, "queued", {})
      BY DEF Tracks, Start, Over
    <3>4. QED
      BY <1>3, <3>1, <3>2, <3>3
  <2> HIDE DEF W
  <2>3. QED
    BY <1>1, <1>3, <1>5, <2>1, <2>2
<1>6. CASE Session(k)
  <2>0. PICK e \in Events : log' = [log EXCEPT ![k] = Append(@, e)]
    BY <1>6, SessionEffect
  <2>1. log'[k] = Append(log[k], e)
    BY <2>0 DEF RunInv, TypeOK
  <2>2. Len(log'[k]) = N + 1
    BY <1>2, <2>1
  <2>3. (\A n \in 0..N : W[n] = V[n]) /\ W[N + 1] = AfterEvent(V[N], e)
    BY <1>1, <1>2, <2>1, LoopAppend
  <2>4. V[N] \in Steady
    BY <1>2, <1>3
  <2>5. /\ W[N + 1] \in Steady /\ Tracks(W[N + 1], eve'[k], waits'[k])
        /\ V[N].status \in Over => W[N + 1].status = V[N].status
    BY <1>3, <1>4, <1>6, <2>1, <2>3, <2>4, SessionTracks
  <2> HIDE DEF V, W, N
  <2>6. \A n \in 0..(N + 1) : W[n] \in Steady
    <3>1. \A n \in 0..(N + 1) : n \in 0..N \/ n = N + 1
      BY <1>2
    <3>2. QED
      BY <1>3, <2>3, <2>5, <3>1
  <2>7. ASSUME NEW m \in 0..(N + 1), NEW n \in 0..(N + 1), m <= n, W[m].status \in Over
        PROVE  W[n].status = W[m].status
    <3>1. CASE n \in 0..N
      <4>1. m \in 0..N
        BY <1>2, <2>7, <3>1
      <4>2. QED
        BY <1>3, <2>3, <2>7, <3>1, <4>1
    <3>2. CASE n = N + 1 /\ m \in 0..N
      <4>1. N \in 0..N /\ m <= N
        BY <1>2, <3>2
      <4>2. V[N].status = V[m].status
        BY <1>3, <2>3, <2>7, <3>2, <4>1
      <4>3. QED
        BY <2>3, <2>5, <2>7, <3>2, <4>2
    <3>3. CASE n = N + 1 /\ m = N + 1
      BY <3>3
    <3>4. QED
      BY <1>2, <3>1, <3>2, <3>3
  <2>8. QED
    BY <1>1, <2>2, <2>3, <2>5, <2>6, <2>7 DEF N, V
<1>7. QED
  BY <1>4, <1>5, <1>6, SessionChanges

\* A record with what account w says is resumed from w.
LEMMA BeginTold ==
  ASSUME NEW w \in Steady, NEW r \in Record, r.status = w.status, r.result = w.result,
         r.failure = w.failure, r.steps = w.steps
  PROVE  Told(r, w)
<1>1. /\ w \in Account /\ ~w.cancelled /\ w.status \notin {"submitting", "submission-ambiguous", "cancelled"}
      /\ w.status \notin Over => /\ w.input <=> w.status = "waiting-input"
                                 /\ w.authorization <=> w.status = "waiting-authorization"
  BY DEF Steady, Submitted
<1>2. ASSUME ~Terminal(r) PROVE Begin(r) = w
  <2>1. w.status \notin Over /\ r.status # "submitting" /\ r.status # "cancelled"
    BY <1>1, <1>2 DEF Terminal, Final, Over
  <2>2. Begin(r) = [status |-> w.status, result |-> w.result, failure |-> w.failure, steps |-> w.steps,
                    cancelled |-> FALSE, input |-> w.status = "waiting-input",
                    authorization |-> w.status = "waiting-authorization"]
    BY <2>1 DEF Begin
  <2>3. w.cancelled = FALSE /\ w.input = (w.status = "waiting-input")
        /\ w.authorization = (w.status = "waiting-authorization")
    BY <1>1, <2>1 DEF Account
  <2>4. w = [status |-> w.status, result |-> w.result, failure |-> w.failure, steps |-> w.steps,
             cancelled |-> w.cancelled, input |-> w.input, authorization |-> w.authorization]
    BY <1>1 DEF Account
  <2>5. QED
    BY <2>2, <2>3, <2>4
<1>3. QED
  BY <1>2 DEF Told

\* What a synchronization writes is what the loop makes of the events it counts.
LEMMA WrittenIsTold ==
  ASSUME RunInv, NEW k \in Runs, Plain(k), StreamOK(k),
         NEW p \in Requests, pc[p] = "projecting", run[p] = k
  PROVE  Told(Written(p), Whole(k)[Written(p).count])
<1> DEFINE W == Whole(k)
           c == rec[p].count
           u == upto[p]
           r == row[k]
           page == SubSeq(log[k], c + 1, u)
           j == Projection(rec[p], page)
<1>1. /\ r \in Record /\ r.attached /\ ~r.asked /\ Told(r, W[r.count]) /\ rec[p] \in Record
      /\ ~Terminal(rec[p]) /\ Told(rec[p], W[c]) /\ r.count \in 0..Len(log[k])
  BY DEF RunInv, TypeOK, RequestOK, RowOK, Serving, Record, Plain, StreamOK
<1>2. c \in Nat /\ u \in 0..Len(log[k]) /\ log[k] \in Seq(Events) /\ Len(log[k]) \in Nat
  BY <1>1 DEF RunInv, TypeOK, RequestOK, Record
<1>3. /\ page \in Seq(Events) /\ Len(page) \in Nat /\ c + Len(page) = u
      /\ \A i \in 1..Len(page) : page[i] = log[k][c + i]
  BY PageRead
<1> HIDE DEF page, c, u
<1>4. Begin(rec[p]) = W[c] /\ W = Loop(Start, log[k])
  BY <1>1, WholeIs DEF Told
<1>5. Loop(Begin(rec[p]), page)[Len(page)] = W[u]
  <2>1. c + Len(page) <= Len(log[k])
    BY <1>2, <1>3
  <2>2. Loop(Loop(Start, log[k])[c], page)[Len(page)] = Loop(Start, log[k])[c + Len(page)]
    <3>1. PICK s \in Seq(Events) : s = log[k]
      BY <1>2
    <3>2. c \in Nat /\ page \in Seq(Events) /\ c + Len(page) <= Len(s)
          /\ \A i \in 1..Len(page) : page[i] = s[c + i]
      BY <1>2, <1>3, <2>1, <3>1
    <3>3. Loop(Loop(Start, s)[c], page)[Len(page)] = Loop(Start, s)[c + Len(page)]
      BY <3>2, LoopResumes
    <3>4. QED
      BY <3>1, <3>3
  <2>3. QED
    BY <1>3, <1>4, <2>2
<1>6. /\ j.count = u /\ j.status = W[u].status /\ j.steps = W[u].steps /\ j.result = W[u].result
      /\ j.failure = W[u].failure
  BY <1>3, <1>5 DEF Projection, c
<1>7. Written(p) = Updated(r, j)
  BY DEF Written, j, page, c, u
<1>8. /\ W[u] \in Steady
      /\ \A m \in 0..Len(log[k]) : (m <= u /\ W[m].status \in Over) => W[u].status = W[m].status
      /\ W[r.count] \in Steady
  BY <1>1, <1>2 DEF StreamOK
<1> HIDE DEF W, c, u, r, j
<1>9. CASE r.count > j.count
  BY <1>1, <1>7, <1>9 DEF Updated, W
<1>10. CASE ~(r.count > j.count)
  <2>1. Terminal(r) => W[u].status = r.status
    <3>1. ASSUME Terminal(r) PROVE W[r.count].status \in Over
      BY <1>1, <1>8, <3>1 DEF Told, Steady, Submitted, Terminal, Final, Over
    <3>2. r.count <= u
      BY <1>1, <1>2, <1>6, <1>10
    <3>3. QED
      BY <1>1, <1>8, <3>1, <3>2 DEF Told
  <2>2. j.status # "cancelled" /\ j.status \in Statuses /\ j.result \in Results /\ j.failure \in BOOLEAN
        /\ j.steps \in Nat /\ j.count \in Nat
    BY <1>2, <1>6, <1>8 DEF Steady, Submitted, Account
  <2>3. Updated(r, j) = [r EXCEPT !.status = j.status, !.count = j.count, !.steps = j.steps,
                                  !.result = j.result, !.failure = j.failure]
    BY <1>1, <1>6, <1>10, <2>1, <2>2 DEF Updated
  <2>4. r \in Record
    BY <1>1
  <2>5. /\ Updated(r, j).status = j.status /\ Updated(r, j).count = j.count
        /\ Updated(r, j).steps = j.steps /\ Updated(r, j).result = j.result
        /\ Updated(r, j).failure = j.failure
    BY <2>3, <2>4 DEF Record
  <2>6. Updated(r, j) \in Record
    BY <2>2, <2>3, <2>4 DEF Record
  <2>7. Told(Updated(r, j), W[u])
    BY <1>6, <1>8, <2>5, <2>6, BeginTold
  <2>8. QED
    BY <1>6, <1>7, <2>5, <2>7 DEF W
<1>11. QED
  BY <1>9, <1>10

\* The row after a step of a run that nobody asked to stop.
LEMMA RowIsTold ==
  ASSUME RunInv, ~BothWaits, [Next]_vars, NEW k \in Runs, Plain(k), StreamOK(k), Plain(k)',
         row'[k].attached
  PROVE  Told(row'[k], Whole(k)'[row'[k].count])
<1>1. /\ row[k] \in Record /\ row[k] # None /\ ~row[k].asked /\ row[k].count \in 0..Len(log[k])
      /\ \A n \in 0..Len(log[k]) : Whole(k)'[n] = Whole(k)[n]
  BY StreamKept DEF RunInv, TypeOK, RowOK, Plain, Record
<1>2. CASE row'[k] = row[k]
  BY <1>1, <1>2 DEF StreamOK
<1>3. CASE row[k].status = "submitting" /\ row'[k] = [row[k] EXCEPT !.attached = TRUE, !.status = "running"]
  <2>1. row[k].count = 0 /\ row[k].steps = 0 /\ row[k].result = "none" /\ ~row[k].failure
    BY <1>1, <1>3, InSubmission
  <2>2. row'[k].status = "running" /\ row'[k].count = 0 /\ row'[k].steps = 0
        /\ row'[k].result = "none" /\ row'[k].failure = FALSE
    BY <1>1, <1>3, <2>1 DEF Record
  <2>3. row'[k] \in Record
    BY <1>1, <1>3 DEF Record, Statuses
  <2>4. Whole(k)[0] = Start
    BY WholeIs, LoopSteps DEF RunInv, TypeOK
  <2>5. Told(row'[k], Start)
    BY <2>2, <2>3, BeginTold, StartIsSteady DEF Start
  <2>6. QED
    BY <1>1, <2>1, <2>2, <2>4, <2>5
<1>4. CASE row[k].status = "submitting" /\ \E s \in {"failed", "submission-ambiguous"} :
             row'[k] = [row[k] EXCEPT !.status = s, !.failure = TRUE]
  <2>1. ~row[k].attached
    BY <1>1, <1>4, InSubmission
  <2>2. row'[k].attached = row[k].attached
    BY <1>1, <1>4 DEF Record
  <2>3. QED
    BY <2>1, <2>2
<1>5. CASE row'[k] = [row[k] EXCEPT !.asked = TRUE]
  BY <1>1, <1>5 DEF Plain, Record
<1>6. CASE \E p \in Requests : pc[p] = "projecting" /\ run[p] = k /\ row'[k] = Written(p)
  <2>1. PICK p \in Requests : pc[p] = "projecting" /\ run[p] = k /\ row'[k] = Written(p)
    BY <1>6
  <2>2. Told(Written(p), Whole(k)[Written(p).count])
    BY <2>1, WrittenIsTold
  <2>3. Written(p).count \in 0..Len(log[k])
    BY <2>1, ProjectedIsTyped DEF Written, Record
  <2>4. QED
    BY <1>1, <2>1, <2>2, <2>3
<1>7. QED
  BY <1>1, <1>2, <1>3, <1>4, <1>5, <1>6, RowChanges

\* A run that was just reserved.
LEMMA FreshStream ==
  ASSUME RunInv, [Next]_vars, NEW k \in Runs, row[k] = None, row'[k] # None
  PROVE  StreamOK(k)'
<1>1. row'[k] = Fresh /\ RunInv'
  BY RowChanges, NextKeeps
<1>2. eve[k] = "none" /\ log[k] = <<>> /\ waits[k] = {}
  BY DEF RunInv, RowOK
<1>3. eve'[k] = "none" /\ log'[k] = <<>> /\ waits'[k] = {}
  <2>1. ~Session(k)
    BY <1>2, SessionEffect
  <2>2. QED
    BY <1>1, <1>2, <2>1, SessionChanges
<1>4. Whole(k)'[0] = Start /\ Len(log'[k]) = 0
  BY <1>3, WholeIs, LoopSteps
<1>5. Tracks(Start, "none", {})
  BY DEF Tracks, Start, Over
<1>6. ~Fresh.attached
  BY DEF Fresh
<1>7. \A p \in Requests : ~(pc'[p] \in Serving /\ run'[p] = k)
  BY <1>1, <1>6 DEF RunInv, RequestOK
<1>8. /\ \A n \in 0..Len(log'[k]) : Whole(k)'[n] \in Steady
      /\ \A m, n \in 0..Len(log'[k]) : (m <= n /\ Whole(k)'[m].status \in Over) =>
           Whole(k)'[n].status = Whole(k)'[m].status
      /\ Tracks(Whole(k)'[Len(log'[k])], eve'[k], waits'[k])
  <2>1. \A n \in 0..0 : n = 0
    OBVIOUS
  <2>2. QED
    BY <1>3, <1>4, <1>5, <2>1, StartIsSteady
<1>9. QED
  BY <1>1, <1>6, <1>7, <1>8 DEF StreamOK

\* A run that is completed, before or after the stop was asked, stays over.
LEMMA OverKept ==
  ASSUME RunInv, ~BothWaits, [Next]_vars, NEW k \in Runs, Plain(k) => StreamOK(k), OverOK(k)
  PROVE  OverOK(k)'
<1> SUFFICES ASSUME row'[k] # None, row'[k].status = "completed"
             PROVE  waits'[k] = {} /\ eve'[k] \in {"waiting", "closed"}
  BY DEF OverOK
<1>1. CASE row[k] = None
  <2>1. row'[k] = Fresh
    BY <1>1, RowChanges
  <2>2. QED
    BY <2>1 DEF Fresh
<1>2. CASE row[k] # None
  <2>1. row[k] \in Record
    BY <1>2 DEF RunInv, TypeOK
  <2>2. waits[k] = {} /\ eve[k] \in {"waiting", "closed"}
    <3>1. CASE row[k].status = "completed"
      BY <1>2, <3>1 DEF OverOK
    <3>2. CASE row[k].status # "completed"
      <4>1. PICK p \in Requests : pc[p] = "projecting" /\ run[p] = k /\ row'[k] = Written(p)
        <5> DEFINE Attached == row'[k] = [row[k] EXCEPT !.attached = TRUE, !.status = "running"]
                   Concluded == \E s \in {"failed", "submission-ambiguous"} :
                                  row'[k] = [row[k] EXCEPT !.status = s, !.failure = TRUE]
                   Asked == row'[k] = [row[k] EXCEPT !.asked = TRUE]
                   Cancelled == row'[k] = [row[k] EXCEPT !.status = "cancelled", !.result = "none",
                                                         !.failure = FALSE]
                   Projected == \E p \in Requests :
                                  pc[p] = "projecting" /\ run[p] = k /\ row'[k] = Written(p)
        <5>1. ~Attached /\ ~Concluded /\ ~Asked /\ ~Cancelled
          BY <2>1, <3>2 DEF Record
        <5>2. Attached \/ Concluded \/ Asked \/ Cancelled \/ Projected
          BY <1>2, <3>2, RowChanges
        <5> HIDE DEF Attached, Concluded, Asked, Cancelled
        <5>3. QED
          BY <5>1, <5>2
      <4>2. ~row[k].asked
        BY <3>2, <4>1, ProjectedIsTyped DEF Written
      <4>3. StreamOK(k)
        BY <1>2, <4>2 DEF Plain
      <4>4. Told(Written(p), Whole(k)[Written(p).count]) /\ Plain(k)
        BY <1>2, <4>1, <4>2, <4>3, WrittenIsTold DEF Plain
      <4>5. Written(p).count \in 0..Len(log[k]) /\ Len(log[k]) \in Nat
        BY <4>1, ProjectedIsTyped DEF Written, Record, RunInv, TypeOK
      <4>6. Whole(k)[Written(p).count].status = "completed"
        BY <4>1, <4>4 DEF Told
      <4>7. Whole(k)[Len(log[k])].status = "completed"
        BY <4>3, <4>5, <4>6 DEF StreamOK, Over
      <4>8. QED
        BY <4>3, <4>7 DEF StreamOK, Tracks
    <3>3. QED
      BY <3>1, <3>2
  <2>3. ~Session(k)
    BY <2>2 DEF Session, TurnStarts, Works, Asks, Authorized, Replied, SessionWaits,
                SessionCompletes, TurnBreaks, SessionFails
  <2>4. QED
    BY <2>2, <2>3, SessionChanges
<1>3. QED
  BY <1>1, <1>2

LEMMA StreamInvKept ==
  ASSUME ~BothWaits
  PROVE  RunInv /\ StreamInv /\ [Next]_vars => StreamInv'
<1> SUFFICES ASSUME RunInv, StreamInv, [Next]_vars PROVE StreamInv'
  OBVIOUS
<1>1. RunInv'
  BY NextKeeps
<1>2. ASSUME NEW k \in Runs, Plain(k)' PROVE StreamOK(k)'
  <2>1. CASE row[k] = None
    BY <1>2, <2>1, FreshStream DEF Plain
  <2>2. CASE row[k] # None
    <3>1. ~row[k].asked
      <4>1. row[k] \in Record
        BY <2>2 DEF RunInv, TypeOK
      <4>2. row[k].status = "submitting" => ~row[k].asked
        BY <2>2, InSubmission
      <4>3. (\E p \in Requests : pc[p] = "projecting" /\ run[p] = k /\ row'[k] = Written(p))
              => row'[k].asked = row[k].asked
        BY ProjectedIsTyped DEF Written
      <4>4. row'[k] = [row[k] EXCEPT !.status = "cancelled", !.result = "none", !.failure = FALSE]
              => row'[k].asked = row[k].asked
        BY <4>1 DEF Record
      <4>5. row'[k] = [row[k] EXCEPT !.asked = TRUE] => row'[k].asked
        BY <4>1 DEF Record
      <4>6. QED
        BY <1>2, <2>2, <4>2, <4>3, <4>4, <4>5, RowChanges DEF Plain
    <3>2. Plain(k) /\ StreamOK(k)
      BY <2>2, <3>1 DEF Plain, StreamInv
    <3>3. /\ \A n \in 0..Len(log[k]) : Whole(k)'[n] = Whole(k)[n]
          /\ \A n \in 0..Len(log'[k]) : Whole(k)'[n] \in Steady
          /\ \A m, n \in 0..Len(log'[k]) : (m <= n /\ Whole(k)'[m].status \in Over) =>
               Whole(k)'[n].status = Whole(k)'[m].status
          /\ Tracks(Whole(k)'[Len(log'[k])], eve'[k], waits'[k])
      BY <3>2, StreamKept
    <3>4. row'[k].attached => Told(row'[k], Whole(k)'[row'[k].count])
      BY <1>2, <3>2, RowIsTold
    <3>5. ASSUME NEW p \in Requests, pc'[p] \in Serving, run'[p] = k
          PROVE  Told(rec'[p], Whole(k)'[rec'[p].count])
      <4>1. CASE rec'[p] = row'[run'[p]]
        <5>1. row'[k].attached
          BY <1>1, <3>5 DEF RunInv, RequestOK
        <5>2. QED
          BY <3>4, <3>5, <4>1, <5>1
      <4>2. CASE pc[p] \in Serving /\ run'[p] = run[p] /\ rec'[p] = rec[p]
        <5>1. rec[p].count \in 0..Len(log[k])
          BY <3>5, <4>2 DEF RunInv, RequestOK, Record
        <5>2. Told(rec[p], Whole(k)[rec[p].count])
          BY <3>2, <3>5, <4>2 DEF StreamOK
        <5>3. QED
          BY <3>3, <4>2, <5>1, <5>2
      <4>3. QED
        BY <3>5, <4>1, <4>2, CopyChanges
    <3>6. QED
      BY <3>3, <3>4, <3>5 DEF StreamOK
  <2>3. QED
    BY <2>1, <2>2
<1>3. ASSUME NEW k \in Runs PROVE OverOK(k)'
  BY OverKept DEF StreamInv
<1>4. QED
  BY <1>2, <1>3 DEF StreamInv

\* If a turn waits for one thing at a time, the row of a run that nobody asked to
\* stop is at every moment what the loop makes of the events it counts.
THEOREM StreamInvariant ==
  ASSUME ~BothWaits
  PROVE  Spec => []StreamInv
<1>1. Init => StreamInv
  BY DEF Init, StreamInv, Plain, OverOK
<1>2. RunInv /\ StreamInv /\ [Next]_vars => StreamInv'
  BY StreamInvKept
<1>3. QED
  BY <1>1, <1>2, RunInvariant, PTL DEF Spec

\* The row stores status, result, failure and usage of the stream, wherever
\* the polls cut it into pages and however synchronizations overlap.
THEOREM RowTellsTheStream ==
  ASSUME ~BothWaits
  PROVE  Spec => []ProjectionIsOfTheStream
<1>1. RunInv /\ UsageInv /\ StreamInv => ProjectionIsOfTheStream
  BY DEF RunInv, RowOK, UsageInv, StreamInv, StreamOK, Plain, Told, StepsIn, Exists,
         ProjectionIsOfTheStream
<1>2. Spec => []StreamInv
  BY StreamInvariant
<1>3. QED
  BY <1>1, <1>2, RunInvariant, UsageIsCountedOnce, PTL

\* A run is never reported completed while its turn waits for its host, if a
\* turn waits for one thing at a time.
THEOREM CompletedRunsAreOver ==
  ASSUME ~BothWaits
  PROVE  Spec => []CompletedIsOver
<1>1. StreamInv => CompletedIsOver
  BY DEF StreamInv, OverOK, CompletedIsOver, Exists
<1>2. Spec => []StreamInv
  BY StreamInvariant
<1>3. QED
  BY <1>1, <1>2, PTL

-----------------------------------------------------------------------------
(* The contract.                                                           *)

\* What became of a run says whether it ever had a session, and whether its
\* host asked for a stop.
OutcomeOK(k) ==
  /\ (\E i \in DOMAIN log[k] : log[k][i] = "turn.cancelled") => stopping[k]
  /\ (row[k] # None /\ row[k].status = "cancelled") => row[k].asked /\ row[k].result = "none"
  /\ (row[k] # None /\ row[k].attached) => eve[k] # "none"
  /\ (row[k] # None /\ ~row[k].attached /\ row[k].status = "failed") => eve[k] = "none"

\* A request that concludes a submission knows what the runtime did.
AnswerOK(p) ==
  /\ pc[p] = "attaching" => eve[run[p]] # "none"
  /\ pc[p] = "rejecting" => eve[run[p]] = "none"

OutcomeInv == /\ \A k \in Runs : OutcomeOK(k)
              /\ \A p \in Requests : AnswerOK(p)

\* The first start of a run is the only step that makes its session.
LEMMA SessionIsMade ==
  ASSUME RunInv, OutcomeInv, [Next]_vars, NEW k \in Runs
  PROVE  \/ starts'[k] = starts[k] /\ (eve'[k] = "none" <=> eve[k] = "none")
         \/ /\ starts[k] = 0 /\ starts'[k] = 1 /\ row[k] = Fresh /\ row' = row
            /\ eve[k] = "none" /\ eve'[k] \in {"none", "queued"} /\ log' = log
<1> DEFINE Same == starts'[k] = starts[k] /\ (eve'[k] = "none" <=> eve[k] = "none")
           Made == /\ starts[k] = 0 /\ starts'[k] = 1 /\ row[k] = Fresh /\ row' = row
                   /\ eve[k] = "none" /\ eve'[k] \in {"none", "queued"} /\ log' = log
<1>1. TypeOK
  BY DEF RunInv
<1>2. ASSUME UNCHANGED <<eve, starts>> PROVE Same
  BY <1>2
<1>3. ASSUME NEW p \in Requests, RuntimeStart(p) PROVE Same \/ Made
  <2>1. /\ pc[p] = "starting" /\ run[p] \in Runs /\ row[run[p]] = Fresh
        /\ starts[run[p]] = 0 /\ eve[run[p]] = "none"
    BY <1>3 DEF RuntimeStart, RunInv, RequestOK, RowOK
  <2>2. /\ eve' \in {eve, [eve EXCEPT ![run[p]] = "queued"]} /\ UNCHANGED <<row, log>>
        /\ starts' = [starts EXCEPT ![run[p]] = @ + 1]
    BY <1>3 DEF RuntimeStart
  <2>3. CASE run[p] = k
    BY <1>1, <2>1, <2>2, <2>3 DEF TypeOK
  <2>4. CASE run[p] # k
    BY <1>1, <2>1, <2>2, <2>4 DEF TypeOK
  <2>5. QED
    BY <2>3, <2>4
<1>4. ASSUME NEW p \in Requests, Reset(p) PROVE Same
  <2>1. run[p] \in Runs /\ eve[run[p]] # "none"
    BY <1>4 DEF Reset, RunInv, RequestOK, Serving, OutcomeInv, OutcomeOK
  <2>2. QED
    BY <1>1, <1>4, <2>1 DEF Reset, TypeOK
<1>5. ASSUME NEW j \in Runs, Session(j) PROVE Same
  <2>1. /\ eve[j] # "none" /\ UNCHANGED starts
        /\ \E x \in {"turn", "ended", "waiting", "closed"} : eve' = [eve EXCEPT ![j] = x]
    BY <1>5, SessionEffect
  <2>2. QED
    BY <1>1, <2>1 DEF TypeOK
<1> HIDE DEF Same, Made
<1>6. ASSUME NEW p \in Requests, Proceeds(p) PROVE Same \/ Made
  <2>1. CASE \/ Attach(p) \/ MarkSubmissionFailed(p) \/ MarkSubmissionAmbiguous(p)
             \/ MarkCancellationRequested(p) \/ RuntimeCancel(p) \/ MarkCancelled(p)
    BY <1>2, <2>1 DEF Attach, MarkSubmissionFailed, MarkSubmissionAmbiguous, Conclude,
       MarkCancellationRequested, RuntimeCancel, MarkCancelled, eveVars
  <2>2. CASE Wake(p) \/ Read(p) \/ Project(p) \/ Decide(p)
    BY <1>2, <2>2 DEF Wake, Read, Project, Decide, eveVars
  <2>3. QED
    BY <1>3, <1>4, <1>6, <2>1, <2>2 DEF Proceeds
<1>7. ASSUME NEW p \in Requests, NEW j \in Runs, Reserve(p, j) \/ Inspect(p, j) \/ Cancel(p, j)
      PROVE  Same
  BY <1>2, <1>7 DEF Reserve, Inspect, Cancel, eveVars
<1>8. ASSUME NEW p \in Requests, Fails(p) PROVE Same
  BY <1>2, <1>8 DEF Fails, eveVars
<1>9. ASSUME NEW j \in Runs, GraceElapses(j) PROVE Same
  BY <1>2, <1>9 DEF GraceElapses, eveVars
<1>10. ASSUME UNCHANGED vars PROVE Same
  BY <1>2, <1>10 DEF vars, eveVars
<1>11. Same \/ Made
  BY <1>5, <1>6, <1>7, <1>8, <1>9, <1>10 DEF Next
<1>12. QED
  BY <1>11 DEF Same, Made

\* Eve cancels a turn only because a cancellation was accepted, and does not
\* forget that it was.
LEMMA CancellationWasAccepted ==
  ASSUME RunInv, OutcomeInv, [Next]_vars, NEW k \in Runs
  PROVE  /\ stopping[k] => stopping'[k]
         /\ (\E i \in DOMAIN log'[k] : log'[k][i] = "turn.cancelled") => stopping'[k]
<1>1. TypeOK
  BY DEF RunInv
<1>2. stopping[k] => stopping'[k]
  <2>1. ASSUME NEW p \in Requests, RuntimeCancel(p) PROVE stopping[k] => stopping'[k]
    BY <1>1, <2>1 DEF RuntimeCancel, TypeOK
  <2>2. ASSUME UNCHANGED stopping PROVE stopping[k] => stopping'[k]
    BY <2>2
  <2>3. ASSUME NEW p \in Requests, Proceeds(p) PROVE stopping[k] => stopping'[k]
    <3>1. CASE \/ RuntimeStart(p) \/ Reset(p) \/ Attach(p) \/ MarkSubmissionFailed(p)
               \/ MarkSubmissionAmbiguous(p) \/ MarkCancellationRequested(p) \/ MarkCancelled(p)
      BY <2>2, <3>1 DEF RuntimeStart, Reset, Attach, MarkSubmissionFailed, MarkSubmissionAmbiguous,
         Conclude, MarkCancellationRequested, MarkCancelled, eveVars
    <3>2. CASE Wake(p) \/ Read(p) \/ Project(p) \/ Decide(p)
      BY <2>2, <3>2 DEF Wake, Read, Project, Decide, eveVars
    <3>3. QED
      BY <2>1, <2>3, <3>1, <3>2 DEF Proceeds
  <2>4. ASSUME NEW p \in Requests, NEW j \in Runs, Reserve(p, j) \/ Inspect(p, j) \/ Cancel(p, j)
        PROVE  stopping[k] => stopping'[k]
    BY <2>2, <2>4 DEF Reserve, Inspect, Cancel, eveVars
  <2>5. ASSUME NEW p \in Requests, Fails(p) PROVE stopping[k] => stopping'[k]
    BY <2>2, <2>5 DEF Fails, eveVars
  <2>6. ASSUME NEW j \in Runs, GraceElapses(j) \/ Session(j) PROVE stopping[k] => stopping'[k]
    BY <2>2, <2>6, SessionEffect DEF GraceElapses, eveVars
  <2>7. ASSUME UNCHANGED vars PROVE stopping[k] => stopping'[k]
    BY <2>2, <2>7 DEF vars, eveVars
  <2>8. QED
    BY <2>3, <2>4, <2>5, <2>6, <2>7 DEF Next
<1>3. CASE log'[k] = log[k]
  BY <1>2, <1>3 DEF OutcomeInv, OutcomeOK
<1>4. CASE Session(k)
  <2>1. PICK e \in Events : log' = [log EXCEPT ![k] = Append(@, e)] /\ (e = "turn.cancelled" => stopping[k])
    BY <1>4 DEF Session, TurnStarts, Works, Asks, Authorized, Replied, SessionWaits,
       SessionCompletes, TurnBreaks, SessionFails, Emit, Events
  <2>2. log'[k] = Append(log[k], e) /\ log[k] \in Seq(Events)
    BY <1>1, <2>1 DEF TypeOK
  <2>3. \A i \in DOMAIN log'[k] : log'[k][i] = e \/ (i \in DOMAIN log[k] /\ log'[k][i] = log[k][i])
    BY <2>2
  <2>4. QED
    BY <1>2, <2>1, <2>3 DEF OutcomeInv, OutcomeOK
<1>5. QED
  BY <1>2, <1>3, <1>4, SessionChanges

\* How a submission ends.
LEMMA SubmissionEnds ==
  ASSUME RunInv, OutcomeInv, [Next]_vars, NEW k \in Runs, row[k] # None,
         row[k].status = "submitting", row'[k] # row[k]
  PROVE  /\ starts[k] = 1
         /\ \/ /\ eve[k] # "none"
               /\ row'[k] = [row[k] EXCEPT !.attached = TRUE, !.status = "running"]
            \/ /\ eve[k] = "none"
               /\ row'[k] = [row[k] EXCEPT !.status = "failed", !.failure = TRUE]
            \/ row'[k] = [row[k] EXCEPT !.status = "submission-ambiguous", !.failure = TRUE]
<1> DEFINE Opened == eve[k] # "none" /\ row'[k] = [row[k] EXCEPT !.attached = TRUE, !.status = "running"]
           Refused == eve[k] = "none" /\ row'[k] = [row[k] EXCEPT !.status = "failed", !.failure = TRUE]
           Doubted == row'[k] = [row[k] EXCEPT !.status = "submission-ambiguous", !.failure = TRUE]
           Goal == starts[k] = 1 /\ (Opened \/ Refused \/ Doubted)
<1>1. TypeOK /\ ~row[k].attached
  BY DEF RunInv, RowOK, Shaped
<1>2. ASSUME UNCHANGED row PROVE Goal
  BY <1>2
<1>3. ASSUME NEW p \in Requests, NEW j \in Runs, Reserve(p, j) PROVE Goal
  BY <1>1, <1>3 DEF Reserve, TypeOK
<1>4. ASSUME NEW p \in Requests, Attach(p) PROVE Goal
  <2>1. run[p] \in Runs /\ starts[run[p]] = 1 /\ eve[run[p]] # "none"
    BY <1>4 DEF Attach, RunInv, RequestOK, OutcomeInv, AnswerOK
  <2>2. run[p] = k /\ row' = [row EXCEPT ![run[p]].attached = TRUE, ![run[p]].status = "running"]
    BY <1>1, <1>4, <2>1 DEF Attach, TypeOK
  <2>3. QED
    BY <1>1, <2>1, <2>2 DEF TypeOK
<1>5. ASSUME NEW p \in Requests, MarkSubmissionFailed(p) PROVE Goal
  <2>1. run[p] \in Runs /\ starts[run[p]] = 1 /\ eve[run[p]] = "none"
    BY <1>5 DEF MarkSubmissionFailed, Conclude, RunInv, RequestOK, OutcomeInv, AnswerOK
  <2>2. run[p] = k /\ row' = [row EXCEPT ![run[p]].status = "failed", ![run[p]].failure = TRUE]
    BY <1>1, <1>5, <2>1 DEF MarkSubmissionFailed, Conclude, TypeOK
  <2>3. QED
    BY <1>1, <2>1, <2>2 DEF TypeOK
<1>6. ASSUME NEW p \in Requests, MarkSubmissionAmbiguous(p) PROVE Goal
  <2>1. run[p] \in Runs /\ starts[run[p]] = 1
    BY <1>6 DEF MarkSubmissionAmbiguous, Conclude, RunInv, RequestOK
  <2>2. run[p] = k /\ row' = [row EXCEPT ![run[p]].status = "submission-ambiguous", ![run[p]].failure = TRUE]
    BY <1>1, <1>6, <2>1 DEF MarkSubmissionAmbiguous, Conclude, TypeOK
  <2>3. QED
    BY <1>1, <2>1, <2>2 DEF TypeOK
<1>7. ASSUME NEW p \in Requests, MarkCancellationRequested(p) \/ MarkCancelled(p) \/ Project(p) PROVE Goal
  <2>1. run[p] \in Runs /\ row[run[p]].attached
    BY <1>7 DEF MarkCancellationRequested, MarkCancelled, Project, RunInv, RequestOK, Serving
  <2>2. run[p] # k
    BY <1>1, <2>1
  <2>3. row'[k] = row[k]
    BY <1>1, <1>7, <2>1, <2>2 DEF MarkCancellationRequested, MarkCancelled, Project, TypeOK
  <2>4. QED
    BY <2>3
<1> HIDE DEF Goal
<1>8. ASSUME NEW p \in Requests, Proceeds(p) PROVE Goal
  <2>1. ASSUME RuntimeStart(p) \/ RuntimeCancel(p) \/ Wake(p) \/ Read(p) \/ Decide(p) \/ Reset(p)
        PROVE  Goal
    BY <1>2, <2>1 DEF RuntimeStart, RuntimeCancel, Wake, Read, Decide, Reset
  <2>2. QED
    BY <1>4, <1>5, <1>6, <1>7, <1>8, <2>1 DEF Proceeds
<1>9. ASSUME NEW p \in Requests, NEW j \in Runs, Inspect(p, j) \/ Cancel(p, j) PROVE Goal
  BY <1>2, <1>9 DEF Inspect, Cancel
<1>10. ASSUME NEW p \in Requests, Fails(p) PROVE Goal
  BY <1>2, <1>10 DEF Fails
<1>11. ASSUME NEW j \in Runs, GraceElapses(j) \/ Session(j) PROVE Goal
  BY <1>2, <1>11 DEF GraceElapses, Session
<1>12. ASSUME UNCHANGED vars PROVE Goal
  BY <1>2, <1>12 DEF vars
<1>13. Goal
  BY <1>3, <1>8, <1>9, <1>10, <1>11, <1>12 DEF Next
<1>14. QED
  BY <1>13 DEF Goal

\* A row whose session was not made in this step, after the step.
LEMMA OutcomeOfRow ==
  ASSUME RunInv, OutcomeInv, [Next]_vars, NEW k \in Runs, row[k] # None,
         eve'[k] = "none" <=> eve[k] = "none"
  PROVE  /\ row'[k] # None
         /\ row'[k].status = "cancelled" => row'[k].asked /\ row'[k].result = "none"
         /\ row'[k].attached => eve'[k] # "none"
         /\ (~row'[k].attached /\ row'[k].status = "failed") => eve'[k] = "none"
<1>1. row[k] \in Record /\ OutcomeOK(k) /\ RowOK(k)
  BY DEF RunInv, TypeOK, OutcomeInv
<1>2. row'[k] # None /\ row'[k] \in Record
  <2>1. /\ [row[k] EXCEPT !.attached = TRUE, !.status = "running"] \in Record
        /\ \A s \in {"failed", "submission-ambiguous"} :
             [row[k] EXCEPT !.status = s, !.failure = TRUE] \in Record
        /\ [row[k] EXCEPT !.asked = TRUE] \in Record
        /\ [row[k] EXCEPT !.status = "cancelled", !.result = "none", !.failure = FALSE] \in Record
    BY <1>1 DEF Record, Statuses, Final, Results
  <2>2. \A p \in Requests : (pc[p] = "projecting" /\ run[p] = k) => Written(p) \in Record
    BY ProjectedIsTyped DEF Written
  <2>3. row'[k] \in Record
    <3>1. CASE \E s \in {"failed", "submission-ambiguous"} :
                 row'[k] = [row[k] EXCEPT !.status = s, !.failure = TRUE]
      BY <2>1, <3>1
    <3>2. CASE \E p \in Requests : pc[p] = "projecting" /\ run[p] = k /\ row'[k] = Written(p)
      BY <2>2, <3>2
    <3>3. QED
      BY <1>1, <2>1, <3>1, <3>2, RowChanges
  <2>4. QED
    BY <2>3, NullIsNoRow
<1>3. CASE row'[k] = row[k]
  BY <1>1, <1>3 DEF OutcomeOK
<1>4. CASE row[k].status = "submitting" /\ row'[k] # row[k]
  <2>1. \/ /\ eve[k] # "none"
           /\ row'[k] = [row[k] EXCEPT !.attached = TRUE, !.status = "running"]
        \/ /\ eve[k] = "none"
           /\ row'[k] = [row[k] EXCEPT !.status = "failed", !.failure = TRUE]
        \/ row'[k] = [row[k] EXCEPT !.status = "submission-ambiguous", !.failure = TRUE]
    BY <1>4, SubmissionEnds
  <2>2. ~row[k].attached
    BY <1>1, <1>4 DEF RowOK, Shaped
  <2>3. QED
    BY <1>1, <1>2, <2>1, <2>2 DEF Record
<1>5. CASE row[k].attached /\ row'[k] = [row[k] EXCEPT !.asked = TRUE]
  BY <1>1, <1>2, <1>5 DEF OutcomeOK, Record
<1>6. CASE /\ row[k].asked /\ row[k].attached
           /\ row'[k] = [row[k] EXCEPT !.status = "cancelled", !.result = "none", !.failure = FALSE]
  BY <1>1, <1>2, <1>6 DEF OutcomeOK, Record
<1>7. ASSUME NEW p \in Requests, pc[p] = "projecting", run[p] = k, row'[k] = Written(p)
      PROVE  /\ row'[k].status = "cancelled" => row'[k].asked /\ row'[k].result = "none"
             /\ row'[k].attached => eve'[k] # "none"
             /\ (~row'[k].attached /\ row'[k].status = "failed") => eve'[k] = "none"
  <2>1. /\ row'[k].attached /\ row'[k].asked = row[k].asked /\ row[k].attached
        /\ row'[k].status = "cancelled" => \/ row[k].status = "cancelled"
                                           \/ \E i \in DOMAIN log[k] : log[k][i] = "turn.cancelled"
        /\ row'[k].status = "cancelled" => row'[k].result = "none" \/ row'[k] = row[k]
    BY <1>7, ProjectedIsTyped DEF Written, RunInv, RequestOK, Serving
  <2>2. QED
    BY <1>1, <2>1 DEF OutcomeOK, RowOK
<1>8. QED
  BY <1>2, <1>3, <1>4, <1>5, <1>6, <1>7, RowChanges

\* A request that concludes a submission still knows what the runtime did.
LEMMA AnswerKept ==
  ASSUME RunInv, OutcomeInv, [Next]_vars, NEW p \in Requests
  PROVE  AnswerOK(p)'
<1>1. TypeOK /\ AnswerOK(p) /\ RequestOK(p)
  BY DEF RunInv, OutcomeInv
<1> DEFINE Answered == pc'[p] \in {"attaching", "rejecting"}
<1>2. ASSUME pc'[p] = pc[p], run'[p] = run[p], Answered PROVE AnswerOK(p)'
  <2>1. run[p] \in Runs /\ starts[run[p]] = 1
    BY <1>1, <1>2 DEF RequestOK
  <2>2. eve'[run[p]] = "none" <=> eve[run[p]] = "none"
    BY <2>1, SessionIsMade
  <2>3. QED
    BY <1>1, <1>2, <2>2 DEF AnswerOK
<1>3. ASSUME NEW q \in Requests, RuntimeStart(q) PROVE AnswerOK(p)'
  <2>1. CASE p = q
    <3>1. run[p] \in Runs /\ eve[run[p]] = "none"
      BY <1>1, <1>3, <2>1 DEF RuntimeStart, RequestOK, RunInv, RowOK
    <3>2. QED
      BY <1>1, <1>3, <2>1, <3>1 DEF RuntimeStart, Goto, TypeOK, AnswerOK
  <2>2. CASE p # q
    <3>1. pc'[p] = pc[p] /\ run'[p] = run[p]
      BY <1>1, <1>3, <2>2 DEF RuntimeStart, Goto, TypeOK
    <3>2. QED
      BY <1>2, <3>1 DEF AnswerOK
  <2>3. QED
    BY <2>1, <2>2
<1>4. ASSUME (pc'[p] = pc[p] /\ run'[p] = run[p]) \/ ~Answered PROVE AnswerOK(p)'
  BY <1>2, <1>4 DEF AnswerOK
<1> DEFINE Calm == (pc'[p] = pc[p] /\ run'[p] = run[p]) \/ ~Answered
<1>5. ASSUME NEW q \in Requests, Return(q) PROVE Calm
  BY <1>1, <1>5 DEF Return, TypeOK
<1>6. ASSUME NEW q \in Requests, NEW s \in Steps \ {"attaching", "rejecting"}, Goto(q, s) PROVE Calm
  BY <1>1, <1>6 DEF Goto, TypeOK
<1>7. ASSUME NEW q \in Requests, NEW s \in Steps \ {"attaching", "rejecting"}, UNCHANGED run,
             pc' = [pc EXCEPT ![q] = s]
      PROVE  Calm
  BY <1>1, <1>7 DEF TypeOK
<1>8. ASSUME NEW q \in Requests, NEW j \in Runs, Reserve(q, j) \/ Inspect(q, j) \/ Cancel(q, j)
      PROVE  Calm
  BY <1>1, <1>8 DEF Reserve, Inspect, Cancel, Load, TypeOK
<1>9. ASSUME UNCHANGED requestVars PROVE Calm
  BY <1>9 DEF requestVars
<1> HIDE DEF Calm
<1>10. ASSUME NEW q \in Requests, Proceeds(q) PROVE Calm \/ RuntimeStart(q)
  <2>1. CASE Attach(q) \/ MarkSubmissionFailed(q) \/ MarkSubmissionAmbiguous(q) \/ MarkCancelled(q)
    BY <1>5, <1>6, <2>1 DEF Attach, MarkSubmissionFailed, MarkSubmissionAmbiguous, Conclude,
       MarkCancelled, Steps
  <2>2. CASE RuntimeCancel(q) \/ Wake(q) \/ Decide(q) \/ Reset(q)
    BY <1>5, <1>6, <2>2 DEF RuntimeCancel, Wake, Decide, Reset, Steps
  <2>3. CASE MarkCancellationRequested(q) \/ Read(q) \/ Project(q)
    BY <1>7, <2>3 DEF MarkCancellationRequested, Read, Project, Steps
  <2>4. QED
    BY <1>10, <2>1, <2>2, <2>3 DEF Proceeds
<1>11. Calm \/ \E q \in Requests : RuntimeStart(q)
  BY <1>5, <1>8, <1>9, <1>10 DEF Next, Fails, GraceElapses, Session, vars, requestVars
<1>12. QED
  BY <1>3, <1>4, <1>11 DEF Calm

LEMMA OutcomeKept == RunInv /\ OutcomeInv /\ [Next]_vars => OutcomeInv'
<1> SUFFICES ASSUME RunInv, OutcomeInv, [Next]_vars PROVE OutcomeInv'
  OBVIOUS
<1>1. ASSUME NEW k \in Runs PROVE OutcomeOK(k)'
  <2>1. (\E i \in DOMAIN log'[k] : log'[k][i] = "turn.cancelled") => stopping'[k]
    BY CancellationWasAccepted
  <2>2. CASE row[k] # None /\ (eve'[k] = "none" <=> eve[k] = "none")
    BY <2>1, <2>2, OutcomeOfRow DEF OutcomeOK
  <2>3. CASE row[k] = None
    <3>1. row'[k] = None \/ row'[k] = Fresh
      BY <2>3, RowChanges
    <3>2. Fresh.status = "submitting" /\ ~Fresh.attached
      BY DEF Fresh
    <3>3. QED
      BY <2>1, <3>1, <3>2 DEF OutcomeOK
  <2>4. CASE row[k] = Fresh /\ row' = row
    <3>1. row'[k].status = "submitting" /\ ~row'[k].attached
      BY <2>4 DEF Fresh
    <3>2. QED
      BY <2>1, <3>1 DEF OutcomeOK
  <2>5. QED
    BY <2>2, <2>3, <2>4, SessionIsMade
<1>2. QED
  BY <1>1, AnswerKept DEF OutcomeInv

\* The invariant that tells the contract what became of a run.
THEOREM OutcomeInvariant == Spec => [](RunInv /\ OutcomeInv)
<1>1. Init => OutcomeInv
  BY DEF Init, OutcomeInv, OutcomeOK, AnswerOK
<1>2. QED
  BY <1>1, InitHolds, NextKeeps, OutcomeKept, PTL DEF Spec

-----------------------------------------------------------------------------
(* The steps of the contract.                                              *)

\* A row that changes leaves the session alone.
LEMMA RowOrSession ==
  ASSUME RunInv, OutcomeInv, [Next]_vars, NEW k \in Runs, row'[k] # row[k]
  PROVE  eve'[k] = eve[k] /\ log'[k] = log[k] /\ starts'[k] = starts[k]
<1>1. ~Session(k)
  BY DEF Session
<1>2. QED
  BY <1>1, SessionChanges, SessionIsMade

\* A session that is over stays so.
LEMMA SessionPromise ==
  ASSUME RunInv, OutcomeInv, [Next]_vars, NEW k \in Runs,
         starts'[k] = starts[k], eve'[k] = "none" <=> eve[k] = "none"
  PROVE  \/ SessionOf(k)' = SessionOf(k)
         \/ SessionOf(k) = "live" /\ SessionOf(k)' = "over"
<1>1. eve[k] = "closed" => eve'[k] = "closed"
  BY SessionChanges, SessionEffect
<1>2. (\E i \in DOMAIN log[k] : log[k][i] = "turn.cancelled")
        => \E i \in DOMAIN log'[k] : log'[k][i] = "turn.cancelled"
  <2>1. /\ log[k] \in Seq(Events) /\ log'[k] \in Seq(Events)
        /\ Len(log[k]) \in Nat /\ Len(log'[k]) \in Nat /\ Len(log[k]) <= Len(log'[k])
        /\ \A i \in 1..Len(log[k]) : log'[k][i] = log[k][i]
    BY StreamGrows
  <2>2. DOMAIN log[k] = 1..Len(log[k]) /\ DOMAIN log'[k] = 1..Len(log'[k])
    BY <2>1
  <2>3. 1..Len(log[k]) \subseteq 1..Len(log'[k])
    BY <2>1
  <2>4. QED
    BY <2>1, <2>2, <2>3
<1>3. Stopped(k) => Stopped(k)'
  BY <1>1, <1>2 DEF Stopped
<1>4. QED
  BY <1>3 DEF SessionOf

\* What a run can promise, and how one of its promises may follow another.
Phases == {"absent", "submitting", "open", "refused", "ambiguous", "completed", "failed", "cancelled"}
Sessions == {"unasked", "unborn", "live", "over"}
Promises == [phase : Phases, session : Sessions, stopped : BOOLEAN, result : Results]

Allowed(p, q) ==
  \/ /\ \/ p.phase = "absent" /\ q.phase = "submitting"
        \/ /\ p.phase = "submitting"
           /\ \/ q.phase = "open" /\ p.session \in {"live", "over"}
              \/ q.phase = "refused" /\ p.session = "unborn"
              \/ q.phase = "ambiguous" /\ p.session # "unasked"
     /\ q.session = p.session /\ (q.stopped <=> p.stopped) /\ q.result = p.result
  \/ /\ \/ p.phase = "submitting" /\ p.session = "unasked" /\ q.session \in {"unborn", "live"}
        \/ p.session = "live" /\ q.session = "over"
     /\ q.phase = p.phase /\ (q.stopped <=> p.stopped) /\ q.result = p.result
  \/ /\ p.phase \in {"open", "completed", "failed"}
     /\ \/ /\ ~p.stopped /\ ~q.stopped
           /\ q.phase \in {"open", "completed", "failed"} /\ p.phase \in {"open", q.phase}
           /\ q.result \in {"none", "text", "json"}
        \/ q.stopped /\ q.phase = p.phase /\ q.result = p.result
        \/ p.stopped /\ q.stopped /\ q.phase = p.phase /\ q.result = "none"
        \/ p.stopped /\ q.stopped /\ q.phase = "cancelled" /\ q.result = "none" /\ p.session = "over"
     /\ q.session = p.session

\* The promise of a row, part by part.
LEMMA PromiseParts ==
  ASSUME NEW r, r = None \/ r \in Record, NEW s \in Sessions
  PROVE  /\ PromiseOf(r, s) \in Promises
         /\ PromiseOf(r, s).phase = PhaseOf(r) /\ PromiseOf(r, s).session = s
         /\ r = None => /\ PromiseOf(r, s).phase = "absent" /\ ~PromiseOf(r, s).stopped
                        /\ PromiseOf(r, s).result = "none"
         /\ r # None => (PromiseOf(r, s).stopped <=> r.asked) /\ PromiseOf(r, s).result = r.result
<1>1. r = None => PhaseOf(r) = "absent"
  BY DEF PhaseOf
<1>2. PhaseOf(r) \in Phases
  <2>1. CASE r \in Record
    <3>1. /\ r # None /\ r.attached \in BOOLEAN
          /\ r.status \in {"submitting", "running", "waiting-input", "waiting-authorization",
                           "completed", "failed", "cancelled", "submission-ambiguous"}
      BY <2>1, NullIsNoRow DEF Record, Statuses, Final
    <3>2. QED
      BY <3>1 DEF PhaseOf, Phases
  <2>2. CASE r = None
    BY <1>1, <2>2 DEF Phases
  <2>3. QED
    BY <2>1, <2>2
<1>3. r # None => r.asked \in BOOLEAN /\ r.result \in Results
  BY DEF Record
<1>4. PICK f \in Phases : f = PhaseOf(r)
  BY <1>2
<1>5. PICK b \in BOOLEAN : b = (r # None /\ r.asked)
  BY <1>3
<1>6. PICK x \in Results : x = IF r # None THEN r.result ELSE "none"
  BY <1>3 DEF Results
<1>7. PromiseOf(r, s) = [phase |-> f, session |-> s, stopped |-> b, result |-> x]
  BY <1>4, <1>5, <1>6 DEF PromiseOf
<1>8. /\ PromiseOf(r, s) \in Promises /\ PromiseOf(r, s).phase = f
      /\ PromiseOf(r, s).session = s /\ PromiseOf(r, s).stopped = b /\ PromiseOf(r, s).result = x
  BY <1>7 DEF Promises
<1>9. (r # None => (b <=> r.asked)) /\ (r = None => ~b)
  BY <1>3, <1>5
<1>10. QED
  BY <1>1, <1>4, <1>6, <1>8, <1>9

\* The phase of a run that has a session.
LEMMA PhaseOfServed ==
  ASSUME NEW r \in Record, r.attached, Shaped(r)
  PROVE  /\ r.status # "cancelled" => PhaseOf(r) \in {"open", "completed", "failed"}
         /\ r.status = "cancelled" => PhaseOf(r) = "cancelled"
         /\ PhaseOf(r) \in {"completed", "failed"} => Terminal(r)
<1>1. r.status \in Statuses \ {"submitting", "submission-ambiguous"} /\ r # None
  BY NullIsNoRow DEF Shaped, Record
<1>2. r.status \in {"running", "waiting-input", "waiting-authorization", "completed", "failed", "cancelled"}
  BY <1>1 DEF Statuses, Final
<1>3. QED
  BY <1>1, <1>2 DEF PhaseOf, Terminal, Final

\* A row that has a session, and what a synchronization or a cancellation makes of it.
LEMMA ServedMoves ==
  ASSUME NEW r \in Record, NEW u \in Record, NEW s \in Sessions, r.attached, u.attached,
         Shaped(r), Shaped(u),
         r.status = "cancelled" => r.asked /\ r.result = "none" /\ u.status = "cancelled",
         u.status = "cancelled" => u.asked /\ u.result = "none" /\ s = "over",
         u.asked = r.asked,
         r.asked => u.status \in {r.status, "cancelled"} /\ u.result \in {r.result, "none"},
         (~r.asked /\ Terminal(r)) => u.status = r.status
  PROVE  PromiseOf(u, s) = PromiseOf(r, s) \/ Allowed(PromiseOf(r, s), PromiseOf(u, s))
<1> DEFINE p == PromiseOf(r, s)
           q == PromiseOf(u, s)
<1>1. /\ r.status # "cancelled" => PhaseOf(r) \in {"open", "completed", "failed"}
      /\ r.status = "cancelled" => PhaseOf(r) = "cancelled"
      /\ PhaseOf(r) \in {"completed", "failed"} => Terminal(r)
      /\ u.status # "cancelled" => PhaseOf(u) \in {"open", "completed", "failed"}
      /\ u.status = "cancelled" => PhaseOf(u) = "cancelled"
  BY PhaseOfServed
<1>2. u.status = r.status => PhaseOf(u) = PhaseOf(r)
  BY <1>1, NullIsNoRow DEF PhaseOf
<1>3. /\ r.result \in {"none", "text", "json"} /\ u.result \in {"none", "text", "json"}
      /\ r.asked \in BOOLEAN /\ u.asked \in BOOLEAN /\ r # None /\ u # None
  BY NullIsNoRow DEF Record, Results
<1>4. /\ p \in Promises /\ q \in Promises /\ p.session = s /\ q.session = s
      /\ p.phase = PhaseOf(r) /\ q.phase = PhaseOf(u)
      /\ (p.stopped <=> r.asked) /\ (q.stopped <=> r.asked)
      /\ p.result = r.result /\ q.result = u.result
  BY <1>3, PromiseParts
<1> SUFFICES q = p \/ Allowed(p, q)
  OBVIOUS
<1> HIDE DEF p, q
<1>5. u.status = r.status /\ u.result = r.result => q = p
  BY <1>2, <1>4 DEF Promises
<1>6. CASE r.status = "cancelled"
  BY <1>5, <1>6
<1>7. CASE r.status # "cancelled" /\ u.status = "cancelled"
  <2>1. p.phase \in {"open", "completed", "failed"} /\ p.stopped /\ q.stopped /\ p.session = "over"
    BY <1>1, <1>3, <1>4, <1>7
  <2>2. q.phase = "cancelled" /\ q.result = "none" /\ q.session = p.session
    BY <1>1, <1>4, <1>7
  <2>3. QED
    BY <2>1, <2>2 DEF Allowed
<1>8. CASE r.status # "cancelled" /\ u.status # "cancelled" /\ r.asked
  <2>1. p.phase \in {"open", "completed", "failed"} /\ p.stopped /\ q.stopped
    BY <1>1, <1>3, <1>4, <1>8
  <2>2. u.status = r.status /\ u.result \in {r.result, "none"}
    BY <1>8
  <2>3. q.phase = p.phase /\ q.session = p.session
    BY <1>2, <1>4, <2>2
  <2>4. CASE u.result = r.result
    BY <1>5, <2>2, <2>4
  <2>5. CASE u.result = "none"
    <3>1. q.result = "none"
      BY <1>4, <2>5
    <3>2. QED
      BY <2>1, <2>3, <3>1 DEF Allowed
  <2>6. QED
    BY <2>2, <2>4, <2>5
<1>9. CASE r.status # "cancelled" /\ u.status # "cancelled" /\ ~r.asked
  <2>1. p.phase \in {"open", "completed", "failed"} /\ ~p.stopped /\ ~q.stopped
    BY <1>1, <1>3, <1>4, <1>9
  <2>2. q.phase \in {"open", "completed", "failed"} /\ q.result \in {"none", "text", "json"}
    BY <1>1, <1>3, <1>4, <1>9
  <2>3. p.phase \in {"open", q.phase} /\ q.session = p.session
    BY <1>1, <1>2, <1>4, <1>9
  <2>4. QED
    BY <2>1, <2>2, <2>3 DEF Allowed
<1>10. QED
  BY <1>6, <1>7, <1>8, <1>9

LEMMA FreshIsRecord == Fresh \in Record /\ Fresh # None
<1>1. Fresh \in Record
  BY DEF Fresh, Record, Statuses, Final, Results
<1>2. QED
  BY <1>1, NullIsNoRow

\* A row that changes keeps its promise.
LEMMA RowMoves ==
  ASSUME RunInv, OutcomeInv, [Next]_vars, NEW k \in Runs, row'[k] # row[k],
         SessionOf(k)' = SessionOf(k)
  PROVE  Promised(k)' = Promised(k) \/ Allowed(Promised(k), Promised(k)')
<1>1. RunInv' /\ OutcomeInv'
  BY NextKeeps, OutcomeKept
<1>2. /\ RowOK(k) /\ OutcomeOK(k) /\ RowOK(k)' /\ OutcomeOK(k)'
      /\ row[k] # None => row[k] \in Record
      /\ row'[k] # None => row'[k] \in Record
  BY <1>1 DEF RunInv, OutcomeInv, TypeOK
<1>3. eve'[k] = eve[k] /\ log'[k] = log[k] /\ starts'[k] = starts[k]
  BY RowOrSession
<1> DEFINE p == Promised(k)
           q == Promised(k)'
<1>4. /\ p = PromiseOf(row[k], SessionOf(k)) /\ q = PromiseOf(row'[k], SessionOf(k))
      /\ SessionOf(k) \in Sessions
  BY DEF Promised, SessionOf, Sessions
<1>5. /\ p \in Promises /\ q \in Promises /\ q.session = p.session /\ p.session = SessionOf(k)
      /\ p.phase = PhaseOf(row[k]) /\ q.phase = PhaseOf(row'[k])
      /\ row[k] = None => ~p.stopped /\ p.result = "none"
      /\ row[k] # None => (p.stopped <=> row[k].asked) /\ p.result = row[k].result
      /\ row'[k] # None => (q.stopped <=> row'[k].asked) /\ q.result = row'[k].result
  BY <1>2, <1>4, PromiseParts
<1>12. row[k] # None => row'[k] # None
  BY <1>3, OutcomeOfRow
<1> SUFFICES q = p \/ Allowed(p, q)
  OBVIOUS
<1> HIDE DEF p, q
<1>13. CASE row[k] = None
  <2>1. row'[k] = Fresh /\ row'[k] # None
    BY <1>13, RowChanges, FreshIsRecord
  <2>2. PhaseOf(row[k]) = "absent" /\ PhaseOf(row'[k]) = "submitting"
    BY <1>13, <2>1 DEF PhaseOf, Fresh
  <2>3. ~row'[k].asked /\ row'[k].result = "none" /\ row'[k].asked \in BOOLEAN
    BY <2>1 DEF Fresh
  <2>4. (q.stopped <=> p.stopped) /\ q.result = p.result
    BY <1>5, <1>13, <2>1, <2>3 DEF Promises
  <2>5. QED
    BY <1>5, <2>2, <2>4 DEF Allowed
<1>6. CASE row[k] # None /\ row[k].status = "submitting"
  <2>1. /\ starts[k] = 1
        /\ \/ /\ eve[k] # "none"
              /\ row'[k] = [row[k] EXCEPT !.attached = TRUE, !.status = "running"]
           \/ /\ eve[k] = "none"
              /\ row'[k] = [row[k] EXCEPT !.status = "failed", !.failure = TRUE]
           \/ row'[k] = [row[k] EXCEPT !.status = "submission-ambiguous", !.failure = TRUE]
    BY <1>6, SubmissionEnds
  <2>2. /\ eve[k] # "none" => SessionOf(k) \in {"live", "over"}
        /\ eve[k] = "none" => SessionOf(k) = "unborn"
    BY <2>1 DEF SessionOf
  <2>3. PhaseOf(row[k]) = "submitting" /\ ~row[k].attached /\ row[k] \in Record
    BY <1>2, <1>6 DEF PhaseOf, RowOK, Shaped
  <2>4. row'[k].asked = row[k].asked /\ row'[k].result = row[k].result
    BY <2>1, <2>3 DEF Record
  <2>5. \/ eve[k] # "none" /\ row'[k].status = "running"
        \/ eve[k] = "none" /\ row'[k].status = "failed" /\ ~row'[k].attached
        \/ row'[k].status = "submission-ambiguous"
    BY <2>1, <2>3 DEF Record
  <2>6. \/ eve[k] # "none" /\ PhaseOf(row'[k]) = "open"
        \/ eve[k] = "none" /\ PhaseOf(row'[k]) = "refused"
        \/ PhaseOf(row'[k]) = "ambiguous"
    BY <1>6, <1>12, <2>5 DEF PhaseOf
  <2>7. SessionOf(k) \in {"live", "over", "unborn"} /\ SessionOf(k) # "unasked"
    BY <2>2
  <2>8. (q.stopped <=> p.stopped) /\ q.result = p.result
    BY <1>5, <1>6, <1>12, <2>4
  <2>9. QED
    BY <1>5, <2>2, <2>3, <2>6, <2>7, <2>8 DEF Allowed
<1>7. CASE row[k] # None /\ row[k].attached /\ row'[k] = [row[k] EXCEPT !.asked = TRUE]
  <2>1. row[k].status # "cancelled" /\ row[k] \in Record /\ Shaped(row[k])
    <3>1. row[k].asked => row'[k] = row[k]
      BY <1>2, <1>7 DEF Record
    <3>2. QED
      BY <1>2, <1>7, <3>1 DEF OutcomeOK, RowOK
  <2>2. /\ row'[k].asked = TRUE /\ row'[k].result = row[k].result
        /\ row'[k].status = row[k].status /\ row'[k].attached = row[k].attached
    BY <1>7, <2>1 DEF Record
  <2>3. PhaseOf(row[k]) \in {"open", "completed", "failed"} /\ PhaseOf(row'[k]) = PhaseOf(row[k])
    BY <1>12, <1>7, <2>1, <2>2, PhaseOfServed DEF PhaseOf
  <2>4. q.stopped /\ q.result = p.result
    BY <1>5, <1>7, <1>12, <2>2
  <2>5. QED
    BY <1>5, <2>3, <2>4 DEF Allowed
<1>8. ASSUME row[k] # None, row[k].attached, row'[k].attached, row'[k].asked = row[k].asked,
             row[k].status = "cancelled" => row'[k].status = "cancelled",
             row[k].asked => /\ row'[k].status \in {row[k].status, "cancelled"}
                             /\ row'[k].result \in {row[k].result, "none"},
             (~row[k].asked /\ Terminal(row[k])) => row'[k].status = row[k].status
      PROVE  q = p \/ Allowed(p, q)
  <2>1. /\ row[k] \in Record /\ row'[k] \in Record /\ Shaped(row[k]) /\ Shaped(row'[k])
        /\ row[k].status = "cancelled" => row[k].asked /\ row[k].result = "none"
        /\ row'[k].status = "cancelled" => row'[k].asked /\ row'[k].result = "none"
    BY <1>2, <1>8, <1>12 DEF RowOK, OutcomeOK
  <2>2. row'[k].status = "cancelled" => SessionOf(k) = "over"
    <3>1. starts[k] # 0 /\ eve[k] # "none"
      BY <1>2, <1>8 DEF RowOK, OutcomeOK, Fresh
    <3>2. row'[k].status = "cancelled" => Stopped(k)
      BY <1>2, <1>3, <1>8, <1>12 DEF RowOK, Stopped
    <3>3. QED
      BY <3>1, <3>2 DEF SessionOf
  <2>3. QED
    BY <1>4, <1>8, <2>1, <2>2, ServedMoves
<1>9. CASE /\ row[k] # None /\ row[k].asked /\ row[k].attached
           /\ row'[k] = [row[k] EXCEPT !.status = "cancelled", !.result = "none", !.failure = FALSE]
  <2>1. /\ row'[k].status = "cancelled" /\ row'[k].result = "none"
        /\ row'[k].asked = row[k].asked /\ row'[k].attached = row[k].attached
    BY <1>2, <1>9 DEF Record
  <2>2. QED
    BY <1>8, <1>9, <2>1
<1>10. ASSUME NEW c \in Requests, pc[c] = "projecting", run[c] = k, row'[k] = Written(c), row[k] # None
       PROVE  q = p \/ Allowed(p, q)
  <2>1. /\ row[k].attached /\ row'[k].attached /\ row'[k].asked = row[k].asked
        /\ row[k].asked => /\ row'[k].status \in {row[k].status, "cancelled"}
                           /\ row'[k].result \in {row[k].result, "none"}
        /\ Terminal(row[k]) => row'[k].status = row[k].status
    BY <1>10, ProjectedIsTyped DEF Written, RunInv, RequestOK, Serving
  <2>2. QED
    BY <1>8, <1>10, <2>1 DEF Terminal, Final
<1>14. QED
  BY <1>13, <1>6, <1>7, <1>9, <1>10, RowChanges

\* A run that moves moves as its contract allows.
LEMMA PromiseMoves ==
  ASSUME RunInv, OutcomeInv, [Next]_vars, NEW k \in Runs
  PROVE  Promised(k)' = Promised(k) \/ Allowed(Promised(k), Promised(k)')
<1>1. RunInv' /\ OutcomeInv'
  BY NextKeeps, OutcomeKept
<1>2. /\ RowOK(k) /\ OutcomeOK(k) /\ RowOK(k)' /\ OutcomeOK(k)'
      /\ row[k] # None => row[k] \in Record
      /\ row'[k] # None => row'[k] \in Record
      /\ starts[k] \in Nat
  BY <1>1 DEF RunInv, OutcomeInv, TypeOK
<1>3. CASE /\ starts[k] = 0 /\ starts'[k] = 1 /\ row[k] = Fresh /\ row' = row
           /\ eve[k] = "none" /\ eve'[k] \in {"none", "queued"} /\ log' = log
  <2>1. row[k] # None /\ row[k].status = "submitting" /\ row'[k] = row[k]
    BY <1>1, <1>2, <1>3, NullIsNoRow, FreshIsRecord DEF Fresh
  <2>2. PhaseOf(row[k]) = "submitting" /\ PhaseOf(row'[k]) = "submitting"
    BY <2>1 DEF PhaseOf
  <2>3. log'[k] = <<>>
    BY <1>2, <1>3 DEF RowOK
  <2>4. ~Stopped(k)'
    BY <1>3, <2>3 DEF Stopped
  <2>5. SessionOf(k) = "unasked" /\ SessionOf(k)' \in {"unborn", "live"}
    BY <1>3, <2>4 DEF SessionOf
  <2>6. /\ Promised(k) = PromiseOf(row[k], SessionOf(k))
        /\ Promised(k)' = PromiseOf(row[k], SessionOf(k)')
        /\ SessionOf(k) \in Sessions /\ SessionOf(k)' \in Sessions
    BY <2>1, <2>5 DEF Promised, Sessions
  <2>7. QED
    BY <1>2, <2>1, <2>2, <2>5, <2>6, PromiseParts DEF Allowed
<1>4. CASE row'[k] = row[k] /\ starts'[k] = starts[k] /\ (eve'[k] = "none" <=> eve[k] = "none")
  <2>1. /\ Promised(k) = PromiseOf(row[k], SessionOf(k))
        /\ Promised(k)' = PromiseOf(row[k], SessionOf(k)')
        /\ SessionOf(k) \in Sessions /\ SessionOf(k)' \in Sessions
    BY <1>4 DEF Promised, SessionOf, Sessions
  <2>2. CASE SessionOf(k)' = SessionOf(k)
    BY <2>1, <2>2
  <2>3. CASE SessionOf(k) = "live" /\ SessionOf(k)' = "over"
    BY <1>2, <2>1, <2>3, PromiseParts DEF Allowed
  <2>4. QED
    BY <1>4, <2>2, <2>3, SessionPromise
<1>5. CASE row'[k] # row[k]
  <2>1. eve'[k] = eve[k] /\ log'[k] = log[k] /\ starts'[k] = starts[k]
    BY <1>5, RowOrSession
  <2>2. SessionOf(k)' = SessionOf(k)
    BY <2>1 DEF SessionOf, Stopped
  <2>3. QED
    BY <1>1, <1>2, <1>5, <2>1, <2>2, RowMoves
<1>6. QED
  BY <1>3, <1>4, <1>5, SessionIsMade

\* Nothing of any other run changes in a step of one.
Only(k) ==
  \A j \in Runs : j # k =>
    row'[j] = row[j] /\ eve'[j] = eve[j] /\ log'[j] = log[j] /\ starts'[j] = starts[j]

LEMMA OneRunMoves ==
  ASSUME RunInv, [Next]_vars
  PROVE  UNCHANGED <<row, eve, log, starts>> \/ \E k \in Runs : Only(k)
<1> DEFINE Quiet == UNCHANGED <<row, eve, log, starts>>
           Lone == \E k \in Runs : Only(k)
<1>1. TypeOK
  BY DEF RunInv
<1>2. ASSUME NEW k \in Runs, NEW r, NEW e, UNCHANGED log,
             row' = row \/ row' = [row EXCEPT ![k] = r],
             eve' = eve \/ eve' = [eve EXCEPT ![k] = e],
             starts' = starts \/ starts' = [starts EXCEPT ![k] = @ + 1]
      PROVE  Lone
  BY <1>1, <1>2 DEF TypeOK, Only
<1>3. ASSUME NEW p \in Requests, NEW k \in Runs, Reserve(p, k) PROVE Lone
  BY <1>1, <1>3 DEF Reserve, eveVars, TypeOK, Only
<1>4. ASSUME NEW p \in Requests, Proceeds(p), pc[p] # "idle", run[p] \in Runs PROVE Quiet \/ Lone
  <2>1. CASE RuntimeStart(p)
    <3>1. \A j \in Runs : j # run[p] =>
            row'[j] = row[j] /\ eve'[j] = eve[j] /\ log'[j] = log[j] /\ starts'[j] = starts[j]
      BY <1>1, <1>4, <2>1 DEF RuntimeStart, TypeOK
    <3>2. QED
      BY <1>4, <3>1 DEF Only
  <2>2. CASE \/ Attach(p) \/ MarkSubmissionFailed(p) \/ MarkSubmissionAmbiguous(p)
             \/ MarkCancellationRequested(p) \/ Project(p) \/ MarkCancelled(p)
    <3>1. UNCHANGED <<eve, log, starts>>
      BY <2>2 DEF Attach, MarkSubmissionFailed, MarkSubmissionAmbiguous, Conclude,
         MarkCancellationRequested, Project, MarkCancelled, eveVars
    <3>2. \A j \in Runs : j # run[p] => row'[j] = row[j]
      <4>1. CASE MarkCancellationRequested(p) \/ MarkCancelled(p)
        BY <1>1, <1>4, <4>1 DEF MarkCancellationRequested, MarkCancelled, TypeOK
      <4>2. CASE Attach(p)
        BY <1>1, <1>4, <4>2 DEF Attach, TypeOK
      <4>3. CASE MarkSubmissionFailed(p) \/ MarkSubmissionAmbiguous(p)
        BY <1>1, <1>4, <4>3 DEF MarkSubmissionFailed, MarkSubmissionAmbiguous, Conclude, TypeOK
      <4>4. CASE Project(p)
        <5>1. \E next : row' = [row EXCEPT ![run[p]] = next]
          BY <4>4 DEF Project
        <5>2. QED
          BY <1>1, <1>4, <5>1 DEF TypeOK
      <4>5. QED
        BY <2>2, <4>1, <4>2, <4>3, <4>4
    <3>3. QED
      BY <1>4, <3>1, <3>2 DEF Only
  <2>3. CASE Reset(p)
    BY <1>1, <1>4, <2>3 DEF Reset, TypeOK, Only
  <2>4. CASE RuntimeCancel(p) \/ Wake(p) \/ Read(p) \/ Decide(p)
    BY <2>4 DEF RuntimeCancel, Wake, Read, Decide, eveVars
  <2>5. QED
    BY <1>4, <2>1, <2>2, <2>3, <2>4 DEF Proceeds
<1>5. ASSUME NEW k \in Runs, Session(k) PROVE Lone
  <2>1. /\ UNCHANGED <<row, starts>>
        /\ \E e \in Events : log' = [log EXCEPT ![k] = Append(@, e)]
        /\ \E x \in {"turn", "ended", "waiting", "closed"} : eve' = [eve EXCEPT ![k] = x]
    BY <1>5, SessionEffect DEF Session
  <2>2. QED
    BY <1>1, <2>1 DEF TypeOK, Only
<1> HIDE DEF Quiet, Lone
<1>6. ASSUME NEW p \in Requests, Proceeds(p) PROVE Quiet \/ Lone
  <2>1. pc[p] # "idle"
    BY <1>6 DEF Proceeds, RuntimeStart, Attach, MarkSubmissionFailed, MarkSubmissionAmbiguous,
       Conclude, MarkCancellationRequested, RuntimeCancel, Wake, Read, Project, Decide, Reset,
       MarkCancelled
  <2>2. QED
    BY <1>4, <1>6, <2>1 DEF RunInv, RequestOK
<1>7. ASSUME NEW p \in Requests, NEW k \in Runs, Inspect(p, k) \/ Cancel(p, k) PROVE Quiet
  BY <1>7 DEF Inspect, Cancel, eveVars, Quiet
<1>8. ASSUME NEW p \in Requests, Fails(p) PROVE Quiet
  BY <1>8 DEF Fails, eveVars, Quiet
<1>9. ASSUME NEW k \in Runs, GraceElapses(k) PROVE Quiet
  BY <1>9 DEF GraceElapses, eveVars, Quiet
<1>10. ASSUME UNCHANGED vars PROVE Quiet
  BY <1>10 DEF vars, eveVars, Quiet
<1>11. Quiet \/ Lone
  BY <1>3, <1>5, <1>6, <1>7, <1>8, <1>9, <1>10 DEF Next
<1>12. QED
  BY <1>11 DEF Quiet, Lone

\* An allowed move, as the contract writes it.
LEMMA AllowedForms ==
  ASSUME NEW p \in Promises, NEW q \in Promises, Allowed(p, q)
  PROVE  \/ p.phase = "absent" /\ q = [p EXCEPT !.phase = "submitting"]
         \/ /\ p.phase = "submitting" /\ p.session = "unasked"
            /\ \E s \in {"unborn", "live"} : q = [p EXCEPT !.session = s]
         \/ p.phase = "submitting" /\ p.session \in {"live", "over"} /\ q = [p EXCEPT !.phase = "open"]
         \/ p.phase = "submitting" /\ p.session = "unborn" /\ q = [p EXCEPT !.phase = "refused"]
         \/ p.phase = "submitting" /\ p.session # "unasked" /\ q = [p EXCEPT !.phase = "ambiguous"]
         \/ /\ p.phase \in Promise!Served /\ ~p.stopped
            /\ \E to \in Promise!Served, r \in {"none", "text", "json"} :
                 p.phase \in {"open", to} /\ q = [p EXCEPT !.phase = to, !.result = r]
         \/ p.phase \in Promise!Served /\ q = [p EXCEPT !.stopped = TRUE]
         \/ p.phase \in Promise!Served /\ p.stopped /\ q = [p EXCEPT !.result = "none"]
         \/ /\ p.phase \in Promise!Served /\ p.stopped /\ p.session = "over"
            /\ q = [p EXCEPT !.phase = "cancelled", !.result = "none"]
         \/ p.session = "live" /\ q = [p EXCEPT !.session = "over"]
<1> USE DEF Promises, Phases, Sessions, Results
<1>1. CASE /\ \/ p.phase = "absent" /\ q.phase = "submitting"
              \/ /\ p.phase = "submitting"
                 /\ \/ q.phase = "open" /\ p.session \in {"live", "over"}
                    \/ q.phase = "refused" /\ p.session = "unborn"
                    \/ q.phase = "ambiguous" /\ p.session # "unasked"
           /\ q.session = p.session /\ (q.stopped <=> p.stopped) /\ q.result = p.result
  <2>1. q = [p EXCEPT !.phase = q.phase]
    BY <1>1
  <2>2. QED
    BY <1>1, <2>1
<1>2. CASE /\ \/ p.phase = "submitting" /\ p.session = "unasked" /\ q.session \in {"unborn", "live"}
              \/ p.session = "live" /\ q.session = "over"
           /\ q.phase = p.phase /\ (q.stopped <=> p.stopped) /\ q.result = p.result
  <2>1. q = [p EXCEPT !.session = q.session]
    BY <1>2
  <2>2. QED
    BY <1>2, <2>1
<1>3. CASE /\ p.phase \in {"open", "completed", "failed"} /\ q.session = p.session
           /\ ~p.stopped /\ ~q.stopped
           /\ q.phase \in {"open", "completed", "failed"} /\ p.phase \in {"open", q.phase}
           /\ q.result \in {"none", "text", "json"}
  <2>1. q = [p EXCEPT !.phase = q.phase, !.result = q.result]
    BY <1>3
  <2>2. QED
    BY <1>3, <2>1 DEF Promise!Served
<1>4. CASE /\ p.phase \in {"open", "completed", "failed"} /\ q.session = p.session
           /\ q.stopped /\ q.phase = p.phase /\ q.result = p.result
  <2>1. q = [p EXCEPT !.stopped = TRUE]
    BY <1>4
  <2>2. QED
    BY <1>4, <2>1 DEF Promise!Served
<1>5. CASE /\ p.phase \in {"open", "completed", "failed"} /\ q.session = p.session
           /\ p.stopped /\ q.stopped /\ q.phase = p.phase /\ q.result = "none"
  <2>1. q = [p EXCEPT !.result = "none"]
    BY <1>5
  <2>2. QED
    BY <1>5, <2>1 DEF Promise!Served
<1>6. CASE /\ p.phase \in {"open", "completed", "failed"} /\ q.session = p.session
           /\ p.stopped /\ q.stopped /\ p.session = "over"
           /\ q.phase = "cancelled" /\ q.result = "none"
  <2>1. q = [p EXCEPT !.phase = "cancelled", !.result = "none"]
    BY <1>6
  <2>2. QED
    BY <1>6, <2>1 DEF Promise!Served
<1>7. QED
  BY <1>1, <1>2, <1>3, <1>4, <1>5, <1>6 DEF Allowed

\* Every step is one of the contract, or none of its business.
LEMMA ContractKept == RunInv /\ OutcomeInv /\ [Next]_vars => [Promise!Next]_Published
<1> SUFFICES ASSUME RunInv, OutcomeInv, [Next]_vars, Published' # Published
             PROVE  \E k \in Runs : Promise!Step(k)
  BY DEF Promise!Next
<1>1. ~UNCHANGED <<row, eve, log, starts>>
  BY DEF Published, Promised, SessionOf, Stopped
<1>2. PICK k \in Runs : Only(k)
  BY <1>1, OneRunMoves
<1>3. ASSUME NEW j \in Runs, j # k PROVE Promised(j)' = Promised(j)
  BY <1>2, <1>3 DEF Only, Promised, SessionOf, Stopped
<1> DEFINE p == Promised(k)
           q == Promised(k)'
<1>4. p \in Promises /\ q \in Promises
  <2>1. RunInv'
    BY NextKeeps
  <2>2. SessionOf(k) \in Sessions /\ SessionOf(k)' \in Sessions
    BY DEF SessionOf, Sessions
  <2>3. (row[k] = None \/ row[k] \in Record) /\ (row'[k] = None \/ row'[k] \in Record)
    BY <2>1 DEF RunInv, TypeOK
  <2>4. QED
    BY <2>2, <2>3, PromiseParts DEF Promised
<1>5. Published \in [Runs -> {Promised(j) : j \in Runs}] /\ Published[k] = p
  BY DEF Published
<1>6. Published' = [Published EXCEPT ![k] = q]
  BY <1>3 DEF Published
<1>7. Allowed(p, q)
  <2>1. q # p
    BY <1>5, <1>6
  <2>2. QED
    BY <2>1, PromiseMoves
<1> HIDE DEF p, q
<1>8. Promise!Becomes(k, q)
  BY <1>6 DEF Promise!Becomes
<1>9. CASE p.phase = "absent" /\ q = [p EXCEPT !.phase = "submitting"]
  BY <1>5, <1>8, <1>9 DEF Promise!Step, Promise!Reserve
<1>10. CASE /\ p.phase = "submitting" /\ p.session = "unasked"
            /\ \E s \in {"unborn", "live"} : q = [p EXCEPT !.session = s]
  BY <1>5, <1>8, <1>10 DEF Promise!Step, Promise!Ask
<1>11. CASE p.phase = "submitting" /\ p.session \in {"live", "over"} /\ q = [p EXCEPT !.phase = "open"]
  BY <1>5, <1>8, <1>11 DEF Promise!Step, Promise!Open
<1>12. CASE p.phase = "submitting" /\ p.session = "unborn" /\ q = [p EXCEPT !.phase = "refused"]
  BY <1>5, <1>8, <1>12 DEF Promise!Step, Promise!Refuse
<1>13. CASE p.phase = "submitting" /\ p.session # "unasked" /\ q = [p EXCEPT !.phase = "ambiguous"]
  BY <1>5, <1>8, <1>13 DEF Promise!Step, Promise!Doubt
<1>14. CASE /\ p.phase \in Promise!Served /\ ~p.stopped
            /\ \E to \in Promise!Served, r \in {"none", "text", "json"} :
                 p.phase \in {"open", to} /\ q = [p EXCEPT !.phase = to, !.result = r]
  <2>1. PICK to \in Promise!Served, r \in {"none", "text", "json"} :
          p.phase \in {"open", to} /\ q = [p EXCEPT !.phase = to, !.result = r]
    BY <1>14
  <2>2. Promise!Becomes(k, [p EXCEPT !.phase = to, !.result = r])
    BY <1>8, <2>1
  <2>3. Promise!Report(k)
    BY <1>5, <1>14, <2>1, <2>2, Zenon DEF Promise!Report
  <2>4. QED
    BY <2>3 DEF Promise!Step
<1>15. CASE p.phase \in Promise!Served /\ q = [p EXCEPT !.stopped = TRUE]
  BY <1>5, <1>8, <1>15 DEF Promise!Step, Promise!RequestStop
<1>16. CASE p.phase \in Promise!Served /\ p.stopped /\ q = [p EXCEPT !.result = "none"]
  BY <1>5, <1>8, <1>16 DEF Promise!Step, Promise!Withdraw
<1>17. CASE /\ p.phase \in Promise!Served /\ p.stopped /\ p.session = "over"
            /\ q = [p EXCEPT !.phase = "cancelled", !.result = "none"]
  BY <1>5, <1>8, <1>17 DEF Promise!Step, Promise!Cancel
<1>18. CASE p.session = "live" /\ q = [p EXCEPT !.session = "over"]
  BY <1>5, <1>8, <1>18 DEF Promise!Step, Promise!End
<1>19. QED
  BY <1>4, <1>7, <1>9, <1>10, <1>11, <1>12, <1>13, <1>14, <1>15, <1>16, <1>17, <1>18, AllowedForms

\* ImplementsContract: every behaviour of the rows, requests and sessions is
\* one of the contract a host relies on (docs/architecture.md, "Headless
\* AgentRun contract").
THEOREM RunImplementsContract == Spec => ImplementsContract
<1>1. Init => Promise!Init
  <2>1. ASSUME Init, NEW k \in Runs
        PROVE  Promised(k) = [phase |-> "absent", session |-> "unasked", stopped |-> FALSE,
                              result |-> "none"]
    <3>1. row[k] = None /\ SessionOf(k) = "unasked"
      BY <2>1 DEF Init, SessionOf
    <3>2. PhaseOf(row[k]) = "absent"
      BY <3>1 DEF PhaseOf
    <3>3. QED
      BY <3>1, <3>2 DEF Promised, PromiseOf
  <2>2. QED
    BY <2>1 DEF Promise!Init, Published
<1>2. QED
  BY <1>1, ContractKept, OutcomeInvariant, PTL DEF Spec, ImplementsContract, Promise!Spec
=============================================================================
