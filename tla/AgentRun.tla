------------------------------ MODULE AgentRun ------------------------------
(***************************************************************************)
(* Headless agent runs: the table agent_runs and its store                 *)
(* (server/data/agent-run-store.ts), the four host operations              *)
(* (server/agent-runs/service.ts) and the projection of Eve's event stream *)
(* into a run's status (server/agent-runs/projection.ts).  The Eve session *)
(* of a run is external.                                                   *)
(*                                                                         *)
(* A run is one idempotency key of one principal.  A request is one HTTP   *)
(* request; one step of it is one SQL statement or transaction, or one     *)
(* call of the runtime, so requests interleave at every await.             *)
(***************************************************************************)
EXTENDS Naturals, Sequences, FiniteSets

CONSTANTS
  Runs,       \* idempotency keys
  Requests,   \* HTTP requests that can be open at once
  None,
  PageSize,   \* events one synchronization reads (200 in the code)
  BothWaits,  \* whether a turn may wait for input and authorization at once
  MaxEvents   \* bound: events Eve emits for a run

ASSUME AgentRunAssumption ==
  /\ PageSize \in Nat \ {0}
  /\ BothWaits \in BOOLEAN
  /\ MaxEvents \in Nat

Final == {"completed", "failed", "cancelled", "submission-ambiguous"}
Statuses == {"submitting", "running", "waiting-input", "waiting-authorization"} \cup Final
Results == {"none", "text", "json"}

\* AgentRunRecord.  Usage is the number of steps; asked is
\* cancellationRequestedAt; attached is sessionId.
Record == [status: Statuses, attached: BOOLEAN, count: Nat, steps: Nat,
           result: Results, failure: BOOLEAN, asked: BOOLEAN]

ASSUME NullIsNoRow == None \notin Record

\* isTerminal
Terminal(r) == r.status \in Final

Events == {"turn.started", "message.received", "step.completed", "message.completed",
           "result.completed", "input.requested", "authorization.required",
           "authorization.completed", "turn.cancelled", "turn.failed", "session.failed",
           "session.completed", "session.waiting"}

VARIABLES
  row,      \* agent_runs: a record, or None
  elapsed,  \* the grace period since cancellationRequestedAt is over
  \* requests
  pc, run, rec, upto,  \* next await, its run, the record it works from, last event it read
  \* Eve
  eve,      \* the session: none, queued, turn, ended, waiting, closed
  log,      \* its durable event stream
  waits,    \* what the turn waits for
  stopping, \* Eve accepted a cooperative cancellation
  starts    \* history: times the runtime was asked to start the run

requestVars == <<pc, run, rec, upto>>
eveVars == <<eve, log, waits, stopping>>
vars == <<row, elapsed, requestVars, eveVars, starts>>

Steps == {"idle", "starting", "attaching", "rejecting", "doubting", "requesting",
          "interrupting", "sleeping", "reading", "projecting", "deciding",
          "resetting", "cancelling"}

TypeOK ==
  /\ row \in [Runs -> Record \cup {None}]
  /\ elapsed \in [Runs -> BOOLEAN]
  /\ pc \in [Requests -> Steps]
  /\ run \in [Requests -> Runs \cup {None}]
  /\ rec \in [Requests -> Record \cup {None}]
  /\ upto \in [Requests -> Nat]
  /\ eve \in [Runs -> {"none", "queued", "turn", "ended", "waiting", "closed"}]
  /\ log \in [Runs -> Seq(Events)]
  /\ waits \in [Runs -> SUBSET {"input", "authorization"}]
  /\ stopping \in [Runs -> BOOLEAN]
  /\ starts \in [Runs -> Nat]

Init ==
  /\ row = [k \in Runs |-> None]
  /\ elapsed = [k \in Runs |-> FALSE]
  /\ pc = [p \in Requests |-> "idle"]
  /\ run = [p \in Requests |-> None]
  /\ rec = [p \in Requests |-> None]
  /\ upto = [p \in Requests |-> 0]
  /\ eve = [k \in Runs |-> "none"]
  /\ log = [k \in Runs |-> <<>>]
  /\ waits = [k \in Runs |-> {}]
  /\ stopping = [k \in Runs |-> FALSE]
  /\ starts = [k \in Runs |-> 0]

-----------------------------------------------------------------------------
(* The projection of a page of events, projectAgentRunFrom.                *)

\* Mutant: a wait for input is forgotten between pages.
BeginWithoutInput(r) ==
  LET status == IF r.status = "submitting" THEN "running" ELSE r.status IN
  [status |-> status, result |-> r.result, failure |-> r.failure, steps |-> r.steps,
   cancelled |-> status = "cancelled",
   input |-> FALSE,
   authorization |-> status = "waiting-authorization"]

\* What the loop carries: the record's columns and three local flags.
Begin(r) ==
  LET status == IF r.status = "submitting" THEN "running" ELSE r.status IN
  [status |-> status, result |-> r.result, failure |-> r.failure, steps |-> r.steps,
   cancelled |-> status = "cancelled",
   input |-> status = "waiting-input",
   authorization |-> status = "waiting-authorization"]

AfterEvent(a, e) ==
  CASE e \in {"turn.started", "message.received"} ->
         [a EXCEPT !.input = FALSE, !.authorization = FALSE,
                   !.status = IF a.cancelled \/ a.failure THEN @ ELSE "running"]
    [] e = "input.requested" -> [a EXCEPT !.input = TRUE, !.status = "waiting-input"]
    [] e = "authorization.required" ->
         [a EXCEPT !.authorization = TRUE, !.status = "waiting-authorization"]
    [] e = "authorization.completed" ->
         [a EXCEPT !.authorization = FALSE, !.status = "running"]
    [] e = "result.completed" -> [a EXCEPT !.result = "json"]
    [] e = "message.completed" -> [a EXCEPT !.result = IF @ = "none" THEN "text" ELSE @]
    [] e = "step.completed" -> [a EXCEPT !.steps = @ + 1]
    [] e = "turn.cancelled" -> [a EXCEPT !.cancelled = TRUE, !.status = "cancelled"]
    [] e \in {"turn.failed", "session.failed"} ->
         [a EXCEPT !.failure = TRUE, !.status = "failed"]
    [] e = "session.completed" ->
         [a EXCEPT !.status = IF a.cancelled \/ a.failure THEN @ ELSE "completed"]
    [] e = "session.waiting" ->
         [a EXCEPT !.status = IF a.cancelled THEN "cancelled"
                              ELSE IF a.failure THEN "failed"
                              ELSE IF a.input THEN "waiting-input"
                              ELSE IF a.authorization THEN "waiting-authorization"
                              ELSE "completed"]

\* The loop's state after each event of a page, from a before the first.
Loop(a, page) ==
  LET after[n \in 0..Len(page)] == IF n = 0 THEN a ELSE AfterEvent(after[n - 1], page[n])
  IN after

\* projectAgentRunDelta: the AgentRunProjection of record r and a page.
Projection(r, page) ==
  LET a == Loop(Begin(r), page)[Len(page)] IN
  [count |-> r.count + Len(page), status |-> a.status, steps |-> a.steps,
   result |-> a.result, failure |-> a.failure]

-----------------------------------------------------------------------------
(* updateProjection, under the row's lock.                                 *)

\* Mutant: a projection of fewer events than the row has is written.
UpdatedWithoutCursor(r, j) ==
  LET status == IF Terminal(r) THEN r.status
                ELSE IF r.asked /\ j.status # "cancelled" THEN r.status
                ELSE j.status
      silent == r.asked \/ status = "cancelled"
  IN [r EXCEPT !.status = status, !.count = IF @ > j.count THEN @ ELSE j.count,
               !.steps = j.steps,
               !.result = IF silent THEN "none" ELSE j.result,
               !.failure = IF silent THEN FALSE ELSE j.failure]

\* Mutant: a pending cancellation does not freeze the row.
UpdatedWhileStopping(r, j) ==
  IF r.count > j.count
    THEN r
    ELSE LET status == IF Terminal(r) THEN r.status ELSE j.status
         IN [r EXCEPT !.status = status, !.count = j.count, !.steps = j.steps,
                      !.result = IF status = "cancelled" THEN "none" ELSE j.result,
                      !.failure = IF status = "cancelled" THEN FALSE ELSE j.failure]

\* The row after projection j: older projections are dropped, terminal rows
\* keep their status, a pending cancellation freezes status and outcome.
\* (projectionMatches only avoids writing what is already there.)
Updated(r, j) ==
  IF r.count > j.count
    THEN r
    ELSE LET status == IF Terminal(r) THEN r.status
                       ELSE IF r.asked /\ j.status # "cancelled" THEN r.status
                       ELSE j.status
             silent == r.asked \/ status = "cancelled"
         IN [r EXCEPT !.status = status, !.count = j.count, !.steps = j.steps,
                      !.result = IF silent THEN "none" ELSE j.result,
                      !.failure = IF silent THEN FALSE ELSE j.failure]

-----------------------------------------------------------------------------
(* Requests.                                                               *)

Goto(p, step) == pc' = [pc EXCEPT ![p] = step] /\ UNCHANGED <<run, rec, upto>>

\* The request is answered, or it throws.
Return(p) ==
  /\ pc' = [pc EXCEPT ![p] = "idle"]
  /\ run' = [run EXCEPT ![p] = None]
  /\ rec' = [rec EXCEPT ![p] = None]
  /\ upto' = [upto EXCEPT ![p] = 0]

\* A row is found and the request goes on with a copy of it.
Load(p, k, step) ==
  /\ pc' = [pc EXCEPT ![p] = step]
  /\ run' = [run EXCEPT ![p] = k]
  /\ rec' = [rec EXCEPT ![p] = row[k]]
  /\ UNCHANGED upto

\* synchronizeAgentRun returns at once unless the record has a session and
\* is not terminal.
Live(r) == r.attached /\ ~Terminal(r)

\* Mutant: the row found on a conflict counts as reserved.
ReserveAgain(p, k) ==
  /\ pc[p] = "idle"
  /\ row' = [row EXCEPT ![k] =
       IF @ # None THEN @
       ELSE [status |-> "submitting", attached |-> FALSE, count |-> 0, steps |-> 0,
             result |-> "none", failure |-> FALSE, asked |-> FALSE]]
  /\ pc' = [pc EXCEPT ![p] = "starting"]
  /\ run' = [run EXCEPT ![p] = k]
  /\ UNCHANGED <<rec, upto, elapsed, eveVars, starts>>

\* startAgentRun, store.reserve.  A key that has a row is a replay or a
\* conflict and changes nothing.
Reserve(p, k) ==
  /\ pc[p] = "idle"
  /\ row[k] = None
  /\ row' = [row EXCEPT ![k] =
       [status |-> "submitting", attached |-> FALSE, count |-> 0, steps |-> 0,
        result |-> "none", failure |-> FALSE, asked |-> FALSE]]
  /\ pc' = [pc EXCEPT ![p] = "starting"]
  /\ run' = [run EXCEPT ![p] = k]
  /\ UNCHANGED <<rec, upto, elapsed, eveVars, starts>>

\* runtime.start: Eve creates the session and says so, refuses with a 4xx,
\* or the outcome is unknown.
RuntimeStart(p) ==
  /\ pc[p] = "starting"
  /\ starts' = [starts EXCEPT ![run[p]] = @ + 1]
  /\ \/ eve' = [eve EXCEPT ![run[p]] = "queued"] /\ Goto(p, "attaching")
     \/ UNCHANGED eve /\ Goto(p, "rejecting")
     \/ eve' \in {eve, [eve EXCEPT ![run[p]] = "queued"]} /\ Goto(p, "doubting")
  /\ UNCHANGED <<row, elapsed, log, waits, stopping>>

\* store.attachSession; it throws when the database fails, before or after
\* the update took effect.
Attach(p) ==
  /\ pc[p] = "attaching"
  /\ LET k == run[p]
         attached == [row EXCEPT ![k].attached = TRUE, ![k].status = "running"]
     IN \/ row[k].status = "submitting" /\ row' = attached /\ Return(p)
        \/ row[k].status = "submitting" /\ row' = attached /\ Goto(p, "doubting")
        \/ UNCHANGED row /\ Goto(p, "doubting")
  /\ UNCHANGED <<elapsed, eveVars, starts>>

\* Mutant: the disposition of the request is written as the run's status.
ConcludeWithDisposition(p, step, status) ==
  /\ pc[p] = step
  /\ LET k == run[p] IN
       row' = IF row[k].status = "submitting"
                THEN [row EXCEPT ![k].status = "rejected", ![k].failure = TRUE]
                ELSE row
  /\ Return(p)
  /\ UNCHANGED <<elapsed, eveVars, starts>>

\* Mutant: the row is concluded whatever its status.
ConcludeUnguarded(p, step, status) ==
  /\ pc[p] = step
  /\ row' = [row EXCEPT ![run[p]].status = status, ![run[p]].failure = TRUE]
  /\ Return(p)
  /\ UNCHANGED <<elapsed, eveVars, starts>>

\* store.markSubmissionFailed and store.markSubmissionAmbiguous; they throw
\* when the row is no longer submitting.
Conclude(p, step, status) ==
  /\ pc[p] = step
  /\ LET k == run[p] IN
       row' = IF row[k].status = "submitting"
                THEN [row EXCEPT ![k].status = status, ![k].failure = TRUE]
                ELSE row
  /\ Return(p)
  /\ UNCHANGED <<elapsed, eveVars, starts>>

MarkSubmissionFailed(p) == Conclude(p, "rejecting", "failed")
MarkSubmissionAmbiguous(p) == Conclude(p, "doubting", "submission-ambiguous")

\* inspectAgentRun and readAgentRunEvents, store.findOwned.
Inspect(p, k) ==
  /\ pc[p] = "idle"
  /\ row[k] # None /\ Live(row[k])
  /\ Load(p, k, "reading")
  /\ UNCHANGED <<row, elapsed, eveVars, starts>>

\* cancelAgentRun, store.findOwned: a terminal run is returned, one without
\* a session is refused.
Cancel(p, k) ==
  /\ pc[p] = "idle"
  /\ row[k] # None /\ Live(row[k])
  /\ Load(p, k, IF row[k].asked THEN "sleeping" ELSE "requesting")
  /\ UNCHANGED <<row, elapsed, eveVars, starts>>

\* store.markCancellationRequested; the status is not looked at.
MarkCancellationRequested(p) ==
  /\ pc[p] = "requesting"
  /\ row' = [row EXCEPT ![run[p]].asked = TRUE]
  /\ pc' = [pc EXCEPT ![p] = "interrupting"]
  /\ rec' = [rec EXCEPT ![p] = row'[run[p]]]
  /\ UNCHANGED <<run, upto, elapsed, eveVars, starts>>

\* runtime.cancel: accepted, or no_active_turn.
RuntimeCancel(p) ==
  /\ pc[p] = "interrupting"
  /\ stopping' = [stopping EXCEPT ![run[p]] = @ \/ eve[run[p]] = "turn"]
  /\ Goto(p, "sleeping")
  /\ UNCHANGED <<row, elapsed, eve, log, waits, starts>>

\* The sleep runs on this process's timer; whether the grace period is over
\* is decided later, against the database's clock.
Wake(p) ==
  /\ pc[p] = "sleeping"
  /\ IF Live(rec[p]) THEN Goto(p, "reading") ELSE Return(p)
  /\ UNCHANGED <<row, elapsed, eveVars, starts>>

GraceElapses(k) ==
  /\ row[k] # None /\ row[k].asked
  /\ ~elapsed[k]
  /\ elapsed' = [elapsed EXCEPT ![k] = TRUE]
  /\ UNCHANGED <<row, requestVars, eveVars, starts>>

\* synchronizeAgentRun, runtime.readEvents: at most a page past the record.
Read(p) ==
  /\ pc[p] = "reading"
  /\ LET tail == Len(log[run[p]])
         end == IF tail > rec[p].count + PageSize THEN rec[p].count + PageSize ELSE tail
     IN /\ upto' = [upto EXCEPT ![p] = end]
        /\ pc' = [pc EXCEPT ![p] = IF end > rec[p].count THEN "projecting" ELSE "deciding"]
  /\ UNCHANGED <<run, rec, row, elapsed, eveVars, starts>>

\* store.updateProjection
Project(p) ==
  /\ pc[p] = "projecting"
  /\ LET k == run[p]
         page == SubSeq(log[k], rec[p].count + 1, upto[p])
         next == Updated(row[k], Projection(rec[p], page))
     IN /\ row' = [row EXCEPT ![k] = next]
        /\ rec' = [rec EXCEPT ![p] = next]
  /\ pc' = [pc EXCEPT ![p] = "deciding"]
  /\ UNCHANGED <<run, upto, elapsed, eveVars, starts>>

\* Mutant: the run is marked cancelled without resetting its session.
DecideWithoutReset(p) ==
  /\ pc[p] = "deciding"
  /\ IF rec[p].status # "cancelled" /\ rec[p].asked /\ elapsed[run[p]]
       THEN Goto(p, "cancelling")
       ELSE Return(p)
  /\ UNCHANGED <<row, elapsed, eveVars, starts>>

\* Mutant: a recorded stop is left to Eve.
DecideNever(p) ==
  /\ pc[p] = "deciding"
  /\ Return(p)
  /\ UNCHANGED <<row, elapsed, eveVars, starts>>

\* A cancellation whose grace period is over is enforced.
Decide(p) ==
  /\ pc[p] = "deciding"
  /\ IF rec[p].status # "cancelled" /\ rec[p].asked /\ elapsed[run[p]]
       THEN Goto(p, "resetting")
       ELSE Return(p)
  /\ UNCHANGED <<row, elapsed, eveVars, starts>>

\* runtime.reset, by the session's stable ID.
Reset(p) ==
  /\ pc[p] = "resetting"
  /\ eve' = [eve EXCEPT ![run[p]] = "closed"]
  /\ Goto(p, "cancelling")
  /\ UNCHANGED <<row, elapsed, log, waits, stopping, starts>>

\* store.markCancelled
MarkCancelled(p) ==
  /\ pc[p] = "cancelling"
  /\ row' = [row EXCEPT ![run[p]].status = "cancelled", ![run[p]].result = "none",
                        ![run[p]].failure = FALSE]
  /\ Return(p)
  /\ UNCHANGED <<elapsed, eveVars, starts>>

\* The process dies, or a call throws outside a try block: whatever the
\* request had done by then stays done.
Fails(p) ==
  /\ pc[p] # "idle"
  /\ Return(p)
  /\ UNCHANGED <<row, elapsed, eveVars, starts>>

-----------------------------------------------------------------------------
(* The Eve session of a run (external).                                    *)

Emit(k, e) == Len(log[k]) < MaxEvents /\ log' = [log EXCEPT ![k] = Append(@, e)]

TurnStarts(k) ==
  /\ eve[k] = "queued"
  /\ Emit(k, "turn.started")
  /\ eve' = [eve EXCEPT ![k] = "turn"]
  /\ UNCHANGED <<waits, stopping>>

Works(k) ==
  /\ eve[k] = "turn"
  /\ \E e \in {"step.completed", "message.completed", "result.completed"} : Emit(k, e)
  /\ UNCHANGED <<eve, waits, stopping>>

Asks(k, w) ==
  /\ eve[k] = "turn"
  /\ w \notin waits[k]
  /\ BothWaits \/ waits[k] = {}
  /\ Emit(k, IF w = "input" THEN "input.requested" ELSE "authorization.required")
  /\ waits' = [waits EXCEPT ![k] = @ \cup {w}]
  /\ UNCHANGED <<eve, stopping>>

Authorized(k) ==
  /\ eve[k] \in {"turn", "waiting"}
  /\ "authorization" \in waits[k]
  /\ Emit(k, "authorization.completed")
  /\ waits' = [waits EXCEPT ![k] = @ \ {"authorization"}]
  /\ eve' = [eve EXCEPT ![k] = "turn"]
  /\ UNCHANGED stopping

Replied(k) ==
  /\ eve[k] = "waiting"
  /\ "input" \in waits[k]
  /\ Emit(k, "message.received")
  /\ waits' = [waits EXCEPT ![k] = {}]
  /\ eve' = [eve EXCEPT ![k] = "turn"]
  /\ UNCHANGED stopping

SessionWaits(k) ==
  /\ eve[k] \in {"turn", "ended"}
  /\ Emit(k, "session.waiting")
  /\ waits' = [waits EXCEPT ![k] = IF eve[k] = "ended" THEN {} ELSE @]
  /\ eve' = [eve EXCEPT ![k] = "waiting"]
  /\ UNCHANGED stopping

SessionCompletes(k) ==
  /\ eve[k] = "turn" /\ waits[k] = {}
  /\ Emit(k, "session.completed")
  /\ eve' = [eve EXCEPT ![k] = "closed"]
  /\ UNCHANGED <<waits, stopping>>

\* A failure or an accepted cancellation ends the turn.
TurnBreaks(k) ==
  /\ eve[k] = "turn"
  /\ \/ Emit(k, "turn.failed")
     \/ stopping[k] /\ Emit(k, "turn.cancelled")
  /\ eve' = [eve EXCEPT ![k] = "ended"]
  /\ UNCHANGED <<waits, stopping>>

SessionFails(k) ==
  /\ eve[k] \in {"turn", "ended"} \/ (eve[k] = "waiting" /\ waits[k] # {})
  /\ Emit(k, "session.failed")
  /\ eve' = [eve EXCEPT ![k] = "closed"]
  /\ UNCHANGED <<waits, stopping>>

Session(k) ==
  /\ \/ TurnStarts(k) \/ Works(k) \/ Authorized(k) \/ Replied(k) \/ SessionWaits(k)
     \/ SessionCompletes(k) \/ TurnBreaks(k) \/ SessionFails(k)
     \/ \E w \in {"input", "authorization"} : Asks(k, w)
  /\ UNCHANGED <<row, elapsed, requestVars, starts>>

-----------------------------------------------------------------------------
\* A step of an open request other than its failing.
Proceeds(p) ==
  \/ RuntimeStart(p) \/ Attach(p) \/ MarkSubmissionFailed(p) \/ MarkSubmissionAmbiguous(p)
  \/ MarkCancellationRequested(p) \/ RuntimeCancel(p) \/ Wake(p)
  \/ Read(p) \/ Project(p) \/ Decide(p) \/ Reset(p) \/ MarkCancelled(p)

Next ==
  \/ \E p \in Requests :
       \/ \E k \in Runs : Reserve(p, k) \/ Inspect(p, k) \/ Cancel(p, k)
       \/ Proceeds(p)
       \/ Fails(p)
  \/ \E k \in Runs : GraceElapses(k) \/ Session(k)

Spec == Init /\ [][Next]_vars

(***************************************************************************)
(* Scheduling.  The grace period passes, the host keeps inspecting a run   *)
(* it asked to stop, and its requests do not fail for ever.  Nothing is    *)
(* assumed of Eve, nor of the request that asked.                          *)
(***************************************************************************)
Fairness ==
  /\ \A k \in Runs : WF_vars(GraceElapses(k))
  /\ \A p \in Requests :
       /\ \A k \in Runs : SF_vars(Inspect(p, k))
       /\ WF_vars(Proceeds(p) \/ Fails(p))
       /\ SF_vars(Read(p)) /\ SF_vars(Project(p)) /\ SF_vars(Decide(p))
       /\ SF_vars(Reset(p)) /\ SF_vars(MarkCancelled(p))

FairSpec == Spec /\ Fairness

-----------------------------------------------------------------------------
(* Properties.                                                             *)

Exists(k) == row[k] # None

\* What the loop makes of the whole stream, event by event.
Whole(k) ==
  Loop(Begin([status |-> "running", result |-> "none", failure |-> FALSE, steps |-> 0]), log[k])

\* The runtime is asked to start a run at most once, whatever requests with
\* its idempotency key overlap, fail or are repeated.
StartedOnce == \A k \in Runs : starts[k] <= 1

\* The session can do nothing more: it is closed, or Eve recorded that the
\* turn was cancelled.
Stopped(k) ==
  \/ eve[k] = "closed"
  \/ \E i \in DOMAIN log[k] : log[k][i] = "turn.cancelled"

\* A cancelled run cannot produce anything any more: its session was reset,
\* or Eve recorded that the turn was cancelled.
CancelledIsStopped ==
  \A k \in Runs : (Exists(k) /\ row[k].status = "cancelled") => Stopped(k)

\* docs/architecture.md:154-157: once the stop is recorded, late output can
\* neither publish a result nor take the run anywhere but to cancelled.
StopIsHonoured ==
  [][\A k \in Runs : (Exists(k) /\ row[k].asked) =>
       /\ row'[k].status \in {row[k].status, "cancelled"}
       /\ row'[k].result \in {row[k].result, "none"}]_vars

\* docs/architecture.md:147-149: the row stores the latest status, result and
\* failure of the stream, wherever the polls cut it into pages, and its usage
\* is never counted twice or lost, however synchronizations overlap.
ProjectionIsOfTheStream ==
  \A k \in Runs : Exists(k) =>
    /\ row[k].count <= Len(log[k])
    /\ row[k].steps = Cardinality({i \in 1..row[k].count : log[k][i] = "step.completed"})
    /\ (row[k].attached /\ ~row[k].asked) =>
         LET whole == Whole(k)[row[k].count]
         IN /\ row[k].status = whole.status
            /\ row[k].status # "cancelled" =>
                 row[k].result = whole.result /\ row[k].failure = whole.failure

\* A run is never reported completed, which ends its synchronization for good,
\* while its turn still waits for its host.
CompletedIsOver ==
  \A k \in Runs : (Exists(k) /\ row[k].status = "completed") => waits[k] = {}

\* docs/architecture.md:159-160: a turn that completed before the stop request
\* remains completed, and so does the result its host has read.
CompletedStays ==
  [][\A k \in Runs : (Exists(k) /\ row[k].status = "completed") =>
       /\ row'[k].status = "completed"
       /\ row'[k].result = row[k].result]_vars

\* A stop that was recorded ends the run even if the request that recorded it
\* died before it reached Eve and Eve never settles.
StopSettles ==
  \A k \in Runs : (Exists(k) /\ row[k].asked) ~> (Exists(k) /\ Terminal(row[k]))

-----------------------------------------------------------------------------
(* The abstract specification a run implements.                            *)

\* What the status column promises: a run that failed without a session was
\* refused.
PhaseOf(r) ==
  IF r = None THEN "absent"
  ELSE CASE r.status \in {"running", "waiting-input", "waiting-authorization"} -> "open"
         [] r.status = "failed" -> IF r.attached THEN "failed" ELSE "refused"
         [] r.status = "submission-ambiguous" -> "ambiguous"
         [] OTHER -> r.status

SessionOf(k) ==
  CASE starts[k] = 0 -> "unasked"
    [] starts[k] # 0 /\ eve[k] = "none" -> "unborn"
    [] starts[k] # 0 /\ eve[k] # "none" -> IF Stopped(k) THEN "over" ELSE "live"

\* The promise a row makes of a session.
PromiseOf(r, session) ==
  [phase |-> PhaseOf(r), session |-> session, stopped |-> r # None /\ r.asked,
   result |-> IF r # None THEN r.result ELSE "none"]

Promised(k) == PromiseOf(row[k], SessionOf(k))

Published == [k \in Runs |-> Promised(k)]

Promise == INSTANCE RunContract WITH promise <- Published

\* Every behaviour of the rows, requests and sessions is one of the contract:
\* no poll, retry, late answer or crash takes back what a status promised,
\* cancels a run its host did not stop, or calls a run refused that lives.
ImplementsContract == Promise!Spec
=============================================================================
