----------------------------- MODULE ThreadView -----------------------------
(***************************************************************************)
(* One thread in one browser tab: the view that submits turns and follows  *)
(* the Eve stream (agent-thread.tsx), the recovery loop that catches up    *)
(* with the durable stream (recoverThread in agent-workspace.tsx), and the *)
(* queue of follow-ups that both of them write.                            *)
(*                                                                         *)
(* The view is remounted whenever recovery begins or ends, so an answer    *)
(* may reach a view that no longer exists: it still writes the thread,     *)
(* from the queue it last saw.  One step is the code between two awaits.   *)
(*                                                                         *)
(* The mailbox server (module Mailbox) and the Eve session are here by     *)
(* what the browser sees of them.  Input requests, an unready provider and *)
(* attachments, which only disable the composer, are left out.             *)
(***************************************************************************)
EXTENDS Integers, Sequences, FiniteSets, SequencesExt

CONSTANTS
  Turns,      \* messages the user may type
  NoTurn,
  QueueLimit, \* MAX_QUEUED_FOLLOW_UPS
  MaxLog,     \* bound: durable events
  MaxCalls    \* bound: mailbox calls under way

ASSUME ThreadViewAssumption ==
  /\ NoTurn \notin Turns
  /\ QueueLimit \in Nat \ {0}
  /\ MaxLog \in Nat /\ MaxCalls \in Nat

VARIABLES
  mailboxed,  \* the host provides a mailbox
  log,        \* the durable Eve stream
  items,      \* the session's mailbox, in FIFO order
  thread,     \* the AgentThread in the workspace's state
  view,       \* the mounted AgentThreadView
  frozen,     \* queuedTurnsRef of each view that was unmounted
  calls,      \* mailbox requests under way
  sending,    \* turns sent to Eve and not yet answered
  recovery    \* the locals of recoverThread

threadVars == <<mailboxed, log, items, thread, view, frozen, calls, sending, recovery>>

Received(t) == [type |-> "received", turn |-> t]
Other(type) == [type |-> type, turn |-> NoTurn]
Event == {Received(t) : t \in Turns} \cup {Other(k) : k \in {"waiting", "failed"}}

\* AgentQueuedTurn; item tells whether mailboxItemId is known.
Queued == [id: Turns, item: BOOLEAN,
           state: {"queued", "delivery-failed", "admission-ambiguous"}]

ItemStatus == {"queued", "failed", "submission-ambiguous", "committed", "cancelled"}

Pending == [id: Turns \cup {NoTurn},
            state: {"none", "submitting", "resubmitting", "delivery-failed"}]
NoPending == [id |-> NoTurn, state |-> "none"]

\* Views that calls may belong to: one for each call, and the one on screen.
Gens == 0..MaxCalls

View == [mode: {"ready", "recovering"}, agent: {"ready", "busy", "error"},
         dispatching: Turns \cup {NoTurn}, asked: BOOLEAN,
         cancelling: BOOLEAN, editing: Turns \cup {NoTurn}, gen: Gens]

\* result is what the server did, and none while it has not done it.
Call == [kind: {"enqueue", "cancel", "retry"}, turn: Turns, gen: Gens,
         result: ItemStatus \cup {"none", "refused"}]

\* after is what follows the refresh of the queue that is under way.
Recovery == [at: {"off", "refreshing", "reading", "tailing"},
             after: {"loop", "boundary", "end"}, queue: Seq(Queued), pending: Pending,
             events: Seq(Event), cursor: Nat, consumed: BOOLEAN, checked: BOOLEAN,
             settled: BOOLEAN]

ThreadTypeOK ==
  /\ mailboxed \in BOOLEAN
  /\ log \in Seq(Event) /\ Len(log) <= MaxLog
  /\ items \in Seq([turn: Turns, status: ItemStatus])
  /\ thread \in [queue: Seq(Queued), pending: Pending, events: Seq(Event),
                 cursor: Nat, session: BOOLEAN]
  /\ Len(thread.queue) <= Cardinality(Turns)
  /\ view \in View
  /\ frozen \in [Gens -> Seq(Queued)]
  /\ calls \subseteq Call
  /\ sending \subseteq Turns
  /\ recovery \in Recovery

NoneFrozen == [g \in Gens |-> <<>>]
NewView(mode, gen) ==
  [mode |-> mode, agent |-> "ready", dispatching |-> NoTurn, asked |-> FALSE,
   cancelling |-> FALSE, editing |-> NoTurn, gen |-> gen]

NoRecovery == [at |-> "off", after |-> "loop", queue |-> <<>>, pending |-> NoPending,
               events |-> <<>>, cursor |-> 0, consumed |-> FALSE, checked |-> FALSE,
               settled |-> FALSE]

ThreadInit ==
  /\ mailboxed \in BOOLEAN
  /\ log = <<>>
  /\ items = <<>>
  /\ thread = [queue |-> <<>>, pending |-> NoPending, events |-> <<>>, cursor |-> 0,
               session |-> FALSE]
  /\ view = NewView("ready", 0)
  /\ frozen = NoneFrozen
  /\ calls = {}
  /\ sending = {}
  /\ recovery = NoRecovery

-----------------------------------------------------------------------------
(* Queues of follow-ups.                                                   *)

IdsIn(q) == {u.id : u \in ToSet(q)}

\* The turns of q that are in S, in their order.
Only(q, S) ==
  LET kept[i \in 0..Len(q)] ==
        IF i = 0 THEN <<>> ELSE IF q[i] \in S THEN Append(kept[i - 1], q[i]) ELSE kept[i - 1]
  IN kept[Len(q)]
WithoutTurn(q, t) == Only(q, {u \in ToSet(q) : u.id # t})
WithState(q, t, state) ==
  [i \in DOMAIN q |-> IF q[i].id = t THEN [q[i] EXCEPT !.state = state] ELSE q[i]]
WithItem(q, t, state) ==
  [i \in DOMAIN q |-> IF q[i].id = t THEN [q[i] EXCEPT !.item = TRUE, !.state = state] ELSE q[i]]

\* The server holds it: what hasPendingServerQueue and the view's own tests ask.
OnServer(u) == mailboxed /\ u.state = "queued" /\ u.item
ServerQueue(q) == Only(q, {u \in ToSet(q) : OnServer(u)})

IsBoundary(e) == e.type \in {"waiting", "failed"}

\* mailboxTurnState, and mailboxQueueState
TurnState(status) ==
  CASE status = "failed" -> "delivery-failed"
    [] status = "submission-ambiguous" -> "admission-ambiguous"
    [] status = "cancelled" -> "cancelled"
    [] OTHER -> "queued"

StatusOf(t) == (CHOOSE x \in ToSet(items) : x.turn = t).status

\* The receipts of the turns in seen, applied to a queue; the others' requests failed.
Refreshed(q, seen) ==
  LET state(u) == IF u.id \in seen THEN TurnState(StatusOf(u.id)) ELSE u.state
      kept == Only(q, {u \in ToSet(q) : state(u) # "cancelled"})
  IN [i \in DOMAIN kept |-> [kept[i] EXCEPT !.state = state(kept[i])]]

\* Which queued turn leaves when message.received arrives without a pending turn:
\* the first the server holds, whichever message the event carries.
AfterReceipt(q, e) ==
  IF ServerQueue(q) = <<>> THEN q ELSE WithoutTurn(q, Head(ServerQueue(q)).id)

\* threadNeedsRecovery, when the page loads
NeedsRecovery(th) ==
  /\ th.session
  /\ \/ ServerQueue(th.queue) # <<>>
     \/ th.events = <<>>
     \/ ~IsBoundary(Last(th.events))

Busy == view.mode = "recovering" \/ view.agent = "busy"

\* queuedTurnsRef of the view that was mounted as number g
QueueRef(g) == IF g = view.gen THEN thread.queue ELSE frozen[g]

\* The ref of a view that is gone matters while a call of it is under way.
Frozen(g, q) ==
  IF g = view.gen THEN frozen
  ELSE [frozen EXCEPT ![g] = IF \E c \in calls' : c.gen = g THEN q ELSE <<>>]

\* updateQueuedTurns of that view: onChange writes the thread even when it is gone.
WriteQueue(g, q) ==
  /\ thread' = [thread EXCEPT !.queue = q]
  /\ frozen' = Frozen(g, q)
LeaveQueue(g) ==
  /\ UNCHANGED thread
  /\ frozen' = Frozen(g, frozen[g])

\* The key of the view changes: its state is lost, and its ref stays as it was
\* for the calls that outlive it.  A number without calls is used again.
Remount(mode) ==
  LET outlived == \E c \in calls : c.gen = view.gen
      next == IF outlived THEN CHOOSE g \in Gens : \A c \in calls : c.gen # g ELSE view.gen IN
  /\ view' = NewView(mode, next)
  /\ frozen' = IF outlived THEN [frozen EXCEPT ![view.gen] = thread.queue] ELSE frozen


-----------------------------------------------------------------------------
(* The Eve session and the mailbox server.                                 *)

EveIdle == log # <<>> => Last(log).type = "waiting"
EveRuns == log # <<>> /\ Last(log).type = "received"
Emit(e) == Len(log) < MaxLog /\ log' = Append(log, e)

\* The turn ends.  What it emits on the way is left out: no view tells it from
\* the message that began it.
EveEnds ==
  /\ EveRuns
  /\ \E type \in {"waiting", "failed"} : Emit(Other(type))
  /\ UNCHANGED <<mailboxed, items, thread, view, frozen, calls, sending, recovery>>

\* The turn the browser sent is admitted; the session exists from then on.
EveAdmits(t) ==
  /\ t \in sending
  /\ EveIdle
  /\ Emit(Received(t))
  /\ sending' = sending \ {t}
  /\ thread' = [thread EXCEPT !.session = TRUE]
  /\ UNCHANGED <<mailboxed, items, view, frozen, calls, recovery>>

\* The index of the item that FIFO serves next, 0 when there is none.
HeadIndex ==
  LET open == {i \in DOMAIN items : items[i].status \notin {"committed", "cancelled"}}
  IN IF open = {} THEN 0 ELSE CHOOSE i \in open : \A j \in open : i <= j

\* The dispatcher sends the head of the queue while Eve waits: admitted, refused
\* for good, or in doubt.
MailboxDelivers ==
  LET i == HeadIndex IN
  /\ i # 0 /\ items[i].status = "queued" /\ ~EveRuns
  /\ \/ EveIdle /\ Emit(Received(items[i].turn)) /\ items' = [items EXCEPT ![i].status = "committed"]
     \/ /\ items' \in {[items EXCEPT ![i].status = s] : s \in {"failed", "submission-ambiguous"}}
        /\ UNCHANGED log
  /\ UNCHANGED <<mailboxed, thread, view, frozen, calls, sending, recovery>>

\* A message in doubt turns out to have been admitted: the hook commits its item.
MailboxPromotes ==
  LET i == HeadIndex IN
  /\ i # 0 /\ items[i].status = "submission-ambiguous" /\ EveIdle
  /\ Emit(Received(items[i].turn))
  /\ items' = [items EXCEPT ![i].status = "committed"]
  /\ UNCHANGED <<mailboxed, thread, view, frozen, calls, sending, recovery>>

\* Mutant: a repeated clientMessageId is a new item.
EnqueueAgain(t) == Append(items, [turn |-> t, status |-> "queued"])

\* The route enqueues by clientMessageId, which it recognises when it is repeated.
Enqueue(t) ==
  IF \E x \in ToSet(items) : x.turn = t THEN items
  ELSE Append(items, [turn |-> t, status |-> "queued"])

\* The mailbox route answers a request; cancel and retry are refused where the
\* status forbids them.
ServeCall(c) ==
  LET after == CASE c.kind = "enqueue" -> Enqueue(c.turn)
                 [] c.kind = "cancel" ->
                      [i \in DOMAIN items |-> IF items[i].turn = c.turn /\ items[i].status \in {"queued", "failed"}
                                              THEN [items[i] EXCEPT !.status = "cancelled"] ELSE items[i]]
                 [] OTHER ->
                      [i \in DOMAIN items |-> IF items[i].turn = c.turn /\ items[i].status = "failed"
                                              THEN [items[i] EXCEPT !.status = "queued"] ELSE items[i]]
      found == {x \in ToSet(after) : x.turn = c.turn}
      result == IF c.kind # "enqueue" /\ after = items THEN "refused"
                ELSE (CHOOSE x \in found : TRUE).status IN
  /\ c \in calls /\ c.result = "none"
  /\ items' = after
  /\ calls' = (calls \ {c}) \cup {[c EXCEPT !.result = result]}
  /\ UNCHANGED <<mailboxed, log, thread, view, frozen, sending, recovery>>

-----------------------------------------------------------------------------
(* What the user does.                                                     *)

Known == IdsIn(thread.queue) \cup {x.turn : x \in ToSet(items)} \cup sending
           \cup {e.turn : e \in ToSet(log)} \cup {thread.pending.id, view.editing}
           \cup {c.turn : c \in calls} \cup IdsIn(recovery.queue)
           \cup UNION {IdsIn(frozen[g]) : g \in Gens}

\* A new message has an id of its own.
NewTurns == IF Turns \subseteq Known THEN {} ELSE {CHOOSE t \in Turns : t \notin Known}

\* agent.send of a turn the view admitted; prepareTurn came first.
Send(t, dispatching) ==
  /\ view' = [view EXCEPT !.agent = "busy", !.dispatching = dispatching,
                          !.asked = FALSE, !.cancelling = FALSE]
  /\ thread' = [thread EXCEPT !.pending = [id |-> t, state |-> "submitting"]]
  /\ sending' = sending \cup {t}
  /\ UNCHANGED <<mailboxed, log, items, frozen, calls, recovery>>

\* submit: a new message is sent when the view is idle and queued when it is not.
Submit(t) ==
  /\ t \in NewTurns
  /\ IF ~Busy
     THEN Send(t, view.dispatching)
     ELSE /\ Len(thread.queue) < QueueLimit
          /\ thread' = [thread EXCEPT !.queue =
               Append(@, [id |-> t, item |-> FALSE, state |-> "queued"])]
          /\ UNCHANGED <<mailboxed, log, items, view, frozen, calls, sending, recovery>>

AddCall(kind, t) ==
  /\ Cardinality(calls) < MaxCalls
  /\ calls' = calls \cup {[kind |-> kind, turn |-> t, gen |-> view.gen, result |-> "none"]}
  /\ UNCHANGED <<mailboxed, log, items, thread, view, frozen, sending, recovery>>

\* markQueuedTurnForRetry: a turn the server holds is retried there.
RetryTurn(u) ==
  /\ u \in ToSet(thread.queue) /\ u.state = "delivery-failed"
  /\ IF mailboxed /\ u.item
     THEN AddCall("retry", u.id)
     ELSE /\ WriteQueue(view.gen, WithState(thread.queue, u.id, "queued"))
          /\ UNCHANGED <<mailboxed, log, items, view, calls, sending, recovery>>

\* removeQueuedTurn, for a turn whose state offers the button.
RemoveTurn(u) ==
  /\ u \in ToSet(thread.queue) /\ u.state # "admission-ambiguous"
  /\ u.id # view.dispatching
  /\ IF mailboxed /\ u.item
     THEN AddCall("cancel", u.id)
     ELSE /\ WriteQueue(view.gen, WithoutTurn(thread.queue, u.id))
          /\ UNCHANGED <<mailboxed, log, items, view, calls, sending, recovery>>

\* requestCancellation: Eve is asked to end the turn; the stream goes on.
RequestCancellation ==
  /\ Busy /\ ~view.cancelling
  /\ view' = [view EXCEPT !.cancelling = TRUE]
  /\ UNCHANGED <<mailboxed, log, items, thread, frozen, calls, sending, recovery>>

\* The answer: there was no active turn.
NothingToCancel ==
  /\ view.cancelling /\ ~EveRuns
  /\ view' = [view EXCEPT !.cancelling = FALSE]
  /\ UNCHANGED <<mailboxed, log, items, thread, frozen, calls, sending, recovery>>

\* onEdit: clears the session's history, and awaits the boundary.
BeginEdit(t) ==
  /\ t \in NewTurns /\ ~Busy /\ thread.session /\ EveIdle
  /\ view.editing = NoTurn
  /\ view' = [view EXCEPT !.editing = t]
  /\ UNCHANGED <<mailboxed, log, items, thread, frozen, calls, sending, recovery>>

\* eventsBeforeLastUserTurn
EventsBeforeLastTurn(es) ==
  LET received == {i \in DOMAIN es : es[i].type = "received"}
  IN IF received = {} THEN es
     ELSE SubSeq(es, 1, (CHOOSE i \in received : \A j \in received : j <= i) - 1)

\* The boundary arrived: the edited turn replaces the last one, and the queue goes.
EndEdit ==
  /\ view.editing # NoTurn
  /\ EveIdle
  /\ Emit(Other("waiting"))
  /\ thread' = [thread EXCEPT !.events = EventsBeforeLastTurn(@), !.queue = <<>>,
       !.cursor = Len(log) + 1, !.pending = [id |-> view.editing, state |-> "resubmitting"]]
  /\ Remount(view.mode)
  /\ UNCHANGED <<mailboxed, items, calls, sending, recovery>>

\* The session does not take the clear, or the stream breaks: an error, and
\* nothing changes.
EditFails ==
  /\ view.editing # NoTurn
  /\ view' = [view EXCEPT !.editing = NoTurn]
  /\ UNCHANGED <<mailboxed, log, items, thread, frozen, calls, sending, recovery>>

\* The page is closed and opened again: the thread comes back from storage.
Reload ==
  /\ view' = NewView(IF NeedsRecovery(thread) THEN "recovering" ELSE "ready", 0)
  /\ calls' = {} /\ frozen' = NoneFrozen
  /\ recovery' = NoRecovery
  /\ UNCHANGED <<mailboxed, log, items, thread, sending>>

-----------------------------------------------------------------------------
(* The view follows the live stream.                                       *)

AtLog == log[thread.cursor + 1]
Unread == thread.cursor < Len(log)

\* handleEvent and the effect that copies events and cursor to the thread.
LiveEvent ==
  LET e == AtLog
      received == e.type = "received"
      queue == CASE ~received -> thread.queue
                 [] view.dispatching # NoTurn -> WithoutTurn(thread.queue, view.dispatching)
                 [] thread.pending # NoPending -> thread.queue
                 [] OTHER -> AfterReceipt(thread.queue, e) IN
  /\ view.mode = "ready" /\ view.agent = "busy" /\ Unread
  /\ thread' = [thread EXCEPT !.events = Append(@, e), !.cursor = @ + 1, !.queue = queue,
                              !.pending = IF received THEN NoPending ELSE @]
  /\ view' = [view EXCEPT !.dispatching = IF received THEN NoTurn ELSE @,
                          !.agent = IF IsBoundary(e) THEN "ready" ELSE "busy",
                          !.cancelling = IF e.type = "waiting" THEN FALSE ELSE @]
  /\ UNCHANGED <<mailboxed, log, items, frozen, calls, sending, recovery>>

\* The transport ends before a boundary.
StreamEnds ==
  /\ view.mode = "ready" /\ view.agent = "busy" /\ thread.session
  /\ view' = [view EXCEPT !.agent = "ready"]
  /\ UNCHANGED <<mailboxed, log, items, thread, frozen, calls, sending, recovery>>

\* The send fails, whether or not Eve admitted the turn; the error effect tells
\* the queue or, before there is a session, the pending turn.
SendFailed ==
  LET t == view.dispatching
      queue == IF t = NoTurn THEN thread.queue ELSE WithState(thread.queue, t, "delivery-failed")
      failed == [thread.pending EXCEPT !.state = "delivery-failed"] IN
  /\ view.mode = "ready" /\ view.agent = "busy"
  /\ thread.pending.state = "submitting"
  /\ view' = [view EXCEPT !.agent = "error", !.dispatching = NoTurn]
  /\ thread' = [thread EXCEPT !.queue = queue,
       !.pending = IF t # NoTurn THEN NoPending ELSE IF ~thread.session THEN failed ELSE @]
  /\ sending' = sending \ {thread.pending.id}
  /\ UNCHANGED <<mailboxed, log, items, frozen, calls, recovery>>

\* requestRecovery: the view goes, and recoverThread starts from the thread.
RequestRecovery ==
  /\ thread.session /\ view.mode = "ready"
  /\ Remount("recovering")
  /\ UNCHANGED <<mailboxed, log, items, thread, calls, sending, recovery>>

\* The probe finds durable events the stream did not bring.
ProbeFindsProgress == view.agent = "busy" /\ ~view.asked /\ Unread /\ RequestRecovery

\* The stream ended without a boundary.
StreamIsIncomplete ==
  /\ view.agent # "busy" /\ ~view.cancelling /\ ~view.asked
  /\ thread.events # <<>> /\ ~IsBoundary(Last(thread.events))
  /\ RequestRecovery

\* The server holds follow-ups, and nothing else would follow its turns.
FollowServerQueue ==
  /\ view.agent # "busy" /\ ~view.asked
  /\ ServerQueue(thread.queue) # <<>>
  /\ RequestRecovery

\* The 15 s after an accepted cancellation have passed without its boundary.
CancellationGrace == view.cancelling /\ RequestRecovery

\* The effect that hands queued turns to the mailbox, the first that is not
\* under way.
StartEnqueue ==
  LET next == Only(thread.queue, {u \in ToSet(thread.queue) :
                /\ u.state = "queued" /\ ~u.item
                /\ ~\E c \in calls : c.kind = "enqueue" /\ c.turn = u.id /\ c.gen = view.gen}) IN
  /\ mailboxed /\ thread.session
  /\ next # <<>>
  /\ AddCall("enqueue", Head(next).id)

\* A mailbox request is answered.
CallAnswered(c) ==
  LET q == QueueRef(c.gen)
      state == TurnState(c.result) IN
  /\ c \in calls /\ c.result # "none"
  /\ calls' = calls \ {c}
  /\ CASE c.kind = "enqueue" /\ state # "cancelled" ->
            WriteQueue(c.gen, WithItem(q, c.turn, state))
       [] c.kind = "enqueue" \/ (c.kind = "cancel" /\ c.result # "refused") ->
            WriteQueue(c.gen, WithoutTurn(q, c.turn))
       [] c.kind = "retry" /\ c.result # "refused" ->
            WriteQueue(c.gen, WithState(q, c.turn, "queued"))
       [] OTHER -> LeaveQueue(c.gen)
  /\ UNCHANGED <<mailboxed, log, items, view, sending, recovery>>

\* It fails, served or not: an enqueue is reported on its turn, the others as an
\* error message.
CallFailed(c) ==
  /\ c \in calls
  /\ calls' = calls \ {c}
  /\ IF c.kind = "enqueue"
     THEN WriteQueue(c.gen, WithState(QueueRef(c.gen), c.turn, "delivery-failed"))
     ELSE LeaveQueue(c.gen)
  /\ UNCHANGED <<mailboxed, log, items, view, sending, recovery>>

\* The poll of the queued items; an answer after a change of the queue is dropped.
PollQueue ==
  LET seen == IdsIn(ServerQueue(thread.queue))
      q == Refreshed(thread.queue, seen) IN
  /\ seen # {} /\ q # thread.queue
  /\ WriteQueue(view.gen, q)
  /\ UNCHANGED <<mailboxed, log, items, view, calls, sending, recovery>>

\* Without a mailbox the view sends the first queued turn itself.
DispatchLocally ==
  LET next == Only(thread.queue, {u \in ToSet(thread.queue) : u.state = "queued"}) IN
  /\ ~mailboxed /\ ~Busy /\ thread.session
  /\ view.dispatching = NoTurn
  /\ next # <<>>
  /\ Send(Head(next).id, Head(next).id)

\* The remounted view submits the edited turn.
Resubmit ==
  /\ thread.pending.state = "resubmitting" /\ ~Busy
  /\ Send(thread.pending.id, view.dispatching)

-----------------------------------------------------------------------------
(* recoverThread.                                                          *)

Step(r) == recovery' = r

\* The effect starts the loop for a thread in recoveringIds; its first await is
\* the refresh, which takes the queue from the workspace.
BeginRecovery ==
  /\ view.mode = "recovering" /\ recovery.at = "off"
  /\ Step([NoRecovery EXCEPT !.at = "refreshing", !.queue = thread.queue,
       !.pending = thread.pending, !.events = thread.events, !.cursor = thread.cursor])
  /\ UNCHANGED <<mailboxed, log, items, thread, view, frozen, calls, sending>>

\* currentBoundarySettles
BoundarySettles(r) ==
  /\ r.events # <<>> /\ IsBoundary(Last(r.events))
  /\ Last(r.events).type = "waiting" => ServerQueue(r.queue) = <<>>

\* The refresh before the next step starts from the workspace's queue.
Refresh(r, after) == Step([r EXCEPT !.at = "refreshing", !.after = after, !.queue = thread'.queue])

\* The last update, and the view is ready again.
Settle(r) ==
  /\ thread' = [thread EXCEPT !.queue = r.queue, !.pending = r.pending,
                              !.events = r.events, !.cursor = r.cursor]
  /\ Remount("ready")
  /\ Step(NoRecovery)

\* The refresh is answered for the turns in seen; it writes the thread only when
\* it differs from what the refresh began with.  Then the loop ends, reads, ends
\* its round or starts again.
QueueRefreshed ==
  \E seen \in SUBSET {u.id : u \in {x \in ToSet(recovery.queue) : mailboxed /\ x.item}} :
    LET r == [recovery EXCEPT !.queue = Refreshed(@, seen)]
        settles == BoundarySettles(r) IN
    /\ recovery.at = "refreshing"
    /\ IF (r.after # "boundary" /\ settles) \/ (r.after = "end" /\ r.settled)
       THEN Settle(r)
       ELSE /\ thread' = IF r = recovery THEN thread ELSE [thread EXCEPT !.queue = r.queue]
            /\ CASE r.after = "loop" -> Step([r EXCEPT !.at = "reading", !.consumed = FALSE])
                 [] r.after = "boundary" -> Refresh([r EXCEPT !.settled = settles], "end")
                 [] OTHER -> Refresh(r, "loop")
            /\ UNCHANGED <<view, frozen>>
    /\ UNCHANGED <<mailboxed, log, items, calls, sending>>

\* One event of the bounded read; every event writes the whole thread.
RecoverEvent ==
  LET r == recovery
      e == log[r.cursor + 1]
      received == e.type = "received"
      next == [r EXCEPT !.cursor = @ + 1, !.events = Append(@, e), !.consumed = TRUE,
                 !.pending = IF received THEN NoPending ELSE @,
                 !.queue = IF received /\ r.pending = NoPending
                           THEN AfterReceipt(@, e) ELSE @] IN
  /\ r.at = "reading" /\ r.cursor < Len(log)
  /\ thread' = [thread EXCEPT !.events = next.events, !.cursor = next.cursor,
                              !.pending = next.pending, !.queue = next.queue]
  /\ IF IsBoundary(e) THEN Refresh(next, "boundary") ELSE Step(next)
  /\ UNCHANGED <<mailboxed, log, items, view, frozen, calls, sending>>

\* The read reaches the durable tail, or fails with an error worth retrying.
ReadEnds ==
  LET r == recovery
      incomplete == r.events # <<>> /\ ~IsBoundary(Last(r.events)) IN
  /\ r.at = "reading"
  /\ UNCHANGED thread
  /\ IF ~r.consumed /\ ~r.checked /\ incomplete /\ r.cursor = Len(log)
     THEN Step([r EXCEPT !.at = "tailing", !.checked = TRUE])
     ELSE Refresh(r, "end")
  /\ UNCHANGED <<mailboxed, log, items, view, frozen, calls, sending>>

\* readTailBoundary: the last durable event, when it is a boundary, is added
\* without moving the cursor.
TailRead ==
  LET r == recovery
      next == [r EXCEPT !.events = Append(@, Last(log))] IN
  /\ r.at = "tailing" /\ log # <<>>
  /\ IF IsBoundary(Last(log))
     THEN /\ thread' = [thread EXCEPT !.events = next.events]
          /\ Refresh(next, "boundary")
     ELSE /\ UNCHANGED thread
          /\ Refresh(r, "end")
  /\ UNCHANGED <<mailboxed, log, items, view, frozen, calls, sending>>

\* An error that is not worth retrying: recovery gives up and the view is ready;
\* the alert offers another try.
RecoveryFails ==
  /\ recovery.at \in {"reading", "tailing"}
  /\ Remount("ready")
  /\ Step(NoRecovery)
  /\ UNCHANGED <<mailboxed, log, items, thread, calls, sending>>

RetryRecovery ==
  /\ view.agent # "busy" /\ RequestRecovery

-----------------------------------------------------------------------------
ThreadNext ==
  \/ EveEnds \/ MailboxDelivers \/ MailboxPromotes
  \/ \E t \in Turns : EveAdmits(t) \/ Submit(t) \/ BeginEdit(t)
  \/ \E c \in calls : ServeCall(c) \/ CallAnswered(c) \/ CallFailed(c)
  \/ \E u \in ToSet(thread.queue) : RetryTurn(u) \/ RemoveTurn(u)
  \/ RequestCancellation \/ NothingToCancel \/ CancellationGrace
  \/ EndEdit \/ EditFails \/ Reload
  \/ LiveEvent \/ StreamEnds \/ SendFailed
  \/ ProbeFindsProgress \/ StreamIsIncomplete \/ FollowServerQueue
  \/ StartEnqueue \/ PollQueue \/ DispatchLocally \/ Resubmit
  \/ BeginRecovery \/ QueueRefreshed \/ RecoverEvent \/ ReadEnds \/ TailRead
  \/ RecoveryFails \/ RetryRecovery

ThreadSpec == ThreadInit /\ [][ThreadNext]_threadVars

-----------------------------------------------------------------------------
(* Properties.                                                             *)

\* A host with a mailbox: no message reaches the session twice, whatever is
\* retried, remounted, reloaded or answered late.
DeliveredOnce ==
  mailboxed => \A i, j \in DOMAIN log :
    log[i].type = "received" /\ log[i] = log[j] => i = j

\* architecture.md: with a mailbox "the browser removes one queued item only when
\* the corresponding future message.received arrives".  The step of the live view
\* or of recovery that reads message.received removes no other turn.
RemovesTheReceived ==
  [][mailboxed /\ log' = log /\ thread'.cursor = thread.cursor + 1 /\ AtLog.type = "received" =>
       \A t \in IdsIn(thread.queue) \ IdsIn(thread'.queue) : t = AtLog.turn]_thread
=============================================================================
