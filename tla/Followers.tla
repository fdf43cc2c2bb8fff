----------------------------- MODULE Followers -----------------------------
(***************************************************************************)
(* The readers of a durable event stream: the sub-agent view of the        *)
(* workspace (agent-workspace/agent-child-session.tsx), the AgentSession   *)
(* of the client SDK (agent-client/src/eve-session-client.ts), and a Host  *)
(* that pages through an AgentRun's events (agent-run-client.ts and the    *)
(* events route).  Each keeps a cursor, the number of events it consumed,  *)
(* and reconnects from it.  The streams are Eve's, external.               *)
(*                                                                         *)
(* A behaviour has one follower of one kind; kind never changes.           *)
(***************************************************************************)
EXTENDS Naturals, Sequences

CONSTANTS
  StreamIds,       \* Eve sessions
  EventKinds,           \* kinds of events they record
  NoStream,        \* no session selected or created
  ReconnectLimit,  \* CHILD_STREAM_RECONNECT_LIMIT (8)
  PageSize,        \* AGENT_EVENT_PAGE_SIZE (200)
  MaxStream,       \* bound: events of a stream
  MaxOpened        \* bound: selections, restarts, sends and resets

StreamEvent == {"turn.started", "step", "input.requested", "turn.failed",
                "session.waiting", "session.completed", "session.failed"}
Ends == {"session.completed", "session.failed"}  \* isChildSessionBoundary

ASSUME FollowersAssumption ==
  /\ NoStream \notin StreamIds
  /\ EventKinds \subseteq StreamEvent
  /\ ReconnectLimit \in Nat /\ PageSize \in Nat \ {0}
  /\ MaxStream \in Nat /\ MaxOpened \in Nat

VARIABLES
  streams,   \* the events each session recorded
  follower,  \* the reader
  runRow,    \* the projected AgentRun: events counted, and whether it is terminal
  opened     \* selections, restarts, sends and resets so far

followersVars == <<streams, follower, runRow, opened>>

Phase == {"connecting", "running", "waiting", "reconnecting", "completed", "failed"}

\* loop: whether the for-await runs, sleeps between two of them, or is over.
Follower == [kind: {"child", "session", "run"},
             of: StreamIds \cup {NoStream},
             cursor: Nat,
             shown: Seq([of: StreamIds, at: Nat]),
             phase: Phase,
             failures: 0..(ReconnectLimit + 1),
             loop: {"reading", "sleeping", "over"},
             error: BOOLEAN]

FollowersTypeOK ==
  /\ streams \in [StreamIds -> Seq(StreamEvent)]
  /\ follower \in Follower
  /\ runRow \in [count: Nat, terminal: BOOLEAN]
  /\ opened \in 0..MaxOpened

FollowersInit ==
  /\ streams = [s \in StreamIds |-> <<>>]
  /\ follower \in
       {[kind |-> k, of |-> NoStream, cursor |-> 0, shown |-> <<>>, phase |-> "connecting",
         failures |-> 0, loop |-> "over", error |-> FALSE] : k \in {"child", "session", "run"}}
  /\ runRow = [count |-> 0, terminal |-> FALSE]
  /\ opened = 0

Over(s) == streams[s] # <<>> /\ streams[s][Len(streams[s])] \in Ends

\* Eve records an event; a session that ended records no more.
Record(s, e) ==
  /\ Len(streams[s]) < MaxStream /\ ~Over(s)
  /\ streams' = [streams EXCEPT ![s] = Append(@, e)]
  /\ UNCHANGED <<follower, runRow, opened>>

Opens == opened < MaxOpened /\ opened' = opened + 1

\* Is there an event the follower has not consumed?
Behind == follower.of # NoStream /\ follower.cursor < Len(streams[follower.of])

\* The next event of the stream, read from the cursor on.
Consumed ==
  [follower EXCEPT !.cursor = @ + 1,
                   !.shown = Append(@, [of |-> follower.of, at |-> follower.cursor + 1])]

-----------------------------------------------------------------------------
(* The sub-agent view.                                                     *)

PhaseAt(s, n) ==
  IF n = 0 THEN "connecting"
  ELSE LET last == streams[s][n] IN
    CASE last \in {"session.failed", "turn.failed"} -> "failed"
      [] last = "session.completed" -> "completed"
      [] last \in {"session.waiting", "input.requested"} -> "waiting"
      [] OTHER -> "running"

\* phaseFromChildEvents of what is shown.
ShownPhase == PhaseAt(follower.of, follower.cursor)

\* Mutant: the cursor survives the choice of another session.
SelectWithoutReset(s) ==
  /\ follower.kind = "child" /\ follower.of # s
  /\ Opens
  /\ follower' = [follower EXCEPT !.of = s, !.shown = <<>>, !.phase = "connecting",
                                  !.failures = 0, !.loop = "reading", !.error = FALSE]
  /\ UNCHANGED <<streams, runRow>>

\* The prop sessionId changes: the first effect empties the refs, the second
\* aborts the loop of the old session and starts one for the new.
Select(s) ==
  /\ follower.kind = "child" /\ follower.of # s
  /\ Opens
  /\ follower' = [follower EXCEPT !.of = s, !.shown = <<>>, !.cursor = 0,
                                  !.phase = "connecting", !.failures = 0,
                                  !.loop = "reading", !.error = FALSE]
  /\ UNCHANGED <<streams, runRow>>

\* Retry, or another client, locale or preference: the second effect alone.
RestartLoop ==
  /\ follower.kind = "child" /\ follower.of # NoStream
  /\ Opens
  /\ follower' = [follower EXCEPT !.failures = 0, !.loop = "reading", !.error = FALSE]
  /\ UNCHANGED <<streams, runRow>>

ChildConsumes ==
  /\ follower.kind = "child" /\ follower.loop = "reading" /\ Behind
  /\ follower' = [Consumed EXCEPT
       !.failures = 0, !.error = FALSE,
       !.phase = PhaseAt(follower.of, follower.cursor + 1),
       !.loop = IF streams[follower.of][follower.cursor + 1] \in Ends THEN "over" ELSE @]
  /\ UNCHANGED <<streams, runRow, opened>>

GivesUp == [follower EXCEPT !.loop = "over", !.phase = "failed", !.error = TRUE]

Reconnects == [follower EXCEPT !.failures = @ + 1, !.loop = "sleeping", !.phase = "reconnecting"]

\* The response ended before a boundary: poll a session that waits, reconnect
\* to any other.
ChildStreamEnds ==
  /\ follower.kind = "child" /\ follower.loop = "reading"
  /\ follower' =
       IF ShownPhase = "waiting" THEN [follower EXCEPT !.loop = "sleeping"]
       ELSE IF follower.failures >= ReconnectLimit THEN GivesUp
       ELSE Reconnects
  /\ UNCHANGED <<streams, runRow, opened>>

\* Mutant: the reader reconnects without a limit.
FailsUnbounded(retryable) ==
  /\ follower.kind = "child" /\ follower.loop = "reading"
  /\ follower' = IF retryable THEN Reconnects ELSE GivesUp
  /\ UNCHANGED <<streams, runRow, opened>>

\* The request or the response failed, with a cause isRetryableChildStreamError
\* accepts or with another one.
ChildStreamFails(retryable) ==
  /\ follower.kind = "child" /\ follower.loop = "reading"
  /\ follower' = IF retryable /\ follower.failures < ReconnectLimit THEN Reconnects ELSE GivesUp
  /\ UNCHANGED <<streams, runRow, opened>>

\* waitForRetry is over.
ChildWakes ==
  /\ follower.kind = "child" /\ follower.loop = "sleeping"
  /\ follower' = [follower EXCEPT !.loop = "reading"]
  /\ UNCHANGED <<streams, runRow, opened>>

\* stop(): session.cancel threw; the reader goes on.
StopRefused ==
  /\ follower.kind = "child" /\ follower.of # NoStream /\ ~follower.error
  /\ \E i \in 1..follower.cursor : streams[follower.of][i] = "turn.started"
  /\ follower' = [follower EXCEPT !.error = TRUE]
  /\ UNCHANGED <<streams, runRow, opened>>

-----------------------------------------------------------------------------
(* The SDK's AgentSession.                                                 *)

\* send: the first one creates a session; an input response needs one.
SendTurn(s) ==
  /\ follower.kind = "session" /\ follower.loop = "over"
  /\ IF follower.of = NoStream THEN streams[s] = <<>> ELSE s = follower.of
  /\ Opens
  /\ follower' = [follower EXCEPT !.of = s, !.loop = "reading"]
  /\ UNCHANGED <<streams, runRow>>

\* The turn is iterated, or stream() is followed: startCursor + index + 1.
SessionConsumes ==
  /\ follower.kind = "session" /\ follower.loop = "reading" /\ Behind
  /\ follower' = Consumed
  /\ UNCHANGED <<streams, runRow, opened>>

\* The turn settled or its stream broke; the cursor is what a Host persists.
SessionStops ==
  /\ follower.kind = "session" /\ follower.loop = "reading"
  /\ follower' = [follower EXCEPT !.loop = "over"]
  /\ UNCHANGED <<streams, runRow, opened>>

\* A Host attaches again with the cursor it persisted.
Attach ==
  /\ follower.kind = "session" /\ follower.loop = "over" /\ follower.of # NoStream
  /\ Opens
  /\ follower' = [follower EXCEPT !.loop = "reading"]
  /\ UNCHANGED <<streams, runRow>>

\* reset: the next message opens another session, at cursor 0.
ResetSession ==
  /\ follower.kind = "session" /\ follower.of # NoStream
  /\ Opens
  /\ follower' = [follower EXCEPT !.of = NoStream, !.cursor = 0, !.shown = <<>>, !.loop = "over"]
  /\ UNCHANGED <<streams, runRow>>

-----------------------------------------------------------------------------
(* The pages of an AgentRun.                                               *)

Smaller(a, b) == IF a < b THEN a ELSE b

\* start() returned a run that is attached to its session.
RunAttached(s) ==
  /\ follower.kind = "run" /\ follower.of = NoStream
  /\ follower' = [follower EXCEPT !.of = s]
  /\ UNCHANGED <<streams, runRow, opened>>

\* synchronizeAgentRun projects one more page, unless the row is terminal.
Synchronized ==
  LET count == Smaller(Len(streams[follower.of]), runRow.count + PageSize) IN
  IF runRow.terminal THEN runRow
  ELSE [count |-> count, terminal |-> count > 0 /\ streams[follower.of][count] \in Ends]

\* The run is stopped by the service while the session goes on recording.
RunStopped ==
  /\ follower.kind = "run" /\ follower.of # NoStream /\ ~runRow.terminal
  /\ runRow' = [runRow EXCEPT !.terminal = TRUE]
  /\ UNCHANGED <<streams, follower, opened>>

\* events(runId, after): a page, which may reach past the projected row, or
\* 416 when the cursor is ahead of the row.
Page ==
  /\ follower.kind = "run" /\ follower.of # NoStream
  /\ runRow' = Synchronized
  /\ follower' =
       IF follower.cursor > Synchronized.count
         THEN [follower EXCEPT !.error = TRUE]
         ELSE LET last == Smaller(Len(streams[follower.of]), follower.cursor + PageSize) IN
              [follower EXCEPT
                 !.error = FALSE,
                 !.cursor = last,
                 !.shown = @ \o [i \in 1..(last - follower.cursor) |->
                                   [of |-> follower.of, at |-> follower.cursor + i]]]
  /\ UNCHANGED <<streams, opened>>

\* The request failed: the Host asks again with the same cursor.
PageFails ==
  /\ follower.kind = "run" /\ follower.of # NoStream
  /\ runRow' \in {runRow, Synchronized}
  /\ UNCHANGED <<streams, follower, opened>>

-----------------------------------------------------------------------------
FollowersNext ==
  \/ \E s \in StreamIds, e \in EventKinds : Record(s, e)
  \/ \E s \in StreamIds : Select(s) \/ SendTurn(s) \/ RunAttached(s)
  \/ RestartLoop \/ ChildConsumes \/ ChildStreamEnds \/ ChildWakes \/ StopRefused
  \/ \E retryable \in BOOLEAN : ChildStreamFails(retryable)
  \/ SessionConsumes \/ SessionStops \/ Attach \/ ResetSession
  \/ RunStopped \/ Page \/ PageFails

FollowersSpec == FollowersInit /\ [][FollowersNext]_followersVars

\* Whatever ends, fails, restarts or is selected, a follower shows the events
\* of its session from the first one, each once and in order, and its cursor
\* says how many: the place from which it reconnects.
FollowsTheStream ==
  /\ follower.cursor = Len(follower.shown)
  /\ \A i \in 1..Len(follower.shown) : follower.shown[i] = [of |-> follower.of, at |-> i]
  /\ follower.of = NoStream \/ follower.cursor <= Len(streams[follower.of])
=============================================================================
