------------------------------ MODULE EventView ------------------------------
(***************************************************************************)
(* What the workspace shows of one session's events.  The browser keeps    *)
(* the events compacted (thread-storage.ts) and computes everything on     *)
(* screen from that list: the outcome of each turn, the pending questions, *)
(* the sub-agents, the usage, the state of the thread                      *)
(* (turn-presentation.ts, usage.ts, agent-message.tsx).                    *)
(*                                                                         *)
(* One step is one event of the root stream, which Eve writes (external),  *)
(* or a reload of the stored thread.  A text is its length; a question of  *)
(* a sub-agent carries the turn of the sub-agent, NoTurnId here.           *)
(***************************************************************************)
EXTENDS Naturals, Sequences, FiniteSets, FiniteSetsExt, SequencesExt

CONSTANTS
  Agents,        \* call ids of sub-agent calls
  Questions,     \* request ids
  NoId,
  MaxTurnIds,    \* bound: root turns
  MaxText,       \* bound: length of a text
  MaxEvents      \* bound: events of the stream

NoTurnId == 0
TurnIds == 1..MaxTurnIds

ASSUME EventViewAssumption ==
  /\ Agents \cap Questions = {} /\ NoId \notin Agents \cup Questions
  /\ {MaxTurnIds, MaxText, MaxEvents} \subseteq Nat

VARIABLES
  stream,    \* every event Eve wrote
  kept,      \* the browser's events
  rootTurn   \* Eve's: the turn in progress and its step

eventViewVars == <<stream, kept, rootTurn>>

TextKinds == {"message", "reasoning"}
Appended == [message |-> "message.appended", reasoning |-> "reasoning.appended"]
Finished == [message |-> "message.completed", reasoning |-> "reasoning.completed"]
TextTypes == {Appended[k] : k \in TextKinds} \cup {Finished[k] : k \in TextKinds}
KindOf(type) == CHOOSE k \in TextKinds : type \in {Appended[k], Finished[k]}
TurnEnds == {"turn.completed", "turn.failed", "turn.cancelled"}
SessionEnds == {"session.completed", "session.failed"}
EventTypes == TextTypes \cup TurnEnds \cup SessionEnds \cup
  {"turn.started", "message.received", "actions.requested", "subagent.called", "subagent.completed",
   "action.result", "input.requested", "step.completed", "session.waiting"}

\* size is the length of a text, the reported usage of a step (0 for none), or
\* 1 for a result that completed; final is finishReason # "tool-calls".
SessionEvent == [type: EventTypes, turn: 0..MaxTurnIds, step: 0..MaxEvents,
                id: Agents \cup Questions \cup {NoId}, size: Nat, final: BOOLEAN]

EventViewTypeOK ==
  /\ stream \in Seq(SessionEvent) /\ kept \in Seq(SessionEvent)
  /\ rootTurn \in [at: {"idle", "open", "ended", "over"}, turn: 0..MaxTurnIds, step: 0..MaxEvents]

EventViewInit ==
  /\ stream = <<>> /\ kept = <<>>
  /\ rootTurn = [at |-> "idle", turn |-> 0, step |-> 0]

-----------------------------------------------------------------------------
(* Compaction.                                                             *)

\* Mutant: the incremental event that a final text replaces may be of the other kind.
AbsorbsAnyKind(last, e) ==
  /\ last.turn = e.turn /\ last.step = e.step
  /\ \/ \E k \in TextKinds : e.type = Appended[k] /\ last.type = Appended[k]
     \/ \E k, m \in TextKinds : e.type = Finished[k] /\ last.type = Appended[m]

Absorbs(last, e) ==
  /\ last.turn = e.turn /\ last.step = e.step
  /\ \E k \in TextKinds : e.type \in {Appended[k], Finished[k]} /\ last.type = Appended[k]

AppendThreadEvent(events, e) ==
  IF events # <<>> /\ Absorbs(Last(events), e)
    THEN [events EXCEPT ![Len(events)] = e]
    ELSE Append(events, e)

CompactThreadEvents(events) ==
  LET compact[i \in 0..Len(events)] ==
        IF i = 0 THEN <<>> ELSE AppendThreadEvent(compact[i - 1], events[i])
  IN compact[Len(events)]

-----------------------------------------------------------------------------
(* What is computed from the events.                                       *)

Indexes(events, types) == {i \in DOMAIN events : events[i].type \in types}
Latest(S) == IF S = {} THEN 0 ELSE Max(S)
Earliest(S) == IF S = {} THEN 0 ELSE Min(S)

\* Eve proxies a sub-agent's question, never the start of its turn: the next
\* root turn or the end of the session clears every question.
Unresolved(events) ==
  LET cleared == Latest(Indexes(events, SessionEnds \cup {"turn.started"})) IN
  {events[i].id : i \in {j \in Indexes(events, {"input.requested"}) : j > cleared}}

OfTurn(events, t) ==
  LET own[i \in 0..Len(events)] ==
        IF i = 0 THEN <<>>
        ELSE IF events[i].turn = t THEN Append(own[i - 1], events[i]) ELSE own[i - 1]
  IN own[Len(events)]

EventsForRootTurn(events, t) ==
  LET start == Earliest({i \in Indexes(events, {"turn.started"}) : events[i].turn = t})
      next == Earliest({i \in Indexes(events, {"turn.started"}) : i > start})
  IN IF start = 0 THEN OfTurn(events, t)
     ELSE SubSeq(events, start, IF next = 0 THEN Len(events) ELSE next - 1)

AskedIn(events) == {events[i].id : i \in Indexes(events, {"input.requested"})}
PendingRequests(events, t) == AskedIn(EventsForRootTurn(events, t)) \cap Unresolved(events)

\* Eve's reducer (external): an assistant message for each turn id that has text,
\* a tool call or a question; its parts are the texts, by step, and the tools.
TextSteps(events, t) ==
  {e.step : e \in {f \in ToSet(events) : f.turn = t /\ f.type \in {Appended["message"], Finished["message"]}}}
ToolParts(events, t) ==
  {e.id : e \in {f \in ToSet(events) : f.turn = t /\ f.type \in {"actions.requested", "input.requested"}}}
ApprovalParts(events, t) == ToolParts(events, t) \cap Questions
AssistantMessages(events) ==
  {e.turn : e \in {f \in ToSet(events) : f.type \in TextTypes \cup {"actions.requested", "input.requested"}}}

HasTools(events, t) ==
  \/ Indexes(EventsForRootTurn(events, t), {"actions.requested"}) # {}
  \/ PendingRequests(events, t) # {} \/ ToolParts(events, t) # {}

TurnStatus(events, t) ==
  LET own == EventsForRootTurn(events, t)
      terminal == Latest(Indexes(own, TurnEnds))
  IN CASE PendingRequests(events, t) # {} -> "waiting"
       [] PendingRequests(events, t) = {} /\ terminal = 0 -> "running"
       [] OTHER -> own[terminal].type

\* finalDeliveryStepIndex, as a set of at most one step.
FinalDelivery(events, t) ==
  LET own == EventsForRootTurn(events, t)
      delivered == Latest({i \in Indexes(own, {Finished["message"]}) : own[i].size > 0 /\ own[i].final})
      acted == {own[i].step : i \in Indexes(own, {"actions.requested"})}
      texts == TextSteps(events, t)
  IN IF delivered > 0 THEN {own[delivered].step}
     ELSE IF TurnStatus(events, t) = "running"
       THEN {s \in texts : s = Max(texts) /\ \A a \in acted : s > a}
       ELSE {}

\* Mutant: every pending question of the turn is taken for a sub-agent's.
ProxiedWithOwn(events, t) == PendingRequests(events, t)
ProxiedInput(events, t) == PendingRequests(events, t) \ ApprovalParts(events, t)

IsProxiedInputOnly(events, t) ==
  /\ ~ \E e \in ToSet(events) : e.type = "turn.started" /\ e.turn = t
  /\ ApprovalParts(events, t) # {}
  /\ TextSteps(events, t) = {} /\ ToolParts(events, t) \subseteq ApprovalParts(events, t)

PresentAgentTurn(events, t) ==
  IF ~HasTools(events, t) THEN [status |-> "dialogue", final |-> {}, proxied |-> {}]
  ELSE [status |-> TurnStatus(events, t), final |-> FinalDelivery(events, t),
        proxied |-> ProxiedInput(events, t)]

\* The execution group of a settled turn folds when its answer was delivered.
HasLaterFinalDelivery(events, t) ==
  LET end == Earliest({i \in Indexes(events, TurnEnds) : events[i].turn = t}) IN
  end > 0 /\ \E i \in Indexes(events, {Finished["message"]}) :
               i > end /\ events[i].final /\ events[i].size > 0
Folds(events, t) ==
  /\ PresentAgentTurn(events, t).status = "turn.completed"
  /\ FinalDelivery(events, t) # {} \/ HasLaterFinalDelivery(events, t)

PresentSubagentCall(events, c) ==
  LET Of(types) == {i \in Indexes(events, types) : events[i].id = c}
      called == Earliest(Of({"subagent.called"}))
      result == Latest(Of({"action.result"}))
      stopped == called > 0 /\ \E i \in Indexes(events, {"turn.cancelled"}) : events[i].turn = events[called].turn
  IN CASE result > 0 /\ events[result].size = 0 -> "failed"
       [] Of({"subagent.completed", "action.result"}) # {} /\ ~(result > 0 /\ events[result].size = 0) -> "completed"
       [] Of({"subagent.completed", "action.result"}) = {} ->
            IF stopped THEN "cancelled"
            ELSE IF Indexes(events, SessionEnds) # {} THEN "failed"
            ELSE IF called = 0 THEN "starting" ELSE "running"

\* AgentSubagentMenu: the calls whose session is known, active and done.
SubagentMenu(events) ==
  LET calls == {c \in Agents : \E e \in ToSet(events) : e.type = "subagent.called" /\ e.id = c}
      active == {c \in calls : PresentSubagentCall(events, c) \in {"running", "starting"}}
  IN [active |-> active, done |-> calls \ active]

\* SubagentProgress: the line of a delegated call in the transcript; its session can
\* be opened once it is known.
SubagentProgress(events) ==
  [c \in Agents |->
    [status |-> PresentSubagentCall(events, c),
     opens |-> \E e \in ToSet(events) : e.type = "subagent.called" /\ e.id = c]]

\* The usage that Eve reported, added up.
InputTokens(events) ==
  LET input[i \in 0..Len(events)] ==
        IF i = 0 THEN 0
        ELSE input[i - 1] + (IF events[i].type = "step.completed" THEN events[i].size ELSE 0)
  IN input[Len(events)]

\* summarizeUsage; one character is one token here.
SummarizeUsage(events) ==
  LET steps == {i \in Indexes(events, {"step.completed"}) : events[i].size > 0}
      pending == {i \in DOMAIN events : i > Latest(steps)}
      keys == {[kind |-> KindOf(events[i].type), turn |-> events[i].turn, step |-> events[i].step] :
                 i \in {j \in pending : events[j].type \in TextTypes}}
      length == [k \in keys |->
                  LET last == Latest({i \in pending : events[i].type \in TextTypes
                                        /\ k = [kind |-> KindOf(events[i].type), turn |-> events[i].turn,
                                                step |-> events[i].step]})
                  IN events[last].size]
      text == SumFunction(length)
      other == Cardinality({i \in pending : events[i].type \in {"message.received", "action.result"}})
  IN [steps |-> Cardinality(steps), input |-> InputTokens(events),
      context |-> (IF steps = {} THEN 0 ELSE events[Max(steps)].size) + text + other,
      output |-> text, estimated |-> text + other > 0]

\* statusFromEvents of the workspace.
StatusFromEvents(events) ==
  LET last == Last(events).type
      boundary == Latest(Indexes(events, TurnEnds))
  IN IF events = <<>> THEN "ready"
     ELSE CASE last = "session.failed" -> "error"
            [] last # "session.failed" /\ boundary > 0 /\ events[boundary].type = "turn.failed" -> "error"
            [] OTHER -> IF last = "session.waiting" THEN (IF Unresolved(events) # {} THEN "waiting" ELSE "ready")
                        ELSE IF last = "session.completed" THEN "ready"
                        ELSE IF last \in {"turn.started", Appended["message"], Appended["reasoning"]} THEN "streaming"
                        ELSE "submitted"

HasCurrentTurnVisibleProcess(events) ==
  LET started == Latest(Indexes(events, {"turn.started"})) IN
  started > 0 /\ \E e \in ToSet(events) :
    e.turn = events[started].turn /\ e.type \in TextTypes \cup {"actions.requested"}

\* messageStatus of the assistant-ui adapter; running is the thread's state.
MessageStatus(events, t, running) ==
  LET ends == {events[i].type : i \in {j \in Indexes(events, TurnEnds) : events[j].turn = t}}
      isLast == t = Max(AssistantMessages(events))
  IN CASE ApprovalParts(events, t) \cap Unresolved(events) # {} -> "requires-action"
       [] OTHER -> IF "turn.failed" \in ends THEN "error"
                   ELSE IF isLast /\ running THEN "running"
                   ELSE IF ends = {} THEN "cancelled" ELSE "complete"

\* dynamicToolPart and toolApproval: the parts of the assistant-ui message of a turn.
DynamicToolPart(events, c) ==
  LET result == Latest({i \in Indexes(events, {"action.result"}) : events[i].id = c}) IN
  [approval |-> IF c \notin Questions THEN "none" ELSE IF c \in Unresolved(events) THEN "asked" ELSE "answered",
   result |-> IF result = 0 THEN "none" ELSE IF events[result].size = 0 THEN "error" ELSE "output"]
\* assistantPart: a text or reasoning is what the last of its events says.
TextPart(events, t, k, s) ==
  LET said == {i \in Indexes(events, {Appended[k], Finished[k]}) : events[i].turn = t /\ events[i].step = s}
  IN IF said = {} THEN 0 ELSE events[Max(said)].size
ConvertEveMessage(events, t) ==
  [texts |-> [k \in TextKinds |-> [s \in TextSteps(events, t) |-> TextPart(events, t, k, s)]],
   tools |-> [c \in ToolParts(events, t) |-> DynamicToolPart(events, c)],
   status |-> MessageStatus(events, t, FALSE)]

\* Where a question can be answered: as a part of its own message, or proxied
\* into the message of the root turn that owns it.
AnswerableAt(events, r) ==
  LET shown == {t \in AssistantMessages(events) : ~IsProxiedInputOnly(events, t)} IN
  {<<t, "own">> : t \in {u \in shown : r \in ApprovalParts(events, u)}}
  \cup {<<t, "proxied">> : t \in {u \in shown : r \in PresentAgentTurn(events, u).proxied}}

Screen(events) ==
  [turns |-> [t \in TurnIds |-> PresentAgentTurn(events, t)],
   folded |-> {t \in TurnIds : Folds(events, t)},
   messages |-> [t \in AssistantMessages(events) |-> ConvertEveMessage(events, t)],
   agents |-> SubagentMenu(events), lines |-> SubagentProgress(events), usage |-> SummarizeUsage(events),
   status |-> StatusFromEvents(events), busy |-> HasCurrentTurnVisibleProcess(events),
   questions |-> Unresolved(events)]

-----------------------------------------------------------------------------
(* The root stream (external), one event at a time.                        *)

NewEvent(type, turn, id, size, final) ==
  [type |-> type, turn |-> turn, step |-> rootTurn.step, id |-> id, size |-> size, final |-> final]

\* The live view and the recovery of the workspace append each event they read.
Arrives(e) ==
  /\ Len(stream) < MaxEvents
  /\ stream' = Append(stream, e) /\ kept' = AppendThreadEvent(kept, e)

EventNow(type, id, size, final) ==
  rootTurn.at = "open" /\ Arrives(NewEvent(type, rootTurn.turn, id, size, final)) /\ UNCHANGED rootTurn

Seen(type, id) == \E e \in ToSet(stream) : e.type = type /\ e.id = id
SeenInTurn(type, id) == \E e \in ToSet(stream) : e.type = type /\ e.id = id /\ e.turn = rootTurn.turn
TextNow(k) == {e \in ToSet(stream) : e.turn = rootTurn.turn /\ e.step = rootTurn.step
                                      /\ e.type \in {Appended[k], Finished[k]}}

TurnStarts ==
  /\ rootTurn.at = "idle" /\ rootTurn.turn < MaxTurnIds
  /\ rootTurn' = [at |-> "open", turn |-> rootTurn.turn + 1, step |-> 0]
  /\ Arrives([type |-> "turn.started", turn |-> rootTurn.turn + 1, step |-> 0, id |-> NoId,
              size |-> 0, final |-> FALSE])
MessageIsReceived ==
  rootTurn.at = "open" /\ Last(stream).type = "turn.started" /\ EventNow("message.received", NoId, 1, FALSE)
TextGrows(k) ==
  /\ \A e \in TextNow(k) : e.type = Appended[k]
  /\ Cardinality(TextNow(k)) < MaxText
  /\ EventNow(Appended[k], NoId, Cardinality(TextNow(k)) + 1, FALSE)
TextEnds(k, final) ==
  /\ \A e \in TextNow(k) : e.type = Appended[k]
  /\ k = "message" \/ final
  /\ EventNow(Finished[k], NoId, Cardinality(TextNow(k)), final)
AgentIsRequested(c) == ~Seen("actions.requested", c) /\ EventNow("actions.requested", c, 0, FALSE)
AgentIsCalled(c) ==
  /\ SeenInTurn("actions.requested", c) /\ ~Seen("subagent.called", c)
  /\ EventNow("subagent.called", c, 0, FALSE)
AgentCompletes(c) ==
  /\ SeenInTurn("subagent.called", c) /\ ~Seen("subagent.completed", c) /\ ~Seen("action.result", c)
  /\ EventNow("subagent.completed", c, 0, FALSE)
AgentResult(c, ok) ==
  /\ SeenInTurn("subagent.called", c) /\ ~Seen("action.result", c)
  /\ EventNow("action.result", c, ok, FALSE)
RootAsks(r) == ~Seen("input.requested", r) /\ EventNow("input.requested", r, 0, FALSE)
AgentAsks(c, r) ==
  /\ rootTurn.at = "open" /\ ~Seen("input.requested", r)
  /\ SeenInTurn("subagent.called", c) /\ PresentSubagentCall(stream, c) = "running"
  /\ Arrives(NewEvent("input.requested", NoTurnId, r, 0, FALSE)) /\ UNCHANGED rootTurn
StepEnds(usage) ==
  /\ rootTurn.at = "open" /\ Arrives(NewEvent("step.completed", rootTurn.turn, NoId, usage, FALSE))
  /\ rootTurn' = [rootTurn EXCEPT !.step = @ + 1]
TurnEndsAs(type) ==
  /\ rootTurn.at = "open" /\ Arrives(NewEvent(type, rootTurn.turn, NoId, 0, FALSE))
  /\ rootTurn' = [rootTurn EXCEPT !.at = "ended"]
SessionSettles(type) ==
  /\ rootTurn.at = "ended" /\ Arrives(NewEvent(type, NoTurnId, NoId, 0, FALSE))
  /\ rootTurn' = [rootTurn EXCEPT !.at = IF type = "session.waiting" THEN "idle" ELSE "over"]

\* parseThreadCollection compacts what it loads.
ReloadThread ==
  /\ kept' = CompactThreadEvents(kept) /\ kept # <<>>
  /\ UNCHANGED <<stream, rootTurn>>

EventViewNext ==
  \/ TurnStarts \/ MessageIsReceived
  \/ \E k \in TextKinds : TextGrows(k)
  \/ \E k \in TextKinds, final \in BOOLEAN : TextEnds(k, final)
  \/ \E c \in Agents : AgentIsRequested(c) \/ AgentIsCalled(c) \/ AgentCompletes(c)
  \/ \E c \in Agents, ok \in {0, 1} : AgentResult(c, ok)
  \/ \E r \in Questions : RootAsks(r)
  \/ \E c \in Agents, r \in Questions : AgentAsks(c, r)
  \/ \E usage \in {0, 1} : StepEnds(usage)
  \/ \E type \in TurnEnds : TurnEndsAs(type)
  \/ \E type \in SessionEnds \cup {"session.waiting"} : SessionSettles(type)
  \/ ReloadThread

EventViewSpec == EventViewInit /\ [][EventViewNext]_eventViewVars

-----------------------------------------------------------------------------
(* Properties.                                                             *)

\* What a reader of the thread sees does not depend on the compaction: turns,
\* questions, sub-agents, usage and status computed from the browser's events
\* are those of the whole stream (docs/architecture.md:57-60).
CompactionIsInvisible == kept # stream => Screen(kept) = Screen(stream)

\* Every unresolved question can be answered in exactly one place of the
\* transcript: a root question in its own message, a sub-agent's in the message
\* of the root turn, whose orphaned message is hidden (turn-presentation.ts:83).
QuestionsShownOnce == \A r \in Unresolved(kept) : Cardinality(AnswerableAt(kept, r)) = 1
=============================================================================
