----------------------------- MODULE Disclosure -----------------------------
(***************************************************************************)
(* How much of one turn the transcript unfolds (agent-message.tsx).  A     *)
(* message with tools is shown as an execution group, which follows the    *)
(* turn's status and can be toggled; in it, each run of tools is a tool    *)
(* group, and each tool a fold of its own, which decide once, when they    *)
(* are put on screen, whether they start open.  A closed fold takes what   *)
(* it holds off the screen (Radix, external).                              *)
(*                                                                         *)
(* One step is one change of the message, which Eve's reducer computes     *)
(* from the events (external), with its rendering and effects; or a click; *)
(* or a reload.  Which turns wait, end or deliver an answer is EventView's. *)
(***************************************************************************)
EXTENDS Naturals, Sequences, FiniteSets, SequencesExt

CONSTANTS
  Tools,       \* tool calls of the turn, in the order they may appear
  Delegated,   \* questions of sub-agents
  NoTool,
  MaxProcess,    \* bound: parts of the message
  MaxClicks    \* bound: the user's clicks on folds

ASSUME DisclosureAssumption ==
  /\ NoTool \notin Tools /\ Tools \cap Delegated = {} /\ {MaxProcess, MaxClicks} \subseteq Nat

VARIABLES
  shownTurn,    \* what the events say of the turn: the message and the turns after it
  disclosed,    \* the folds on screen
  foldedAway,   \* history: questions behind a fold that the user closed, or that was on
                \* screen, and closed, when they were asked
  byUser,       \* history: the user toggled the execution group since the turn last came
                \* to wait, ended or was answered
  clicks

disclosureVars == <<shownTurn, disclosed, foldedAway, byUser, clicks>>

Fold == {"absent", "closed", "open"}
ToolStates == {"input-streaming", "input-available", "approval-requested", "approval-responded",
               "output-available", "output-denied", "output-error"}
Outcomes == {"running", "completed", "failed", "cancelled"}
NoExecution == [open |-> FALSE, was |-> "absent", final |-> FALSE]
Blank == [execution |-> NoExecution, groups |-> [t \in Tools |-> "absent"],
          folds |-> [t \in Tools \cup Delegated |-> "absent"]]

DisclosureTypeOK ==
  /\ shownTurn.parts \in Seq(Tools \cup {NoTool}) /\ Len(shownTurn.parts) <= MaxProcess
  /\ shownTurn.tools \in [Tools -> ToolStates] /\ shownTurn.proxied \subseteq Delegated
  /\ shownTurn.outcome \in Outcomes /\ {shownTurn.delivered, shownTurn.next, shownTurn.later} \subseteq BOOLEAN
  /\ disclosed.groups \in [Tools -> Fold] /\ disclosed.folds \in [Tools \cup Delegated -> Fold]
  /\ foldedAway \subseteq Tools \cup Delegated /\ byUser \in BOOLEAN /\ clicks \in 0..MaxClicks

\* parts: a tool call, or NoTool for text and reasoning; tools: what the message says
\* of each; proxied: pending questions of sub-agents; then the turn's end, its answer,
\* and whether a later turn started and answered.
DisclosureInit ==
  /\ shownTurn = [parts |-> <<>>, tools |-> [t \in Tools |-> "input-streaming"], proxied |-> {},
                  outcome |-> "running", delivered |-> FALSE, next |-> FALSE, later |-> FALSE]
  /\ disclosed = Blank /\ foldedAway = {} /\ byUser = FALSE /\ clicks = 0

-----------------------------------------------------------------------------
(* The message of a turn m.                                                *)

Called(m) == ToSet(m.parts) \ {NoTool}
NeedsInput(m, t) == t \in m.proxied \/ (t \in Called(m) /\ m.tools[t] = "approval-requested")
Asking(m) == {t \in Tools \cup Delegated : NeedsInput(m, t)}

\* presentAgentTurn; a message without tools is dialogue.
StatusOfTurn(m) == IF Asking(m) # {} THEN "waiting" ELSE m.outcome
HasExecution(m) == Called(m) # {} \/ m.proxied # {}
HasFinalDelivery(m) == StatusOfTurn(m) = "completed" /\ (m.delivered \/ m.later)

\* ProcessParts: a group is a maximal run of tools, known by its first.
GroupOf(m, t) ==
  LET i == CHOOSE k \in DOMAIN m.parts : m.parts[k] = t
      start == CHOOSE j \in 1..i : /\ NoTool \notin {m.parts[k] : k \in j..i}
                                   /\ j = 1 \/ m.parts[j - 1] = NoTool
  IN m.parts[start]
Members(m, g) == {t \in Called(m) : GroupOf(m, t) = g}

-----------------------------------------------------------------------------
(* The screen.                                                             *)

\* Mutant: a turn that comes to wait does not open its group again.
ExecutionIgnoresWaiting(m, was) ==
  LET status == StatusOfTurn(m)
      final == HasFinalDelivery(m)
      wasActive == was.was \in {"running", "waiting"}
      settle(open) == [was EXCEPT !.open = open]
      left == IF status = was.was /\ final = was.final THEN was
              ELSE IF (~was.final \/ wasActive) /\ final THEN settle(FALSE)
              ELSE IF wasActive /\ status \notin {"running", "waiting"} THEN settle(TRUE) ELSE was
  IN CASE ~HasExecution(m) -> NoExecution
       [] HasExecution(m) /\ was = NoExecution ->
            [open |-> ~final, was |-> status, final |-> final]
       [] OTHER -> [left EXCEPT !.was = status, !.final = final]

\* ExecutionGroup: it is put on screen open unless the answer was delivered; its
\* effect runs when the status or the delivery changes.
Execution(m, was) ==
  LET status == StatusOfTurn(m)
      final == HasFinalDelivery(m)
      wasActive == was.was \in {"running", "waiting"}
      settle(open) == [was EXCEPT !.open = open]
      left == IF status = was.was /\ final = was.final THEN was
              ELSE IF status = "waiting" THEN settle(TRUE)
              ELSE IF (~was.final \/ wasActive) /\ final THEN settle(FALSE)
              ELSE IF wasActive /\ status # "running" THEN settle(TRUE) ELSE was
  IN CASE ~HasExecution(m) -> NoExecution
       [] HasExecution(m) /\ was = NoExecution ->
            [open |-> ~final, was |-> status, final |-> final]
       [] OTHER -> [left EXCEPT !.was = status, !.final = final]

\* ToolGroupRoot, ToolFallbackRoot: defaultOpen counts once.
Mounted(fold, defaultOpen) ==
  IF fold # "absent" THEN fold ELSE IF defaultOpen THEN "open" ELSE "closed"

\* InputRequestActions: a tool that is open has the buttons of its question until it
\* is answered.
ButtonsShown(t) == disclosed.folds[t] = "open" /\ NeedsInput(shownTurn, t)

\* ToolPart, and ProcessParts for its group.
ToolFold(m, fold, t) == Mounted(fold, NeedsInput(m, t))
ToolGroup(m, fold, g) == Mounted(fold, \E t \in Members(m, g) : NeedsInput(m, t))

\* AgentMessage: the parts and, after them, the questions of sub-agents.
Unfolded(m, s) ==
  LET execution == Execution(m, s.execution)
      groups == [g \in Tools |-> IF execution.open /\ Members(m, g) # {}
                                 THEN ToolGroup(m, s.groups[g], g) ELSE "absent"]
      onScreen == IF ~execution.open THEN {}
                  ELSE m.proxied \cup {t \in Called(m) : groups[GroupOf(m, t)] = "open"}
  IN [execution |-> execution, groups |-> groups,
      folds |-> [t \in Tools \cup Delegated |->
        IF t \in onScreen THEN ToolFold(m, s.folds[t], t) ELSE "absent"]]

\* The turn becomes m, the folds what m makes of s; what stays hidden is a question
\* that is still pending, in an execution group that is open.
Display(m, s, behind, toggled) ==
  LET next == Unfolded(m, s)
      turns == \/ StatusOfTurn(m) \notin {"running", StatusOfTurn(shownTurn)}
               \/ HasFinalDelivery(m) # HasFinalDelivery(shownTurn)
  IN
  /\ shownTurn' = m /\ disclosed' = next
  /\ foldedAway' = IF next.execution.open THEN behind \cap Asking(m) ELSE {}
  /\ byUser' = (toggled /\ ~turns)

-----------------------------------------------------------------------------
(* The message changes (external), and is rendered.                        *)

FoldedAway(t) ==
  \/ disclosed.folds[t] = "closed"
  \/ t \in Called(shownTurn) /\ disclosed.groups[GroupOf(shownTurn, t)] = "closed"
Changes(m, behind) == Display(m, disclosed, foldedAway \cup behind, byUser) /\ UNCHANGED clicks

ToolAppears(t, state) ==
  LET folded == /\ shownTurn.parts # <<>> /\ Last(shownTurn.parts) # NoTool
                /\ disclosed.groups[GroupOf(shownTurn, Last(shownTurn.parts))] = "closed" IN
  /\ t \notin Called(shownTurn) /\ Len(shownTurn.parts) < MaxProcess /\ shownTurn.outcome = "running"
  /\ Changes([shownTurn EXCEPT !.parts = Append(@, t), !.tools[t] = state, !.delivered = FALSE],
             IF folded /\ state = "approval-requested" THEN {t} ELSE {})

TextAppears ==
  /\ Len(shownTurn.parts) < MaxProcess /\ shownTurn.outcome = "running"
  /\ shownTurn.parts # <<>> /\ Last(shownTurn.parts) # NoTool
  /\ Changes([shownTurn EXCEPT !.parts = Append(@, NoTool)], {})

\* A question is answered by the next turn, and a result may come in it.
Follows(state) ==
  CASE state = "input-streaming" -> {"input-available"}
    [] state = "input-available" -> {"approval-requested", "output-available", "output-error"}
    [] state = "approval-responded" -> {"output-available", "output-denied"}
    [] OTHER -> {}
ToolAdvances(t, state) ==
  /\ t \in Called(shownTurn) /\ state \in Follows(shownTurn.tools[t])
  /\ shownTurn.outcome # "running" => shownTurn.next /\ shownTurn.tools[t] = "approval-responded"
  /\ Changes([shownTurn EXCEPT !.tools[t] = state],
             IF state = "approval-requested" /\ FoldedAway(t) THEN {t} ELSE {})

AgentsQuestion(q) ==
  /\ q \notin shownTurn.proxied /\ ~shownTurn.next /\ shownTurn.outcome = "running"
  /\ Changes([shownTurn EXCEPT !.proxied = @ \cup {q}], IF FoldedAway(q) THEN {q} ELSE {})

TurnIsOver(outcome) ==
  /\ shownTurn.outcome = "running" /\ shownTurn.parts # <<>>
  /\ Changes([shownTurn EXCEPT !.outcome = outcome], {})

AnswerIsDelivered ==
  /\ shownTurn.outcome = "running" /\ ~shownTurn.delivered /\ shownTurn.parts # <<>>
  /\ Changes([shownTurn EXCEPT !.delivered = TRUE], {})

\* The next root turn resumes what was parked; it may deliver the answer.
NextTurnStarts ==
  /\ shownTurn.outcome # "running" /\ ~shownTurn.next
  /\ Changes([shownTurn EXCEPT !.next = TRUE, !.proxied = {},
               !.tools = [t \in Tools |-> IF NeedsInput(shownTurn, t) THEN "approval-responded" ELSE @[t]]],
             {})
NextTurnDelivers ==
  /\ shownTurn.next /\ ~shownTurn.later /\ Changes([shownTurn EXCEPT !.later = TRUE], {})

-----------------------------------------------------------------------------
(* The user.                                                               *)

Flipped(fold) == IF fold = "open" THEN "closed" ELSE "open"
Click(s, behind, toggled) ==
  /\ clicks < MaxClicks /\ clicks' = clicks + 1
  /\ Display(shownTurn, s, behind, toggled)

ToggleExecution ==
  /\ HasExecution(shownTurn)
  /\ Click([disclosed EXCEPT !.execution.open = ~@], foldedAway, TRUE)
ToggleGroup(g) ==
  LET was == disclosed.groups[g] IN
  /\ was # "absent"
  /\ Click([disclosed EXCEPT !.groups[g] = Flipped(@)],
           IF was = "open" THEN foldedAway \cup Members(shownTurn, g)
                           ELSE foldedAway \ Members(shownTurn, g), byUser)
ToggleTool(t) ==
  LET was == disclosed.folds[t] IN
  /\ was # "absent"
  /\ Click([disclosed EXCEPT !.folds[t] = Flipped(@)],
           IF was = "open" THEN foldedAway \cup {t} ELSE foldedAway \ {t}, byUser)

LoadAgain == Click(Blank, {}, FALSE)

DisclosureNext ==
  \/ TextAppears \/ AnswerIsDelivered \/ NextTurnStarts \/ NextTurnDelivers
  \/ ToggleExecution \/ LoadAgain
  \/ \E t \in Tools :
       \/ ToggleGroup(t)
       \/ \E state \in {"input-streaming", "approval-requested"} : ToolAppears(t, state)
       \/ \E state \in ToolStates : ToolAdvances(t, state)
  \/ \E q \in Delegated : AgentsQuestion(q)
  \/ \E t \in Tools \cup Delegated : ToggleTool(t)
  \/ \E outcome \in Outcomes \ {"running"} : TurnIsOver(outcome)

DisclosureSpec == DisclosureInit /\ [][DisclosureNext]_disclosureVars

-----------------------------------------------------------------------------
(* Properties.                                                             *)

\* The folds do not lose a question (agent-message.tsx:946, 285, 343).  A turn that
\* comes to wait is opened, and so is one that ends without an answer, even after the
\* user closed it; one whose answer was delivered is folded.  In an open turn the
\* buttons of a question are on screen exactly when the user did not fold it away and
\* it was not asked of a tool that was already shown folded: neither survives a
\* reload, or closing and opening the group.
QuestionsUnfold ==
  /\ HasExecution(shownTurn) /\ ~byUser => disclosed.execution.open = ~HasFinalDelivery(shownTurn)
  /\ disclosed.execution.open => \A t \in Asking(shownTurn) : ButtonsShown(t) <=> t \notin foldedAway
=============================================================================
