------------------------------ MODULE RunPolicy ------------------------------
(***************************************************************************)
(* The budget and the approvals of one session's turns.  The policy that   *)
(* the session recorded bounds turns, model steps, tool calls, tokens and  *)
(* duration (agent/lib/run-policy.ts, called by the hook of that name);    *)
(* a model step is one or more attempts at the Provider, and the retry     *)
(* boundary (lib/provider-retry-boundary.ts) decides which failures Eve    *)
(* may retry; a shell command is approved, asked for or denied             *)
(* (lib/bash-approval-policy.ts).                                          *)
(*                                                                         *)
(* One step is one event Eve delivers to the hooks, one part of the        *)
(* Provider's stream, or one tool call.  maxInputTokens and                *)
(* maxOutputTokens are one limit here, tokens: the code treats them alike. *)
(***************************************************************************)
EXTENDS Naturals, Sequences, FiniteSets, FiniteSetsExt, Functions

CONSTANTS
  Policies,      \* [configured, requested, mode]: limits of the profile and of the request
  BashModes,     \* AGENT_BASH_APPROVAL_MODE of the deployments considered
  Models,        \* the models of the Runtime Config: [max |-> maxOutputTokens]
  DefaultModel,
  ModelMax,      \* AGENT_MODEL_MAX_OUTPUT_TOKENS
  Attempts,      \* Eve's attempts at one model step
  MaxParts,      \* bound: parts of one stream
  MaxRunTurns,   \* bound: turns of the session
  MaxSteps,      \* bound: model steps of one turn
  MaxRunTime     \* bound: the clock

LimitNames == {"turns", "models", "tools", "tokens", "duration"}

ASSUME RunPolicyAssumption ==
  /\ DefaultModel \in DOMAIN Models /\ \A m \in DOMAIN Models : Models[m] \in Nat \ {0}
  /\ {ModelMax, MaxParts, MaxRunTurns, MaxSteps} \subseteq Nat
  /\ Attempts \in Nat \ {0} /\ MaxRunTime \in Nat \ {0}
  /\ BashModes \subseteq {"always", "risky", "never"}
  /\ \A p \in Policies : \A l \in {p.configured, p.requested} :
       DOMAIN l \subseteq LimitNames /\ \A n \in DOMAIN l : l[n] \in Nat

VARIABLES
  policy,      \* the initiator's policy, as merged
  bashMode,
  counters,    \* runPolicyState
  spent,       \* what the run really did: history
  failures,    \* turns that a limit ended: history
  turn,        \* the turn in progress
  runClock

runPolicyVars == <<policy, bashMode, counters, spent, failures, turn, runClock>>

Risks == {"none", "sandbox-local", "external-side-effect"}
Actors == {"user", "service"}

NoTurnYet == [at |-> "idle"]
NoError == [retryable |-> "undefined", status |-> "none"]
ProviderError == [retryable: {"yes", "no", "undefined"}, status: {"none", "transient", "4xx"}]
\* crossed: this attempt's stream passed a tool boundary; replayed: an earlier
\* attempt of the step had.  pending are tool calls not yet run.
Turn == [at: {"between", "calling", "streaming", "interrupted", "acting"}, actor: Actors,
         steps: 0..MaxSteps, attempt: 0..Attempts, parts: 0..MaxParts, output: BOOLEAN,
         crossed: BOOLEAN, replayed: BOOLEAN, error: ProviderError, model: DOMAIN Models,
         calls: SUBSET Risks, asked: SUBSET Risks, approved: SUBSET Risks, ran: SUBSET Risks]

Counted == {"turns", "models", "tools", "tokens"}
RunPolicyTypeOK ==
  /\ DOMAIN policy.limits \subseteq LimitNames
  /\ counters \in [Counted \cup {"startedAt"} -> Nat]
  /\ spent \in [Counted -> Nat]
  /\ failures \in Nat /\ runClock \in 1..MaxRunTime
  /\ turn = NoTurnYet \/ turn \in Turn

-----------------------------------------------------------------------------
(* Limits.                                                                 *)

\* mergeAgentRunLimits: a request may only lower what the profile configures.
MergeLimits(configured, requested) ==
  [n \in DOMAIN configured \cup DOMAIN requested |->
     Min({l[n] : l \in {f \in {configured, requested} : n \in DOMAIN f}})]

\* Mutant: a limit is exceeded one late.
ExceedsLate(limits, c, now) ==
  \E n \in DOMAIN limits :
    (IF n = "duration" THEN now - c.startedAt ELSE c[n]) > limits[n] + 1

\* enforceAgentRunPolicy: the first limit the counters exceed.
Exceeds(limits, c, now) ==
  \E n \in DOMAIN limits :
    (IF n = "duration" THEN now - c.startedAt ELSE c[n]) > limits[n]

\* recordRunPolicyBoundary: the counters are enforced before they are stored, so an
\* exceeding increment is not stored; the hook throws and the turn fails.  The rest
\* of the event happens only when it does not.
Boundary(counter, increment, next) ==
  LET c == [counters EXCEPT ![counter] = @ + increment] IN
  IF Exceeds(policy.limits, c, runClock)
  THEN /\ turn' = NoTurnYet
       /\ failures' = failures + 1
       /\ UNCHANGED <<counters, spent>>
  ELSE /\ counters' = c
       /\ turn' = next
       /\ spent' = [spent EXCEPT ![counter] = @ + increment]
       /\ UNCHANGED failures

\* recordRunPolicyUsage: the same check, for tokens that have been used already.
Usage(used, next) ==
  LET c == [counters EXCEPT !.tokens = @ + used]
      exceeded == Exceeds(policy.limits, c, runClock) IN
  /\ spent' = [spent EXCEPT !.tokens = @ + used]
  /\ counters' = IF exceeded THEN counters ELSE c
  /\ failures' = failures + IF exceeded THEN 1 ELSE 0
  /\ turn' = IF exceeded THEN NoTurnYet ELSE next

-----------------------------------------------------------------------------
(* The Provider's errors, as Eve sees them.                                *)

\* EveOwnedProviderAttemptError: an explicit flag, a network failure or time-out,
\* or the status decides.
AttemptError(cause) ==
  CASE cause = "network"   -> [retryable |-> "yes", status |-> "none"]
    [] cause = "transient" -> [retryable |-> "yes", status |-> "transient"]
    [] cause = "rejected"  -> [retryable |-> "no", status |-> "4xx"]
    [] cause = "unknown"   -> NoError

\* Mutant: the flag without the status.
StreamInterruptedUnclassified(crossed) ==
  [retryable |-> IF crossed THEN "no" ELSE "yes", status |-> "none"]

\* ProviderStreamInterruptedError, with the status that keeps the step out of
\* Workflow's durable retry.
StreamInterrupted(crossed) ==
  IF crossed THEN [retryable |-> "no", status |-> "4xx"]
             ELSE [retryable |-> "yes", status |-> "none"]

\* Eve: an explicit true is transient; a false flag alone does not make an error
\* terminal, a 4xx status does.
EveRetries(error) == error.retryable = "yes" \/ error.status # "4xx"

\* crossesToolBoundary and isStreamErrorPart; raw parts count as tool parts.
CrossesToolBoundary(part) == part \in {"tool", "raw"}

-----------------------------------------------------------------------------
(* Models and commands.                                                    *)

\* createAgentModel and the step.started resolver: an unknown model falls back to
\* the default, and the output budget is the lower of two maxima.
StepModel(requested) == IF requested \in DOMAIN Models THEN requested ELSE DefaultModel
OutputBudget(m) == Min({ModelMax, Models[m]})

\* Mutant: automation needs no approval for external effects either.
DecisionAutomated(risk, actor) ==
  IF policy.mode = "cautious" \/ bashMode = "always"
     \/ (bashMode = "risky" /\ risk # "none" /\ policy.mode # "automation")
  THEN IF actor = "service" THEN "denied" ELSE "ask"
  ELSE "run"

\* bashApprovalDecision
Decision(risk, actor) ==
  LET requiresApproval ==
        \/ policy.mode = "cautious"
        \/ bashMode = "always"
        \/ /\ bashMode = "risky" /\ risk # "none"
           /\ ~(policy.mode = "automation" /\ risk = "sandbox-local")
  IN CASE ~requiresApproval                       -> "run"
       [] requiresApproval /\ actor = "service"   -> "denied"
       [] requiresApproval /\ actor = "user"      -> "ask"

-----------------------------------------------------------------------------
RunPolicyInit ==
  /\ \E p \in Policies :
       policy = [limits |-> MergeLimits(p.configured, p.requested), mode |-> p.mode]
  /\ bashMode \in BashModes
  /\ counters = [n \in Counted \cup {"startedAt"} |-> 0]
  /\ spent = [n \in Counted |-> 0]
  /\ failures = 0 /\ turn = NoTurnYet /\ runClock = 1

\* Nothing of a step outlives it.
Between(t) ==
  [at |-> "between", actor |-> t.actor, steps |-> t.steps, attempt |-> 0, parts |-> 0,
   output |-> FALSE, crossed |-> FALSE, replayed |-> FALSE, error |-> NoError,
   model |-> t.model, calls |-> {}, asked |-> {}, approved |-> {}, ran |-> {}]

StepOnly(next) == turn' = next /\ UNCHANGED <<counters, spent, failures>>

\* session.started
InitializeRunPolicy ==
  /\ counters.startedAt = 0
  /\ counters' = [counters EXCEPT !.startedAt = runClock]
  /\ UNCHANGED <<spent, failures, turn>>

\* turn.started
StartTurn(actor, m) ==
  /\ turn = NoTurnYet /\ counters.startedAt > 0 /\ spent.turns + failures < MaxRunTurns
  /\ Boundary("turns", 1,
       Between([actor |-> actor, steps |-> 0, model |-> StepModel(m)]))

\* step.started
StartStep ==
  /\ turn.at = "between" /\ turn.steps < MaxSteps
  /\ Boundary("models", 1,
       [turn EXCEPT !.at = "calling", !.steps = @ + 1, !.attempt = 1])

EndTurn == turn.at = "between" /\ StepOnly(NoTurnYet)

\* oneProviderAttempt: the stream opens, or the request fails.
StreamOpens == turn.at = "calling" /\ StepOnly([turn EXCEPT !.at = "streaming"])
AttemptFails(cause) ==
  /\ turn.at = "calling"
  /\ StepOnly([turn EXCEPT !.at = "interrupted", !.error = AttemptError(cause)])

\* The caller cancels: an AbortError passes unchanged, and the turn ends.
CallerAborts == turn.at \in {"calling", "streaming"} /\ StepOnly(NoTurnYet)

\* preventReplayAfterStreamStarts: a part passes, and is remembered.
StreamPart(part) ==
  /\ turn.at = "streaming" /\ turn.parts < MaxParts
  /\ \E risk \in Risks :
       StepOnly([turn EXCEPT !.parts = @ + 1, !.output = TRUE,
                             !.crossed = @ \/ CrossesToolBoundary(part),
                             !.calls = IF part = "tool" THEN @ \cup {risk} ELSE @])

\* An error part, or a read that throws: before any output it passes as it is.
StreamFails(cause) ==
  /\ turn.at = "streaming"
  /\ StepOnly([turn EXCEPT !.at = "interrupted",
                 !.error = IF turn.output THEN StreamInterrupted(turn.crossed)
                                          ELSE AttemptError(cause)])

\* Eve retries the step, within its attempts; otherwise the turn fails.
EveRetriesStep ==
  /\ turn.at = "interrupted" /\ EveRetries(turn.error) /\ turn.attempt < Attempts
  /\ StepOnly([turn EXCEPT !.at = "calling", !.attempt = @ + 1, !.parts = 0, !.output = FALSE,
                           !.error = NoError, !.crossed = FALSE, !.replayed = @ \/ turn.crossed, !.calls = {}])
EveGivesUp ==
  /\ turn.at = "interrupted" /\ (EveRetries(turn.error) => turn.attempt = Attempts)
  /\ StepOnly(NoTurnYet)

\* actions.requested: the tool calls of the step are counted before they run.
RequestActions ==
  /\ turn.at = "streaming" /\ turn.calls # {}
  /\ Boundary("tools", Cardinality(turn.calls),
       [turn EXCEPT !.at = "acting"])

\* A call runs at once, is denied, or waits for the user's approval.
DecideCall(risk) ==
  LET decision == Decision(risk, turn.actor) IN
  /\ turn.at = "acting" /\ risk \in turn.calls \ turn.asked
  /\ StepOnly(IF decision = "ask" THEN [turn EXCEPT !.asked = @ \cup {risk}]
              ELSE [turn EXCEPT !.calls = @ \ {risk},
                                !.ran = IF decision = "run" THEN @ \cup {risk} ELSE @])
AnswerApproval(risk, approved) ==
  /\ turn.at = "acting" /\ risk \in turn.calls \cap turn.asked
  /\ StepOnly([turn EXCEPT !.calls = @ \ {risk},
                           !.approved = IF approved THEN @ \cup {risk} ELSE @,
                           !.ran = IF approved THEN @ \cup {risk} ELSE @])

\* step.completed, with the usage the Provider reports.
CompleteStep(used) ==
  /\ \/ turn.at = "streaming" /\ turn.calls = {} /\ turn.output
     \/ turn.at = "acting" /\ turn.calls = {}
  /\ Usage(used, Between(turn))

TickRun ==
  /\ runClock < MaxRunTime /\ runClock' = runClock + 1
  /\ UNCHANGED <<counters, spent, failures, turn>>

RunPolicyNext ==
  /\ UNCHANGED <<policy, bashMode>>
  /\ \/ TickRun
     \/ /\ UNCHANGED runClock
        /\ \/ InitializeRunPolicy
           \/ \E actor \in Actors, m \in DOMAIN Models \cup {"unknown"} : StartTurn(actor, m)
           \/ /\ turn # NoTurnYet
              /\ \/ StartStep \/ EndTurn \/ StreamOpens \/ CallerAborts
                 \/ EveRetriesStep \/ EveGivesUp \/ RequestActions
                 \/ \E cause \in {"network", "transient", "rejected", "unknown"} :
                      AttemptFails(cause) \/ StreamFails(cause)
                 \/ \E part \in {"text", "tool", "raw"} : StreamPart(part)
                 \/ \E risk \in Risks :
                      \/ DecideCall(risk)
                      \/ \E approved \in BOOLEAN : AnswerApproval(risk, approved)
                 \/ \E used \in {0, OutputBudget(turn.model)} : CompleteStep(used)

RunPolicySpec == RunPolicyInit /\ [][RunPolicyNext]_runPolicyVars

-----------------------------------------------------------------------------
(* Properties.                                                             *)

\* "Once the Provider stream reaches a tool-input, tool-call, tool-result, or opaque
\* raw boundary, an interruption ends the current turn ...; replaying that step could
\* duplicate an external side effect": no attempt follows one that crossed it.
ToolBoundaryIsNotReplayed == turn # NoTurnYet => ~turn.replayed

\* What the run really did stays within the merged limits, whichever turns failed:
\* no turn, model step or tool call beyond its limit, and tokens beyond theirs only
\* by the output of one step for each turn that a limit ended.
LimitsHold ==
  /\ \A n \in DOMAIN policy.limits \cap {"turns", "models", "tools"} :
       spent[n] <= policy.limits[n]
  /\ "tokens" \in DOMAIN policy.limits =>
       spent.tokens <= policy.limits.tokens + failures * ModelMax

\* A shell command with an external side effect runs only when a user approved it,
\* unless the deployment turned approvals off, in every execution mode.
EffectsAreApproved ==
  turn # NoTurnYet /\ bashMode # "never" /\ "external-side-effect" \in turn.ran =>
    turn.actor = "user" /\ "external-side-effect" \in turn.approved
=============================================================================
