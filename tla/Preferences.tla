----------------------------- MODULE Preferences -----------------------------
(***************************************************************************)
(* Which model, reasoning level and execution mode a turn runs with.  A    *)
(* Runtime Config is published by the deployment's environment or by the   *)
(* Host's token (contracts/runtime-config.ts, lib/agent-runtime-config.ts) *)
(* and pinned by the session's first request; the page offers what it read *)
(* when it was loaded (lib/agent-ui-config.ts); a turn carries the user's  *)
(* selection as headers (agent-client.ts, withAgentPreferences of eve.ts)  *)
(* or in its mailbox item (mailboxSessionAuth); each step of the turn      *)
(* takes its model from the two (agent.ts).                                *)
(*                                                                         *)
(* One step is one page load, selection, request, delivery or model step.  *)
(* A text that a parser only bounds in length is left out.                 *)
(***************************************************************************)
EXTENDS Naturals, Sequences, FiniteSets, SequencesExt

CONSTANTS
  Documents,    \* Runtime Config documents, valid or not
  BuiltIn,      \* DEFAULT_AGENT_RUNTIME_CONFIG
  Modes,        \* execution modes the user switches between
  NoDocument,
  MaxReleases   \* bound: changes of the published documents

ReasoningLevels == {"low", "high"}
Percent == 50..95
ExecutionModes == {"standard", "automation", "cautious"}
LimitMaximum == 10000

-----------------------------------------------------------------------------
(* The contract of a Runtime Config document.                              *)

ModelOk(m) ==
  /\ m.output <= m.window
  /\ m.levels # {} /\ m.levels \subseteq ReasoningLevels
  /\ m.usual \in m.levels

ModelIds(d) == {d.models[i].id : i \in DOMAIN d.models}
ModelsOk(d) ==
  /\ d.models # <<>> /\ \A i \in DOMAIN d.models : ModelOk(d.models[i])
  /\ Cardinality(ModelIds(d)) = Len(d.models)
  /\ d.default \in ModelIds(d)

\* A skill carries content, a connection an HTTPS endpoint, and neither the other's.
ManifestsOk(d) ==
  /\ \A x \in ToSet(d.manifests) : x.kind \in {"skill", "mcp"} /\ x.carries = {x.kind}
  /\ Cardinality({<<x.kind, x.ref>> : x \in ToSet(d.manifests)}) = Len(d.manifests)

\* A profile's defaults are allowed.
ProfileOk(d) == d.outputMode \in {"text", "json"} /\ d.preset \subseteq d.allowed

\* What a profile allows is published.
ProfileExtensionsOk(d) ==
  \A x \in d.allowed : \E y \in ToSet(d.manifests) : <<y.kind, y.ref>> = x

LimitsOk(d) == \A n \in DOMAIN d.bounds : d.bounds[n] \in 1..LimitMaximum

ParseOk(d) ==
  /\ ModelsOk(d) /\ ProfileOk(d) /\ d.threshold \in Percent
  /\ ManifestsOk(d) /\ ProfileExtensionsOk(d) /\ LimitsOk(d)

ASSUME PreferencesAssumption ==
  /\ BuiltIn \in Documents /\ ParseOk(BuiltIn) /\ NoDocument \notin Documents
  /\ "standard" \in Modes /\ Modes \subseteq ExecutionModes
  /\ MaxReleases \in Nat

PublishedConfigs ==
  {d \in Documents : ParseOk(d)} \cup {[BuiltIn EXCEPT !.default = m] : m \in ModelIds(BuiltIn)}
AllModels == UNION {ModelIds(d) : d \in Documents}
AllLevels == UNION {UNION {d.models[i].levels : i \in DOMAIN d.models} : d \in Documents}

VARIABLES
  released,   \* whether a Host embeds the page, and what the environment (json, model)
              \* and the Host's token publish
  releases,
  page,       \* the catalog the page was built from, or NoDocument
  selection,  \* the preferences of the thread
  pinned,     \* what the session's first request pinned, or NoDocument
  waiting,    \* the preferences of a follow-up in the mailbox, or NoDocument
  running,    \* the turn in progress, with its selection (history), or NoDocument
  drawn       \* what the latest step ran with, or NoDocument

preferencesVars == <<released, releases, page, selection, pinned, waiting, running, drawn>>

Selection == [model: AllModels, reasoning: AllLevels, mode: Modes]
\* The attributes a channel gave the turn; by is the config that judged them
\* and asked what the user had selected (history).
Attributes == [model: AllModels, reasoning: AllLevels, mode: Modes, by: PublishedConfigs, asked: Selection]
Drawn == [model: AllModels, reasoning: AllLevels, window: Nat, output: Nat, mode: Modes]

PreferencesTypeOK ==
  /\ released \in [hosted: BOOLEAN, json: Documents \cup {NoDocument},
                   model: AllModels \cup {NoDocument}, token: Documents \cup {NoDocument}]
  /\ releases \in 0..MaxReleases
  /\ page # NoDocument => page.models \subseteq AllModels /\ page.levels \subseteq AllLevels
  /\ selection \in Selection
  /\ pinned = NoDocument \/ pinned \in [config: PublishedConfigs, mode: Modes]
  /\ waiting \in Selection \cup {NoDocument}
  /\ running = NoDocument \/ running \in Attributes
  /\ drawn = NoDocument \/ drawn \in Drawn

-----------------------------------------------------------------------------
(* Reading the documents.                                                  *)

FindModel(config, id) == {m \in ToSet(config.models) : m.id = id}
ResolveModel(config, id) ==
  IF id \in ModelIds(config) THEN CHOOSE m \in FindModel(config, id) : TRUE
                             ELSE CHOOSE m \in FindModel(config, config.default) : TRUE

\* readDeploymentAgentRuntimeConfig; a set of at most one config, empty when it throws.
ReadDeployment ==
  IF released.json # NoDocument THEN {released.json} \cap PublishedConfigs
  ELSE IF released.model = NoDocument THEN {BuiltIn}
  ELSE IF released.model \in ModelIds(BuiltIn) THEN {[BuiltIn EXCEPT !.default = released.model]}
  ELSE {}

ResolveConfig(supplied) ==
  IF supplied = NoDocument THEN ReadDeployment ELSE {supplied} \cap PublishedConfigs

\* createAgentUiConfig: every model is offered, with the levels of the default one.
UiConfig(config) ==
  LET default == ResolveModel(config, config.default) IN
  [models |-> ModelIds(config), levels |-> default.levels,
   modelId |-> default.id, reasoning |-> default.usual]

CatalogOk(ui) == ui.models # {} /\ ui.levels # {} /\ ui.modelId \in ui.models /\ ui.reasoning \in ui.levels

\* normalizeThreadPreferences: what the catalog does not offer is replaced.
Normalized(s, ui) ==
  [s EXCEPT !.model = IF @ \in ui.models THEN @ ELSE ui.modelId,
            !.reasoning = IF @ \in ui.levels THEN @ ELSE ui.reasoning]

PreferencesInit ==
  /\ \E h \in BOOLEAN :
       released = [hosted |-> h, json |-> NoDocument, model |-> NoDocument, token |-> NoDocument]
  /\ releases = 0 /\ page = NoDocument
  /\ LET ui == UiConfig(BuiltIn) IN
     selection = [model |-> ui.modelId, reasoning |-> ui.reasoning, mode |-> "standard"]
  /\ pinned = NoDocument /\ waiting = NoDocument /\ running = NoDocument /\ drawn = NoDocument

\* The operator redeploys with another environment, or the Host signs another document.
Release ==
  /\ releases < MaxReleases /\ releases' = releases + 1
  /\ \/ \E d \in Documents \cup {NoDocument} : released' = [released EXCEPT !.json = d]
     \/ \E m \in AllModels \cup {NoDocument} : released' = [released EXCEPT !.model = m]
     \/ /\ released.hosted
        /\ \E d \in Documents \cup {NoDocument} : released' = [released EXCEPT !.token = d]
  /\ released' # released
  /\ UNCHANGED <<page, selection, pinned, waiting, running, drawn>>

\* The embedded page takes the Host's hint, or the built-in catalog; the standalone
\* page the deployment's.
LoadPage ==
  /\ \E config \in IF released.hosted
                     THEN {IF released.token \in PublishedConfigs THEN released.token ELSE BuiltIn}
                     ELSE ReadDeployment :
       LET ui == UiConfig(config) IN
       /\ CatalogOk(ui) /\ ui # page /\ page' = ui
       /\ selection' = Normalized(selection, ui)
  /\ UNCHANGED <<released, releases, pinned, waiting, running, drawn>>

SelectPreference ==
  /\ page # NoDocument
  /\ \/ \E m \in page.models : selection' = [selection EXCEPT !.model = m]
     \/ \E r \in page.levels : selection' = [selection EXCEPT !.reasoning = r]
     \/ \E x \in Modes : selection' = [selection EXCEPT !.mode = x]
  /\ selection' # selection
  /\ UNCHANGED <<released, releases, page, pinned, waiting, running, drawn>>

-----------------------------------------------------------------------------
(* A turn: its attributes and its steps.                                   *)

Accepts(config, s) ==
  s.model \in ModelIds(config) /\ s.reasoning \in ResolveModel(config, s.model).levels
GivenTo(config, s) ==
  [model |-> s.model, reasoning |-> s.reasoning, mode |-> s.mode, by |-> config, asked |-> s]

\* A direct request, judged by withAgentPreferences; the first one opens the
\* session, whose hook pins the config.  A refused request changes nothing.
SendDirect ==
  /\ page # NoDocument /\ running = NoDocument
  /\ \E config \in ResolveConfig(IF released.hosted THEN released.token ELSE NoDocument) :
       /\ Accepts(config, selection)
       /\ running' = GivenTo(config, selection)
       /\ pinned' = IF pinned = NoDocument THEN [config |-> config, mode |-> selection.mode] ELSE pinned
  /\ UNCHANGED <<released, releases, page, selection, waiting, drawn>>

\* enqueue of agent-thread.tsx: the preferences of the moment go with the item.
QueueFollowUp ==
  /\ pinned # NoDocument /\ waiting = NoDocument /\ waiting' = selection
  /\ UNCHANGED <<released, releases, page, selection, pinned, running, drawn>>

\* The dispatcher's request, judged by mailboxSessionAuth against the deployment's
\* config whatever the Host published.
DeliverFollowUp ==
  /\ waiting # NoDocument /\ running = NoDocument
  /\ waiting' = NoDocument
  /\ IF \E config \in ReadDeployment : Accepts(config, waiting)
       THEN running' = GivenTo(CHOOSE config \in ReadDeployment : TRUE, waiting)
       ELSE UNCHANGED running
  /\ UNCHANGED <<released, releases, page, selection, pinned, drawn>>

\* Mutant: the reasoning level is judged by the config's default model.
DrawnOfDefault(config, attributes) ==
  LET model == ResolveModel(config, attributes.model) IN
  [model |-> model.id,
   reasoning |-> IF attributes.reasoning \in ResolveModel(config, config.default).levels
                   THEN attributes.reasoning ELSE model.usual,
   window |-> model.window, output |-> model.output, mode |-> pinned.mode]

\* step.started of agent.ts: the turn's selection as far as the pinned config
\* publishes it.  The mode is the first request's: readAgentRunPolicy.
DrawnFrom(config, attributes) ==
  LET model == ResolveModel(config, attributes.model) IN
  [model |-> model.id,
   reasoning |-> IF attributes.reasoning \in model.levels THEN attributes.reasoning ELSE model.usual,
   window |-> model.window, output |-> model.output, mode |-> pinned.mode]

StartModelStep ==
  /\ running # NoDocument
  /\ drawn' = DrawnFrom(pinned.config, running)
  /\ UNCHANGED <<released, releases, page, selection, pinned, waiting, running>>

FinishTurn ==
  /\ running # NoDocument /\ running' = NoDocument /\ drawn' = NoDocument
  /\ UNCHANGED <<released, releases, page, selection, pinned, waiting>>

PreferencesNext ==
  \/ Release \/ LoadPage \/ SelectPreference \/ SendDirect
  \/ QueueFollowUp \/ DeliverFollowUp \/ StartModelStep \/ FinishTurn

PreferencesSpec == PreferencesInit /\ [][PreferencesNext]_preferencesVars

-----------------------------------------------------------------------------
(* Properties.                                                             *)

\* However documents are republished and pages grow stale, a step runs a model
\* with a level that the session's pinned config publishes for it, and exactly
\* what the user had selected for that message when the config that admitted the
\* message publishes that model as the pinned one does
\* (contracts/runtime-config.ts:48-52, eve.ts:64-75, agent.ts:86-92).
SelectionIsHonoured ==
  (running # NoDocument /\ drawn # NoDocument) =>
    /\ \E m \in ToSet(pinned.config.models) : m.id = drawn.model /\ drawn.reasoning \in m.levels
    /\ (FindModel(pinned.config, running.asked.model) = FindModel(running.by, running.asked.model)) =>
         (drawn.model = running.asked.model /\ drawn.reasoning = running.asked.reasoning)
=============================================================================
