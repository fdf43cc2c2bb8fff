----------------------------- MODULE MCServices -----------------------------
(* The components that share no state, each run on its own: part names the one
   that runs, the variables of the others keep one initial value. *)
EXTENDS Sessions, Workspace, ThreadView, Extensions, RunPolicy, Publications, HostBridge,
        Transcript, Followers, Deployment, Preferences, Composer, Embed, Requests, ToolViews

CONSTANTS x1, x2, m1, m2
MCHome == [c \in Containers |-> CHOOSE s \in SessionIds : TRUE]
MCConfigs == {[extensions |-> {x1, x2}, allowed |-> {x1, x2}, defaults |-> {x1}],
              [extensions |-> {x1}, allowed |-> {x1}, defaults |-> {}]}
MCPolicies ==
  {[configured |-> [turns |-> 2, models |-> 2], requested |-> [models |-> 1, tools |-> 1], mode |-> "automation"],
   [configured |-> [tokens |-> 1], requested |-> [duration |-> 0], mode |-> "standard"],
   [configured |-> <<>>, requested |-> [tokens |-> 1], mode |-> "standard"],
   [configured |-> <<>>, requested |-> <<>>, mode |-> "cautious"]}
MCModels == [m \in {"m1"} |-> 2]

\* Runtime Config documents: the built-in one, two that publish less, and one whose
\* profile presets an extension that it does not allow.
MCModel(id, levels, usual) == [id |-> id, levels |-> levels, usual |-> usual, window |-> 8, output |-> 2]
MCDocument(models, default) ==
  [models |-> models, default |-> default, outputMode |-> "text", threshold |-> 82,
   manifests |-> <<[kind |-> "skill", ref |-> "s", carries |-> {"skill"}]>>,
   allowed |-> {<<"skill", "s">>}, preset |-> {}, bounds |-> [turns |-> 3]]
MCBuiltIn == MCDocument(<<MCModel("m1", {"low", "high"}, "low"), MCModel("m2", {"low"}, "low")>>, "m1")
MCDocuments ==
  {MCBuiltIn, MCDocument(<<MCModel("m2", {"low"}, "low")>>, "m2"),
   MCDocument(<<MCModel("m1", {"low"}, "low")>>, "m1"), [MCBuiltIn EXCEPT !.preset = {<<"mcp", "x">>}]}

MCRuntimeConfigs == {{m1, m2}, {m1}}

VARIABLE part

MCParts == {"sessions", "workspace", "thread", "extensions", "policy", "publications", "host", "events",
            "followers", "deployment", "preferences", "composer", "embed", "requests",
            "disclosure", "tools"}
mcVars == <<part, sessionsVars, workspaceVars, threadVars, extensionVars, runPolicyVars, publicationsVars,
            bridgeVars, eventViewVars, followersVars, deploymentVars, preferencesVars, composerVars, embedVars,
            requestsVars, disclosureVars, toolViewsVars>>

MCInit ==
  /\ part \in MCParts
  /\ SessionsInit /\ WorkspaceInit /\ ThreadInit /\ ExtensionsInit /\ RunPolicyInit /\ PublicationsInit
  /\ HostBridgeInit /\ EventViewInit /\ FollowersInit /\ DeploymentInit
  /\ PreferencesInit /\ ComposerInit /\ EmbedInit /\ RequestsInit /\ DisclosureInit /\ ToolViewsInit
  /\ part # "thread" => mailboxed
  /\ part # "extensions" => x2 \in published.extensions
  /\ part # "policy" => policy.mode = "automation" /\ bashMode = "risky"
  /\ part # "publications" => backend = "postgres"
  /\ part # "host" => scope = "fits" /\ actorType = "user" /\ \A n \in Capabilities : hostCatalog[n].effect = "none"
  /\ part # "followers" => follower.kind = "run"
  /\ part # "preferences" => ~released.hosted
  /\ part # "embed" => frame.parent = "host"
  /\ part # "requests" => served = Offered
  /\ part # "tools" => toolCall.tool = "other"

\* Every component but p keeps its state.
Alone(p) ==
  /\ IF p = "sessions" THEN TRUE ELSE UNCHANGED sessionsVars
  /\ IF p = "workspace" THEN TRUE ELSE UNCHANGED workspaceVars
  /\ IF p = "thread" THEN TRUE ELSE UNCHANGED threadVars
  /\ IF p = "extensions" THEN TRUE ELSE UNCHANGED extensionVars
  /\ IF p = "policy" THEN TRUE ELSE UNCHANGED runPolicyVars
  /\ IF p = "publications" THEN TRUE ELSE UNCHANGED publicationsVars
  /\ IF p = "host" THEN TRUE ELSE UNCHANGED bridgeVars
  /\ IF p = "events" THEN TRUE ELSE UNCHANGED eventViewVars
  /\ IF p = "followers" THEN TRUE ELSE UNCHANGED followersVars
  /\ IF p = "deployment" THEN TRUE ELSE UNCHANGED deploymentVars
  /\ IF p = "preferences" THEN TRUE ELSE UNCHANGED preferencesVars
  /\ IF p = "composer" THEN TRUE ELSE UNCHANGED composerVars
  /\ IF p = "embed" THEN TRUE ELSE UNCHANGED embedVars
  /\ IF p = "requests" THEN TRUE ELSE UNCHANGED requestsVars
  /\ IF p = "disclosure" THEN TRUE ELSE UNCHANGED disclosureVars
  /\ IF p = "tools" THEN TRUE ELSE UNCHANGED toolViewsVars
  /\ UNCHANGED part

MCNext ==
  \/ part = "sessions" /\ Alone(part) /\ SessionsNext
  \/ part = "workspace" /\ Alone(part) /\ WorkspaceNext
  \/ part = "thread" /\ Alone(part) /\ ThreadNext
  \/ part = "extensions" /\ Alone(part) /\ ExtensionsNext
  \/ part = "policy" /\ Alone(part) /\ RunPolicyNext
  \/ part = "publications" /\ Alone(part) /\ PublicationsNext
  \/ part = "host" /\ Alone(part) /\ HostBridgeNext
  \/ part = "events" /\ Alone(part) /\ EventViewNext
  \/ part = "followers" /\ Alone(part) /\ FollowersNext
  \/ part = "deployment" /\ Alone(part) /\ DeploymentNext
  \/ part = "preferences" /\ Alone(part) /\ PreferencesNext
  \/ part = "composer" /\ Alone(part) /\ ComposerNext
  \/ part = "embed" /\ Alone(part) /\ EmbedNext
  \* The two halves of Requests share only the config: one at a time.
  \/ part = "requests" /\ Alone(part) /\ runs = <<>> /\ FollowUpNext
  \/ part = "requests" /\ Alone(part) /\ followUp = NoItem /\ RunNext
  \/ part = "disclosure" /\ Alone(part) /\ DisclosureNext
  \/ part = "tools" /\ Alone(part) /\ ToolViewsNext

MCSpec == MCInit /\ [][MCNext]_mcVars

(* The type invariant of the component that runs. *)
MCTypeOK ==
  /\ part = "sessions" => SessionsTypeOK
  /\ part = "workspace" => WorkspaceTypeOK
  /\ part = "thread" => ThreadTypeOK
  /\ part = "extensions" => ExtensionsTypeOK
  /\ part = "policy" => RunPolicyTypeOK
  /\ part = "publications" => PublicationsTypeOK
  /\ part = "host" => HostBridgeTypeOK
  /\ part = "events" => EventViewTypeOK
  /\ part = "followers" => FollowersTypeOK
  /\ part = "deployment" => DeploymentTypeOK
  /\ part = "preferences" => PreferencesTypeOK
  /\ part = "composer" => ComposerTypeOK
  /\ part = "embed" => EmbedTypeOK
  /\ part = "requests" => RequestsTypeOK
  /\ part = "disclosure" => DisclosureTypeOK
  /\ part = "tools" => ToolViewsTypeOK

(* What tells two states apart: the variables of the component that runs, since
   those of the others never change. *)
MCView ==
  <<part,
    CASE part = "sessions" -> sessionsVars
      [] part = "workspace" -> workspaceVars
      [] part = "thread" -> threadVars
      [] part = "extensions" -> extensionVars
      [] part = "policy" -> runPolicyVars
      [] part = "publications" -> publicationsVars
      [] part = "host" -> bridgeVars
      [] part = "events" -> eventViewVars
      [] part = "followers" -> followersVars
      [] part = "deployment" -> deploymentVars
      [] part = "preferences" -> preferencesVars
      [] part = "composer" -> composerVars
      [] part = "embed" -> embedVars
      [] part = "requests" -> requestsVars
      [] part = "disclosure" -> disclosureVars
      [] part = "tools" -> toolViewsVars>>
====
