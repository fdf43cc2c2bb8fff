----------------------------- MODULE HostBridge -----------------------------
(***************************************************************************)
(* Calls that leave the Agent for its Host.  A session discovers the       *)
(* Host's capabilities (host_capabilities), remembers their descriptors,   *)
(* decides from them whether a call needs the user's approval, signs and   *)
(* sends it (host_invoke, packages/agent-host); the Host verifies the      *)
(* signature and its age and dispatches by name.  An MCP connection asks   *)
(* the Host's credential broker for a token first                          *)
(* (packages/agent-mcp-adapter).                                           *)
(*                                                                         *)
(* One session.  One step is a request, its handling, its answer or the    *)
(* time-out of one of them.  Eve replays the step of a tool call whose     *)
(* process died with the same call id; the Host performs one operation per *)
(* correlation id (both external).                                         *)
(***************************************************************************)
EXTENDS Naturals, FiniteSets

CONSTANTS
  Capabilities,   \* names the Host may register
  AllowedHost,    \* hostCapabilities of the recorded policy
  McpTools,       \* the compiled allowlist of the MCP connection
  ApprovalTools,  \* its requireApproval
  McpGranted,     \* whether the recorded policy grants the connection
  CallIds,
  MaxSkew,        \* maxClockSkewMs, in ticks
  MaxBridgeTime,  \* bound: the clock
  MaxCatalogs,    \* bound: changes of the Host's catalog
  MaxSends        \* bound: replays of a call

\* adapterConfigSchema: an approval entry is in the compiled allowlist.
ASSUME HostBridgeAssumption ==
  /\ AllowedHost \subseteq Capabilities /\ ApprovalTools \subseteq McpTools
  /\ McpGranted \in BOOLEAN /\ Capabilities \cap McpTools = {} /\ "none" \notin CallIds
  /\ {MaxSkew, MaxBridgeTime, MaxCatalogs, MaxSends} \subseteq Nat

VARIABLES
  hostCatalog,  \* what the Host registers now, and since which of its versions
  catalogVersion,
  listing,      \* an answer to host_capabilities on its way
  remembered,   \* hostCapabilityCatalogState, and the version it was taken from
  actorType,    \* of the turn's principal
  scope,        \* the class of its agentHostScope claim
  toolCalls,
  wire,         \* signed requests on their way
  effects,      \* operations the Host performed: history
  credential,   \* of the MCP connection
  bridgeTime

bridgeVars == <<hostCatalog, catalogVersion, listing, remembered, actorType, scope, toolCalls, wire,
                effects, credential, bridgeTime>>

\* A scope, or none, that the client signs and the Host takes; one with a key outside
\* of the pattern; one that is signed but encoded in more than 8,192 characters.
Scopes == {"fits", "misnamed", "large"}
SideEffects == {"none", "external"}    \* project-write is treated as external
Descriptors == [Capabilities -> SideEffects \cup {"unknown"}]
NoListing == [version |-> 0, descriptors |-> [n \in Capabilities |-> "unknown"]]
Listing == [version: 0..MaxCatalogs, descriptors: Descriptors]
NotCalled == [at |-> "none"]
ToolCall == [at: {"asking", "ready", "sent", "handled", "done", "failed"},
             name: Capabilities \cup McpTools, actor: {"user", "service"}, approved: BOOLEAN,
             basis: 0..MaxCatalogs, sends: 0..MaxSends]
NoCredential == [at |-> "none", expires |-> 0]

HostBridgeTypeOK ==
  /\ hostCatalog \in [Capabilities -> [effect: SideEffects \cup {"unknown"}, since: 0..MaxCatalogs]]
  /\ catalogVersion \in 0..MaxCatalogs
  /\ listing \in Listing /\ remembered \in Listing
  /\ actorType \in {"user", "service"} /\ scope \in Scopes
  /\ toolCalls \in [CallIds -> ToolCall \cup {NotCalled}]
  /\ wire \subseteq [call: CallIds, signedAt: Nat, correlation: CallIds \cup {"none"}]
  /\ credential.at \in {"none", "held", "unavailable", "refused"}

HostBridgeInit ==
  /\ hostCatalog \in [Capabilities -> [effect: SideEffects, since: {0}]]
  /\ catalogVersion = 0
  /\ listing = NoListing /\ remembered = NoListing
  /\ actorType \in {"user", "service"} /\ scope \in Scopes
  /\ toolCalls = [c \in CallIds |-> NotCalled]
  /\ wire = {} /\ effects = {}
  /\ credential = NoCredential /\ bridgeTime = 0

-----------------------------------------------------------------------------
(* The Host, the turn's principal, and time.                               *)

ChangeCatalog(n, effect) ==
  /\ catalogVersion < MaxCatalogs /\ hostCatalog[n].effect # effect
  /\ catalogVersion' = catalogVersion + 1
  /\ hostCatalog' = [hostCatalog EXCEPT ![n] = [effect |-> effect, since |-> catalogVersion + 1]]
  /\ UNCHANGED <<listing, remembered, actorType, toolCalls, wire, effects, credential, bridgeTime>>

\* hostJwtAuth: the principal of a continuation is a user, or a service.
ContinueAs(type) ==
  /\ actorType # type /\ \A c \in CallIds : toolCalls[c].at \notin {"asking", "ready", "sent", "handled"}
  /\ actorType' = type
  /\ UNCHANGED <<hostCatalog, catalogVersion, listing, remembered, toolCalls, wire, effects, credential, bridgeTime>>

TickBridge ==
  /\ bridgeTime < MaxBridgeTime /\ bridgeTime' = bridgeTime + 1
  /\ UNCHANGED <<hostCatalog, catalogVersion, listing, remembered, actorType, toolCalls, wire, effects, credential>>

-----------------------------------------------------------------------------
(* host_capabilities                                                       *)

\* shouldExposeHostCapabilities: a policy that names no capability has no tool.
Exposed == AllowedHost # {}

\* validateIdentity, by the client that signs and by the Host that verifies; the Host
\* also bounds the header it decodes the scope from.
Signable == scope # "misnamed"
Decodable == Signable /\ scope # "large"

\* The Host answers list; only what the policy allows is visible.
ListCapabilities ==
  /\ Exposed /\ Decodable /\ listing = NoListing
  /\ listing' = [version |-> catalogVersion,
                 descriptors |-> [n \in Capabilities |->
                   IF n \in AllowedHost THEN hostCatalog[n].effect ELSE "unknown"]]
  /\ UNCHANGED <<hostCatalog, catalogVersion, remembered, actorType, toolCalls, wire, effects, credential, bridgeTime>>

RememberCapabilities ==
  /\ listing # NoListing
  /\ remembered' = listing /\ listing' = NoListing
  /\ UNCHANGED <<hostCatalog, catalogVersion, actorType, toolCalls, wire, effects, credential, bridgeTime>>

-----------------------------------------------------------------------------
(* host_invoke                                                             *)

CallStep(c, next) ==
  /\ toolCalls' = [toolCalls EXCEPT ![c] = next]
  /\ UNCHANGED <<hostCatalog, catalogVersion, listing, remembered, actorType, bridgeTime>>

\* Mutant: what was never discovered is taken for harmless.
ApprovalUnlessExternal(n) ==
  IF actorType = "service" \/ remembered.descriptors[n] # "external" THEN "not-applicable" ELSE "user-approval"

\* hostCapabilityApprovalDecision
HostApproval(n) ==
  IF actorType = "service" \/ remembered.descriptors[n] = "none" THEN "not-applicable" ELSE "user-approval"

\* approvalForMcpTool
McpApproval(t) == IF t \in ApprovalTools THEN "user-approval" ELSE "not-applicable"

\* The model calls a tool; Eve asks for the decision.
CallTool(c, n) ==
  LET decision == IF n \in McpTools THEN McpApproval(n) ELSE HostApproval(n) IN
  /\ toolCalls[c] = NotCalled
  /\ n \in Capabilities => Exposed
  /\ CallStep(c, [at |-> IF decision = "user-approval" THEN "asking" ELSE "ready", name |-> n,
                  actor |-> actorType, approved |-> FALSE, basis |-> remembered.version, sends |-> 0])
  /\ UNCHANGED <<wire, effects, credential>>

AnswerCall(c, approved) ==
  /\ toolCalls[c].at = "asking"
  /\ CallStep(c, [toolCalls[c] EXCEPT !.at = IF approved THEN "ready" ELSE "failed", !.approved = approved])
  /\ UNCHANGED <<wire, effects, credential>>

\* Mutant: invoke without the tool call's id.
UncorrelatedRequest(c) == [call |-> c, signedAt |-> bridgeTime, correlation |-> "none"]

\* signAgentHostCapabilityRequest, over the body that holds the correlation id.
SignedRequest(c) == [call |-> c, signedAt |-> bridgeTime, correlation |-> c]

\* invokeHostCapability: outside the policy, or with a scope that cannot be signed, it
\* throws; otherwise it is sent.
SendInvoke(c) ==
  LET v == toolCalls[c] IN
  /\ v.at = "ready" /\ v.name \in Capabilities /\ v.sends < MaxSends
  /\ IF v.name \in AllowedHost /\ Signable
     THEN /\ wire' = wire \cup {SignedRequest(c)}
          /\ CallStep(c, [v EXCEPT !.at = "sent", !.sends = @ + 1])
     ELSE UNCHANGED wire /\ CallStep(c, [v EXCEPT !.at = "failed"])
  /\ UNCHANGED <<effects, credential>>

\* verifyAgentHostCapabilityRequest: the age of the timestamp, both ways.
Fresh(m) == bridgeTime - m.signedAt <= MaxSkew

\* The registry dispatches by name; the operation is performed once per
\* correlation id.  What is refused is answered with an error.
HostHandles(m) ==
  LET v == toolCalls[m.call]
      known == hostCatalog[v.name].effect # "unknown" IN
  /\ wire' = wire \ {m}
  /\ effects' = IF Fresh(m) /\ Decodable /\ known /\ (m.correlation = "none" \/ ~\E e \in effects : e.correlation = m.correlation)
                THEN effects \cup {[call |-> m.call, correlation |-> m.correlation, send |-> v.sends,
                                    effect |-> hostCatalog[v.name].effect, since |-> hostCatalog[v.name].since]}
                ELSE effects
  /\ CallStep(m.call, IF v.at = "sent" THEN [v EXCEPT !.at = "handled"] ELSE v)
  /\ UNCHANGED credential

\* The answer arrives, checked against the contract, or is an error.
InvokeAnswered(c, ok) ==
  /\ toolCalls[c].at = "handled"
  /\ CallStep(c, [toolCalls[c] EXCEPT !.at = IF ok THEN "done" ELSE "failed"])
  /\ UNCHANGED <<wire, effects, credential>>

\* AbortSignal.timeout, or the caller's: the Host may still perform it.
InvokeTimesOut(c) ==
  /\ toolCalls[c].at \in {"sent", "handled"}
  /\ CallStep(c, [toolCalls[c] EXCEPT !.at = "failed"])
  /\ UNCHANGED <<wire, effects, credential>>

\* The process dies in the call; Eve's workflow runs the step again.
ReplayCall(c) ==
  /\ toolCalls[c].at \in {"sent", "handled"} /\ toolCalls[c].sends < MaxSends
  /\ CallStep(c, [toolCalls[c] EXCEPT !.at = "ready"])
  /\ UNCHANGED <<wire, effects, credential>>

-----------------------------------------------------------------------------
(* The MCP connection.                                                     *)

\* authorizeMcpSession: the recorded policy grants this adapter.  Then the broker
\* answers: a token that has not expired, a refusal, or nothing usable.
ResolveCredential(answer) ==
  /\ McpGranted /\ credential.at # "held"
  /\ \E c \in CallIds : toolCalls[c].at = "ready" /\ toolCalls[c].name \in McpTools
  /\ credential' = CASE answer = "token" -> [at |-> "held", expires |-> bridgeTime + 1]
                     [] answer = "expired" -> [at |-> "refused", expires |-> 0]
                     [] answer = "forbidden" -> [at |-> "refused", expires |-> 0]
                     [] answer = "unavailable" -> [at |-> "unavailable", expires |-> 0]
  /\ UNCHANGED <<hostCatalog, catalogVersion, listing, remembered, actorType, toolCalls, wire, effects, bridgeTime>>

\* The tool runs with the token; without a grant or a token the call fails, at once
\* unless the error was retryable.
RunMcpTool(c) ==
  LET v == toolCalls[c] IN
  /\ v.at = "ready" /\ v.name \in McpTools
  /\ \/ /\ credential.at = "held" /\ credential.expires > bridgeTime
        /\ CallStep(c, [v EXCEPT !.at = "done"])
        /\ UNCHANGED credential
     \/ /\ credential.at = "held" => credential.expires <= bridgeTime
        /\ CallStep(c, IF McpGranted /\ credential.at = "held" THEN v ELSE [v EXCEPT !.at = "failed"])
        /\ credential' = NoCredential
  /\ UNCHANGED <<wire, effects>>

-----------------------------------------------------------------------------
HostBridgeStep ==
  \/ TickBridge \/ ListCapabilities \/ RememberCapabilities
  \/ \E n \in Capabilities, effect \in SideEffects \cup {"unknown"} : ChangeCatalog(n, effect)
  \/ \E type \in {"user", "service"} : ContinueAs(type)
  \/ \E m \in wire : HostHandles(m)
  \/ \E answer \in {"token", "expired", "forbidden", "unavailable"} : ResolveCredential(answer)
  \/ \E c \in CallIds :
       \/ \E n \in Capabilities \cup McpTools : CallTool(c, n)
       \/ toolCalls[c] # NotCalled /\
            \/ \E ok \in BOOLEAN : AnswerCall(c, ok) \/ InvokeAnswered(c, ok)
            \/ SendInvoke(c) \/ InvokeTimesOut(c) \/ ReplayCall(c) \/ RunMcpTool(c)

HostBridgeNext == HostBridgeStep /\ UNCHANGED scope

HostBridgeSpec == HostBridgeInit /\ [][HostBridgeNext]_bridgeVars

-----------------------------------------------------------------------------
(* Properties.                                                             *)

\* "Every invocation uses the Eve tool call id as its idempotency correlation": a
\* call that is sent again, after a crash or with the first request still on its
\* way, is performed once.
OneEffectPerCall == \A d, e \in effects : d.call = e.call => d = e

\* A call that a user did not approve has an effect beyond reading only when a
\* service made it, or when the Host changed the capability after the session had
\* last discovered it; and it is one the policy allows.
EffectsWereDecided ==
  \A e \in effects :
    LET v == toolCalls[e.call] IN
    /\ v.name \in AllowedHost
    /\ e.effect = "external" /\ ~v.approved /\ v.actor = "user" => e.since > v.basis
=============================================================================
