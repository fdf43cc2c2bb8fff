----------------------------- MODULE Extensions -----------------------------
(***************************************************************************)
(* Which extensions a turn may use.  Four facts meet: the catalog (built   *)
(* in adapters and what the Host's Runtime Config publishes), the profile  *)
(* that bounds a request, the tenant's installations, which operators      *)
(* enable and revoke under an audit trail (agent-extension-store.ts), and  *)
(* the policy recorded when the session started.  Eve's channel checks a   *)
(* request, and the dynamic resolver of skills checks again when the turn  *)
(* starts (agent/skills/published.ts).                                     *)
(*                                                                         *)
(* One tenant.  One step is a statement of the store or the code between   *)
(* two awaits.  The kinds skill and mcp go through the same code.          *)
(***************************************************************************)
EXTENDS Naturals, Sequences, FiniteSets, SequencesExt

CONSTANTS
  Exts,        \* id@version
  Compiled,    \* AGENT_EXTENSION_CATALOG and compiled connections
  Mcp,         \* the extensions of kind mcp; the others are skills
  Brokered,    \* mcp manifests that name an authProvider
  Admins,      \* principals with agent.extensions.manage
  Conversations,
  Configs,     \* Runtime Configs the Host publishes
  Absent,
  MaxChanges,  \* bound: installations changed
  MaxPublished \* bound: Runtime Configs published and environments changed

\* parseAgentRuntimeConfigSnapshot: a profile's defaults are allowed, and what it
\* allows has a manifest.
ASSUME ExtensionsAssumption ==
  /\ Absent \notin Exts
  /\ Compiled \subseteq Exts /\ Mcp \subseteq Exts /\ Brokered \subseteq Mcp
  /\ \A c \in Configs : c \in [extensions: SUBSET Exts, allowed: SUBSET Exts, defaults: SUBSET Exts]
  /\ \A c \in Configs : c.defaults \subseteq c.allowed /\ c.allowed \subseteq c.extensions
  /\ MaxChanges \in Nat /\ MaxPublished \in Nat

VARIABLES
  published,    \* the Host's current Runtime Config
  revokedRefs,  \* AGENT_REVOKED_EXTENSIONS
  versions,     \* how often either has changed
  installed,    \* agent_extension_installations
  auditTrail,   \* agent_extension_audit_events, in commit order
  changing,     \* an operator's transaction
  session       \* Eve sessions that use the extensions

extensionVars == <<published, revokedRefs, versions, installed, auditTrail, changing, session>>

Installation == [status: {"enabled", "revoked"}, credential: BOOLEAN]
MaybeInstalled == Installation \cup {Absent}

NoChange == [at |-> "idle"]
Change == [at: {"selecting", "upserting", "auditing"}, ext: Exts, to: Installation,
           before: MaybeInstalled, locked: BOOLEAN]

\* requested is the policy of the initiator, pinned the Runtime Config of the
\* session; granted, and seen, what the last turn got and how long the audit
\* trail was when it asked.
NoSession == [at |-> "none"]
Session == [at: {"requested", "admitted", "running", "waiting"}, requested: SUBSET Exts,
            pinned: Configs, granted: SUBSET Exts, seen: Nat]

ExtensionsTypeOK ==
  /\ published \in Configs /\ revokedRefs \subseteq Exts /\ versions \in 0..MaxPublished
  /\ installed \in [Exts -> MaybeInstalled]
  /\ auditTrail \in Seq([ext: Exts, before: MaybeInstalled, after: Installation])
  /\ changing \in [Admins -> Change \cup {NoChange}]
  /\ session \in [Conversations -> Session \cup {NoSession}]

ExtensionsInit ==
  /\ published \in Configs
  /\ revokedRefs = {}
  /\ versions = 0
  /\ installed = [x \in Exts |-> Absent]
  /\ auditTrail = <<>>
  /\ changing = [a \in Admins |-> NoChange]
  /\ session = [s \in Conversations |-> NoSession]

-----------------------------------------------------------------------------
(* The catalog, the profile and the tenant's state.                        *)

\* agentExtensionCatalogForConfig: a manifest of the config replaces a built-in.
Catalog(config) == Compiled \cup config.extensions

CredentialRequired(config, x) == x \in config.extensions \cap Brokered

DefaultEnabled(config, x) == IF x \in config.extensions THEN x \in config.defaults ELSE x \in Compiled

\* resolveAgentRunPolicy: a request may only narrow the profile; {Absent} stands for
\* a request that names no extensions and takes the defaults.
Asked(config, requested) == IF requested = {Absent} THEN config.defaults ELSE requested

Resolvable(config, requested) ==
  \A x \in Asked(config, requested) :
    /\ x \in config.allowed
    /\ x \in IF x \in Mcp THEN Compiled ELSE Catalog(config)
    /\ x \notin revokedRefs

\* assertAgentRunExtensionsEnabled, over the installations rows
AllEnabled(config, xs, rows) ==
  \A x \in xs :
    /\ x \in Catalog(config)
    /\ IF rows[x] = Absent THEN DefaultEnabled(config, x) ELSE rows[x].status = "enabled"
    /\ CredentialRequired(config, x) => rows[x] # Absent /\ rows[x].credential

-----------------------------------------------------------------------------
(* Operators enable and revoke: mutate, in one transaction.                *)

\* A transaction that selected an existing row, or wrote one, holds its lock.
LockedByOther(a, x) ==
  \E b \in Admins \ {a} : changing[b] # NoChange /\ changing[b].ext = x /\ changing[b].locked

\* The checks before the transaction: the manifest, and its credential mode.
BeginChange(a, x, to) ==
  /\ changing[a] = NoChange
  /\ x \in Catalog(published)
  /\ to.credential => to.status = "enabled" /\ CredentialRequired(published, x)
  /\ to.status = "enabled" /\ CredentialRequired(published, x) => to.credential
  /\ Len(auditTrail) + Cardinality({b \in Admins : changing[b] # NoChange}) < MaxChanges
  /\ changing' = [changing EXCEPT ![a] =
       [at |-> "selecting", ext |-> x, to |-> to, before |-> Absent, locked |-> FALSE]]
  /\ UNCHANGED <<published, revokedRefs, versions, installed, auditTrail, session>>

\* select ... for update: waits for the row's lock, and locks nothing when there
\* is no row.
SelectInstallation(a) ==
  LET t == changing[a] IN
  /\ t.at = "selecting"
  /\ installed[t.ext] # Absent => ~LockedByOther(a, t.ext)
  /\ changing' = [changing EXCEPT ![a] =
       [t EXCEPT !.at = "upserting", !.before = installed[t.ext],
                 !.locked = installed[t.ext] # Absent]]
  /\ UNCHANGED <<published, revokedRefs, versions, installed, auditTrail, session>>

\* Mutant: the upsert does not wait for the row.
UpsertInstallationUnlocked(a) ==
  LET t == changing[a] IN
  /\ t.at = "upserting"
  /\ changing' = [changing EXCEPT ![a] = [t EXCEPT !.at = "auditing"]]
  /\ installed' = [installed EXCEPT ![t.ext] = t.to]
  /\ UNCHANGED <<published, revokedRefs, versions, auditTrail, session>>

\* insert ... on conflict do update: waits for the row, or for another insert of it.
UpsertInstallation(a) ==
  LET t == changing[a] IN
  /\ t.at = "upserting"
  /\ ~LockedByOther(a, t.ext)
  /\ changing' = [changing EXCEPT ![a] = [t EXCEPT !.at = "auditing", !.locked = TRUE]]
  /\ UNCHANGED <<published, revokedRefs, versions, installed, auditTrail, session>>

\* The audit event, and commit: both become visible at once.
CommitChange(a) ==
  LET t == changing[a] IN
  /\ t.at = "auditing"
  /\ installed' = [installed EXCEPT ![t.ext] = t.to]
  /\ auditTrail' = Append(auditTrail, [ext |-> t.ext, before |-> t.before, after |-> t.to])
  /\ changing' = [changing EXCEPT ![a] = NoChange]
  /\ UNCHANGED <<published, revokedRefs, versions, session>>

\* A statement fails or the connection is lost: rollback.
RollbackChange(a) ==
  /\ changing[a] # NoChange
  /\ changing' = [changing EXCEPT ![a] = NoChange]
  /\ UNCHANGED <<published, revokedRefs, versions, installed, auditTrail, session>>

-----------------------------------------------------------------------------
(* The Host and the operator of the deployment.                            *)

PublishConfig(c) ==
  /\ versions < MaxPublished /\ c # published
  /\ published' = c
  /\ versions' = versions + 1
  /\ UNCHANGED <<revokedRefs, installed, auditTrail, changing, session>>

RestartWithRevoked(x) ==
  /\ versions < MaxPublished /\ x \notin revokedRefs
  /\ revokedRefs' = revokedRefs \cup {x}
  /\ versions' = versions + 1
  /\ UNCHANGED <<published, installed, auditTrail, changing, session>>

-----------------------------------------------------------------------------
(* A session's turns.                                                      *)

SessionStep(s, v) ==
  /\ session' = [session EXCEPT ![s] = v]
  /\ UNCHANGED <<published, revokedRefs, versions, installed, auditTrail, changing>>

\* withAgentPreferences, for the request that starts the session: the policy is
\* resolved against the Runtime Config of the token and asserted for the tenant.
\* It is recorded as the initiator's, and the config is pinned.
StartRequest(s, requested) ==
  LET asked == Asked(published, requested) IN
  /\ session[s] = NoSession
  /\ Resolvable(published, requested)
  /\ AllEnabled(published, asked, installed)
  /\ SessionStep(s, [at |-> "admitted", requested |-> asked, pinned |-> published,
                     granted |-> {}, seen |-> 0])

\* A continuation is checked the same way, with its own request and the Runtime
\* Config of its own token; neither replaces what the session recorded.
ContinueRequest(s, requested) ==
  /\ session[s] # NoSession /\ session[s].at = "waiting"
  /\ Resolvable(published, requested)
  /\ AllEnabled(published, Asked(published, requested), installed)
  /\ SessionStep(s, [session[s] EXCEPT !.at = "admitted"])

\* Mutant: the resolver trusts the check the request passed.
ResolveSkillsUnchecked(s) ==
  LET v == session[s] IN
  /\ v # NoSession /\ v.at = "admitted"
  /\ SessionStep(s, [v EXCEPT !.at = "running", !.granted = v.requested, !.seen = Len(auditTrail)])

\* resolvePublishedSkills at turn.started: the recorded policy against the pinned
\* config, the tenant's rows and this process's environment.  It throws, and the
\* turn fails, unless all of it is still allowed.
ResolveSkills(s) ==
  LET v == session[s]
      allowed == Resolvable(v.pinned, v.requested) /\ AllEnabled(v.pinned, v.requested, installed) IN
  /\ v # NoSession /\ v.at = "admitted"
  /\ SessionStep(s, [v EXCEPT !.at = IF allowed THEN "running" ELSE "waiting",
                              !.granted = IF allowed THEN @ \cup v.requested ELSE {},
                              !.seen = Len(auditTrail)])

EndExtensionTurn(s) ==
  /\ session[s] # NoSession /\ session[s].at = "running"
  /\ SessionStep(s, [session[s] EXCEPT !.at = "waiting", !.granted = {}])

-----------------------------------------------------------------------------
ExtensionsNext ==
  \/ \E a \in Admins :
       \/ \E x \in Exts, to \in Installation : BeginChange(a, x, to)
       \/ SelectInstallation(a) \/ UpsertInstallation(a) \/ CommitChange(a) \/ RollbackChange(a)
  \/ \E c \in Configs : PublishConfig(c)
  \/ \E x \in Exts : RestartWithRevoked(x)
  \/ \E s \in Conversations :
       \/ \E requested \in SUBSET Exts \cup {{Absent}} :
            StartRequest(s, requested) \/ ContinueRequest(s, requested)
       \/ ResolveSkills(s) \/ EndExtensionTurn(s)

ExtensionsSpec == ExtensionsInit /\ [][ExtensionsNext]_extensionVars

-----------------------------------------------------------------------------
(* Properties.                                                             *)

\* The state of x that the first n audit events leave behind.
AuditedState(n, x) ==
  LET changes == {i \in 1..n : auditTrail[i].ext = x} IN
  IF changes = {} THEN Absent
  ELSE auditTrail[CHOOSE i \in changes : \A j \in changes : j <= i].after

\* The audit trail, read in commit order, ends in the installed state, and an
\* event that replaced a row names the state it replaced: concurrent enables and
\* revokes of one extension lose neither a change nor its record.
AuditTellsTheState ==
  /\ \A x \in Exts : installed[x] = AuditedState(Len(auditTrail), x)
  /\ \A i \in DOMAIN auditTrail :
       auditTrail[i].before \in {Absent, AuditedState(i - 1, auditTrail[i].ext)}

\* "A revocation takes effect on the next Run or continuation boundary": what a
\* running turn was granted is in its session's profile and was enabled, by the
\* audit trail, when the turn started, whenever the revocation raced with the
\* checks of the request.
GrantsWereEnabled ==
  \A s \in Conversations : session[s] # NoSession =>
    \A x \in session[s].granted :
      LET state == AuditedState(session[s].seen, x) IN
      /\ x \in session[s].pinned.allowed
      /\ IF state = Absent THEN DefaultEnabled(session[s].pinned, x) ELSE state.status = "enabled"
=============================================================================
