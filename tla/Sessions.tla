------------------------------ MODULE Sessions ------------------------------
(***************************************************************************)
(* Who owns an Eve session, and how its sandbox is deleted.                *)
(*                                                                         *)
(*   - the immutable owner of a session, recorded by the session.started   *)
(*     hook (server/data/session-ownership-store.ts), and the channel      *)
(*     requests that race with that hook;                                  *)
(*   - deleteAgentSession (server/agent-sessions/service.ts), which        *)
(*     retires the session and authorizes the deletion of its sandbox;     *)
(*   - the table agent_sandbox_deletions and the operator's reaper         *)
(*     (scripts/reap-docker-sandboxes.mjs), which removes containers.      *)
(*                                                                         *)
(* One step is one SQL statement or transaction, one call of the Eve       *)
(* runtime or one docker command.  Eve and Docker are external.            *)
(***************************************************************************)
EXTENDS Naturals, Sequences, FiniteSets, SequencesExt

CONSTANTS
  SessionIds,
  Principals,   \* (tenant, principal) pairs
  Containers,   \* session sandboxes, by Docker id
  Home,         \* the session label of a container
  Reapers,      \* operator runs that may overlap
  Nobody,
  Retention,    \* retentionHours
  MaxRemovals,  \* containers one invocation selects
  Protected,    \* EVE_SANDBOX_PROTECTED_SESSION_IDS
  MaxClock,     \* bound: the clock
  MaxClaims     \* bound: claims of one deletion record

ASSUME SessionsAssumption ==
  /\ Home \in [Containers -> SessionIds]
  /\ Nobody \notin SessionIds \cup Principals \cup Containers
  /\ Retention \in Nat /\ IsFiniteSet(Containers)
  /\ MaxRemovals \in Nat \ {0}
  /\ Protected \subseteq SessionIds
  /\ MaxClock \in Nat
  /\ MaxClaims \in Nat

VARIABLES
  initiator,    \* who started the Eve session
  eveState,     \* none, active, retired
  sessionOwner, \* agent_session_owners
  deletion,     \* agent_sandbox_deletions, or Nobody
  box,          \* Docker's containers
  clock,
  accessing,    \* a principal's request to the channel
  deleting,     \* a principal's DELETE request
  reaping       \* a run of the reaper

sessionsVars == <<initiator, eveState, sessionOwner, deletion, box, clock,
                  accessing, deleting, reaping>>

\* SandboxDeletionRecord: over says that claim_expires_at has passed.
Deletion == [status: {"authorized", "claimed", "completed", "failed"},
             by: Principals, attempt: 0..MaxClaims, over: BOOLEAN,
             container: Containers \cup {Nobody}]

ASSUME NobodyIsNoRecord == Nobody \notin Deletion

\* What docker inspect tells of a container; last is the latest of its three
\* lifecycle times.
Box == [state: {"none", "running", "stopped", "removed"}, last: 0..MaxClock]

Request == [at: {"idle", "verifying", "granted", "finding", "resetting", "requesting"},
            session: SessionIds \cup {Nobody}]

\* A reaper run: forced is the session of --session-id --include-running, token
\* the attempt whose claim token it holds.
Reaping == [at: {"idle", "claiming", "inspecting", "removing", "completing", "failing"},
            forced: SessionIds \cup {Nobody}, todo: Seq(Containers), token: Nat]

SessionsTypeOK ==
  /\ initiator \in [SessionIds -> Principals \cup {Nobody}]
  /\ eveState \in [SessionIds -> {"none", "active", "retired"}]
  /\ sessionOwner \in [SessionIds -> Principals \cup {Nobody}]
  /\ deletion \in [SessionIds -> Deletion \cup {Nobody}]
  /\ box \in [Containers -> Box]
  /\ clock \in 0..MaxClock
  /\ accessing \in [Principals -> Request]
  /\ deleting \in [Principals -> Request]
  /\ reaping \in [Reapers -> Reaping]

NoRequest == [at |-> "idle", session |-> Nobody]
NoRun == [at |-> "idle", forced |-> Nobody, todo |-> <<>>, token |-> 0]

SessionsInit ==
  /\ initiator = [s \in SessionIds |-> Nobody]
  /\ eveState = [s \in SessionIds |-> "none"]
  /\ sessionOwner = [s \in SessionIds |-> Nobody]
  /\ deletion = [s \in SessionIds |-> Nobody]
  /\ box = [c \in Containers |-> [state |-> "none", last |-> 0]]
  /\ clock = 0
  /\ accessing = [p \in Principals |-> NoRequest]
  /\ deleting = [p \in Principals |-> NoRequest]
  /\ reaping = [r \in Reapers |-> NoRun]

-----------------------------------------------------------------------------
(* Ownership.                                                              *)

\* verify
Ownership(s, p) ==
  CASE sessionOwner[s] = Nobody -> "missing"
    [] sessionOwner[s] = p -> "owned"
    [] OTHER -> "forbidden"

\* A principal's first message creates an Eve session; the hook has not run.
StartSession(s, p) ==
  /\ eveState[s] = "none"
  /\ initiator' = [initiator EXCEPT ![s] = p]
  /\ eveState' = [eveState EXCEPT ![s] = "active"]
  /\ UNCHANGED <<sessionOwner, deletion, box, clock, accessing, deleting, reaping>>

\* The session.started hook: claim inserts unless a row exists.  Eve may
\* deliver the event again.
ClaimSession(s) ==
  /\ initiator[s] # Nobody
  /\ sessionOwner[s] = Nobody
  /\ sessionOwner' = [sessionOwner EXCEPT ![s] = initiator[s]]
  /\ UNCHANGED <<initiator, eveState, deletion, box, clock, accessing, deleting, reaping>>

\* withSessionOwnership: a request for a session starts its bounded wait.
BeginAccess(p, s) ==
  /\ accessing[p].at = "idle"
  /\ eveState[s] # "none"
  /\ accessing' = [accessing EXCEPT ![p] = [at |-> "verifying", session |-> s]]
  /\ UNCHANGED <<initiator, eveState, sessionOwner, deletion, box, clock, deleting, reaping>>

\* waitForOwnership: polls while the row is missing; the deadline may end it.
AccessVerified(p) ==
  LET found == Ownership(accessing[p].session, p) IN
  /\ accessing[p].at = "verifying"
  /\ accessing' = [accessing EXCEPT ![p] =
       IF found = "owned" THEN [@ EXCEPT !.at = "granted"] ELSE NoRequest]
  /\ UNCHANGED <<initiator, eveState, sessionOwner, deletion, box, clock, deleting, reaping>>

\* The granted request: the turn may start the session's sandbox, or start it
\* again when it was stopped.  A retired session refuses it.
UseSession(p, c) ==
  /\ accessing[p].at = "granted"
  /\ Home[c] = accessing[p].session
  /\ box' = IF eveState[Home[c]] = "active" /\ box[c].state \in {"none", "stopped"}
            THEN [box EXCEPT ![c] = [state |-> "running", last |-> clock]]
            ELSE box
  /\ accessing' = [accessing EXCEPT ![p] = NoRequest]
  /\ UNCHANGED <<initiator, eveState, sessionOwner, deletion, clock, deleting, reaping>>

\* Eve stops an idle sandbox.
StopSandbox(c) ==
  /\ box[c].state = "running"
  /\ box' = [box EXCEPT ![c] = [state |-> "stopped", last |-> clock]]
  /\ UNCHANGED <<initiator, eveState, sessionOwner, deletion, clock, accessing, deleting, reaping>>

SessionsTick ==
  /\ clock < MaxClock
  /\ clock' = clock + 1
  /\ UNCHANGED <<initiator, eveState, sessionOwner, deletion, box, accessing, deleting, reaping>>

-----------------------------------------------------------------------------
(* DELETE /api/agent/sessions/[sessionId].                                 *)

\* The route authenticates the host token; any principal may name any session.
BeginDelete(p, s) ==
  /\ deleting[p].at = "idle"
  /\ deleting' = [deleting EXCEPT ![p] = [at |-> "verifying", session |-> s]]
  /\ UNCHANGED <<initiator, eveState, sessionOwner, deletion, box, clock, accessing, reaping>>

DeleteStep(p, from, to) ==
  /\ deleting[p].at = from
  /\ deleting' = [deleting EXCEPT ![p] = IF to = "idle" THEN NoRequest ELSE [@ EXCEPT !.at = to]]
  /\ UNCHANGED <<initiator, sessionOwner, box, clock, accessing, reaping>>

\* ownershipStore.verify: missing and forbidden are both answered 404.
DeleteVerified(p) ==
  /\ DeleteStep(p, "verifying",
       IF Ownership(deleting[p].session, p) = "owned" THEN "finding" ELSE "idle")
  /\ UNCHANGED <<eveState, deletion>>

\* findOwned: an existing record is replayed without another reset.
DeleteFound(p) ==
  LET d == deletion[deleting[p].session] IN
  /\ DeleteStep(p, "finding", IF d # Nobody /\ d.by = p THEN "idle" ELSE "resetting")
  /\ UNCHANGED <<eveState, deletion>>

\* Mutant: the authorization does not wait for the reset's answer.
DeleteResetIgnoringFailure(p) ==
  /\ DeleteStep(p, "resetting", "requesting")
  /\ eveState' \in {eveState, [eveState EXCEPT ![deleting[p].session] = "retired"]}
  /\ UNCHANGED deletion

\* runtime.reset.  It may fail before or after Eve retired the session: the
\* request answers 502 and authorizes nothing.
DeleteReset(p) ==
  \/ /\ DeleteStep(p, "resetting", "requesting")
     /\ eveState' = [eveState EXCEPT ![deleting[p].session] = "retired"]
     /\ UNCHANGED deletion
  \/ /\ DeleteStep(p, "resetting", "idle")
     /\ eveState' \in {eveState, [eveState EXCEPT ![deleting[p].session] = "retired"]}
     /\ UNCHANGED deletion

\* deletionStore.request: under the owner row's lock, insert unless a record
\* exists.
RequestDeletion(p) ==
  LET s == deleting[p].session IN
  /\ DeleteStep(p, "requesting", "idle")
  /\ deletion' = IF Ownership(s, p) = "owned" /\ deletion[s] = Nobody
                 THEN [deletion EXCEPT ![s] = [status |-> "authorized", by |-> p, attempt |-> 0,
                                               over |-> FALSE, container |-> Nobody]]
                 ELSE deletion
  /\ UNCHANGED eveState

\* The process dies, or a statement of the request fails.
DeleteLost(p) ==
  /\ deleting[p].at # "idle"
  /\ DeleteStep(p, deleting[p].at, "idle")
  /\ UNCHANGED <<eveState, deletion>>

-----------------------------------------------------------------------------
(* Retention: which containers a run of the reaper may remove.             *)

\* The reason a container is skipped, in the order of the checks; the label,
\* role and name tests of ownedSessionId hold of every session sandbox.
SkipReason(c, only, forced, limit) ==
  CASE box[c].state \in {"none", "removed"} -> "not-owned"
    [] only # Nobody /\ Home[c] # only -> "session-mismatch"
    [] Home[c] \in Protected -> "protected"
    [] box[c].state = "running" /\ forced # Home[c] -> "running"
    [] clock - box[c].last < limit -> "not-expired"
    [] OTHER -> "eligible"

\* Oldest first and cut at maxRemovals; containers of one age in any order (the
\* code orders them by name).
Candidates(forced) ==
  LET eligible == {c \in Containers : SkipReason(c, forced, forced, Retention) = "eligible"}
      limit == IF Cardinality(eligible) < MaxRemovals THEN Cardinality(eligible) ELSE MaxRemovals
      sorted == {q \in SetToSeqs(eligible) : \A i, j \in DOMAIN q :
                   i < j => box[q[i]].last <= box[q[j]].last}
  IN {SubSeq(q, 1, limit) : q \in sorted}

-----------------------------------------------------------------------------
(* The reaper, with --apply.                                               *)

BeginReaping(r, forced) ==
  /\ reaping[r].at = "idle"
  /\ \E todo \in Candidates(forced) :
       reaping' = [reaping EXCEPT ![r] =
         [at |-> "claiming", forced |-> forced, todo |-> todo, token |-> 0]]
  /\ UNCHANGED <<initiator, eveState, sessionOwner, deletion, box, clock, accessing, deleting>>

Target(r) == Head(reaping[r].todo)

ReaperStep(r, from, to) ==
  /\ reaping[r].at = from
  /\ reaping' = [reaping EXCEPT ![r] = to]
  /\ UNCHANGED <<initiator, eveState, sessionOwner, clock, accessing, deleting>>

\* deletionStore.claim's where clause (not_before is the time of the request).
Claimable(d) ==
  /\ d # Nobody
  /\ \/ d.status \in {"authorized", "failed"}
     \/ d.status = "claimed" /\ d.over

ClaimDeletion(r) ==
  /\ reaping[r].todo # <<>>
  /\ LET c == Target(r)
         s == Home[c]
         d == deletion[s] IN
     IF Claimable(d)
     THEN /\ d.attempt < MaxClaims
          /\ deletion' = [deletion EXCEPT ![s] =
               [d EXCEPT !.status = "claimed", !.attempt = @ + 1, !.over = FALSE, !.container = c]]
          /\ ReaperStep(r, "claiming",
               [reaping[r] EXCEPT !.at = "inspecting", !.token = d.attempt + 1])
     ELSE /\ ReaperStep(r, "claiming", [reaping[r] EXCEPT !.todo = Tail(@)])
          /\ UNCHANGED deletion
  /\ UNCHANGED box

\* The lease of 60 s expires while docker commands run.
ExpireDeletionLease(s) ==
  /\ deletion[s] # Nobody
  /\ deletion[s].status = "claimed"
  /\ ~deletion[s].over
  /\ deletion' = [deletion EXCEPT ![s].over = TRUE]
  /\ UNCHANGED <<initiator, eveState, sessionOwner, box, clock, accessing, deleting, reaping>>

\* docker inspect, and the selection again on this container alone.
Revalidate(r) ==
  LET reason == SkipReason(Target(r), Home[Target(r)],
                           reaping[r].forced, Retention) IN
  /\ ReaperStep(r, "inspecting",
       [reaping[r] EXCEPT !.at = IF reason = "eligible" THEN "removing" ELSE "failing"])
  /\ UNCHANGED <<deletion, box>>

\* docker rm, with -f only under --include-running; Docker refuses a running
\* container without it, and one that is gone.
RemoveContainer(r) ==
  LET c == Target(r)
      allowed == \/ box[c].state = "stopped"
                 \/ box[c].state = "running" /\ reaping[r].forced # Nobody IN
  /\ reaping[r].at = "removing"
  /\ IF allowed
     THEN /\ ReaperStep(r, "removing", [reaping[r] EXCEPT !.at = "completing"])
          /\ box' = [box EXCEPT ![c].state = "removed"]
     ELSE /\ ReaperStep(r, "removing", [reaping[r] EXCEPT !.at = "failing"])
          /\ UNCHANGED box
  /\ UNCHANGED deletion

\* The row is claimed under this run's token.
Holds(r, d) == d.status = "claimed" /\ d.attempt = reaping[r].token

\* complete; without the row it throws.
CompleteDeletion(r) ==
  LET s == Home[Target(r)]
      d == deletion[s] IN
  /\ reaping[r].at = "completing"
  /\ IF Holds(r, d)
     THEN /\ ReaperStep(r, "completing",
               [reaping[r] EXCEPT !.at = "claiming", !.todo = Tail(@), !.token = 0])
          /\ deletion' = [deletion EXCEPT ![s] = [d EXCEPT !.status = "completed"]]
     ELSE /\ ReaperStep(r, "completing", [reaping[r] EXCEPT !.at = "failing"])
          /\ UNCHANGED deletion
  /\ UNCHANGED box

\* A docker command or the statement of complete fails.
ReaperError(r) ==
  /\ reaping[r].at \in {"inspecting", "removing", "completing"}
  /\ ReaperStep(r, reaping[r].at, [reaping[r] EXCEPT !.at = "failing"])
  /\ UNCHANGED <<deletion, box>>

\* fail, whose own error is ignored; then the whole run ends.
FailDeletion(r) ==
  LET s == Home[Target(r)]
      d == deletion[s] IN
  /\ ReaperStep(r, "failing", NoRun)
  /\ deletion' = IF Holds(r, d) THEN [deletion EXCEPT ![s] = [d EXCEPT !.status = "failed"]]
                                ELSE deletion
  /\ UNCHANGED box

\* No candidate is left; the report is printed.
EndReaping(r) ==
  /\ reaping[r].todo = <<>>
  /\ ReaperStep(r, "claiming", NoRun)
  /\ UNCHANGED <<deletion, box>>

ReaperCrash(r) ==
  /\ reaping[r].at # "idle"
  /\ ReaperStep(r, reaping[r].at, NoRun)
  /\ UNCHANGED <<deletion, box>>

-----------------------------------------------------------------------------
ReaperWorks(r) ==
  \/ ClaimDeletion(r) \/ Revalidate(r) \/ RemoveContainer(r)
  \/ CompleteDeletion(r) \/ FailDeletion(r) \/ EndReaping(r)

SessionsNext ==
  \/ \E s \in SessionIds, p \in Principals :
       StartSession(s, p) \/ BeginAccess(p, s) \/ BeginDelete(p, s)
  \/ \E s \in SessionIds : ClaimSession(s) \/ ExpireDeletionLease(s)
  \/ \E p \in Principals : \/ AccessVerified(p) \/ DeleteVerified(p) \/ DeleteFound(p)
                           \/ DeleteReset(p) \/ RequestDeletion(p) \/ DeleteLost(p)
  \/ \E p \in Principals, c \in Containers : UseSession(p, c)
  \/ \E c \in Containers : StopSandbox(c)
  \/ \E r \in Reapers, forced \in SessionIds \cup {Nobody} : BeginReaping(r, forced)
  \/ \E r \in Reapers : ReaperWorks(r) \/ ReaperError(r) \/ ReaperCrash(r)
  \/ SessionsTick

SessionsSpec == SessionsInit /\ [][SessionsNext]_sessionsVars

-----------------------------------------------------------------------------
(* Properties.                                                             *)

(* A sandbox is only ever removed after the principal that started its session
   asked for it and Eve has retired the session: no failed reset, lost request,
   foreign delete or overlapping reaper removes the sandbox of a live session.  A
   completed record names a container that is gone, whichever of several reapers
   wrote it and however their leases expired. *)
RemovalIsAuthorized ==
  /\ \A c \in Containers : box[c].state = "removed" =>
       /\ eveState[Home[c]] = "retired"
       /\ deletion[Home[c]] # Nobody
       /\ deletion[Home[c]].by = initiator[Home[c]]
  /\ \A s \in SessionIds : deletion[s] # Nobody /\ deletion[s].status = "completed" =>
       deletion[s].container # Nobody /\ box[deletion[s].container].state = "removed"
=============================================================================
