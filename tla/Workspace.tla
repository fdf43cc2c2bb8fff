------------------------------ MODULE Workspace ------------------------------
(***************************************************************************)
(* The thread collection of one principal, shared by browser tabs: the     *)
(* workspace's debounced, serial save queue and its conflict recovery      *)
(* (agent-workspace.tsx), the HTTP storage adapter that remembers the last *)
(* revision it saw (http-thread-storage.ts), the collection route, and     *)
(* the table agent_thread_collections with its revision compare-and-set    *)
(* (server/data/thread-collection-store.ts).                               *)
(*                                                                         *)
(* A thread is its id and the time of its last change (updatedAt): the     *)
(* merge looks at nothing else.  The active thread, titles, preferences    *)
(* and events are left out.                                                *)
(***************************************************************************)
EXTENDS Integers, Sequences, FiniteSets, SequencesExt

CONSTANTS
  Tabs,
  ThreadIds,    \* bound: thread ids that can ever be created
  QuickFirst,   \* whether a draft may get its first content while the timer that was
                \* armed when it was a draft still runs
  MaxTime,      \* bound: changes to threads
  MaxIncidents  \* bound: threads deleted, requests that fail or lose their answer,
                \* and tabs closed, together

ASSUME WorkspaceAssumption ==
  /\ QuickFirst \in BOOLEAN
  /\ MaxTime \in Nat /\ MaxIncidents \in Nat

NoRevision == -1   \* the adapter's map has no entry

Thread == [id: ThreadIds, at: 0..MaxTime]

\* AgentThreadCollection, as the sequence of its threads.
Collection == Seq(Thread)

VARIABLES
  stored,     \* the row: [revision, threads]; revision 0 while there is none
  tab,        \* the state of each tab's workspace
  used,       \* thread ids ever created
  retired,    \* threads a user deleted
  time,       \* Date.now()
  changed,    \* history: when each thread was last changed, 0 while a draft
  faults, closings

workspaceVars == <<stored, tab, used, retired, time, changed, faults, closings>>

\* One tab.  shown and fresh are threads and ephemeralThreadIds; armed and closure
\* are the debounce timer and the ephemeral ids its callback closed over; job is
\* the save that runs and queue the saves chained behind it; issue is
\* storageIssue.  pendingCollection is Persisted of the latest render.
Job == [next: Collection, candidate: Collection, closure: SUBSET ThreadIds,
        attempt: 0..2, at: {"saving", "loading"}]
NoJob == [at |-> "none"]

Tab == [open: {"closed", "open"}, shown: Collection, fresh: SUBSET ThreadIds,
        deleting: SUBSET ThreadIds, revision: Nat \cup {NoRevision},
        armed: BOOLEAN, closure: SUBSET ThreadIds,
        queue: Seq([next: Collection, closure: SUBSET ThreadIds]),
        job: Job \cup {NoJob}, issue: BOOLEAN]

ClosedTab == [open |-> "closed", shown |-> <<>>, fresh |-> {}, deleting |-> {},
              revision |-> NoRevision, armed |-> FALSE, closure |-> {},
              queue |-> <<>>, job |-> NoJob, issue |-> FALSE]

WorkspaceTypeOK ==
  /\ stored.revision \in Nat /\ stored.threads \in Collection
  /\ tab \in [Tabs -> Tab]
  /\ used \subseteq ThreadIds /\ retired \subseteq used
  /\ time \in 0..MaxTime
  /\ changed \in [ThreadIds -> 0..MaxTime]

Incidents == Cardinality(retired \cup UNION {tab[b].deleting : b \in Tabs}) + faults + closings

WorkspaceInit ==
  /\ stored = [revision |-> 0, threads |-> <<>>]
  /\ tab = [b \in Tabs |-> ClosedTab]
  /\ used = {}
  /\ retired = {}
  /\ time = 0
  /\ changed = [id \in ThreadIds |-> 0]
  /\ faults = 0
  /\ closings = 0

-----------------------------------------------------------------------------
(* The merge of two collections.                                           *)

IdsOf(c) == {t.id : t \in ToSet(c)}

\* createAgentThread: the id of a new draft; none once the bound is reached.
NewIds == IF ThreadIds = used THEN {} ELSE {CHOOSE id \in ThreadIds \ used : TRUE}
Drafts == IF NewIds = {} THEN <<>> ELSE <<[id |-> CHOOSE id \in NewIds : TRUE, at |-> 0]>>

\* The threads of a list without those of some ids, in its order.
Without(c, ids) ==
  LET kept[i \in 0..Len(c)] ==
        IF i = 0 THEN <<>> ELSE IF c[i].id \in ids THEN kept[i - 1] ELSE Append(kept[i - 1], c[i])
  IN kept[Len(c)]

\* sort: latest first.
Sorted(threads) ==
  CHOOSE c \in [1..Cardinality(threads) -> threads] :
    ToSet(c) = threads /\ \A i, j \in DOMAIN c : i < j => c[i].at >= c[j].at

\* The entries that a Map over a list keeps: of two with one id the later.
ById(c) == {c[i] : i \in {i \in DOMAIN c : \A j \in DOMAIN c : c[j].id = c[i].id => j <= i}}

\* Mutant: the stored version of a thread always wins.
MergeThreadsFallbackWins(preferred, fallback) ==
  Sorted({t \in ToSet(preferred) : t.id \notin IdsOf(fallback)} \cup ById(fallback))

\* mergeThreads: by id, the later updatedAt wins and the preferred one on a tie.
MergeThreads(preferred, fallback) ==
  LET both == ToSet(preferred) \cup ById(fallback)
  IN Sorted({t \in both : \A u \in both : u.id = t.id => u.at <= t.at})

\* mergeVisibleThreads
MergeVisible(current, persisted, closure) ==
  Without(current, IdsOf(current) \ closure) \o MergeThreads(Without(current, closure), persisted)

\* GET: the row, or nothing at revision 0.
GetCollection == IF stored.revision = 0 THEN [revision |-> 0, threads |-> <<>>] ELSE stored

-----------------------------------------------------------------------------
(* React's effect after a change arms the debounce timer unless it is      *)
(* armed; its callback closes over this render's ephemeral ids.            *)
Persisted(w) == Without(w.shown, w.fresh)

Rendered(w) == [w EXCEPT !.armed = TRUE, !.closure = IF w.armed THEN @ ELSE w.fresh]

Update(b, w) == tab' = [tab EXCEPT ![b] = w]

\* Mounting, and load succeeds: the stored threads and a clean, ephemeral one.
Loaded(b) ==
  /\ tab[b].open = "closed"
  /\ Update(b, Rendered([tab[b] EXCEPT
       !.open = "open", !.revision = GetCollection.revision, !.fresh = NewIds,
       !.shown = Drafts \o GetCollection.threads]))
  /\ used' = used \cup NewIds
  /\ UNCHANGED <<stored, retired, time, changed, faults, closings>>

\* Mounting, and load fails: a fallback thread, an alert, and no revision to save with.
LoadFailed(b) ==
  /\ tab[b].open = "closed"
  /\ Incidents < MaxIncidents
  /\ Update(b, Rendered([tab[b] EXCEPT
       !.open = "open", !.fresh = NewIds, !.issue = TRUE, !.shown = Drafts]))
  /\ used' = used \cup NewIds
  /\ faults' = faults + 1
  /\ UNCHANGED <<stored, retired, time, changed, closings>>

\* updateThread, by the user or by an event of the thread's stream; its first
\* content makes an ephemeral thread a persisted one.
ChangeThread(b, id) ==
  LET w == tab[b] IN
  /\ w.open = "open"
  /\ id \in IdsOf(w.shown)
  /\ ~QuickFirst => id \notin w.fresh \cap w.closure
  /\ time < MaxTime
  /\ time' = time + 1
  /\ changed' = [changed EXCEPT ![id] = time + 1]
  /\ Update(b, Rendered([w EXCEPT
       !.fresh = @ \ {id},
       !.shown = [i \in DOMAIN @ |-> IF @[i].id = id THEN [@[i] EXCEPT !.at = time + 1] ELSE @[i]]]))
  /\ UNCHANGED <<stored, used, retired, faults, closings>>

\* createThread: a new ephemeral thread unless an untouched draft is there.
CreateThread(b) ==
  LET w == tab[b] IN
  /\ w.open = "open"
  /\ w.fresh = {}
  /\ NewIds # {}
  /\ used' = used \cup NewIds
  /\ Update(b, Rendered([w EXCEPT !.fresh = NewIds, !.shown = Drafts \o @]))
  /\ UNCHANGED <<stored, retired, time, changed, faults, closings>>

\* deleteThread: the host retires the session first.  (Bound: a thread is
\* deleted once; a merge may bring it back.)
BeginDeleteThread(b, id) ==
  LET w == tab[b] IN
  /\ w.open = "open"
  /\ id \in IdsOf(w.shown) \ (w.deleting \cup retired)
  /\ Incidents < MaxIncidents
  /\ Update(b, [w EXCEPT !.deleting = @ \cup {id}])
  /\ UNCHANGED <<stored, used, retired, time, changed, faults, closings>>

\* The host answers: the thread goes, and a replacement comes when it was the last.
EndDeleteThread(b, id) ==
  LET w == tab[b]
      rest == Without(w.shown, {id}) IN
  /\ w.open = "open"
  /\ id \in w.deleting
  /\ retired' = retired \cup {id}
  /\ IF rest # <<>>
     THEN /\ Update(b, Rendered([w EXCEPT !.deleting = @ \ {id}, !.fresh = @ \ {id}, !.shown = rest]))
          /\ UNCHANGED used
     ELSE /\ used' = used \cup NewIds
          /\ Update(b, Rendered([w EXCEPT !.deleting = @ \ {id}, !.fresh = NewIds, !.shown = Drafts]))
  /\ UNCHANGED <<stored, time, changed, faults, closings>>

\* onDeleteThread throws: an alert, and the thread stays.
DeleteThreadFailed(b, id) ==
  /\ id \in tab[b].deleting
  /\ faults' = faults + 1
  /\ Update(b, [tab[b] EXCEPT !.deleting = @ \ {id}])
  /\ UNCHANGED <<stored, used, retired, time, changed, closings>>

-----------------------------------------------------------------------------
(* The collection's routes.                                                *)

\* A save as the routes see it: the embedded page's with a Host token, the standalone
\* page's with whatever cookie; its body's size against the 5 MiB limit, which is
\* measured when it is announced and again when it is parsed; the length of its key.
Puts == [token: BOOLEAN, bytes: {"within", "announced", "above"}, key: {"fits", "long"}, database: BOOLEAN]
Sent == [token |-> TRUE, bytes |-> "within", key |-> "fits", database |-> TRUE]

\* The answer is that of the first check that fails.
FirstFailure(checks) ==
  LET failing == {i \in DOMAIN checks : ~checks[i][1]} IN
  IF failing = {} THEN 200 ELSE checks[CHOOSE i \in failing : \A j \in failing : i <= j][2]

AssertScope(put) == put.key # "long"

\* parseExpectedRevision takes every revision the adapter sends; a collection that
\* the workspace built passes parseStrictThreadCollection.
BodyChecks(put, revision) ==
  << <<revision # NoRevision, 428>>, <<put.bytes # "announced", 413>>,
     <<put.bytes # "above", 413>>, <<AssertScope(put), 500>> >>

\* authenticateHostRequest, then the checks of PUT.
HostPut(put, revision) ==
  FirstFailure(<< <<put.token, 401>>, <<put.database, 503>> >> \o BodyChecks(put, revision))
\* The standalone route gives a browser without a credential a new identity.
StandalonePut(put, revision) ==
  FirstFailure(<< <<put.database, 503>> >> \o BodyChecks(put, revision))

\* save of the store: insert at revision 0, otherwise update where the revision
\* matches.
Write(revision, threads) ==
  IF stored.revision = revision
  THEN stored' = [revision |-> revision + 1, threads |-> threads]
  ELSE UNCHANGED stored

\* What the table holds after a save.
PutCollection(status, revision, threads) ==
  IF status = 200 THEN Write(revision, threads) ELSE UNCHANGED stored

-----------------------------------------------------------------------------
(* The save queue.                                                         *)

\* A promise chain: the next job starts once none runs.
Begun(w) ==
  IF w.job # NoJob \/ w.queue = <<>> THEN w
  ELSE [w EXCEPT !.queue = Tail(@),
                 !.job = [next |-> Head(w.queue).next, candidate |-> Head(w.queue).next,
                          closure |-> Head(w.queue).closure, attempt |-> 0, at |-> "saving"]]

\* The debounce timer fires and chains a save of the latest render.
TimerFires(b) ==
  LET w == tab[b] IN
  /\ w.open = "open"
  /\ w.armed
  /\ Update(b, Begun([w EXCEPT !.armed = FALSE, !.closure = {},
       !.queue = Append(@, [next |-> Persisted(w), closure |-> w.closure])]))
  /\ UNCHANGED <<stored, used, retired, time, changed, faults, closings>>

\* The job ended well: what was saved beyond what the tab asked for is shown.
Saved(w, revision) ==
  LET job == w.job
      done == Begun([w EXCEPT !.revision = revision, !.job = NoJob, !.issue = FALSE])
  IN IF job.candidate = job.next
     THEN done
     ELSE Rendered([done EXCEPT !.shown = MergeVisible(w.shown, job.candidate, job.closure)])

Failed(w) == Begun([w EXCEPT !.job = NoJob, !.issue = TRUE])

\* PUT with If-Match, and its answer: saved, or 409 twice retried.
SaveAnswered(b) ==
  LET w == tab[b]
      job == w.job IN
  /\ job # NoJob /\ job.at = "saving"
  /\ w.revision # NoRevision
  /\ PutCollection(HostPut(Sent, w.revision), w.revision, job.candidate)
  /\ Update(b, IF stored'.revision # stored.revision THEN Saved(w, stored'.revision)
               ELSE IF job.attempt < 2 THEN [w EXCEPT !.job.at = "loading"]
               ELSE Failed(w))
  /\ UNCHANGED <<used, retired, time, changed, faults, closings>>

\* The request is refused, or fails before or after the server applied it; or there
\* never was a revision to save with.
SaveFailed(b) ==
  LET w == tab[b] IN
  /\ w.job # NoJob /\ w.job.at = "saving"
  /\ IF w.revision = NoRevision
     THEN UNCHANGED <<stored, faults>>
     ELSE /\ Incidents < MaxIncidents
          /\ faults' = faults + 1
          /\ \E put \in Puts : \E status \in {HostPut(put, w.revision), StandalonePut(put, w.revision)} :
               PutCollection(status, w.revision, w.job.candidate)
  /\ Update(b, Failed(w))
  /\ UNCHANGED <<used, retired, time, changed, closings>>

\* After a conflict: load, remember its revision, merge, and save again.
Reloaded(b) ==
  LET w == tab[b] IN
  /\ w.job # NoJob /\ w.job.at = "loading"
  /\ Update(b, [w EXCEPT
       !.revision = GetCollection.revision,
       !.job = [w.job EXCEPT !.candidate = MergeThreads(@, GetCollection.threads),
                             !.attempt = @ + 1, !.at = "saving"]])
  /\ UNCHANGED <<stored, used, retired, time, changed, faults, closings>>

ReloadFailed(b) ==
  /\ tab[b].job # NoJob /\ tab[b].job.at = "loading"
  /\ Incidents < MaxIncidents
  /\ faults' = faults + 1
  /\ Update(b, Failed(tab[b]))
  /\ UNCHANGED <<stored, used, retired, time, changed, closings>>

\* The alert's Retry button: the alert goes and the threads are saved again.
RetrySave(b) ==
  /\ tab[b].issue
  /\ Update(b, Rendered([tab[b] EXCEPT !.issue = FALSE]))
  /\ UNCHANGED <<stored, used, retired, time, changed, faults, closings>>

\* Closing or reloading the page: the timer is cleared and everything not sent
\* is lost.
CloseTab(b) ==
  /\ tab[b].open # "closed"
  /\ Incidents < MaxIncidents
  /\ closings' = closings + 1
  /\ Update(b, ClosedTab)
  /\ UNCHANGED <<stored, used, retired, time, changed, faults>>

SaveProgress(b) == TimerFires(b) \/ SaveAnswered(b) \/ Reloaded(b)

WorkspaceNext ==
  \E b \in Tabs :
    \/ Loaded(b) \/ LoadFailed(b) \/ CreateThread(b)
    \/ SaveProgress(b) \/ SaveFailed(b) \/ ReloadFailed(b) \/ RetrySave(b) \/ CloseTab(b)
    \/ \E id \in ThreadIds : \/ ChangeThread(b, id) \/ BeginDeleteThread(b, id)
                             \/ EndDeleteThread(b, id) \/ DeleteThreadFailed(b, id)

WorkspaceSpec == WorkspaceInit /\ [][WorkspaceNext]_workspaceVars

-----------------------------------------------------------------------------
(* Properties.                                                             *)

\* Nothing of the tab waits to be saved and no alert is shown.
Settled(b) ==
  LET w == tab[b] IN
  w.open = "open" /\ ~w.armed /\ w.queue = <<>> /\ w.job = NoJob /\ ~w.issue

\* The row holds the last change made to every thread that no user deleted.
StoredIsLatest ==
  \A id \in used \ retired : changed[id] > 0 =>
    \E t \in ToSet(stored.threads) : t.id = id /\ t.at = changed[id]

AllSettled == \A b \in Tabs : Settled(b) \/ tab[b].open = "closed"

\* When every tab has come to rest, no request failed and no tab was closed with
\* work in it, nothing is lost: however debounced saves, conflicts, merges,
\* deletions and edits interleaved, the row holds the last change of each thread.
SettledIsStored == AllSettled /\ faults + closings = 0 => StoredIsLatest

\* The same when requests may fail: a failure that could lose a change leaves an
\* alert in some tab.
LossIsAlerted == AllSettled /\ closings = 0 => StoredIsLatest
=============================================================================
