----------------------------- MODULE Requests -----------------------------
(***************************************************************************)
(* The boundaries a request crosses: a follow-up is read by the mailbox    *)
(* API, kept by its store and read again, in a larger envelope, by the     *)
(* agent's own route; an AgentRun is read by its API, kept, and sent on as *)
(* headers that the channel reads again.  Each boundary has its own limits. *)
(* The life of an item and of a run after admission is in Mailbox and      *)
(* AgentRun; here a delivery or a submission is one step.                  *)
(***************************************************************************)
EXTENDS Naturals, FiniteSets, Sequences, SequencesExt

CONSTANTS
  BodyLimit,        \* bytes of a mailbox request (128 KiB)
  EnqueueEnvelope,  \* bytes of an enqueue request beside its message
  DeliverEnvelope,  \* bytes of a deliver request beside its message
  TextLimit,        \* characters of a follow-up (65,536)
  MaxWidth,         \* bytes of a character
  MaxDepth,         \* MAX_AGENT_RUN_DEPTH
  RuntimeConfigs,   \* what a Runtime Config publishes: sets of models and profiles
  MaxRuns,          \* bound on the runs
  NoItem

Callers == {"user", "service"}
Offered == UNION RuntimeConfigs
\* What a run is sent on as: headers the channel takes; a correlation id outside of
\* the channel's pattern; a policy, within what the API accepts, that is larger than
\* the channel's 16,384 characters.
Headers == {"fit", "foreign", "large"}
Messages == [chars: 0..TextLimit + 1, width: 1..MaxWidth, padding: 0..1]

ASSUME RequestsAssumption ==
  /\ {BodyLimit, EnqueueEnvelope, DeliverEnvelope, TextLimit, MaxWidth} \subseteq Nat \ {0}
  /\ EnqueueEnvelope < DeliverEnvelope /\ TextLimit + DeliverEnvelope <= BodyLimit
  /\ {} \notin RuntimeConfigs /\ MaxDepth \in Nat /\ MaxRuns \in Nat

VARIABLES
  served,    \* what the deployment publishes
  followUp,  \* the mailbox item, or NoItem
  runs,      \* the rows of agent_runs, in the order they were reserved
  refused,   \* why the channel refuses the latest run's submission (history)
  sdk        \* whether the answers so far were the contract's, as its client reads them

requestsVars == <<served, followUp, runs, refused, sdk>>

\* A mailbox item with the latest answer its delivery got, and a row of agent_runs,
\* which its place in runs names; an idempotency key is the row that has it.
FollowUp == [chars: 1..TextLimit, width: 1..MaxWidth, model: Offered, answered: Nat,
             status: {"queued", "accepted", "failed", "submission-ambiguous", "cancelled"}]
RunRow == [parent: 0..MaxRuns, depth: 0..MaxDepth, root: 1..MaxRuns, headers: Headers, policy: RuntimeConfigs]

RequestsTypeOK ==
  /\ served \in RuntimeConfigs
  /\ followUp = NoItem \/ followUp \in FollowUp
  /\ runs \in Seq(RunRow) /\ Len(runs) <= MaxRuns
  /\ refused \subseteq {"correlation", "policy", "profile", "extension"}
  /\ sdk \in {"contract", "broken"}

RequestsInit ==
  /\ served \in RuntimeConfigs /\ followUp = NoItem /\ runs = <<>> /\ refused = {}
  /\ sdk = "contract"

\* The operator publishes another Runtime Config.
Republish ==
  /\ served' \in RuntimeConfigs \ {served}
  /\ UNCHANGED <<followUp, runs, refused, sdk>>

\* A client throws a failure, and checks the fields of a success against the contract.
Read(status, body, required) ==
  IF status < 300 /\ ~(required \subseteq body) THEN "broken" ELSE sdk
Problem(status) == Read(status, {}, {})

\* authenticateHostRequest: a valid token names the principal, or 401.
HostRefusals == {Problem(401)}
\* authenticateStandaloneRequest: a browser without a credential is given a new
\* identity, which owns no session.
StandaloneIdentity(cookie) == IF cookie = "credential" THEN "owner" ELSE "another"

-----------------------------------------------------------------------------
(* The mailbox API.                                                        *)

Bytes(text, envelope) == envelope + text.chars * text.width

\* parseEnqueueRequest: non-blank fields and a published model.
ParseEnqueueRequest(text, model) == text.chars > 0 /\ model \in served
\* parseClientMessageId, parseMessage: trimmed, then measured.
ParseMessage(text, id) == id = "url-safe" /\ text.chars \in 1..TextLimit
\* assertOwner, assertPayload: the store measures once more.
AssertPayload(text) == text.chars \in 1..TextLimit

EnqueueResult(text, model, caller, session) ==
  CASE session = "unknown" -> "missing-session"
    [] caller = "another" -> "forbidden"
    [] followUp = NoItem -> "created"
    [] <<followUp.chars, followUp.width, followUp.model>> = <<text.chars, text.width, model>> -> "replay"
    [] OTHER -> "conflict"

ItemFields == {"clientMessageId", "itemId", "status"}
MailboxResponse(result) ==
  CASE result = "created" -> Read(202, ItemFields, ItemFields)
    [] result = "replay" -> Read(200, ItemFields, ItemFields)
    [] result = "missing-session" -> Problem(404)
    [] result = "forbidden" -> Problem(403)
    [] result = "conflict" -> Problem(409)

\* toRecord of a row just inserted: the trimmed message and its preferences.
StoredItem(text, model) ==
  [chars |-> text.chars, width |-> text.width, model |-> model, answered |-> 0, status |-> "queued"]

\* enqueueAgentMailboxHttpRequest: of the body, only an announced length is measured.
EnqueueHttp(text, announced, id, model, caller, session) ==
  IF announced /\ Bytes(text, EnqueueEnvelope) + text.padding > BodyLimit
    THEN sdk' = Problem(413) /\ UNCHANGED followUp
  ELSE IF ~(ParseEnqueueRequest(text, model) /\ ParseMessage(text, id) /\ AssertPayload(text))
    THEN sdk' = Problem(400) /\ UNCHANGED followUp
  ELSE LET result == EnqueueResult(text, model, caller, session) IN
       /\ sdk' = MailboxResponse(result)
       /\ followUp' = IF result # "created" THEN followUp
                      ELSE StoredItem(text, model)

\* POST of the Host's or the standalone route.
PostFollowUp ==
  /\ \/ sdk' \in HostRefusals /\ UNCHANGED followUp
     \/ \E text \in Messages, announced \in BOOLEAN, id \in {"url-safe", "short"}, model \in Offered,
           cookie \in {"credential", "none"}, session \in {"known", "unknown"} :
          EnqueueHttp(text, announced, id, model, StandaloneIdentity(cookie), session)
  /\ UNCHANGED <<served, runs, refused>>

\* GET, DELETE and PATCH of an item.
ItemHttp(operation, caller) ==
  LET found == followUp # NoItem /\ caller = "owner"
      from == CASE operation = "cancel" -> {"queued", "failed"} [] OTHER -> {"failed"}
      to == IF operation = "cancel" THEN "cancelled" ELSE "queued" IN
  CASE ~found -> sdk' = Problem(404) /\ UNCHANGED followUp
    [] found /\ operation = "inspect" -> sdk' = Read(200, ItemFields, ItemFields) /\ UNCHANGED followUp
    [] found /\ operation # "inspect" /\ followUp.status \notin from -> sdk' = Problem(409) /\ UNCHANGED followUp
    [] OTHER -> sdk' = Read(200, ItemFields, ItemFields) /\ followUp' = [followUp EXCEPT !.status = to]

HandleItem ==
  /\ \E operation \in {"inspect", "cancel", "retry"}, cookie \in {"credential", "none"} :
       ItemHttp(operation, StandaloneIdentity(cookie))
  /\ UNCHANGED <<served, runs, refused>>

-----------------------------------------------------------------------------
(* The dispatcher's requests and the agent's mailbox route.                *)

\* verifyMailboxDispatchRequest: one secret, clocks within a minute; throws without one.
Verified(trust) == trust # "skewed"
\* parseMailboxRequest: the route measures what the dispatcher sends.
ParseMailboxRequest(item) == item.chars \in 1..TextLimit

\* The route, up to the session's boundary.
MailboxRoute(size, trust, parsed, boundary) ==
  CASE size > BodyLimit -> 413
    [] size <= BodyLimit /\ trust = "unset" -> 503
    [] size <= BodyLimit /\ ~Verified(trust) -> 401
    [] OTHER -> IF ~parsed THEN 400 ELSE IF boundary = "missing" THEN 404 ELSE 200

\* inspect throws for any answer but 200.
InspectRequest(trust, boundary) ==
  IF MailboxRoute(DeliverEnvelope, trust, TRUE, boundary) = 200 THEN boundary ELSE "throws"

\* deliver: what the route may answer, and what the dispatcher makes of it.
DeliverAnswers(item, trust, boundary) ==
  LET status == MailboxRoute(Bytes(item, DeliverEnvelope), trust, ParseMailboxRequest(item), boundary) IN
  CASE status # 200 -> {<<status, "problem">>}
    [] status = 200 /\ boundary = "running" -> {<<409, "running">>}
    [] status = 200 /\ boundary = "terminal" -> {<<410, "terminal">>}
    [] OTHER -> IF item.model \in served THEN {<<202, "accepted">>, <<409, "identity-changed">>, <<502, "unknown">>}
                                        ELSE {<<502, "unknown">>}
Disposition(reply) ==
  CASE reply[1] = 202 -> "accepted"
    [] reply[1] \in {400, 401, 403, 404, 409, 410, 413} /\ reply[2] # "identity-changed" -> "failed"
    [] OTHER -> "submission-ambiguous"

DispatchNext(trust, boundary, later) ==
  LET inspected == InspectRequest(trust, boundary) IN
  CASE inspected \in {"throws", "running"} -> UNCHANGED followUp
    [] inspected = "terminal" -> followUp' = [followUp EXCEPT !.status = "failed"]
    [] OTHER -> \E reply \in DeliverAnswers(followUp, trust, later) :
                  followUp' = [followUp EXCEPT !.status = Disposition(reply), !.answered = reply[1]]

\* POST of the dispatch route: a worker's credential and a limit, then items until
\* none is available; a deferred one is not available again at once.
DispatchRoute ==
  /\ \E worker \in BOOLEAN, limit \in {"absent", "1 to 20", "other"} :
       IF ~worker THEN sdk' = Problem(401) /\ UNCHANGED followUp
       ELSE IF limit = "other" THEN sdk' = Problem(400) /\ UNCHANGED followUp
       ELSE /\ sdk' = Read(200, ItemFields, ItemFields)
            /\ IF followUp # NoItem /\ followUp.status = "queued"
                 THEN \E trust \in {"agreed", "skewed", "unset"},
                         boundary, later \in {"waiting", "running", "terminal", "missing"} :
                        DispatchNext(trust, boundary, later)
                 ELSE UNCHANGED followUp
  /\ UNCHANGED <<served, runs, refused>>

-----------------------------------------------------------------------------
(* The AgentRun API and the channel behind it.                             *)

\* parseStartAgentRun: lengths, a published profile and extensions, a depth in bounds.
ParseStart(request) ==
  /\ request.needs \in served
  /\ request.parent # NoItem => request.parent.depth \in 1..MaxDepth

\* findOwned: the rows are those of one principal, whatever its token's actor type.
FindOwned(k) == k \in DOMAIN runs

\* Mutant: the root is taken to be the parent.
ValidateParentAsRoot(request) ==
  LET parent == runs[request.parent.run] IN
  IF request.parent = NoItem THEN 200
  ELSE IF request.by # "service" THEN 403
  ELSE IF ~FindOwned(request.parent.run) THEN 404
  ELSE IF <<request.parent.depth, request.parent.root>> = <<parent.depth + 1, request.parent.run>> THEN 200 ELSE 400

ValidateParent(request) ==
  LET parent == runs[request.parent.run] IN
  IF request.parent = NoItem THEN 200
  ELSE IF request.by # "service" THEN 403
  ELSE IF ~FindOwned(request.parent.run) THEN 404
  ELSE IF <<request.parent.depth, request.parent.root>> = <<parent.depth + 1, parent.root>> THEN 200 ELSE 400

\* Everything of a request but its correlation id and its key, with the policy as the
\* config of the moment resolves it.
Lineage(request) ==
  IF request.parent = NoItem THEN <<0, 0, 0>>
  ELSE <<request.parent.run, request.parent.depth, request.parent.root>>
SameFingerprint(request, row) ==
  /\ Lineage(request) = IF row.parent = 0 THEN <<0, 0, 0>> ELSE <<row.parent, row.depth, row.root>>
  /\ (request.headers = "large") = (row.headers = "large")
  /\ served = row.policy

\* withAgentPreferences, on the headers createClient makes of a run.
ChannelRefusals(request, enabled) ==
  {r \in {"correlation", "policy", "profile", "extension"} :
     CASE r = "correlation" -> request.headers = "foreign"
       [] r = "policy" -> request.headers = "large"
       [] r = "profile" -> request.needs \notin served
       [] r = "extension" -> ~enabled}

\* A refusal thrown in an auth function is answered by Eve, a header that cannot be
\* sent throws in the client; the answer to a request that is taken may be lost.
StartOutcomes(request, refusals) ==
  IF refusals = {} THEN {"running", "submission-ambiguous"}
  ELSE {"failed", "submission-ambiguous"}

Row(request) ==
  LET k == Len(runs) + 1  lineage == Lineage(request) IN
  [parent |-> lineage[1], depth |-> lineage[2], root |-> IF lineage[1] = 0 THEN k ELSE lineage[3],
   headers |-> request.headers, policy |-> served]

\* toAgentRunSnapshot and projectAgentEvents, and what parseRunSnapshot and
\* parseAgentEvent of the SDK require of them.
Snapshot(row) ==
  {"contractVersion", "correlationId", "createdAt", "eventCount", "harness", "metadata", "policy", "profile",
   "revision", "runId", "status", "updatedAt", "usage"} \cup (IF row.parent = 0 THEN {} ELSE {"parent"})
RequiredOfRun == {"contractVersion", "runId", "status", "correlationId", "eventCount", "revision", "usage"}
Projected == {"contractVersion", "data", "runId", "sequence", "type"}
RequiredOfEvent == {"contractVersion", "runId", "sequence", "type", "data"}

\* reserve: a key that a row has is a replay or a conflict.
ReserveRun(request, enabled) ==
  IF request.key \in DOMAIN runs
    THEN /\ sdk' = IF SameFingerprint(request, runs[request.key]) THEN Read(200, Snapshot(runs[request.key]), RequiredOfRun) ELSE Problem(409)
         /\ UNCHANGED <<runs, refused>>
    ELSE /\ Len(runs) < MaxRuns
         /\ LET refusals == ChannelRefusals(request, enabled) IN
            \E outcome \in StartOutcomes(request, refusals) :
              /\ runs' = Append(runs, Row(request)) /\ refused' = refusals
              /\ sdk' = CASE outcome = "running" -> Read(202, Snapshot(Row(request)), RequiredOfRun)
                             [] outcome = "failed" -> Problem(502)
                             [] OTHER -> Problem(503)

\* What a request may say of its parent: a row or an unknown run, and a lineage.
Parents == [run: 0..Len(runs), depth: 1..MaxDepth + 1, root: 1..Len(runs)]

\* POST of agent_runs: the token, the configuration, the length and the tenant's
\* extensions, the contract, the parent, the key.
PostRun ==
  /\ \/ /\ sdk' \in HostRefusals \cup {Problem(status) : status \in {503, 413, 403}}
        /\ UNCHANGED <<runs, refused>>
     \/ \E by \in Callers, needs \in Offered, parent \in Parents \cup {NoItem} :
          LET asked == [by |-> by, needs |-> needs, parent |-> parent]
              status == IF ParseStart(asked) THEN ValidateParent(asked) ELSE 400 IN
          /\ status # 200 => sdk' = Problem(status) /\ UNCHANGED <<runs, refused>>
          /\ status = 200 =>
               \E headers \in Headers, key \in 1..Len(runs) + 1, enabled \in BOOLEAN :
                 ReserveRun([by |-> by, needs |-> needs, parent |-> parent, headers |-> headers, key |-> key], enabled)
  /\ UNCHANGED <<served, followUp>>

\* GET and DELETE of a run and GET of its events: the id's form, then the cursor's,
\* then the row; a live run asks Eve, which may fail.
RunAnswers(operation, k, cursor) ==
  IF operation = "events" /\ cursor = "malformed" THEN {Problem(400)}
  ELSE IF ~FindOwned(k) THEN {Problem(404)}
  ELSE LET done == CASE operation = "inspect" -> Read(200, Snapshot(runs[k]), RequiredOfRun)
                     [] operation = "cancel" -> Read(202, Snapshot(runs[k]), RequiredOfRun)
                     [] OTHER -> Read(200, Snapshot(runs[k]) \cup Projected, RequiredOfRun \cup RequiredOfEvent) IN
       (IF operation = "events" /\ cursor = "ahead" THEN {Problem(416)} ELSE {done})
       \cup {Problem(502)}

HandleRun ==
  /\ \E operation \in {"inspect", "cancel", "events"}, cursor \in {"in range", "ahead", "malformed"} :
       \/ sdk' \in HostRefusals \cup {Problem(404)}  \* isAgentRunId
       \/ \E k \in 1..MaxRuns : sdk' \in RunAnswers(operation, k, cursor)
  /\ UNCHANGED <<served, followUp, runs, refused>>

FollowUpNext == Republish \/ PostFollowUp \/ HandleItem \/ DispatchRoute
RunNext == Republish \/ PostRun \/ HandleRun
RequestsNext == FollowUpNext \/ RunNext

RequestsSpec == RequestsInit /\ [][RequestsNext]_requestsVars

-----------------------------------------------------------------------------
(* Properties.                                                             *)

(* What one boundary admitted is sound for those behind it.  A stored follow-up is
   refused for its content only for its size, and only when it is within the two
   envelopes' difference of the limit or its length was never measured; a run is
   refused for its headers, never for its profile; lineages lead to their root. *)
AdmittedIsSound ==
  /\ followUp # NoItem =>
       /\ followUp.answered # 400
       /\ followUp.answered = 413 => Bytes(followUp, EnqueueEnvelope) + DeliverEnvelope - EnqueueEnvelope > BodyLimit
  /\ runs # <<>> =>
       /\ "profile" \notin refused
       /\ Last(runs).headers = "fit" => refused \subseteq {"extension"}
  /\ \A k \in DOMAIN runs : runs[k].parent # 0 =>
       LET parent == runs[runs[k].parent] IN
       /\ runs[k].parent < k /\ runs[k].depth = parent.depth + 1 /\ runs[k].root = parent.root
  /\ sdk = "contract"
====
