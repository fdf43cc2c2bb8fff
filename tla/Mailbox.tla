------------------------------ MODULE Mailbox ------------------------------
(***************************************************************************)
(* The follow-up mailbox: the table agent_mailbox_items and its store      *)
(* (server/data/agent-mailbox-store.ts), the dispatcher that leases and    *)
(* delivers rows (server/agent-mailbox), the internal Eve route that       *)
(* admits a message into a session (agent/channels/eve.ts), and the hook   *)
(* that commits a row once Eve has recorded message.received               *)
(* (agent/hooks/mailbox-commit.ts).  The Eve session itself is external.   *)
(*                                                                         *)
(* One step is one SQL statement, one HTTP hop or one Eve event, so every  *)
(* await of the dispatcher is a point where other processes interleave.    *)
(* A row is a column function of the item; an item is one                  *)
(* clientMessageId, the key every enqueue is deduplicated by.              *)
(***************************************************************************)
EXTENDS Naturals, FiniteSets, Sequences

CONSTANTS
  Items,         \* clientMessageIds of one tenant and principal
  Sessions,      \* Eve sessions the principal owns
  Clients,       \* enqueue requests that can be open at once
  Dispatchers,   \* runs of the dispatch loop that can be open at once
  Tokens,        \* claim tokens; a claim takes one nobody holds (randomUUID)
  None,          \* SQL null
  MailboxLimit,  \* non-terminal rows a session may have (5 in the code)
  HookAttempts,  \* commits the hook tries before it throws (6 in the code)
  DirectTurns,   \* whether turns also start outside the mailbox
  SlowDispatchers, \* whether a lease may expire while its holder still runs
  MaxClock,      \* bound: no enqueue transaction begins after this instant
  MaxCrashes     \* bound: processes lost in a behaviour

Statuses == {"absent", "queued", "delivering", "accepted", "committed",
             "failed", "submission-ambiguous", "cancelled"}

ASSUME MailboxAssumption ==
  /\ None \notin Items \cup Sessions \cup Tokens
  /\ MailboxLimit \in Nat \ {0}
  /\ HookAttempts \in Nat \ {0}
  /\ DirectTurns \in BOOLEAN
  /\ SlowDispatchers \in BOOLEAN
  /\ MaxClock \in Nat
  /\ MaxCrashes \in Nat

VARIABLES
  \* agent_mailbox_items, one function per column
  status,      \* "absent": no such row
  session,     \* session_id
  created,     \* created_at, the instant the inserting transaction BEGAN
  token,       \* claim_token
  expired,     \* claim_expires_at < now()
  admitted,    \* admission_started_at is not null
  acceptedIn,  \* accepted_session_id
  \* processes
  client,      \* the enqueue transaction a client has open, or None
  pc, held, tok, err,  \* dispatcher: next await, its item, its token, the error it caught
  wire,        \* deliver requests between dispatcher and Eve route
  \* Eve
  boundary,    \* latest event of the session: waiting, running or terminal
  inbox,       \* messages the session admitted and has not received
  hook,        \* the commit hook running in the session, or None
  \* bounds and history
  clock, crashes,
  insertedAt,  \* instant the row became visible
  sends,       \* times Eve admitted the item
  receipts     \* items in the order of their message.received events

rowVars == <<status, session, created, token, expired, admitted, acceptedIn>>
dispatcherVars == <<pc, held, tok, err>>
eveVars == <<boundary, inbox, hook, sends, receipts>>
timeVars == <<clock, insertedAt>>
vars == <<rowVars, client, dispatcherVars, wire, eveVars, timeVars, crashes>>

Steps == {"idle", "claiming", "inspecting", "deferring", "failing", "beginning",
          "posting", "delivering", "accepting", "recovering", "resolving"}
Pending == {"posted", "checked"}               \* the route may still send
Replies == {"accepted", "rejected", "unknown"} \* what deliver() makes of a response
Requests == [item: Items, token: Tokens, stage: Pending \cup Replies]

TypeOK ==
  /\ status \in [Items -> Statuses]
  /\ session \in [Items -> Sessions \cup {None}]
  /\ created \in [Items -> Nat]
  /\ token \in [Items -> Tokens \cup {None}]
  /\ expired \in [Items -> BOOLEAN]
  /\ admitted \in [Items -> BOOLEAN]
  /\ acceptedIn \in [Items -> Sessions \cup {None}]
  /\ client \in [Clients -> [item: Items, session: Sessions, at: Nat] \cup {None}]
  /\ pc \in [Dispatchers -> Steps]
  /\ held \in [Dispatchers -> Items \cup {None}]
  /\ tok \in [Dispatchers -> Tokens \cup {None}]
  /\ err \in [Dispatchers -> {"none", "rejected", "other"}]
  /\ wire \in SUBSET Requests
  /\ boundary \in [Sessions -> {"waiting", "running", "terminal"}]
  /\ inbox \in [Sessions -> SUBSET Items]
  /\ hook \in [Sessions -> [item: Items, left: 1..HookAttempts] \cup {None}]
  /\ clock \in Nat
  /\ crashes \in 0..MaxCrashes
  /\ insertedAt \in [Items -> Nat]
  /\ sends \in [Items -> Nat]
  /\ receipts \in Seq(Items)

Init ==
  /\ status = [m \in Items |-> "absent"]
  /\ session = [m \in Items |-> None]
  /\ created = [m \in Items |-> 0]
  /\ token = [m \in Items |-> None]
  /\ expired = [m \in Items |-> FALSE]
  /\ admitted = [m \in Items |-> FALSE]
  /\ acceptedIn = [m \in Items |-> None]
  /\ client = [c \in Clients |-> None]
  /\ pc = [d \in Dispatchers |-> "idle"]
  /\ held = [d \in Dispatchers |-> None]
  /\ tok = [d \in Dispatchers |-> None]
  /\ err = [d \in Dispatchers |-> "none"]
  /\ wire = {}
  /\ boundary = [s \in Sessions |-> "running"]  \* the turn that opened the session
  /\ inbox = [s \in Sessions |-> {}]
  /\ hook = [s \in Sessions |-> None]
  /\ clock = 0
  /\ crashes = 0
  /\ insertedAt = [m \in Items |-> 0]
  /\ sends = [m \in Items |-> 0]
  /\ receipts = <<>>

-----------------------------------------------------------------------------
(* Clients: enqueue, cancelOwned, retryOwned.                              *)

\* The rows the five-item limit counts and that block later rows.
Terminal == {"committed", "cancelled"}
Open(m) == status[m] \notin Terminal \cup {"absent"}

\* Mutant: a failed row does not count.
BacklogWithoutFailed(s) ==
  Cardinality({m \in Items : session[m] = s /\ Open(m) /\ status[m] # "failed"})

Backlog(s) == Cardinality({m \in Items : session[m] = s /\ Open(m)})

\* BEGIN: created_at's default now() is fixed here, before the transaction
\* waits for the row lock on the session's owner.
EnqueueBegin(c, m, s) ==
  /\ client[c] = None
  /\ clock < MaxClock
  /\ clock' = clock + 1
  /\ client' = [client EXCEPT ![c] = [item |-> m, session |-> s, at |-> clock + 1]]
  /\ UNCHANGED <<rowVars, dispatcherVars, wire, eveVars, insertedAt, crashes>>

\* The owner row is locked: replay, conflict and full change nothing.
EnqueueRefused(c) ==
  /\ client[c] # None
  /\ \/ status[client[c].item] # "absent"
     \/ Backlog(client[c].session) >= MailboxLimit
  /\ client' = [client EXCEPT ![c] = None]
  /\ UNCHANGED <<rowVars, dispatcherVars, wire, eveVars, timeVars, crashes>>

EnqueueInsert(c) ==
  /\ client[c] # None
  /\ LET r == client[c] IN
       /\ status[r.item] = "absent"
       /\ Backlog(r.session) < MailboxLimit
       /\ status' = [status EXCEPT ![r.item] = "queued"]
       /\ session' = [session EXCEPT ![r.item] = r.session]
       /\ created' = [created EXCEPT ![r.item] = r.at]
       /\ insertedAt' = [insertedAt EXCEPT ![r.item] = clock + 1]
  /\ clock' = clock + 1
  /\ client' = [client EXCEPT ![c] = None]
  /\ UNCHANGED <<token, expired, admitted, acceptedIn, dispatcherVars, wire, eveVars, crashes>>

\* The connection is lost before COMMIT and the transaction rolls back.
EnqueueRollback(c) ==
  /\ client[c] # None
  /\ client' = [client EXCEPT ![c] = None]
  /\ UNCHANGED <<rowVars, dispatcherVars, wire, eveVars, timeVars, crashes>>

CancelOwned(m) ==
  /\ status[m] \in {"queued", "failed"}
  /\ status' = [status EXCEPT ![m] = "cancelled"]
  /\ UNCHANGED <<session, created, token, expired, admitted, acceptedIn, client,
                 dispatcherVars, wire, eveVars, timeVars, crashes>>

RetryOwned(m) ==
  /\ status[m] = "failed"
  /\ status' = [status EXCEPT ![m] = "queued"]
  /\ admitted' = [admitted EXCEPT ![m] = FALSE]
  /\ UNCHANGED <<session, created, token, expired, acceptedIn, client,
                 dispatcherVars, wire, eveVars, timeVars, crashes>>

-----------------------------------------------------------------------------
(* The dispatcher, dispatchNextAgentMailboxMessage.                        *)

Goto(d, step) == pc' = [pc EXCEPT ![d] = step] /\ UNCHANGED <<held, tok>>

\* The call returns or throws: a new iteration starts from nothing.
Return(d) ==
  /\ pc' = [pc EXCEPT ![d] = "idle"]
  /\ held' = [held EXCEPT ![d] = None]
  /\ tok' = [tok EXCEPT ![d] = None]
  /\ err' = [err EXCEPT ![d] = "none"]

\* Mutant: the claim token is not compared.
HoldsAnyLease(d) == status[held[d]] = "delivering"

\* "status = 'delivering' and claim_token = $2", of the row a dispatcher holds.
HoldsLease(d) == status[held[d]] = "delivering" /\ token[held[d]] = tok[d]

\* claimedTransition: leave delivering and drop the claim, keep the admission.
LeaveDelivering(m, to) ==
  /\ status' = [status EXCEPT ![m] = to]
  /\ token' = [token EXCEPT ![m] = None]
  /\ expired' = [expired EXCEPT ![m] = FALSE]

\* claim_expires_at passes.
LeaseExpires(m) ==
  /\ status[m] = "delivering" /\ ~expired[m]
  /\ SlowDispatchers \/ \A d \in Dispatchers : tok[d] # token[m]
  /\ expired' = [expired EXCEPT ![m] = TRUE]
  /\ UNCHANGED <<status, session, created, token, admitted, acceptedIn, client,
                 dispatcherVars, wire, eveVars, timeVars, crashes>>

\* Mutant: the sweep forgets leases whose admission began.
StrandedUnadmitted(m) == status[m] = "delivering" /\ expired[m] /\ ~admitted[m]

\* claimNext, first statement: expired leases whose admission began.
Stranded(m) == status[m] = "delivering" /\ expired[m] /\ admitted[m]

Sweep(d) ==
  /\ pc[d] = "idle"
  /\ status' = [m \in Items |-> IF Stranded(m) THEN "submission-ambiguous" ELSE status[m]]
  /\ token' = [m \in Items |-> IF Stranded(m) THEN None ELSE token[m]]
  /\ expired' = [m \in Items |-> IF Stranded(m) THEN FALSE ELSE expired[m]]
  /\ Goto(d, "claiming")
  /\ UNCHANGED <<session, created, admitted, acceptedIn, client, err, wire, eveVars,
                 timeVars, crashes>>

\* Mutant: a row Eve has accepted no longer blocks.
BlocksUntilAccepted(b, m) ==
  /\ session[b] = session[m]
  /\ Open(b) /\ status[b] # "accepted"
  /\ created[b] < created[m]

\* Mutant: a failed row no longer blocks.
BlocksUnlessFailed(b, m) ==
  /\ session[b] = session[m]
  /\ Open(b) /\ status[b] # "failed"
  /\ created[b] < created[m]

\* A predecessor of m in its session, by (created_at, item_id).
Blocks(b, m) ==
  /\ session[b] = session[m]
  /\ Open(b)
  /\ created[b] < created[m]

\* Mutant: every expired lease is claimed again.
ClaimableOnceExpired(m) ==
  /\ status[m] = "queued" \/ (status[m] = "delivering" /\ expired[m])
  /\ \A b \in Items : ~Blocks(b, m)

\* Mutant: an expired lease is never claimed again.
ClaimableOnlyQueued(m) == status[m] = "queued" /\ \A b \in Items : ~Blocks(b, m)

\* available_at is abstracted: a deferred row is claimable once time has passed.
Claimable(m) ==
  /\ \/ status[m] = "queued"
     \/ status[m] = "delivering" /\ expired[m] /\ ~admitted[m]
  /\ \A b \in Items : ~Blocks(b, m)

FreshToken(t) ==
  /\ \A m \in Items : token[m] # t
  /\ \A d \in Dispatchers : tok[d] # t
  /\ \A r \in wire : r.token # t

\* claimNext, second statement.  SKIP LOCKED only ever skips a row another
\* statement is about to change, which is this step ordered after that one.
Claim(d, m) ==
  /\ pc[d] = "claiming"
  /\ Claimable(m)
  /\ \E t \in Tokens : FreshToken(t)
  /\ LET t == CHOOSE t \in Tokens : FreshToken(t) IN
       /\ token' = [token EXCEPT ![m] = t]
       /\ tok' = [tok EXCEPT ![d] = t]
  /\ status' = [status EXCEPT ![m] = "delivering"]
  /\ expired' = [expired EXCEPT ![m] = FALSE]
  /\ admitted' = [admitted EXCEPT ![m] = FALSE]
  /\ pc' = [pc EXCEPT ![d] = "inspecting"]
  /\ held' = [held EXCEPT ![d] = m]
  /\ UNCHANGED <<session, created, acceptedIn, client, err, wire, eveVars, timeVars, crashes>>

ClaimNothing(d) ==
  /\ pc[d] = "claiming"
  /\ \A m \in Items : ~Claimable(m)
  /\ Return(d)
  /\ UNCHANGED <<rowVars, client, wire, eveVars, timeVars, crashes>>

\* runtime.inspect answered; what it saw may be stale at once.
Inspect(d) ==
  /\ pc[d] = "inspecting"
  /\ LET seen == boundary[session[held[d]]] IN
       \/ seen = "running"  /\ Goto(d, "deferring")
       \/ seen = "terminal" /\ Goto(d, "failing")
       \/ seen = "waiting"  /\ Goto(d, "beginning")
  /\ UNCHANGED <<rowVars, client, err, wire, eveVars, timeVars, crashes>>

\* runtime.inspect threw, or the event stream was empty.
InspectFails(d) ==
  /\ pc[d] = "inspecting"
  /\ Goto(d, "deferring")
  /\ UNCHANGED <<rowVars, client, err, wire, eveVars, timeVars, crashes>>

\* store.defer; it throws when the lease is gone.
Defer(d) ==
  /\ pc[d] = "deferring"
  /\ IF HoldsLease(d) /\ ~admitted[held[d]]
       THEN LeaveDelivering(held[d], "queued")
       ELSE UNCHANGED <<status, token, expired>>
  /\ Return(d)
  /\ UNCHANGED <<session, created, admitted, acceptedIn, client, wire, eveVars, timeVars, crashes>>

\* store.fail on a session that is terminal.
FailTerminal(d) ==
  /\ pc[d] = "failing"
  /\ IF HoldsLease(d)
       THEN LeaveDelivering(held[d], "failed")
       ELSE UNCHANGED <<status, token, expired>>
  /\ Return(d)
  /\ UNCHANGED <<session, created, admitted, acceptedIn, client, wire, eveVars, timeVars, crashes>>

CanBegin(d) == HoldsLease(d) /\ ~admitted[held[d]] /\ ~expired[held[d]]

BeginAdmission(d) ==
  /\ pc[d] = "beginning"
  /\ CanBegin(d)
  /\ admitted' = [admitted EXCEPT ![held[d]] = TRUE]
  /\ Goto(d, "posting")
  /\ UNCHANGED <<status, session, created, token, expired, acceptedIn, client, err, wire,
                 eveVars, timeVars, crashes>>

\* The try block is left for the catch block with an error.
Catch(d, error) ==
  /\ Goto(d, "recovering")
  /\ err' = [err EXCEPT ![d] = error]

\* store.beginAdmission threw: no row matched, or the database failed before
\* or after the update took effect.
BeginAdmissionThrows(d) ==
  /\ pc[d] = "beginning"
  /\ \/ UNCHANGED admitted
     \/ /\ CanBegin(d)
        /\ admitted' = [admitted EXCEPT ![held[d]] = TRUE]
  /\ Catch(d, "other")
  /\ UNCHANGED <<status, session, created, token, expired, acceptedIn, client, wire,
                 eveVars, timeVars, crashes>>

\* runtime.deliver, request.
Post(d) ==
  /\ pc[d] = "posting"
  /\ wire' = wire \cup {[item |-> held[d], token |-> tok[d], stage |-> "posted"]}
  /\ Goto(d, "delivering")
  /\ UNCHANGED <<rowVars, client, err, eveVars, timeVars, crashes>>

\* runtime.deliver, response.
Receive(d, r) ==
  /\ pc[d] = "delivering"
  /\ r \in wire /\ r.token = tok[d] /\ r.stage \in Replies
  /\ wire' = wire \ {r}
  /\ \/ r.stage = "accepted" /\ Goto(d, "accepting") /\ UNCHANGED err
     \/ r.stage = "rejected" /\ Catch(d, "rejected")
     \/ r.stage = "unknown"  /\ Catch(d, "other")
  /\ UNCHANGED <<rowVars, client, eveVars, timeVars, crashes>>

\* A response to a connection that is closed is dropped, an unanswered
\* request stays with the route.
Disconnect(d) == wire' = {r \in wire : r.token = tok[d] => r.stage \in Pending}

\* AbortSignal.timeout or a transport error: an ambiguous outcome.
DeliverTimeout(d) ==
  /\ pc[d] = "delivering"
  /\ Disconnect(d)
  /\ Catch(d, "other")
  /\ UNCHANGED <<rowVars, client, eveVars, timeVars, crashes>>

\* Mutant: the response commits the row itself.
AcceptCommits(d) ==
  /\ pc[d] = "accepting"
  /\ IF HoldsLease(d)
       THEN /\ LeaveDelivering(held[d], "committed")
            /\ acceptedIn' = [acceptedIn EXCEPT ![held[d]] = session[held[d]]]
            /\ Return(d)
       ELSE /\ Catch(d, "other")
            /\ UNCHANGED <<status, token, expired, acceptedIn>>
  /\ UNCHANGED <<session, created, admitted, client, wire, eveVars, timeVars, crashes>>

\* store.accept: the lease is still held, or the hook has committed the row
\* in the same session, or it throws.
Accept(d) ==
  /\ pc[d] = "accepting"
  /\ IF HoldsLease(d)
       THEN /\ LeaveDelivering(held[d], "accepted")
            /\ acceptedIn' = [acceptedIn EXCEPT ![held[d]] = session[held[d]]]
            /\ Return(d)
       ELSE /\ UNCHANGED <<status, token, expired, acceptedIn>>
            /\ IF status[held[d]] = "committed" /\ acceptedIn[held[d]] = session[held[d]]
                 THEN Return(d)
                 ELSE Catch(d, "other")
  /\ UNCHANGED <<session, created, admitted, client, wire, eveVars, timeVars, crashes>>

\* store.accept threw because the database failed, before or after its update.
AcceptThrows(d) ==
  /\ pc[d] = "accepting"
  /\ \/ UNCHANGED <<status, token, expired, acceptedIn>>
     \/ /\ HoldsLease(d)
        /\ LeaveDelivering(held[d], "accepted")
        /\ acceptedIn' = [acceptedIn EXCEPT ![held[d]] = session[held[d]]]
  /\ Catch(d, "other")
  /\ UNCHANGED <<session, created, admitted, client, wire, eveVars, timeVars, crashes>>

\* store.findOwned in the catch block.
FindOwned(d) ==
  /\ pc[d] = "recovering"
  /\ IF status[held[d]] = "committed"
       THEN Return(d)
       ELSE Goto(d, "resolving") /\ UNCHANGED err
  /\ UNCHANGED <<rowVars, client, wire, eveVars, timeVars, crashes>>

\* Mutant: every error makes the row failed.
ResolveAlwaysFails(d) ==
  /\ pc[d] = "resolving"
  /\ IF HoldsLease(d)
       THEN LeaveDelivering(held[d], "failed")
       ELSE UNCHANGED <<status, token, expired>>
  /\ Return(d)
  /\ UNCHANGED <<session, created, admitted, acceptedIn, client, wire, eveVars, timeVars, crashes>>

\* store.fail for a definitive rejection, store.markSubmissionAmbiguous for
\* anything else; both throw when the lease is gone.
Resolve(d) ==
  /\ pc[d] = "resolving"
  /\ IF HoldsLease(d)
       THEN LeaveDelivering(held[d],
              IF err[d] = "rejected" THEN "failed" ELSE "submission-ambiguous")
       ELSE UNCHANGED <<status, token, expired>>
  /\ Return(d)
  /\ UNCHANGED <<session, created, admitted, acceptedIn, client, wire, eveVars, timeVars, crashes>>

\* The process dies, or a store call outside the try block throws.
DispatcherCrash(d) ==
  /\ pc[d] # "idle"
  /\ crashes < MaxCrashes
  /\ crashes' = crashes + 1
  /\ Disconnect(d)
  /\ Return(d)
  /\ UNCHANGED <<rowVars, client, eveVars, timeVars>>

-----------------------------------------------------------------------------
(* The internal Eve route, mailboxRoute.                                   *)

Connected(r) == \E d \in Dispatchers : pc[d] = "delivering" /\ tok[d] = r.token

Answer(r, stage) == [item |-> r.item, token |-> r.token, stage |-> stage]

Reply(r, stage) ==
  wire' = (wire \ {r}) \cup (IF Connected(r) THEN {Answer(r, stage)} ELSE {})

\* inspectMailboxBoundary saw session.waiting.
RouteChecks(r) ==
  /\ r \in wire /\ r.stage = "posted"
  /\ boundary[session[r.item]] = "waiting"
  /\ wire' = (wire \ {r}) \cup {Answer(r, "checked")}
  /\ UNCHANGED <<rowVars, client, dispatcherVars, eveVars, timeVars, crashes>>

\* Nothing was sent: session running (409), terminal (410) or unreadable
\* (404), request refused (400, 401, 413); 503 is none of the listed codes.
RouteRefuses(r) ==
  /\ r \in wire /\ r.stage = "posted"
  /\ \E reply \in {"rejected", "unknown"} : Reply(r, reply)
  /\ UNCHANGED <<rowVars, client, dispatcherVars, eveVars, timeVars, crashes>>

\* session.send admitted the message.  202 when the session is the one asked
\* for; 409 mailbox_session_identity_changed when it is another one, 502 when
\* send threw all the same.
RouteSends(r, s) ==
  /\ r \in wire /\ r.stage = "checked"
  /\ inbox' = [inbox EXCEPT ![s] = @ \cup {r.item}]
  /\ sends' = [sends EXCEPT ![r.item] = @ + 1]
  /\ \/ s = session[r.item] /\ Reply(r, "accepted")
     \/ Reply(r, "unknown")
  /\ UNCHANGED <<rowVars, client, dispatcherVars, boundary, hook, receipts, timeVars, crashes>>

\* mailboxSessionAuth or session.send threw before admission: 502.
RouteSendThrows(r) ==
  /\ r \in wire /\ r.stage = "checked"
  /\ Reply(r, "unknown")
  /\ UNCHANGED <<rowVars, client, dispatcherVars, eveVars, timeVars, crashes>>

-----------------------------------------------------------------------------
(* The Eve session (external) and the message.received hook.               *)

\* The hook about to try a commit of m, with so many attempts left.
Attempt(m, n) == [item |-> m, left |-> n]

\* message.received is durable, then the hook runs.
MessageReceived(s, m) ==
  /\ boundary[s] = "waiting"
  /\ hook[s] = None
  /\ m \in inbox[s]
  /\ inbox' = [inbox EXCEPT ![s] = @ \ {m}]
  /\ boundary' = [boundary EXCEPT ![s] = "running"]
  /\ receipts' = Append(receipts, m)
  /\ hook' = [hook EXCEPT ![s] = Attempt(m, HookAttempts)]
  /\ UNCHANGED <<rowVars, client, dispatcherVars, wire, sends, timeVars, crashes>>

\* A turn that does not come from the mailbox.
DirectTurn(s) ==
  /\ DirectTurns
  /\ boundary[s] = "waiting"
  /\ boundary' = [boundary EXCEPT ![s] = "running"]
  /\ UNCHANGED <<rowVars, client, dispatcherVars, wire, inbox, hook, sends, receipts,
                 timeVars, crashes>>

TurnEnds(s, to) ==
  /\ boundary[s] = "running"
  /\ hook[s] = None
  /\ boundary' = [boundary EXCEPT ![s] = to]
  /\ UNCHANGED <<rowVars, client, dispatcherVars, wire, inbox, hook, sends, receipts,
                 timeVars, crashes>>

\* store.commit's guard.
CanCommit(m, s) ==
  /\ status[m] \in {"delivering", "accepted", "submission-ambiguous", "committed"}
  /\ acceptedIn[m] \in {None, s}

HookCommit(s) ==
  /\ hook[s] # None
  /\ LET m == hook[s].item IN
       /\ CanCommit(m, s)
       /\ LeaveDelivering(m, "committed")
       /\ acceptedIn' = [acceptedIn EXCEPT ![m] = s]
  /\ hook' = [hook EXCEPT ![s] = None]
  /\ UNCHANGED <<session, created, admitted, client, dispatcherVars, wire, boundary, inbox,
                 sends, receipts, timeVars, crashes>>

\* One attempt threw: the database failed or no row matched.  The last one
\* makes the hook throw and the row stays as it is.
HookAttemptThrows(s) ==
  /\ hook[s] # None
  /\ hook' = [hook EXCEPT ![s] = IF @.left = 1 THEN None ELSE Attempt(@.item, @.left - 1)]
  /\ UNCHANGED <<rowVars, client, dispatcherVars, wire, boundary, inbox, sends, receipts,
                 timeVars, crashes>>

\* The runtime dies while the hook waits between attempts.
HookCrash(s) ==
  /\ hook[s] # None
  /\ crashes < MaxCrashes
  /\ crashes' = crashes + 1
  /\ hook' = [hook EXCEPT ![s] = None]
  /\ UNCHANGED <<rowVars, client, dispatcherVars, wire, boundary, inbox, sends, receipts,
                 timeVars>>

-----------------------------------------------------------------------------
ClientStep(c) ==
  \/ \E m \in Items, s \in Sessions : EnqueueBegin(c, m, s)
  \/ EnqueueRefused(c)
  \/ EnqueueInsert(c)
  \/ EnqueueRollback(c)

RowStep(m) == CancelOwned(m) \/ RetryOwned(m) \/ LeaseExpires(m)

DispatcherStep(d) ==
  \/ Sweep(d)
  \/ \E m \in Items : Claim(d, m)
  \/ ClaimNothing(d)
  \/ Inspect(d) \/ InspectFails(d) \/ Defer(d) \/ FailTerminal(d)
  \/ BeginAdmission(d) \/ BeginAdmissionThrows(d)
  \/ Post(d) \/ (\E r \in wire : Receive(d, r)) \/ DeliverTimeout(d)
  \/ Accept(d) \/ AcceptThrows(d) \/ FindOwned(d) \/ Resolve(d)
  \/ DispatcherCrash(d)

RouteStep ==
  \E r \in wire :
    \/ RouteChecks(r) \/ RouteRefuses(r) \/ RouteSendThrows(r)
    \/ \E s \in Sessions : RouteSends(r, s)

SessionStep(s) ==
  \/ \E m \in Items : MessageReceived(s, m)
  \/ DirectTurn(s)
  \/ \E to \in {"waiting", "terminal"} : TurnEnds(s, to)
  \/ HookCommit(s) \/ HookAttemptThrows(s) \/ HookCrash(s)

Next ==
  \/ \E c \in Clients : ClientStep(c)
  \/ \E m \in Items : RowStep(m)
  \/ \E d \in Dispatchers : DispatcherStep(d)
  \/ RouteStep
  \/ \E s \in Sessions : SessionStep(s)

Spec == Init /\ [][Next]_vars

(***************************************************************************)
(* Scheduling.  The worker posts to the dispatch route for ever, so every  *)
(* dispatch loop keeps moving and wall-clock time keeps passing; inspect   *)
(* answers infinitely often; claimNext takes the longest available row     *)
(* first.  Eve's turns and hook attempts end.  Nothing is assumed of       *)
(* clients, of the requests on the wire, or of the database ever accepting *)
(* a commit.  A lease outlives the calls made under it (60 s against 15 s  *)
(* each) only where SlowDispatchers is FALSE.                              *)
(***************************************************************************)
DispatcherMoves(d) ==
  \/ Sweep(d) \/ (\E m \in Items : Claim(d, m)) \/ ClaimNothing(d)
  \/ Inspect(d) \/ InspectFails(d) \/ Defer(d) \/ FailTerminal(d)
  \/ BeginAdmission(d) \/ BeginAdmissionThrows(d) \/ Post(d)
  \/ (\E r \in wire : Receive(d, r)) \/ DeliverTimeout(d)
  \/ Accept(d) \/ AcceptThrows(d) \/ FindOwned(d) \/ Resolve(d)

Fairness ==
  /\ \A d \in Dispatchers :
       /\ WF_vars(DispatcherMoves(d))
       /\ SF_vars(Inspect(d))
       /\ \A m \in Items : SF_vars(Claim(d, m))
  /\ \A m \in Items : WF_vars(LeaseExpires(m))
  /\ \A s \in Sessions :
       /\ WF_vars(\E to \in {"waiting", "terminal"} : TurnEnds(s, to))
       /\ WF_vars(HookCommit(s) \/ HookAttemptThrows(s))

FairSpec == Spec /\ Fairness

-----------------------------------------------------------------------------
(* Properties.                                                             *)

\* Eve admits an item at most once, whatever is lost, late or retried: the
\* message is never blindly replayed.
AtMostOnce == \A m \in Items : sends[m] <= 1

\* A row its owner can cancel or retry (or that will be leased again) was
\* never admitted and no request that could still admit it is under way.
WithdrawableIsUnsent ==
  \A m \in Items :
    status[m] \in {"absent", "queued", "failed", "cancelled"} =>
      /\ sends[m] = 0
      /\ \A r \in wire : r.item = m => r.stage \notin Pending

\* Two messages of a session are received in the order in which they were
\* enqueued, when one enqueue had returned before the other began.
RealTimeFifo ==
  \A i, j \in DOMAIN receipts :
    (i < j /\ session[receipts[i]] = session[receipts[j]])
      => ~(insertedAt[receipts[j]] < created[receipts[i]])

\* The limit holds over every non-terminal row, however enqueue, retry and
\* cancel interleave.
CapacityHolds ==
  \A s \in Sessions : Cardinality({m \in Items : session[m] = s /\ Open(m)}) <= MailboxLimit

\* Nobody but its holder, or the durable receipt, ends a lease that has not
\* expired: a dispatcher whose own lease was taken over changes nothing.
LiveLeaseUndisturbed ==
  [][\A m \in Items, d \in Dispatchers :
       (held[d] = m /\ status[m] = "delivering" /\ token[m] = tok[d] /\ ~expired[m]) =>
         \/ status'[m] = "delivering" /\ token'[m] = token[m]
         \/ status'[m] = "committed"
         \/ pc'[d] # pc[d]]_vars

\* docs/architecture.md:87-90, as a state: no row is past its lease while an
\* earlier row of the session is open.
InFlightIsHead ==
  \A m \in Items :
    status[m] \in {"delivering", "accepted", "submission-ambiguous"} =>
      \A b \in Items :
        (session[b] = session[m] /\ created[b] < created[m]) => ~Open(b)

\* The row at the head of its session's queue leaves the queue: dispatcher
\* crashes and expired leases never strand it before admission.
HeadSettles ==
  \A m \in Items :
    (status[m] = "queued" /\ \A b \in Items : ~Blocks(b, m))
      ~> (status[m] \notin {"queued", "delivering"})

\* A begun admission is decided or declared ambiguous even if its dispatcher
\* died: it never stays delivering.
AdmissionSettles ==
  \A m \in Items :
    (status[m] = "delivering" /\ admitted[m]) ~> (status[m] # "delivering")

-----------------------------------------------------------------------------
(* The abstract specification the mailbox implements.                      *)

\* What the owner of a row may still do with its message.
PhaseOf(m) ==
  CASE status[m] = "absent"    -> "new"
    [] status[m] = "cancelled" -> "withdrawn"
    [] status[m] = "committed" -> "delivered"
    [] status[m] \in {"queued", "failed"} -> "open"
    [] status[m] = "delivering" -> IF admitted[m] THEN "begun" ELSE "open"
    [] OTHER -> "begun"

Heard(m) == \E i \in DOMAIN receipts : receipts[i] = m

Promise == INSTANCE Delivery WITH
  Messages <- Items,
  delivery <- [m \in Items |-> [phase |-> PhaseOf(m), copies |-> sends[m], heard |-> Heard(m)]]

\* Every behaviour of the rows, dispatchers, route and hook is one of the
\* abstract delivery: what the status column tells the owner is never taken
\* back by a late response, a retry, an expired lease or a crash.
ImplementsDelivery == Promise!Spec

-----------------------------------------------------------------------------
(* The inductive invariant behind AtMostOnce and WithdrawableIsUnsent.     *)

\* The row says that its message may have been handed to Eve.
Begun(m) ==
  \/ status[m] = "delivering" /\ admitted[m]
  \/ status[m] \in {"accepted", "submission-ambiguous", "committed"}

\* Eve has not admitted m and nothing under way can make it.
Quiet(m) ==
  /\ sends[m] = 0
  /\ \A r \in wire : r.item # m
  /\ \A d \in Dispatchers : pc[d] = "posting" => held[d] # m

\* A dispatcher holds an item and a token from its claim to its return.
Holding ==
  \A d \in Dispatchers :
    IF pc[d] \in {"idle", "claiming"}
      THEN held[d] = None /\ tok[d] = None
      ELSE held[d] \in Items /\ tok[d] \in Tokens

\* Two dispatchers never hold the same token, and a request that carries a
\* dispatcher's token is about its item.
TokensOwned ==
  /\ \A d, e \in Dispatchers : (tok[d] = tok[e] /\ tok[d] # None) => d = e
  /\ \A d \in Dispatchers, r \in wire : r.token = tok[d] => r.item = held[d]

\* Until it begins the admission, the holder of a lease knows it has not begun.
BeforeAdmission ==
  \A d \in Dispatchers :
    (pc[d] \in {"inspecting", "deferring", "failing", "beginning"} /\ HoldsLease(d))
      => ~admitted[held[d]]

\* A dispatcher that still holds the lease and was told "rejected" is right.
RejectionIsTrue ==
  \A d \in Dispatchers :
    (pc[d] \in {"recovering", "resolving"} /\ err[d] = "rejected" /\ HoldsLease(d))
      => Quiet(held[d])

\* There is one deliver request per item, and none after its admission.
OneRequest ==
  /\ \A d \in Dispatchers : pc[d] = "posting" =>
       /\ sends[held[d]] = 0
       /\ \A r \in wire : r.item # held[d]
       /\ \A e \in Dispatchers : (pc[e] = "posting" /\ held[e] = held[d]) => e = d
  /\ \A r \in wire : r.stage \in Pending \cup {"rejected"} => sends[r.item] = 0
  /\ \A r, q \in wire : r.item = q.item => r = q

DeliveryInv ==
  /\ TypeOK
  /\ Holding
  /\ TokensOwned
  /\ BeforeAdmission
  /\ RejectionIsTrue
  /\ OneRequest
  /\ \A m \in Items : ~Begun(m) => Quiet(m)
  /\ AtMostOnce
=============================================================================
