--------------------------- MODULE MailboxProofs ---------------------------
(***************************************************************************)
(* Eve admits a mailbox item at most once, for every set of items,         *)
(* sessions, clients, dispatchers and tokens and every bound; and what the *)
(* status of a row tells its owner implements Delivery.                    *)
(*                                                                         *)
(* DeliveryInv says which rows may have been sent; Ledger adds what became *)
(* of those that were: a message is in one inbox or was heard, never both, *)
(* and only a heard one has a hook or is committed.                        *)
(***************************************************************************)
EXTENDS Mailbox, TLAPS

USE MailboxAssumption

\* Every step of an enqueue request keeps every variable in its domain.
LEMMA TypeClient ==
  ASSUME TypeOK, NEW c \in Clients, ClientStep(c) PROVE TypeOK'
<1> USE DEF TypeOK, rowVars, dispatcherVars, eveVars, timeVars
<1>1. ASSUME NEW m \in Items, NEW s \in Sessions, EnqueueBegin(c, m, s) PROVE TypeOK'
  BY <1>1 DEF EnqueueBegin
<1>2. CASE EnqueueRefused(c)
  BY <1>2 DEF EnqueueRefused
<1>3. CASE EnqueueInsert(c)
  <2>1. client[c] \in [item: Items, session: Sessions, at: Nat]
    BY <1>3 DEF EnqueueInsert
  <2>2. QED
    BY <1>3, <2>1 DEF EnqueueInsert, Statuses
<1>4. CASE EnqueueRollback(c)
  BY <1>4 DEF EnqueueRollback
<1>5. QED
  BY <1>1, <1>2, <1>3, <1>4 DEF ClientStep

\* cancelOwned, retryOwned and an expiring lease keep every variable in its domain.
LEMMA TypeRow ==
  ASSUME TypeOK, NEW m \in Items, RowStep(m) PROVE TypeOK'
<1> USE DEF TypeOK, rowVars, dispatcherVars, eveVars, timeVars, Statuses
<1>1. CASE CancelOwned(m)
  BY <1>1 DEF CancelOwned
<1>2. CASE RetryOwned(m)
  BY <1>2 DEF RetryOwned
<1>3. CASE LeaseExpires(m)
  BY <1>3 DEF LeaseExpires
<1>4. QED
  BY <1>1, <1>2, <1>3 DEF RowStep

\* The part of TypeOK and Holding that a dispatcher step may disturb.
ProcessesOK ==
  /\ pc \in [Dispatchers -> Steps]
  /\ held \in [Dispatchers -> Items \cup {None}]
  /\ tok \in [Dispatchers -> Tokens \cup {None}]
  /\ err \in [Dispatchers -> {"none", "rejected", "other"}]
  /\ Holding

\* A dispatcher that returns holds nothing and is idle.
LEMMA ReturnTypes ==
  ASSUME ProcessesOK, NEW d \in Dispatchers, Return(d) PROVE ProcessesOK'
BY DEF ProcessesOK, Holding, Return, Steps

\* A dispatcher that goes on to its next await keeps what it holds.
LEMMA GotoTypes ==
  ASSUME ProcessesOK, NEW d \in Dispatchers, pc[d] \notin {"idle", "claiming"},
         NEW step \in Steps \ {"idle", "claiming"}, Goto(d, step),
         err' \in [Dispatchers -> {"none", "rejected", "other"}]
  PROVE  ProcessesOK'
BY DEF ProcessesOK, Holding, Goto

\* A dispatcher that enters the catch block keeps what it holds.
LEMMA CatchTypes ==
  ASSUME ProcessesOK, NEW d \in Dispatchers, pc[d] \notin {"idle", "claiming"},
         NEW error \in {"rejected", "other"}, Catch(d, error)
  PROVE  ProcessesOK'
<1>1. err' \in [Dispatchers -> {"none", "rejected", "other"}]
  BY DEF ProcessesOK, Catch
<1>2. "recovering" \in Steps \ {"idle", "claiming"} /\ Goto(d, "recovering")
  BY DEF Steps, Catch
<1>3. QED
  BY <1>1, <1>2, GotoTypes

\* Leaving delivering keeps the columns it writes in their domains.
LEMMA LeaveTypes ==
  ASSUME TypeOK, NEW m, NEW to \in Statuses, LeaveDelivering(m, to)
  PROVE  /\ status' \in [Items -> Statuses]
         /\ token' \in [Items -> Tokens \cup {None}]
         /\ expired' \in [Items -> BOOLEAN]
BY DEF TypeOK, LeaveDelivering

\* Every step of a dispatcher keeps every variable in its domain.
LEMMA TypeDispatcher ==
  ASSUME TypeOK, Holding, NEW d \in Dispatchers, DispatcherStep(d)
  PROVE  TypeOK' /\ Holding'
<1> USE DEF rowVars, eveVars, timeVars
<1>0. ProcessesOK
  BY DEF TypeOK, ProcessesOK
<1>a. ASSUME UNCHANGED <<session, created, client, eveVars, timeVars>>, ProcessesOK',
             status' \in [Items -> Statuses],
             token' \in [Items -> Tokens \cup {None}],
             expired' \in [Items -> BOOLEAN],
             admitted' \in [Items -> BOOLEAN],
             acceptedIn' \in [Items -> Sessions \cup {None}],
             wire' \in SUBSET Requests,
             crashes' \in 0..MaxCrashes
      PROVE  TypeOK' /\ Holding'
  BY <1>a DEF TypeOK, ProcessesOK
<1>b. /\ status \in [Items -> Statuses]
      /\ token \in [Items -> Tokens \cup {None}]
      /\ expired \in [Items -> BOOLEAN]
      /\ admitted \in [Items -> BOOLEAN]
      /\ acceptedIn \in [Items -> Sessions \cup {None}]
      /\ session \in [Items -> Sessions \cup {None}]
      /\ wire \in SUBSET Requests
      /\ crashes \in 0..MaxCrashes
  BY DEF TypeOK
<1>c. UNCHANGED err => err' \in [Dispatchers -> {"none", "rejected", "other"}]
  BY DEF TypeOK
<1>d. {"queued", "failed", "accepted", "submission-ambiguous"} \subseteq Statuses
  BY DEF Statuses
<1>e. {"deferring", "failing", "beginning", "posting", "delivering", "accepting", "resolving"}
        \subseteq Steps \ {"idle", "claiming"}
  BY DEF Steps
<1>1. CASE Sweep(d)
  <2>1. ProcessesOK'
    BY <1>0, <1>1 DEF Sweep, ProcessesOK, Holding, Goto, Steps
  <2>2. status' \in [Items -> Statuses] /\ token' \in [Items -> Tokens \cup {None}]
        /\ expired' \in [Items -> BOOLEAN]
    BY <1>1, <1>b, <1>d DEF Sweep
  <2>3. QED
    BY <1>1, <1>a, <1>b, <2>1, <2>2 DEF Sweep
<1>2. ASSUME NEW m \in Items, Claim(d, m) PROVE TypeOK' /\ Holding'
  <2> DEFINE t == CHOOSE t \in Tokens : FreshToken(t)
  <2>1. t \in Tokens
    BY <1>2 DEF Claim
  <2>2. token' = [token EXCEPT ![m] = t] /\ tok' = [tok EXCEPT ![d] = t]
    BY <1>2 DEF Claim
  <2> HIDE DEF t
  <2>3. ProcessesOK'
    BY <1>0, <1>2, <2>1, <2>2 DEF Claim, ProcessesOK, Holding, Steps
  <2>4. status' \in [Items -> Statuses] /\ token' \in [Items -> Tokens \cup {None}]
        /\ expired' \in [Items -> BOOLEAN] /\ admitted' \in [Items -> BOOLEAN]
    BY <1>2, <1>b, <2>1, <2>2 DEF Claim, Statuses
  <2>5. QED
    BY <1>2, <1>a, <1>b, <2>3, <2>4 DEF Claim
<1>3. CASE ClaimNothing(d)
  BY <1>0, <1>3, <1>a, <1>b, ReturnTypes DEF ClaimNothing
<1>4. CASE Inspect(d)
  <2>1. PICK step \in {"deferring", "failing", "beginning"} : Goto(d, step)
    BY <1>4 DEF Inspect
  <2>2. ProcessesOK'
    BY <1>0, <1>4, <1>c, <1>e, <2>1, GotoTypes DEF Inspect
  <2>3. QED
    BY <1>4, <1>a, <1>b, <2>2 DEF Inspect
<1>5. CASE InspectFails(d)
  <2>1. ProcessesOK'
    BY <1>0, <1>5, <1>c, <1>e, GotoTypes DEF InspectFails
  <2>2. QED
    BY <1>5, <1>a, <1>b, <2>1 DEF InspectFails
<1>6. CASE Defer(d)
  BY <1>0, <1>6, <1>a, <1>b, <1>d, ReturnTypes, LeaveTypes DEF Defer
<1>7. CASE FailTerminal(d)
  BY <1>0, <1>7, <1>a, <1>b, <1>d, ReturnTypes, LeaveTypes DEF FailTerminal
<1>8. CASE BeginAdmission(d)
  <2>1. ProcessesOK'
    BY <1>0, <1>8, <1>c, <1>e, GotoTypes DEF BeginAdmission
  <2>2. QED
    BY <1>8, <1>a, <1>b, <2>1 DEF BeginAdmission
<1>9. CASE BeginAdmissionThrows(d)
  <2>1. ProcessesOK'
    BY <1>0, <1>9, CatchTypes DEF BeginAdmissionThrows
  <2>2. QED
    BY <1>9, <1>a, <1>b, <2>1 DEF BeginAdmissionThrows
<1>10. CASE Post(d)
  <2>1. ProcessesOK'
    BY <1>0, <1>10, <1>c, <1>e, GotoTypes DEF Post
  <2>2. held[d] \in Items /\ tok[d] \in Tokens
    BY <1>10 DEF Post, Holding
  <2>3. wire' \in SUBSET Requests
    BY <1>10, <1>b, <2>2 DEF Post, Requests, Pending
  <2>4. QED
    BY <1>10, <1>a, <1>b, <2>1, <2>3 DEF Post
<1>11. ASSUME NEW r \in wire, Receive(d, r) PROVE TypeOK' /\ Holding'
  <2>1. ProcessesOK'
    BY <1>0, <1>11, <1>c, <1>e, GotoTypes, CatchTypes DEF Receive
  <2>2. QED
    BY <1>11, <1>a, <1>b, <2>1 DEF Receive
<1>12. CASE DeliverTimeout(d)
  <2>1. ProcessesOK'
    BY <1>0, <1>12, CatchTypes DEF DeliverTimeout
  <2>2. QED
    BY <1>12, <1>a, <1>b, <2>1 DEF DeliverTimeout, Disconnect
<1>13. CASE Accept(d)
  <2>0. held[d] \in Items
    BY <1>13 DEF Accept, Holding
  <2>1. ProcessesOK'
    BY <1>0, <1>13, ReturnTypes, CatchTypes DEF Accept
  <2>2. /\ status' \in [Items -> Statuses]
        /\ token' \in [Items -> Tokens \cup {None}]
        /\ expired' \in [Items -> BOOLEAN]
    BY <1>13, <1>b, <1>d, LeaveTypes DEF Accept
  <2>3. acceptedIn' \in [Items -> Sessions \cup {None}]
    BY <1>13, <1>b, <2>0 DEF Accept
  <2>4. QED
    BY <1>13, <1>a, <1>b, <2>1, <2>2, <2>3 DEF Accept
<1>14. CASE AcceptThrows(d)
  <2>0. held[d] \in Items
    BY <1>14 DEF AcceptThrows, Holding
  <2>1. ProcessesOK'
    BY <1>0, <1>14, CatchTypes DEF AcceptThrows
  <2>2. /\ status' \in [Items -> Statuses]
        /\ token' \in [Items -> Tokens \cup {None}]
        /\ expired' \in [Items -> BOOLEAN]
    BY <1>14, <1>b, <1>d, LeaveTypes DEF AcceptThrows
  <2>3. acceptedIn' \in [Items -> Sessions \cup {None}]
    BY <1>14, <1>b, <2>0 DEF AcceptThrows
  <2>4. QED
    BY <1>14, <1>a, <1>b, <2>1, <2>2, <2>3 DEF AcceptThrows
<1>15. CASE FindOwned(d)
  <2>1. ProcessesOK'
    BY <1>0, <1>15, <1>c, <1>e, ReturnTypes, GotoTypes DEF FindOwned
  <2>2. QED
    BY <1>15, <1>a, <1>b, <2>1 DEF FindOwned
<1>16. CASE Resolve(d)
  <2>1. (IF err[d] = "rejected" THEN "failed" ELSE "submission-ambiguous") \in Statuses
    BY <1>d
  <2>2. ProcessesOK'
    BY <1>0, <1>16, ReturnTypes DEF Resolve
  <2>3. /\ status' \in [Items -> Statuses]
        /\ token' \in [Items -> Tokens \cup {None}]
        /\ expired' \in [Items -> BOOLEAN]
    BY <1>16, <1>b, <2>1, LeaveTypes DEF Resolve
  <2>4. QED
    BY <1>16, <1>a, <1>b, <2>2, <2>3 DEF Resolve
<1>17. CASE DispatcherCrash(d)
  <2>1. ProcessesOK'
    BY <1>0, <1>17, ReturnTypes DEF DispatcherCrash
  <2>2. crashes' \in 0..MaxCrashes
    BY <1>17, <1>b DEF DispatcherCrash
  <2>3. QED
    BY <1>17, <1>a, <1>b, <2>1, <2>2 DEF DispatcherCrash, Disconnect
<1>18. QED
  BY <1>1, <1>2, <1>3, <1>4, <1>5, <1>6, <1>7, <1>8, <1>9, <1>10, <1>11, <1>12, <1>13,
     <1>14, <1>15, <1>16, <1>17 DEF DispatcherStep

\* Every step of the internal Eve route keeps every variable in its domain.
LEMMA TypeRoute ==
  ASSUME TypeOK, RouteStep PROVE TypeOK'
<1> USE DEF TypeOK, rowVars, dispatcherVars, eveVars, timeVars
<1>1. PICK r \in wire : \/ RouteChecks(r) \/ RouteRefuses(r) \/ RouteSendThrows(r)
                        \/ \E s \in Sessions : RouteSends(r, s)
  BY DEF RouteStep
<1>2. /\ r \in Requests
      /\ \A stage \in Pending \cup Replies : Answer(r, stage) \in Requests
  BY DEF Requests, Answer
<1>3. ASSUME NEW stage \in Pending \cup Replies, Reply(r, stage) PROVE wire' \in SUBSET Requests
  BY <1>2, <1>3 DEF Reply
<1>4. CASE RouteChecks(r)
  BY <1>2, <1>4 DEF RouteChecks, Pending
<1>5. CASE RouteRefuses(r)
  BY <1>3, <1>5 DEF RouteRefuses, Replies
<1>6. CASE RouteSendThrows(r)
  BY <1>3, <1>6 DEF RouteSendThrows, Replies
<1>7. ASSUME NEW s \in Sessions, RouteSends(r, s) PROVE TypeOK'
  <2>1. wire' \in SUBSET Requests
    BY <1>3, <1>7 DEF RouteSends, Replies
  <2>2. r.item \in Items
    BY <1>2 DEF Requests
  <2>3. QED
    BY <1>7, <2>1, <2>2 DEF RouteSends
<1>8. QED
  BY <1>1, <1>4, <1>5, <1>6, <1>7

\* Every step of a session and its hook keeps every variable in its domain.
LEMMA TypeSession ==
  ASSUME TypeOK, NEW s \in Sessions, SessionStep(s) PROVE TypeOK'
<1> USE DEF TypeOK, rowVars, dispatcherVars, eveVars, timeVars, Attempt
<1>1. ASSUME NEW m \in Items, MessageReceived(s, m) PROVE TypeOK'
  <2>1. Attempt(m, HookAttempts) \in [item: Items, left: 1..HookAttempts]
    OBVIOUS
  <2>2. Append(receipts, m) \in Seq(Items)
    OBVIOUS
  <2>3. QED
    BY <1>1, <2>1, <2>2 DEF MessageReceived
<1>2. CASE DirectTurn(s)
  BY <1>2 DEF DirectTurn
<1>3. ASSUME NEW to \in {"waiting", "terminal"}, TurnEnds(s, to) PROVE TypeOK'
  BY <1>3 DEF TurnEnds
<1>4. ASSUME hook[s] # None PROVE hook[s] \in [item: Items, left: 1..HookAttempts]
  BY <1>4
<1>5. CASE HookCommit(s)
  BY <1>4, <1>5 DEF HookCommit, LeaveDelivering, Statuses
<1>6. CASE HookAttemptThrows(s)
  <2>1. hook[s].left # 1 =>
          Attempt(hook[s].item, hook[s].left - 1) \in [item: Items, left: 1..HookAttempts]
    BY <1>4, <1>6 DEF HookAttemptThrows
  <2>2. QED
    BY <1>6, <2>1 DEF HookAttemptThrows
<1>7. CASE HookCrash(s)
  BY <1>7 DEF HookCrash
<1>8. QED
  BY <1>1, <1>2, <1>3, <1>5, <1>6, <1>7 DEF SessionStep

\* An empty table with idle dispatchers is well typed.
LEMMA TypeInit == Init => TypeOK /\ Holding
BY DEF Init, TypeOK, Holding, Statuses, Steps

\* Every step keeps every variable in its domain.
LEMMA TypeStep == TypeOK /\ Holding /\ [Next]_vars => TypeOK' /\ Holding'
<1> SUFFICES ASSUME TypeOK, Holding, [Next]_vars PROVE TypeOK' /\ Holding'
  OBVIOUS
<1> USE DEF rowVars, dispatcherVars, eveVars, timeVars
<1>1. CASE UNCHANGED vars
  BY <1>1 DEF vars, TypeOK, Holding
<1>2. ASSUME UNCHANGED dispatcherVars PROVE Holding'
  BY <1>2 DEF Holding
<1>3. ASSUME NEW c \in Clients, ClientStep(c) PROVE TypeOK' /\ Holding'
  BY <1>2, <1>3, TypeClient
     DEF ClientStep, EnqueueBegin, EnqueueRefused, EnqueueInsert, EnqueueRollback
<1>4. ASSUME NEW m \in Items, RowStep(m) PROVE TypeOK' /\ Holding'
  BY <1>2, <1>4, TypeRow DEF RowStep, CancelOwned, RetryOwned, LeaseExpires
<1>5. ASSUME RouteStep PROVE TypeOK' /\ Holding'
  BY <1>2, <1>5, TypeRoute
     DEF RouteStep, RouteChecks, RouteRefuses, RouteSendThrows, RouteSends
<1>6. ASSUME NEW s \in Sessions, SessionStep(s) PROVE TypeOK' /\ Holding'
  BY <1>2, <1>6, TypeSession
     DEF SessionStep, MessageReceived, DirectTurn, TurnEnds, HookCommit, HookAttemptThrows,
         HookCrash
<1>7. QED
  BY <1>1, <1>3, <1>4, <1>5, <1>6, TypeDispatcher DEF Next

\* Every column, program counter, request and history variable stays in its
\* domain, and a dispatcher holds an item and a token exactly from claimNext
\* to its return.
THEOREM TypeCorrect == Spec => [](TypeOK /\ Holding)
BY TypeInit, TypeStep, PTL DEF Spec
-----------------------------------------------------------------------------
(***************************************************************************)
(* The inductive invariant.  Most steps create no new way to reach Eve:    *)
(* they add no request, count no admission, leave every lease that is      *)
(* still held with its old admission, and release a row (make it not       *)
(* Begun) only when it is Quiet.  One lemma covers them all; the steps of  *)
(* the admission itself are proved one by one.                             *)
(***************************************************************************)
\* Dispatcher d does not get nearer to a deliver request.
Harmless(d) ==
  \/ pc'[d] \in {"idle", "claiming"}
  \/ /\ held'[d] = held[d] /\ tok'[d] = tok[d]
     /\ \/ pc'[d] = pc[d] /\ err'[d] = err[d]
        \/ pc[d] = "inspecting" /\ pc'[d] \in {"deferring", "failing", "beginning"}
        \/ pc[d] # "posting" /\ pc'[d] = "accepting"
        \/ pc[d] # "posting" /\ pc'[d] = "recovering" /\ err'[d] # "rejected"
        \/ pc[d] = "recovering" /\ pc'[d] = "resolving" /\ err'[d] = err[d]

\* A step that creates no new way to reach Eve preserves the invariant.
LEMMA HarmlessStep ==
  ASSUME DeliveryInv, TypeOK', Holding',
         wire' \subseteq wire, sends' = sends,
         \A d \in Dispatchers : Harmless(d),
         \A d \in Dispatchers :
           (tok'[d] = tok[d] /\ held'[d] = held[d] /\ tok[d] # None /\ HoldsLease(d)') =>
             HoldsLease(d) /\ (admitted'[held[d]] => admitted[held[d]] \/ pc'[d] = "recovering"),
         \A m \in Items : ~Begun(m)' => Quiet(m)
  PROVE  DeliveryInv'
<1> USE DEF DeliveryInv
<1>1. TokensOwned'
  <2>1. \A d \in Dispatchers : tok'[d] # None => tok'[d] = tok[d] /\ held'[d] = held[d]
    BY DEF Harmless, Holding
  <2>2. ASSUME NEW d \in Dispatchers, NEW e \in Dispatchers, tok'[d] = tok'[e], tok'[d] # None
        PROVE  d = e
    BY <2>1, <2>2 DEF TokensOwned
  <2>3. ASSUME NEW d \in Dispatchers, NEW r \in wire', r.token = tok'[d]
        PROVE  r.item = held'[d]
    <3>1. r.token # None
      BY DEF TypeOK, Requests
    <3>2. QED
      BY <2>1, <2>3, <3>1 DEF TokensOwned
  <2>4. QED
    BY <2>2, <2>3 DEF TokensOwned
<1>2. BeforeAdmission'
  BY DEF BeforeAdmission, Harmless, Holding, HoldsLease
<1>3. ASSUME NEW m \in Items, Quiet(m) PROVE Quiet(m)'
  BY <1>3 DEF Quiet, Harmless
<1>4. RejectionIsTrue'
  <2> SUFFICES ASSUME NEW d \in Dispatchers, pc'[d] \in {"recovering", "resolving"},
                      err'[d] = "rejected", HoldsLease(d)'
               PROVE  Quiet(held[d])' /\ held'[d] = held[d]
    BY DEF RejectionIsTrue
  <2>1. /\ held'[d] = held[d] /\ tok'[d] = tok[d] /\ tok[d] # None /\ held[d] \in Items
        /\ pc[d] \in {"recovering", "resolving"} /\ err[d] = "rejected"
    BY DEF Harmless, Holding
  <2>2. Quiet(held[d])
    BY <2>1 DEF RejectionIsTrue
  <2>3. Quiet(held[d])'
    BY <1>3, <2>1, <2>2 DEF Quiet
  <2>4. QED
    BY <2>1, <2>3
<1>5. OneRequest'
  BY DEF OneRequest, Harmless
<1>6. \A m \in Items : ~Begun(m)' => Quiet(m)'
  BY <1>3
<1>7. AtMostOnce'
  BY DEF AtMostOnce
<1>8. QED
  BY <1>1, <1>2, <1>4, <1>5, <1>6, <1>7

\* A step that leaves status, token and admission of every row alone.
LEMMA RowsKept ==
  ASSUME DeliveryInv, TypeOK', Holding', wire' \subseteq wire, sends' = sends,
         \A d \in Dispatchers : Harmless(d), UNCHANGED <<status, token, admitted>>
  PROVE  DeliveryInv'
<1>1. \A m \in Items : ~Begun(m)' => Quiet(m)
  BY DEF DeliveryInv, Begun
<1>2. \A d \in Dispatchers :
        (tok'[d] = tok[d] /\ held'[d] = held[d] /\ HoldsLease(d)') => HoldsLease(d)
  BY DEF HoldsLease
<1>3. QED
  BY <1>1, <1>2, HarmlessStep

\* A step that takes one row out of delivering.
LEMMA RowLeaves ==
  ASSUME DeliveryInv, TypeOK', Holding', wire' \subseteq wire, sends' = sends,
         \A d \in Dispatchers : Harmless(d), UNCHANGED admitted,
         NEW m \in Items, NEW to \in Statuses \ {"delivering"}, LeaveDelivering(m, to),
         to \in {"accepted", "submission-ambiguous", "committed"} \/ Quiet(m)
  PROVE  DeliveryInv'
<1>1. \A n \in Items : ~Begun(n)' => Quiet(n)
  BY DEF DeliveryInv, TypeOK, Begun, LeaveDelivering
<1>2. \A d \in Dispatchers :
        (tok'[d] = tok[d] /\ held'[d] = held[d] /\ tok[d] # None /\ HoldsLease(d)')
           => HoldsLease(d)
  BY DEF DeliveryInv, TypeOK, HoldsLease, LeaveDelivering
<1>3. QED
  BY <1>1, <1>2, HarmlessStep

\* Enqueuing preserves the invariant: a new row is Quiet.
LEMMA DeliveryClient ==
  ASSUME DeliveryInv, TypeOK', Holding', NEW c \in Clients, ClientStep(c)
  PROVE  DeliveryInv'
<1> USE DEF rowVars, dispatcherVars, eveVars
<1>1. /\ wire' = wire /\ sends' = sends /\ UNCHANGED <<token, admitted, dispatcherVars>>
      /\ \A m \in Items : status'[m] = status[m] \/ (status[m] = "absent" /\ status'[m] = "queued")
  BY DEF ClientStep, EnqueueBegin, EnqueueRefused, EnqueueInsert, EnqueueRollback,
         DeliveryInv, TypeOK
<1>2. \A m \in Items : ~Begun(m)' => Quiet(m)
  BY <1>1 DEF DeliveryInv, Begun
<1>3. \A d \in Dispatchers : Harmless(d)
  BY <1>1 DEF Harmless
<1>4. \A d \in Dispatchers : tok[d] # None /\ HoldsLease(d)' => HoldsLease(d)
  BY <1>1 DEF HoldsLease, DeliveryInv, Holding
<1>5. QED
  BY <1>1, <1>2, <1>3, <1>4, HarmlessStep

\* Cancel, retry and an expiring lease preserve the invariant.
LEMMA DeliveryRow ==
  ASSUME DeliveryInv, TypeOK', Holding', NEW m \in Items, RowStep(m)
  PROVE  DeliveryInv'
<1> USE DEF rowVars, dispatcherVars, eveVars
<1>1. /\ wire' = wire /\ sends' = sends /\ UNCHANGED <<token, dispatcherVars>>
      /\ \A n \in Items :
           \/ status'[n] = status[n] /\ admitted'[n] = admitted[n]
           \/ status[n] \in {"queued", "failed"} /\ status'[n] \in {"queued", "cancelled"}
  BY DEF RowStep, CancelOwned, RetryOwned, LeaseExpires, DeliveryInv, TypeOK
<1>2. \A n \in Items : ~Begun(n)' => Quiet(n)
  BY <1>1 DEF DeliveryInv, Begun
<1>3. \A d \in Dispatchers : Harmless(d)
  BY <1>1 DEF Harmless
<1>4. \A d \in Dispatchers :
        tok[d] # None /\ HoldsLease(d)' =>
          HoldsLease(d) /\ (admitted'[held[d]] => admitted[held[d]])
  BY <1>1 DEF HoldsLease, DeliveryInv, Holding
<1>5. QED
  BY <1>1, <1>2, <1>3, <1>4, HarmlessStep

\* A dispatcher step that moves d on without nearing a deliver request.
LEMMA HarmlessMove ==
  ASSUME DeliveryInv, NEW d \in Dispatchers,
         \/ Return(d)
         \/ pc[d] = "idle" /\ Goto(d, "claiming") /\ UNCHANGED err
         \/ /\ pc[d] = "inspecting" /\ UNCHANGED err
            /\ \E step \in {"deferring", "failing", "beginning"} : Goto(d, step)
         \/ pc[d] # "posting" /\ Goto(d, "accepting") /\ UNCHANGED err
         \/ pc[d] = "recovering" /\ Goto(d, "resolving") /\ UNCHANGED err
         \/ pc[d] # "posting" /\ Catch(d, "other")
  PROVE  \A e \in Dispatchers : Harmless(e)
BY DEF DeliveryInv, TypeOK, Return, Goto, Catch, Harmless

\* A claim takes a token nobody holds and a row nothing is under way for.
LEMMA DeliveryClaim ==
  ASSUME DeliveryInv, TypeOK', Holding', NEW d \in Dispatchers, NEW m \in Items, Claim(d, m)
  PROVE  DeliveryInv'
<1> DEFINE t == CHOOSE t \in Tokens : FreshToken(t)
<1>1. t \in Tokens /\ FreshToken(t)
  BY DEF Claim
<1>2. /\ token' = [token EXCEPT ![m] = t] /\ tok' = [tok EXCEPT ![d] = t]
      /\ status' = [status EXCEPT ![m] = "delivering"]
      /\ admitted' = [admitted EXCEPT ![m] = FALSE]
      /\ pc' = [pc EXCEPT ![d] = "inspecting"]
      /\ held' = [held EXCEPT ![d] = m]
      /\ wire' = wire /\ err' = err /\ sends' = sends
  BY DEF Claim, eveVars
<1> HIDE DEF t
<1> USE DEF DeliveryInv, TypeOK
<1>3. Quiet(m)
  BY DEF Claim, Claimable, Begun
<1>4. \A n \in Items : Quiet(n) => Quiet(n)'
  BY <1>2 DEF Quiet
<1>5. \A e \in Dispatchers \ {d} :
        (pc[e] \notin {"idle", "claiming"} /\ HoldsLease(e)') => HoldsLease(e) /\ held[e] # m
  BY <1>1, <1>2 DEF HoldsLease, FreshToken, Holding
<1>6. TokensOwned'
  BY <1>1, <1>2 DEF TokensOwned, FreshToken
<1>7. BeforeAdmission'
  BY <1>2, <1>5 DEF BeforeAdmission, Holding
<1>8. RejectionIsTrue'
  <2> SUFFICES ASSUME NEW e \in Dispatchers, pc'[e] \in {"recovering", "resolving"},
                      err'[e] = "rejected", HoldsLease(e)'
               PROVE  Quiet(held[e])' /\ held'[e] = held[e]
    BY DEF RejectionIsTrue, Quiet
  <2>1. e # d /\ held'[e] = held[e] /\ pc[e] = pc'[e] /\ err[e] = "rejected"
    BY <1>2
  <2>2. Quiet(held[e]) /\ held[e] \in Items
    BY <1>5, <2>1 DEF RejectionIsTrue, Holding
  <2>3. QED
    BY <1>4, <2>1, <2>2
<1>9. OneRequest'
  BY <1>2 DEF OneRequest
<1>10. \A n \in Items : ~Begun(n)' => Quiet(n)'
  BY <1>2, <1>3, <1>4 DEF Begun
<1>11. AtMostOnce'
  BY <1>2 DEF AtMostOnce
<1>12. QED
  BY <1>6, <1>7, <1>8, <1>9, <1>10, <1>11

\* beginAdmission makes d the only dispatcher about to post its item.
LEMMA DeliveryBegin ==
  ASSUME DeliveryInv, TypeOK', Holding', NEW d \in Dispatchers, BeginAdmission(d)
  PROVE  DeliveryInv'
<1> DEFINE m == held[d]
<1>1. /\ pc[d] = "beginning" /\ HoldsLease(d) /\ ~admitted[m]
      /\ admitted' = [admitted EXCEPT ![m] = TRUE]
      /\ pc' = [pc EXCEPT ![d] = "posting"]
      /\ UNCHANGED <<held, tok, err, status, token, wire, sends>>
  BY DEF BeginAdmission, CanBegin, Goto, eveVars
<1>2. m \in Items /\ tok[d] # None
  BY <1>1 DEF DeliveryInv, Holding
<1> USE DEF DeliveryInv, TypeOK
<1>3. Quiet(m)
  BY <1>1, <1>2 DEF Begun, HoldsLease
<1>4. \A n \in Items \ {m} : Quiet(n) => Quiet(n)'
  BY <1>1 DEF Quiet
<1>5. \A e \in Dispatchers \ {d} :
        HoldsLease(e) /\ pc[e] \notin {"idle", "claiming"} => held[e] # m
  BY <1>1, <1>2 DEF HoldsLease, TokensOwned
<1>6. TokensOwned'
  BY <1>1 DEF TokensOwned
<1>7. BeforeAdmission'
  BY <1>1, <1>5 DEF BeforeAdmission, HoldsLease, Holding, Steps
<1>8. RejectionIsTrue'
  <2> SUFFICES ASSUME NEW e \in Dispatchers, pc'[e] \in {"recovering", "resolving"},
                      err'[e] = "rejected", HoldsLease(e)'
               PROVE  Quiet(held[e])' /\ held'[e] = held[e]
    BY DEF RejectionIsTrue, Quiet
  <2>1. e # d /\ held'[e] = held[e] /\ pc[e] = pc'[e] /\ err[e] = "rejected" /\ HoldsLease(e)
    BY <1>1 DEF HoldsLease
  <2>2. Quiet(held[e]) /\ held[e] \in Items \ {m}
    BY <1>5, <2>1 DEF RejectionIsTrue, Holding
  <2>3. QED
    BY <1>4, <2>1, <2>2
<1>9. OneRequest'
  BY <1>1, <1>3 DEF OneRequest, Quiet
<1>10. \A n \in Items : ~Begun(n)' => Quiet(n)'
  BY <1>1, <1>4 DEF Begun, HoldsLease
<1>11. AtMostOnce'
  BY <1>1 DEF AtMostOnce
<1>12. QED
  BY <1>6, <1>7, <1>8, <1>9, <1>10, <1>11

\* The deliver request that is posted is the only one for its item.
LEMMA DeliveryPost ==
  ASSUME DeliveryInv, TypeOK', Holding', NEW d \in Dispatchers, Post(d)
  PROVE  DeliveryInv'
<1> DEFINE q == [item |-> held[d], token |-> tok[d], stage |-> "posted"]
<1>1. /\ pc[d] = "posting" /\ wire' = wire \cup {q}
      /\ pc' = [pc EXCEPT ![d] = "delivering"]
      /\ UNCHANGED <<held, tok, err, status, token, admitted, sends>>
  BY DEF Post, Goto, eveVars, rowVars
<1>2. held[d] \in Items /\ tok[d] # None
  BY <1>1 DEF DeliveryInv, Holding
<1> USE DEF DeliveryInv, TypeOK
<1>3. ~Quiet(held[d])
  BY <1>1 DEF Quiet
<1>4. \A n : Quiet(n) => Quiet(n)'
  BY <1>1 DEF Quiet
<1>5. TokensOwned'
  BY <1>1, <1>2 DEF TokensOwned
<1>6. BeforeAdmission'
  BY <1>1 DEF BeforeAdmission, HoldsLease
<1>7. RejectionIsTrue'
  <2> SUFFICES ASSUME NEW e \in Dispatchers, pc'[e] \in {"recovering", "resolving"},
                      err'[e] = "rejected", HoldsLease(e)'
               PROVE  Quiet(held[e])' /\ held'[e] = held[e]
    BY DEF RejectionIsTrue, Quiet
  <2>1. e # d /\ held'[e] = held[e] /\ pc[e] = pc'[e] /\ err[e] = "rejected" /\ HoldsLease(e)
    BY <1>1 DEF HoldsLease
  <2>2. Quiet(held[e])
    BY <2>1 DEF RejectionIsTrue
  <2>3. QED
    BY <1>4, <2>1, <2>2
<1>8. OneRequest'
  <2>1. \A r \in wire : r.item # held[d]
    BY <1>1 DEF OneRequest
  <2>2. \A e \in Dispatchers : pc'[e] = "posting" => pc[e] = "posting" /\ held[e] # held[d]
    BY <1>1 DEF OneRequest
  <2>3. QED
    BY <1>1, <2>1, <2>2 DEF OneRequest
<1>9. \A n \in Items : ~Begun(n)' => Quiet(n)'
  BY <1>1, <1>4 DEF Begun
<1>10. AtMostOnce'
  BY <1>1 DEF AtMostOnce
<1>11. QED
  BY <1>5, <1>6, <1>7, <1>8, <1>9, <1>10

\* A definitive rejection proves that nothing was sent: the answered request
\* was the only one.
LEMMA DeliveryRejected ==
  ASSUME DeliveryInv, TypeOK', Holding', NEW d \in Dispatchers, NEW r \in wire,
         Receive(d, r), r.stage = "rejected"
  PROVE  DeliveryInv'
<1>1. /\ pc[d] = "delivering" /\ r.token = tok[d] /\ wire' = wire \ {r}
      /\ pc' = [pc EXCEPT ![d] = "recovering"]
      /\ err' = [err EXCEPT ![d] = "rejected"]
      /\ UNCHANGED <<held, tok, status, token, admitted, sends>>
  BY DEF Receive, Catch, Goto, eveVars, rowVars
<1> USE DEF DeliveryInv, TypeOK
<1>2. r.item = held[d] /\ held[d] \in Items
  BY <1>1 DEF TokensOwned, Holding
<1>3. Quiet(held[d])'
  BY <1>1, <1>2 DEF Quiet, OneRequest
<1>4. \A n : Quiet(n) => Quiet(n)'
  BY <1>1 DEF Quiet
<1>5. TokensOwned'
  BY <1>1 DEF TokensOwned
<1>6. BeforeAdmission'
  BY <1>1 DEF BeforeAdmission, HoldsLease
<1>7. RejectionIsTrue'
  <2> SUFFICES ASSUME NEW e \in Dispatchers, pc'[e] \in {"recovering", "resolving"},
                      err'[e] = "rejected", HoldsLease(e)', e # d
               PROVE  Quiet(held[e])' /\ held'[e] = held[e]
    BY <1>3 DEF RejectionIsTrue, Quiet
  <2>1. held'[e] = held[e] /\ pc[e] = pc'[e] /\ err[e] = "rejected" /\ HoldsLease(e)
    BY <1>1 DEF HoldsLease
  <2>2. Quiet(held[e])
    BY <2>1 DEF RejectionIsTrue
  <2>3. QED
    BY <1>4, <2>1, <2>2
<1>8. OneRequest'
  BY <1>1 DEF OneRequest
<1>9. \A n \in Items : ~Begun(n)' => Quiet(n)'
  BY <1>1, <1>4 DEF Begun
<1>10. AtMostOnce'
  BY <1>1 DEF AtMostOnce
<1>11. QED
  BY <1>5, <1>6, <1>7, <1>8, <1>9, <1>10

\* Every step of a dispatcher preserves the invariant.
LEMMA DeliveryDispatcher ==
  ASSUME DeliveryInv, TypeOK', Holding', NEW d \in Dispatchers, DispatcherStep(d)
  PROVE  DeliveryInv'
<1> USE DEF rowVars, eveVars
<1>a. pc[d] \notin {"idle", "claiming"} => held[d] \in Items
  BY DEF DeliveryInv, Holding
<1>b. {"queued", "failed", "accepted", "submission-ambiguous"} \subseteq Statuses \ {"delivering"}
  BY DEF Statuses
<1>1. CASE Sweep(d)
  <2>1. \A e \in Dispatchers : Harmless(e)
    BY <1>1, HarmlessMove DEF Sweep
  <2>2. /\ wire' = wire /\ sends' = sends /\ admitted' = admitted
        /\ \A m \in Items : \/ status'[m] = "submission-ambiguous"
                            \/ status'[m] = status[m] /\ token'[m] = token[m]
    BY <1>1 DEF Sweep
  <2>3. \A m \in Items : ~Begun(m)' => Quiet(m)
    BY <2>2 DEF Begun, DeliveryInv
  <2>4. \A e \in Dispatchers :
          (tok'[e] = tok[e] /\ held'[e] = held[e] /\ tok[e] # None /\ HoldsLease(e)')
            => HoldsLease(e)
    BY <2>2 DEF HoldsLease, DeliveryInv, Holding
  <2>5. QED
    BY <2>1, <2>2, <2>3, <2>4, HarmlessStep
<1>2. ASSUME NEW m \in Items, Claim(d, m) PROVE DeliveryInv'
  BY <1>2, DeliveryClaim
<1>3. CASE ClaimNothing(d)
  BY <1>3, RowsKept, HarmlessMove DEF ClaimNothing
<1>4. CASE Inspect(d)
  <2>1. \E step \in {"deferring", "failing", "beginning"} : Goto(d, step)
    BY <1>4 DEF Inspect
  <2>2. \A e \in Dispatchers : Harmless(e)
    BY <1>4, <2>1, HarmlessMove DEF Inspect
  <2>3. QED
    BY <1>4, <2>2, RowsKept DEF Inspect
<1>5. CASE InspectFails(d)
  BY <1>5, RowsKept, HarmlessMove DEF InspectFails
<1>6. CASE Defer(d)
  <2>1. \A e \in Dispatchers : Harmless(e)
    BY <1>6, HarmlessMove DEF Defer
  <2>2. HoldsLease(d) => Quiet(held[d])
    BY <1>6, <1>a DEF Defer, DeliveryInv, BeforeAdmission, HoldsLease, Begun
  <2>3. QED
    BY <1>6, <1>a, <1>b, <2>1, <2>2, RowsKept, RowLeaves DEF Defer
<1>7. CASE FailTerminal(d)
  <2>1. \A e \in Dispatchers : Harmless(e)
    BY <1>7, HarmlessMove DEF FailTerminal
  <2>2. HoldsLease(d) => Quiet(held[d])
    BY <1>7, <1>a DEF FailTerminal, DeliveryInv, BeforeAdmission, HoldsLease, Begun
  <2>3. QED
    BY <1>7, <1>a, <1>b, <2>1, <2>2, RowsKept, RowLeaves DEF FailTerminal
<1>8. CASE BeginAdmission(d)
  BY <1>8, DeliveryBegin
<1>9. CASE BeginAdmissionThrows(d)
  <2>1. \A e \in Dispatchers : Harmless(e)
    BY <1>9, HarmlessMove DEF BeginAdmissionThrows
  <2>2. /\ wire' = wire /\ sends' = sends /\ UNCHANGED <<status, token, held, tok>>
        /\ pc'[d] = "recovering"
        /\ \/ admitted' = admitted
           \/ HoldsLease(d) /\ admitted' = [admitted EXCEPT ![held[d]] = TRUE]
    BY <1>9 DEF BeginAdmissionThrows, CanBegin, Catch, Goto, DeliveryInv, TypeOK
  <2>3. \A m \in Items : ~Begun(m)' => Quiet(m)
    BY <2>2 DEF Begun, DeliveryInv, TypeOK
  <2>4. ASSUME NEW e \in Dispatchers, tok[e] # None, HoldsLease(e)'
        PROVE  HoldsLease(e) /\ (admitted'[held[e]] => admitted[held[e]] \/ pc'[e] = "recovering")
    <3>1. HoldsLease(e) /\ held[e] \in Items
      BY <2>2, <2>4 DEF HoldsLease, DeliveryInv, Holding
    <3>2. HoldsLease(d) /\ held[e] = held[d] => e = d
      BY <2>4, <3>1 DEF HoldsLease, DeliveryInv, TokensOwned
    <3>3. QED
      BY <2>2, <3>1, <3>2 DEF DeliveryInv, TypeOK
  <2>5. QED
    BY <2>1, <2>2, <2>3, <2>4, HarmlessStep
<1>10. CASE Post(d)
  BY <1>10, DeliveryPost
<1>11. ASSUME NEW r \in wire, Receive(d, r) PROVE DeliveryInv'
  <2>1. CASE r.stage = "rejected"
    BY <1>11, <2>1, DeliveryRejected
  <2>2. CASE r.stage # "rejected"
    <3>1. \A e \in Dispatchers : Harmless(e)
      BY <1>11, <2>2, HarmlessMove DEF Receive
    <3>2. QED
      BY <1>11, <3>1, RowsKept DEF Receive
  <2>3. QED
    BY <2>1, <2>2
<1>12. CASE DeliverTimeout(d)
  <2>1. \A e \in Dispatchers : Harmless(e)
    BY <1>12, HarmlessMove DEF DeliverTimeout
  <2>2. QED
    BY <1>12, <2>1, RowsKept DEF DeliverTimeout, Disconnect
<1>13. CASE Accept(d)
  <2>1. \A e \in Dispatchers : Harmless(e)
    BY <1>13, HarmlessMove DEF Accept
  <2>2. QED
    BY <1>13, <1>a, <1>b, <2>1, RowsKept, RowLeaves DEF Accept
<1>14. CASE AcceptThrows(d)
  <2>1. \A e \in Dispatchers : Harmless(e)
    BY <1>14, HarmlessMove DEF AcceptThrows
  <2>2. QED
    BY <1>14, <1>a, <1>b, <2>1, RowsKept, RowLeaves DEF AcceptThrows
<1>15. CASE FindOwned(d)
  <2>1. \A e \in Dispatchers : Harmless(e)
    BY <1>15, HarmlessMove DEF FindOwned
  <2>2. QED
    BY <1>15, <2>1, RowsKept DEF FindOwned
<1>16. CASE Resolve(d)
  <2>1. \A e \in Dispatchers : Harmless(e)
    BY <1>16, HarmlessMove DEF Resolve
  <2>2. HoldsLease(d) /\ err[d] = "rejected" => Quiet(held[d])
    BY <1>16 DEF Resolve, DeliveryInv, RejectionIsTrue
  <2>3. CASE err[d] = "rejected"
    BY <1>16, <1>a, <1>b, <2>1, <2>2, <2>3, RowsKept, RowLeaves DEF Resolve
  <2>4. CASE err[d] # "rejected"
    BY <1>16, <1>a, <1>b, <2>1, <2>4, RowsKept, RowLeaves DEF Resolve
  <2>5. QED
    BY <2>3, <2>4
<1>17. CASE DispatcherCrash(d)
  <2>1. \A e \in Dispatchers : Harmless(e)
    BY <1>17, HarmlessMove DEF DispatcherCrash
  <2>2. QED
    BY <1>17, <2>1, RowsKept DEF DispatcherCrash, Disconnect
<1>18. QED
  BY <1>1, <1>2, <1>3, <1>4, <1>5, <1>6, <1>7, <1>8, <1>9, <1>10, <1>11, <1>12, <1>13,
     <1>14, <1>15, <1>16, <1>17 DEF DispatcherStep

\* The route turns an unanswered request into at most one answered or checked one.
LEMMA RouteAnswers ==
  ASSUME DeliveryInv, TypeOK', Holding', NEW r \in wire, r.stage \in Pending,
         NEW stage \in Pending \cup Replies,
         wire' \subseteq (wire \ {r}) \cup {Answer(r, stage)},
         \/ sends' = sends
         \/ /\ sends' = [sends EXCEPT ![r.item] = sends[r.item] + 1]
            /\ stage \in {"accepted", "unknown"},
         UNCHANGED <<status, token, admitted, dispatcherVars>>
  PROVE  DeliveryInv'
<1> USE DEF DeliveryInv, TypeOK, dispatcherVars
<1>1. r.item \in Items /\ sends[r.item] = 0
  BY DEF OneRequest, Requests
<1>2. /\ \A n \in Items : n # r.item => sends'[n] = sends[n]
      /\ sends'[r.item] \in {0, 1}
      /\ stage \in Pending \cup {"rejected"} => sends'[r.item] = 0
  BY <1>1 DEF Pending
<1>3. \A q \in wire' : \/ q \in wire /\ q # r
                       \/ q.item = r.item /\ q.token = r.token /\ q.stage = stage /\ q = Answer(r, stage)
  BY DEF Answer
<1>4. ASSUME NEW n \in Items, Quiet(n) PROVE Quiet(n)'
  BY <1>2, <1>3, <1>4 DEF Quiet
<1>5. TokensOwned'
  BY <1>3 DEF TokensOwned
<1>6. BeforeAdmission'
  BY DEF BeforeAdmission, HoldsLease
<1>7. RejectionIsTrue'
  BY <1>4 DEF RejectionIsTrue, HoldsLease, Holding
<1>8. OneRequest'
  <2>1. ASSUME NEW d \in Dispatchers, pc[d] = "posting"
        PROVE  /\ sends'[held[d]] = 0
               /\ \A q \in wire' : q.item # held[d]
               /\ \A e \in Dispatchers : (pc[e] = "posting" /\ held[e] = held[d]) => e = d
    <3>1. held[d] \in Items /\ held[d] # r.item /\ sends[held[d]] = 0
      BY <2>1 DEF OneRequest, Holding
    <3>2. QED
      BY <1>2, <1>3, <2>1, <3>1 DEF OneRequest
  <2>2. ASSUME NEW q \in wire', q.stage \in Pending \cup {"rejected"} PROVE sends'[q.item] = 0
    <3>1. CASE q \in wire /\ q # r
      BY <1>2, <2>2, <3>1 DEF OneRequest, Requests
    <3>2. CASE q.item = r.item /\ q.stage = stage
      BY <1>2, <2>2, <3>2
    <3>3. QED
      BY <1>3, <3>1, <3>2
  <2>3. ASSUME NEW p \in wire', NEW q \in wire', p.item = q.item PROVE p = q
    BY <1>3, <2>3 DEF OneRequest
  <2>4. QED
    BY <2>1, <2>2, <2>3 DEF OneRequest
<1>9. \A n \in Items : ~Begun(n)' => Quiet(n)'
  BY <1>4 DEF Begun
<1>10. AtMostOnce'
  <2>1. ASSUME NEW n \in Items PROVE sends'[n] <= 1
    <3>1. CASE n = r.item
      BY <1>2, <3>1
    <3>2. CASE n # r.item
      BY <1>2, <3>2 DEF AtMostOnce
    <3>3. QED
      BY <3>1, <3>2
  <2>2. QED
    BY <2>1 DEF AtMostOnce
<1>11. QED
  BY <1>5, <1>6, <1>7, <1>8, <1>9, <1>10

\* The route preserves the invariant: its send is the only one for the item.
LEMMA DeliveryRoute ==
  ASSUME DeliveryInv, TypeOK', Holding', RouteStep PROVE DeliveryInv'
<1> USE DEF rowVars, eveVars
<1>1. PICK r \in wire : \/ RouteChecks(r) \/ RouteRefuses(r) \/ RouteSendThrows(r)
                        \/ \E s \in Sessions : RouteSends(r, s)
  BY DEF RouteStep
<1>2. ASSUME NEW stage, Reply(r, stage)
      PROVE  wire' \subseteq (wire \ {r}) \cup {Answer(r, stage)}
  BY <1>2 DEF Reply
<1>3. CASE RouteChecks(r)
  BY <1>3, RouteAnswers DEF RouteChecks, Pending
<1>4. CASE RouteRefuses(r)
  <2>1. PICK stage \in {"rejected", "unknown"} : Reply(r, stage)
    BY <1>4 DEF RouteRefuses
  <2>2. QED
    BY <1>2, <1>4, <2>1, RouteAnswers DEF RouteRefuses, Pending, Replies
<1>5. CASE RouteSendThrows(r)
  BY <1>2, <1>5, RouteAnswers DEF RouteSendThrows, Pending, Replies
<1>6. ASSUME NEW s \in Sessions, RouteSends(r, s) PROVE DeliveryInv'
  <2>1. PICK stage \in {"accepted", "unknown"} : Reply(r, stage)
    BY <1>6 DEF RouteSends
  <2>2. QED
    BY <1>2, <1>6, <2>1, RouteAnswers DEF RouteSends, Pending, Replies
<1>7. QED
  BY <1>1, <1>3, <1>4, <1>5, <1>6

\* Receipts, turns and the commit hook preserve the invariant.
LEMMA DeliverySession ==
  ASSUME DeliveryInv, TypeOK', Holding', NEW s \in Sessions, SessionStep(s)
  PROVE  DeliveryInv'
<1> USE DEF rowVars, dispatcherVars
<1>1. UNCHANGED <<wire, sends, dispatcherVars, admitted>>
  BY DEF SessionStep, MessageReceived, DirectTurn, TurnEnds, HookCommit, HookAttemptThrows,
         HookCrash
<1>2. \A d \in Dispatchers : Harmless(d)
  BY <1>1 DEF Harmless
<1>3. CASE HookCommit(s)
  <2>1. hook[s].item \in Items
    BY <1>3 DEF HookCommit, DeliveryInv, TypeOK
  <2>2. QED
    BY <1>1, <1>2, <1>3, <2>1, RowLeaves DEF HookCommit, Statuses
<1>4. CASE ~HookCommit(s)
  <2>1. UNCHANGED <<status, token>>
    BY <1>4 DEF SessionStep, MessageReceived, DirectTurn, TurnEnds, HookAttemptThrows, HookCrash
  <2>2. QED
    BY <1>1, <1>2, <2>1, RowsKept
<1>5. QED
  BY <1>3, <1>4

\* With an empty table nothing is Begun and everything is Quiet.
LEMMA DeliveryInit == Init => DeliveryInv
<1> SUFFICES ASSUME Init PROVE DeliveryInv
  OBVIOUS
<1>1. TypeOK /\ Holding
  BY TypeInit
<1>2. TokensOwned /\ BeforeAdmission /\ RejectionIsTrue /\ OneRequest
  BY DEF Init, TokensOwned, BeforeAdmission, RejectionIsTrue, OneRequest
<1>3. (\A m \in Items : ~Begun(m) => Quiet(m)) /\ AtMostOnce
  BY DEF Init, Begun, Quiet, AtMostOnce
<1>4. QED
  BY <1>1, <1>2, <1>3 DEF DeliveryInv

\* Every step preserves the invariant.
LEMMA DeliveryStep == DeliveryInv /\ [Next]_vars => DeliveryInv'
<1> SUFFICES ASSUME DeliveryInv, [Next]_vars PROVE DeliveryInv'
  OBVIOUS
<1>1. TypeOK' /\ Holding'
  BY TypeStep DEF DeliveryInv
<1>2. CASE UNCHANGED vars
  <2>1. \A d \in Dispatchers : Harmless(d)
    BY <1>2 DEF Harmless, vars, dispatcherVars
  <2>2. QED
    BY <1>1, <1>2, <2>1, RowsKept DEF vars, rowVars, eveVars
<1>3. QED
  BY <1>1, <1>2, DeliveryClient, DeliveryRow, DeliveryDispatcher, DeliveryRoute,
     DeliverySession DEF Next

\* The strengthened invariant: leases, tokens, requests and rows agree about
\* whether a message may have been handed to Eve (service.ts:69-144,
\* agent-mailbox-store.ts:168-291).
THEOREM DeliveryInvariant == Spec => []DeliveryInv
BY DeliveryInit, DeliveryStep, PTL DEF Spec

\* No item is admitted into Eve twice, whatever is lost, late, retried or
\* crashes (docs/architecture.md:91-93, "never blindly replays").
THEOREM AdmittedAtMostOnce == Spec => []AtMostOnce
<1>1. DeliveryInv => AtMostOnce
  BY DEF DeliveryInv
<1>2. QED
  BY <1>1, DeliveryInvariant, PTL

\* A queued, failed or cancelled row was never admitted and nothing under way
\* can still admit it: cancelOwned and retryOwned are safe at any moment
\* (agent-mailbox-store.ts:302-328).
THEOREM WithdrawalIsSafe == Spec => []WithdrawableIsUnsent
<1>1. DeliveryInv => WithdrawableIsUnsent
  BY DEF DeliveryInv, WithdrawableIsUnsent, Begun, Quiet
<1>2. QED
  BY <1>1, DeliveryInvariant, PTL

-----------------------------------------------------------------------------
(* The mailbox implements Delivery.                                        *)

\* Where a message is between its admission and the commit of its row.
Ledger ==
  /\ \A m \in Items : status[m] = "committed" => Heard(m)
  /\ \A m \in Items : Heard(m) => sends[m] = 1
  /\ \A s \in Sessions : \A m \in inbox[s] : sends[m] = 1 /\ ~Heard(m)
  /\ \A s, t \in Sessions : \A m \in inbox[s] \cap inbox[t] : s = t
  /\ \A s \in Sessions : hook[s] # None => Heard(hook[s].item)

\* The phase of a row by the status it has.
LEMMA PhaseByStatus ==
  ASSUME NEW m, status[m] \in Statuses
  PROVE  /\ status[m] = "absent" => PhaseOf(m) = "new"
         /\ status[m] = "cancelled" => PhaseOf(m) = "withdrawn"
         /\ status[m] = "committed" => PhaseOf(m) = "delivered"
         /\ status[m] \in {"queued", "failed"} => PhaseOf(m) = "open"
         /\ status[m] = "delivering" => PhaseOf(m) = IF admitted[m] THEN "begun" ELSE "open"
         /\ status[m] \in {"accepted", "submission-ambiguous"} => PhaseOf(m) = "begun"
BY DEF PhaseOf, Statuses

\* The same after a step.
LEMMA PhaseByStatusNext ==
  ASSUME NEW m, status'[m] \in Statuses
  PROVE  /\ status'[m] = "absent" => PhaseOf(m)' = "new"
         /\ status'[m] = "cancelled" => PhaseOf(m)' = "withdrawn"
         /\ status'[m] = "committed" => PhaseOf(m)' = "delivered"
         /\ status'[m] \in {"queued", "failed"} => PhaseOf(m)' = "open"
         /\ status'[m] = "delivering" => PhaseOf(m)' = IF admitted'[m] THEN "begun" ELSE "open"
         /\ status'[m] \in {"accepted", "submission-ambiguous"} => PhaseOf(m)' = "begun"
BY DEF PhaseOf, Statuses

\* The owner of m notices nothing.
Unmoved(m) == PhaseOf(m)' = PhaseOf(m) /\ sends'[m] = sends[m] /\ Heard(m)' = Heard(m)

\* The phase of m changes and nothing else.
Turns(m, from, to) ==
  PhaseOf(m) = from /\ PhaseOf(m)' = to /\ sends'[m] = sends[m] /\ Heard(m)' = Heard(m)

\* The moves of the abstract delivery, read off the mailbox.
Allowed(m) ==
  \/ Unmoved(m)
  \/ Turns(m, "new", "open") \/ Turns(m, "open", "withdrawn") \/ Turns(m, "open", "begun")
  \/ sends[m] = 0 /\ Turns(m, "begun", "open")
  \/ Heard(m) /\ Turns(m, "begun", "delivered")
  \/ /\ PhaseOf(m) = "begun" /\ PhaseOf(m)' = "begun" /\ Heard(m)' = Heard(m)
     /\ sends[m] = 0 /\ sends'[m] = 1
  \/ /\ PhaseOf(m) = "begun" /\ PhaseOf(m)' = "begun" /\ Heard(m)'
     /\ sends[m] = 1 /\ sends'[m] = sends[m]

Mapped == [m \in Items |-> [phase |-> PhaseOf(m), copies |-> sends[m], heard |-> Heard(m)]]

\* A step after which one message has moved, and as it may, is a step or a stutter of
\* the abstract delivery.
LEMMA AllowedIsPromised ==
  ASSUME NEW m \in Items, Allowed(m), \A n \in Items \ {m} : Unmoved(n)
  PROVE  [Promise!Next]_Mapped
<1> DEFINE old(n) == [phase |-> PhaseOf(n), copies |-> sends[n], heard |-> Heard(n)]
           new(n) == [phase |-> PhaseOf(n)', copies |-> sends'[n], heard |-> Heard(n)']
<1>1. Mapped' = [n \in Items |-> new(n)] /\ Mapped = [n \in Items |-> old(n)]
  BY DEF Mapped
<1>2. \A n \in Items \ {m} : new(n) = old(n)
  BY DEF Unmoved
<1>3. Mapped' = [Mapped EXCEPT ![m] = new(m)]
  BY <1>1, <1>2
<1>4. CASE Unmoved(m)
  <2>1. new(m) = old(m)
    BY <1>4 DEF Unmoved
  <2>2. Mapped' = Mapped
    BY <1>1, <1>2, <2>1
  <2>3. QED  BY <2>2
<1>5. CASE ~Unmoved(m)
  <2> DEFINE o == Mapped[m]
  <2>1. /\ o = old(m) /\ o.phase = PhaseOf(m) /\ o.copies = sends[m] /\ o.heard = Heard(m)
    BY <1>1
  <2>a. Mapped' # Mapped
    <3>1. ASSUME new(m) = old(m) PROVE FALSE
      <4>1. /\ new(m).phase = old(m).phase /\ new(m).copies = old(m).copies
            /\ new(m).heard = old(m).heard
        BY <3>1
      <4>2. QED  BY <1>5, <4>1 DEF Unmoved
    <3>2. Mapped'[m] = new(m) /\ Mapped[m] = old(m)
      BY <1>1
    <3>3. QED  BY <3>1, <3>2
  <2> SUFFICES Promise!Step(m)
    BY <2>a DEF Promise!Next, Mapped
  <2>2. ASSUME NEW to, PhaseOf(m)' = to, sends'[m] = sends[m], Heard(m)' = Heard(m)
        PROVE  new(m) = [o EXCEPT !.phase = to]
    BY <2>1, <2>2
  <2> USE DEF Promise!Step, Promise!Moves, Promise!Becomes, Mapped
  <2>3. CASE Turns(m, "new", "open")
    BY <1>3, <2>1, <2>2, <2>3 DEF Turns, Promise!Submit
  <2>4. CASE Turns(m, "open", "withdrawn")
    BY <1>3, <2>1, <2>2, <2>4 DEF Turns, Promise!Withdraw
  <2>5. CASE Turns(m, "open", "begun")
    BY <1>3, <2>1, <2>2, <2>5 DEF Turns, Promise!Begin
  <2>6. CASE sends[m] = 0 /\ Turns(m, "begun", "open")
    BY <1>3, <2>1, <2>2, <2>6 DEF Turns, Promise!Return
  <2>7. CASE Heard(m) /\ Turns(m, "begun", "delivered")
    BY <1>3, <2>1, <2>2, <2>7 DEF Turns, Promise!Settle
  <2>8. CASE /\ PhaseOf(m) = "begun" /\ PhaseOf(m)' = "begun" /\ Heard(m)' = Heard(m)
             /\ sends[m] = 0 /\ sends'[m] = 1
    <3>1. new(m) = [o EXCEPT !.copies = 1]
      BY <2>1, <2>8
    <3>2. QED  BY <1>3, <2>1, <2>8, <3>1 DEF Promise!Send
  <2>9. CASE /\ PhaseOf(m) = "begun" /\ PhaseOf(m)' = "begun" /\ Heard(m)'
             /\ sends[m] = 1 /\ sends'[m] = sends[m]
    <3>a. Heard(m)' = TRUE
      BY <2>9 DEF Heard
    <3>b. PhaseOf(m)' = PhaseOf(m) /\ sends'[m] = sends[m]
      BY <2>9
    <3>1. new(m) = [o EXCEPT !.heard = Heard(m)']
      BY <2>1, <3>b
    <3>2. QED  BY <1>3, <2>1, <2>9, <3>a, <3>1 DEF Promise!Hear
  <2>10. QED
    BY <1>5, <2>3, <2>4, <2>5, <2>6, <2>7, <2>8, <2>9 DEF Allowed
<1>6. QED  BY <1>4, <1>5

\* What the phases say of Begun and of silence.
LEMMA PhaseOfBegun ==
  ASSUME DeliveryInv, Ledger, NEW m \in Items
  PROVE  /\ status[m] # "absent" /\ PhaseOf(m) = "new" => FALSE
         /\ Begun(m) /\ ~Heard(m) => PhaseOf(m) = "begun"
         /\ sends[m] > 0 => Begun(m)
BY PhaseByStatus DEF Begun, Quiet, DeliveryInv, TypeOK, Ledger, Statuses

\* The client's steps: an insert is a submission, and of a message nobody sent.
LEMMA ClientPromise ==
  ASSUME DeliveryInv, Ledger, TypeOK', NEW c \in Clients, ClientStep(c)
  PROVE  Ledger' /\ [Promise!Next]_Mapped
<1> USE DEF rowVars, eveVars, timeVars, dispatcherVars
<1>1. UNCHANGED <<inbox, hook, sends, receipts, admitted>>
  BY DEF ClientStep, EnqueueBegin, EnqueueRefused, EnqueueInsert, EnqueueRollback
<1>2. CASE UNCHANGED status
  <2>1. Ledger'
    BY <1>1, <1>2 DEF Ledger, Heard
  <2>2. UNCHANGED Mapped
    BY <1>1, <1>2 DEF Mapped, PhaseOf, Heard
  <2>3. QED  BY <2>1, <2>2
<1>3. CASE EnqueueInsert(c)
  <2>1. PICK m \in Items : status[m] = "absent" /\ status' = [status EXCEPT ![m] = "queued"]
    BY <1>3 DEF EnqueueInsert, DeliveryInv, TypeOK
  <2>2. Ledger'
    BY <1>1, <2>1 DEF Ledger, Heard, DeliveryInv, TypeOK
  <2>3. \A n \in Items \ {m} : Unmoved(n)
    BY <1>1, <2>1 DEF Unmoved, PhaseOf, Heard, DeliveryInv, TypeOK
  <2>4. Turns(m, "new", "open")
    <3>1. status[m] \in Statuses /\ status'[m] \in Statuses /\ status'[m] = "queued"
      BY <2>1 DEF DeliveryInv, TypeOK
    <3>2. PhaseOf(m) = "new" /\ PhaseOf(m)' = "open"
      BY <2>1, <3>1, PhaseByStatus, PhaseByStatusNext
    <3>3. QED  BY <1>1, <3>2 DEF Turns, Heard
  <2>5. QED
    BY <2>1, <2>2, <2>3, <2>4, AllowedIsPromised DEF Allowed
<1>4. QED
  BY <1>2, <1>3 DEF ClientStep, EnqueueBegin, EnqueueRefused, EnqueueRollback

\* cancelOwned is a withdrawal; a retry and an expired lease are not noticed.
LEMMA RowPromise ==
  ASSUME DeliveryInv, Ledger, TypeOK', NEW m \in Items, RowStep(m)
  PROVE  Ledger' /\ [Promise!Next]_Mapped
<1> USE DEF rowVars, eveVars, timeVars, dispatcherVars
<1>1. UNCHANGED <<inbox, hook, sends, receipts>>
  BY DEF RowStep, CancelOwned, RetryOwned, LeaseExpires
<1>2. /\ \A n \in Items : n # m => status'[n] = status[n] /\ admitted'[n] = admitted[n]
      /\ status'[m] # "committed" \/ status'[m] = status[m]
  BY DEF RowStep, CancelOwned, RetryOwned, LeaseExpires, DeliveryInv, TypeOK
<1>3. Ledger'
  BY <1>1, <1>2 DEF Ledger, Heard
<1>4. \A n \in Items \ {m} : Unmoved(n)
  BY <1>1, <1>2 DEF Unmoved, PhaseOf, Heard
<1>5. Allowed(m)
  <2>1. Heard(m)' = Heard(m) /\ sends'[m] = sends[m]
    BY <1>1 DEF Heard
  <2>2. status[m] \in Statuses /\ status'[m] \in Statuses
    BY DEF DeliveryInv, TypeOK
  <2>3. CASE CancelOwned(m)
    BY <2>1, <2>2, <2>3, PhaseByStatus, PhaseByStatusNext
       DEF CancelOwned, Allowed, Turns, DeliveryInv, TypeOK
  <2>4. CASE RetryOwned(m)
    BY <2>1, <2>2, <2>4, PhaseByStatus, PhaseByStatusNext
       DEF RetryOwned, Allowed, Unmoved, DeliveryInv, TypeOK
  <2>5. CASE LeaseExpires(m)
    BY <2>1, <2>5 DEF LeaseExpires, Allowed, Unmoved, PhaseOf
  <2>6. QED  BY <2>3, <2>4, <2>5 DEF RowStep
<1>6. QED
  BY <1>3, <1>4, <1>5, AllowedIsPromised

\* A step that no owner notices is a stutter of the abstract delivery.
LEMMA UnmovedIsStutter ==
  ASSUME \A n \in Items : Unmoved(n)
  PROVE  [Promise!Next]_Mapped
<1>1. Mapped' = Mapped
  BY DEF Mapped, Unmoved
<1>2. QED  BY <1>1

\* Everything but the rows stays, and no row becomes committed.
Silent ==
  /\ UNCHANGED <<sends, receipts, inbox, hook>>
  /\ \A n \in Items : status'[n] = "committed" => status[n] = "committed"

\* Such a step keeps the ledger, and nobody hears or is sent anything by it.
LEMMA SilentKeepsLedger ==
  ASSUME Ledger, Silent
  PROVE  Ledger' /\ \A n : sends'[n] = sends[n] /\ Heard(n)' = Heard(n)
BY DEF Ledger, Silent, Heard

\* A lease ends: the row may be open again only when nothing was sent.
LEMMA LeavePromise ==
  ASSUME DeliveryInv, Ledger, TypeOK', NEW k \in Items, status[k] = "delivering",
         NEW to \in {"queued", "failed", "accepted", "submission-ambiguous"},
         LeaveDelivering(k, to), UNCHANGED <<admitted, sends, receipts, inbox, hook>>,
         to \in {"queued", "failed"} /\ admitted[k] => sends[k] = 0
  PROVE  Ledger' /\ [Promise!Next]_Mapped
<1>1. status' = [status EXCEPT ![k] = to] /\ status'[k] = to
  BY DEF LeaveDelivering, DeliveryInv, TypeOK
<1>2. Silent
  BY <1>1 DEF Silent, DeliveryInv, TypeOK
<1>3. Ledger' /\ \A n : sends'[n] = sends[n] /\ Heard(n)' = Heard(n)
  BY <1>2, SilentKeepsLedger
<1>4. \A n \in Items \ {k} : Unmoved(n)
  <2>1. \A n \in Items \ {k} : status'[n] = status[n] /\ admitted'[n] = admitted[n]
    BY <1>1 DEF DeliveryInv, TypeOK
  <2>2. QED  BY <1>3, <2>1 DEF Unmoved, PhaseOf
<1>5. status[k] \in Statuses /\ status'[k] \in Statuses
  BY DEF DeliveryInv, TypeOK
<1>6. PhaseOf(k) = (IF admitted[k] THEN "begun" ELSE "open")
  BY <1>5, PhaseByStatus
<1>7. PhaseOf(k)' = (IF to \in {"queued", "failed"} THEN "open" ELSE "begun")
  BY <1>1, <1>5, PhaseByStatusNext
<1>8. Allowed(k)
  BY <1>3, <1>6, <1>7 DEF Allowed, Unmoved, Turns
<1>9. QED
  BY <1>3, <1>4, <1>8, AllowedIsPromised

\* An admission begins.
LEMMA BeginPromise ==
  ASSUME DeliveryInv, Ledger, TypeOK', NEW k \in Items, status[k] = "delivering", ~admitted[k],
         admitted' = [admitted EXCEPT ![k] = TRUE],
         UNCHANGED <<status, sends, receipts, inbox, hook>>
  PROVE  Ledger' /\ [Promise!Next]_Mapped
<1>1. Silent
  BY DEF Silent
<1>2. Ledger' /\ \A n : sends'[n] = sends[n] /\ Heard(n)' = Heard(n)
  BY <1>1, SilentKeepsLedger
<1>3. \A n \in Items \ {k} : Unmoved(n)
  BY <1>2 DEF Unmoved, PhaseOf, DeliveryInv, TypeOK
<1>4. status[k] \in Statuses /\ status'[k] \in Statuses /\ admitted'[k] = TRUE
  BY DEF DeliveryInv, TypeOK
<1>5. PhaseOf(k) = "open" /\ PhaseOf(k)' = "begun"
  BY <1>4, PhaseByStatus, PhaseByStatusNext
<1>6. Allowed(k)
  BY <1>2, <1>5 DEF Allowed, Turns
<1>7. QED
  BY <1>2, <1>3, <1>6, AllowedIsPromised

\* A step that leaves the rows as they are is not noticed.
LEMMA RowsKeptPromise ==
  ASSUME Ledger, UNCHANGED <<status, admitted, sends, receipts, inbox, hook>>
  PROVE  Ledger' /\ [Promise!Next]_Mapped
<1>1. Silent
  BY DEF Silent
<1>2. Ledger' /\ \A n : sends'[n] = sends[n] /\ Heard(n)' = Heard(n)
  BY <1>1, SilentKeepsLedger
<1>3. \A n \in Items : Unmoved(n)
  BY <1>2 DEF Unmoved, PhaseOf
<1>4. QED  BY <1>2, <1>3, UnmovedIsStutter

\* Of the dispatcher's steps an admission that begins, an accepted, ambiguous or
\* rejected one are noticed; leases, sweeps and crashes are not.
LEMMA DispatcherPromise ==
  ASSUME DeliveryInv, Ledger, TypeOK', NEW d \in Dispatchers, DispatcherStep(d)
  PROVE  Ledger' /\ [Promise!Next]_Mapped
<1> USE DEF rowVars, eveVars
<1>1. UNCHANGED <<sends, receipts, inbox, hook>>
  BY DEF DispatcherStep, Sweep, Claim, ClaimNothing, Inspect, InspectFails, Defer, FailTerminal,
         BeginAdmission, BeginAdmissionThrows, Post, Receive, DeliverTimeout, Accept, AcceptThrows,
         FindOwned, Resolve, DispatcherCrash
<1>2. ASSUME pc[d] \notin {"idle", "claiming"}
      PROVE  held[d] \in Items /\ (HoldsLease(d) => status[held[d]] = "delivering")
  BY <1>2 DEF HoldsLease, DeliveryInv, Holding
<1>3. CASE Sweep(d)
  <2>1. /\ admitted' = admitted
        /\ \A n \in Items :
             \/ status'[n] = status[n]
             \/ status[n] = "delivering" /\ admitted[n] /\ status'[n] = "submission-ambiguous"
    BY <1>3 DEF Sweep, Stranded
  <2>2. Silent
    BY <1>1, <2>1 DEF Silent
  <2>3. Ledger' /\ \A n : sends'[n] = sends[n] /\ Heard(n)' = Heard(n)
    BY <2>2, SilentKeepsLedger
  <2>4. ASSUME NEW n \in Items PROVE Unmoved(n)
    <3>1. status[n] \in Statuses /\ status'[n] \in Statuses
      BY DEF DeliveryInv, TypeOK
    <3>2. CASE status'[n] = status[n]
      BY <2>1, <2>3, <3>2 DEF Unmoved, PhaseOf
    <3>3. CASE status[n] = "delivering" /\ admitted[n] /\ status'[n] = "submission-ambiguous"
      BY <2>3, <3>1, <3>3, PhaseByStatus, PhaseByStatusNext DEF Unmoved
    <3>4. QED  BY <2>1, <3>2, <3>3
  <2>5. QED  BY <2>3, <2>4, UnmovedIsStutter
<1>4. ASSUME NEW m \in Items, Claim(d, m) PROVE Ledger' /\ [Promise!Next]_Mapped
  <2>1. /\ status' = [status EXCEPT ![m] = "delivering"]
        /\ admitted' = [admitted EXCEPT ![m] = FALSE]
        /\ status[m] = "queued" \/ (status[m] = "delivering" /\ ~admitted[m])
    BY <1>4 DEF Claim, Claimable
  <2>2. Silent
    BY <1>1, <2>1 DEF Silent, DeliveryInv, TypeOK
  <2>3. Ledger' /\ \A n : sends'[n] = sends[n] /\ Heard(n)' = Heard(n)
    BY <2>2, SilentKeepsLedger
  <2>4. \A n \in Items \ {m} : Unmoved(n)
    <3>1. \A n \in Items \ {m} : status'[n] = status[n] /\ admitted'[n] = admitted[n]
      BY <2>1 DEF DeliveryInv, TypeOK
    <3>2. QED  BY <2>3, <3>1 DEF Unmoved, PhaseOf
  <2>5. Unmoved(m)
    <3>1. status[m] \in Statuses /\ status'[m] = "delivering" /\ ~admitted'[m]
      BY <2>1 DEF DeliveryInv, TypeOK
    <3>2. PhaseOf(m) = "open" /\ PhaseOf(m)' = "open"
      BY <2>1, <3>1, PhaseByStatus, PhaseByStatusNext DEF Statuses
    <3>3. QED  BY <2>3, <3>2 DEF Unmoved
  <2>6. QED  BY <2>3, <2>4, <2>5, UnmovedIsStutter
<1>5. CASE UNCHANGED <<status, admitted>>
  BY <1>1, <1>5, RowsKeptPromise
<1>6. ASSUME NEW to \in {"queued", "failed", "accepted", "submission-ambiguous"},
             held[d] \in Items, HoldsLease(d), LeaveDelivering(held[d], to), UNCHANGED admitted,
             to \in {"queued", "failed"} /\ admitted[held[d]] => sends[held[d]] = 0
      PROVE  Ledger' /\ [Promise!Next]_Mapped
  <2>1. PICK k \in Items : k = held[d]
    BY <1>6
  <2>2. /\ status[k] = "delivering" /\ LeaveDelivering(k, to)
        /\ to \in {"queued", "failed"} /\ admitted[k] => sends[k] = 0
    BY <1>6, <2>1 DEF HoldsLease
  <2>3. QED  BY <1>1, <1>6, <2>2, LeavePromise
<1>7. ASSUME held[d] \in Items, CanBegin(d), admitted' = [admitted EXCEPT ![held[d]] = TRUE], UNCHANGED status
      PROVE  Ledger' /\ [Promise!Next]_Mapped
  <2>1. PICK k \in Items : k = held[d]
    BY <1>7
  <2>2. status[k] = "delivering" /\ ~admitted[k] /\ admitted' = [admitted EXCEPT ![k] = TRUE]
    BY <1>7, <2>1 DEF CanBegin, HoldsLease
  <2>3. QED  BY <1>1, <1>7, <2>2, BeginPromise
<1>8. CASE Defer(d) \/ FailTerminal(d)
  <2>1. held[d] \in Items /\ (HoldsLease(d) => ~admitted[held[d]])
    BY <1>2, <1>8 DEF Defer, FailTerminal, DeliveryInv, BeforeAdmission
  <2>2. QED  BY <1>5, <1>6, <1>8, <2>1 DEF Defer, FailTerminal
<1>9. CASE BeginAdmission(d) \/ BeginAdmissionThrows(d)
  <2>1. held[d] \in Items
    BY <1>2, <1>9 DEF BeginAdmission, BeginAdmissionThrows
  <2>2. QED  BY <1>5, <1>7, <1>9, <2>1 DEF BeginAdmission, BeginAdmissionThrows
<1>10. CASE Accept(d) \/ AcceptThrows(d)
  <2>1. held[d] \in Items
    BY <1>2, <1>10 DEF Accept, AcceptThrows
  <2>2. QED  BY <1>5, <1>6, <1>10, <2>1 DEF Accept, AcceptThrows
<1>11. CASE Resolve(d)
  <2>1. held[d] \in Items
    BY <1>2, <1>11 DEF Resolve
  <2>2. HoldsLease(d) /\ err[d] = "rejected" => sends[held[d]] = 0
    BY <1>11 DEF Resolve, DeliveryInv, RejectionIsTrue, Quiet
  <2>3. QED  BY <1>5, <1>6, <1>11, <2>1, <2>2 DEF Resolve
<1>12. QED
  BY <1>3, <1>4, <1>5, <1>8, <1>9, <1>10, <1>11
     DEF DispatcherStep, ClaimNothing, Inspect, InspectFails, Post, Receive, DeliverTimeout,
         FindOwned, DispatcherCrash

\* Of the route's steps only the send is noticed: the item was begun and nothing was sent.
LEMMA RoutePromise ==
  ASSUME DeliveryInv, Ledger, TypeOK', RouteStep
  PROVE  Ledger' /\ [Promise!Next]_Mapped
<1> USE DEF rowVars, eveVars
<1>1. CASE UNCHANGED <<status, admitted, sends, receipts, inbox, hook>>
  BY <1>1, RowsKeptPromise
<1>2. ASSUME NEW r \in wire, NEW s \in Sessions, RouteSends(r, s)
      PROVE  Ledger' /\ [Promise!Next]_Mapped
  <2>1. PICK k \in Items : k = r.item /\ sends[k] = 0
    BY <1>2 DEF RouteSends, DeliveryInv, TypeOK, OneRequest, Requests, Pending
  <2>2. /\ inbox' = [inbox EXCEPT ![s] = @ \cup {k}]
        /\ sends' = [sends EXCEPT ![k] = @ + 1]
        /\ UNCHANGED <<status, admitted, receipts, hook>>
    BY <1>2, <2>1 DEF RouteSends
  <2>3. sends'[k] = 1 /\ \A n \in Items \ {k} : sends'[n] = sends[n]
    BY <2>1, <2>2 DEF DeliveryInv, TypeOK
  <2>4. ~Heard(k) /\ \A t \in Sessions : k \notin inbox[t]
    BY <2>1 DEF Ledger
  <2>5. \A n : Heard(n)' = Heard(n)
    BY <2>2 DEF Heard
  <2>6. Ledger'
    <3>1. \A n \in Items : status'[n] = "committed" => Heard(n)'
      BY <2>2, <2>5 DEF Ledger
    <3>2. \A n \in Items : Heard(n)' => sends'[n] = 1
      BY <2>3, <2>4, <2>5 DEF Ledger
    <3>3. \A t \in Sessions : \A n \in inbox'[t] : (n = k /\ t = s) \/ (n \in inbox[t] /\ n # k)
      BY <2>2, <2>4 DEF DeliveryInv, TypeOK
    <3>4. \A t \in Sessions : \A n \in inbox'[t] : sends'[n] = 1 /\ ~Heard(n)'
      <4>1. ASSUME NEW t \in Sessions, NEW n \in inbox[t], n # k
            PROVE  sends'[n] = 1 /\ ~Heard(n)'
        <5>1. n \in Items
          BY DEF DeliveryInv, TypeOK
        <5>2. sends[n] = 1 /\ ~Heard(n)
          BY DEF Ledger
        <5>3. QED  BY <2>3, <2>5, <4>1, <5>1, <5>2
      <4>2. sends'[k] = 1 /\ ~Heard(k)'
        BY <2>3, <2>4, <2>5
      <4>3. QED  BY <3>3, <4>1, <4>2
    <3>5. \A t, u \in Sessions : \A n \in inbox'[t] \cap inbox'[u] : t = u
      BY <3>3 DEF Ledger
    <3>6. (\A t \in Sessions : hook[t] # None => Heard(hook[t].item))'
      BY <2>2 DEF Ledger, Heard
    <3>7. QED  BY <3>1, <3>2, <3>4, <3>5, <3>6 DEF Ledger
  <2>7. \A n \in Items \ {k} : Unmoved(n)
    BY <2>2, <2>3, <2>5 DEF Unmoved, PhaseOf
  <2>8. PhaseOf(k) = "begun" /\ PhaseOf(k)' = "begun"
    <3>1. Begun(k)
      BY <1>2, <2>1 DEF DeliveryInv, Quiet
    <3>2. PhaseOf(k) = "begun"
      BY <2>4, <3>1, PhaseOfBegun
    <3>3. QED  BY <2>2, <3>2 DEF PhaseOf
  <2>9. QED
    BY <2>1, <2>3, <2>5, <2>6, <2>7, <2>8, AllowedIsPromised DEF Allowed
<1>3. QED
  BY <1>1, <1>2 DEF RouteStep, RouteChecks, RouteRefuses, RouteSendThrows

\* A message is received from the one inbox it is in: it was sent, and not heard before.
LEMMA ReceiptPromise ==
  ASSUME DeliveryInv, Ledger, TypeOK', NEW s \in Sessions, NEW m \in Items, MessageReceived(s, m)
  PROVE  Ledger' /\ [Promise!Next]_Mapped
<1> USE DEF rowVars, eveVars
<1>1. /\ m \in inbox[s] /\ inbox' = [inbox EXCEPT ![s] = @ \ {m}]
      /\ receipts' = Append(receipts, m)
      /\ hook' = [hook EXCEPT ![s] = Attempt(m, HookAttempts)]
      /\ UNCHANGED <<status, admitted, sends>>
  BY DEF MessageReceived
<1>2. sends[m] = 1 /\ ~Heard(m) /\ \A t \in Sessions : m \in inbox[t] => t = s
  BY <1>1 DEF Ledger
<1>3. ASSUME NEW n \in Items PROVE Heard(n)' <=> Heard(n) \/ n = m
  <2>1. receipts \in Seq(Items)
    BY DEF DeliveryInv, TypeOK
  <2>2. /\ Len(receipts') = Len(receipts) + 1 /\ receipts'[Len(receipts) + 1] = m
        /\ \A i \in 1..Len(receipts) : receipts'[i] = receipts[i]
        /\ DOMAIN receipts = 1..Len(receipts) /\ DOMAIN receipts' = 1..(Len(receipts) + 1)
    BY <1>1, <2>1
  <2>3. QED  BY <2>1, <2>2 DEF Heard
<1>4. \A t \in Sessions : \A n \in inbox'[t] : n \in inbox[t] /\ n \in Items /\ n # m
  BY <1>1, <1>2 DEF DeliveryInv, TypeOK
<1>5. Ledger'
  <2>1. \A n \in Items : status'[n] = "committed" => Heard(n)'
    BY <1>1, <1>3 DEF Ledger
  <2>2. \A n \in Items : Heard(n)' => sends'[n] = 1
    BY <1>1, <1>2, <1>3 DEF Ledger
  <2>3. \A t \in Sessions : \A n \in inbox'[t] : sends'[n] = 1 /\ ~Heard(n)'
    BY <1>1, <1>3, <1>4 DEF Ledger
  <2>4. \A t, u \in Sessions : \A n \in inbox'[t] \cap inbox'[u] : t = u
    BY <1>4 DEF Ledger
  <2>5. ASSUME NEW t \in Sessions PROVE (hook[t] # None => Heard(hook[t].item))'
    <3>1. CASE t = s
      <4>1. hook'[t].item = m /\ Heard(m)'
        BY <1>1, <1>3, <3>1 DEF Attempt, DeliveryInv, TypeOK
      <4>2. QED  BY <4>1 DEF Heard
    <3>2. CASE t # s /\ hook[t] # None
      <4>1. PICK n \in Items : n = hook[t].item /\ Heard(n)
        BY <3>2 DEF Ledger, DeliveryInv, TypeOK
      <4>2. hook'[t].item = n /\ Heard(n)'
        BY <1>1, <1>3, <3>2, <4>1 DEF DeliveryInv, TypeOK
      <4>3. QED  BY <4>2 DEF Heard
    <3>3. CASE t # s /\ hook[t] = None
      BY <1>1, <3>3 DEF DeliveryInv, TypeOK
    <3>4. QED  BY <3>1, <3>2, <3>3
  <2>6. QED  BY <2>1, <2>2, <2>3, <2>4, <2>5 DEF Ledger
<1>6. \A n \in Items \ {m} : Unmoved(n)
  <2>1. ASSUME NEW n \in Items \ {m} PROVE Heard(n)' = Heard(n)
    <3>1. Heard(n)' <=> Heard(n)
      BY <1>3
    <3>2. QED  BY <3>1 DEF Heard
  <2>2. QED  BY <1>1, <2>1 DEF Unmoved, PhaseOf
<1>7. PhaseOf(m) = "begun" /\ PhaseOf(m)' = "begun"
  <2>1. PhaseOf(m) = "begun"
    BY <1>2, PhaseOfBegun
  <2>2. QED  BY <1>1, <2>1 DEF PhaseOf
<1>8. Heard(m)'
  BY <1>3
<1>9. QED
  BY <1>1, <1>2, <1>5, <1>6, <1>7, <1>8, AllowedIsPromised DEF Allowed

\* A commit settles a message that was heard.
LEMMA CommitPromise ==
  ASSUME DeliveryInv, Ledger, TypeOK', NEW s \in Sessions, HookCommit(s)
  PROVE  Ledger' /\ [Promise!Next]_Mapped
<1> USE DEF rowVars, eveVars
<1>1. PICK m \in Items : /\ m = hook[s].item /\ CanCommit(m, s) /\ Heard(m)
                         /\ status' = [status EXCEPT ![m] = "committed"]
  BY DEF HookCommit, LeaveDelivering, Ledger, DeliveryInv, TypeOK
<1>2. UNCHANGED <<admitted, sends, receipts, inbox>> /\ hook' = [hook EXCEPT ![s] = None]
  BY DEF HookCommit
<1>3. \A n : sends'[n] = sends[n] /\ Heard(n)' = Heard(n)
  BY <1>2 DEF Heard
<1>4. Ledger'
  <2>1. \A n \in Items : status'[n] = "committed" => Heard(n)'
    BY <1>1, <1>3 DEF Ledger, DeliveryInv, TypeOK
  <2>2. \A t \in Sessions : hook'[t] = None \/ hook'[t] = hook[t]
    BY <1>2 DEF DeliveryInv, TypeOK
  <2>3. (\A t \in Sessions : hook[t] # None => Heard(hook[t].item))'
    BY <1>2, <2>2 DEF Ledger, Heard
  <2>4. QED  BY <1>2, <1>3, <2>1, <2>3 DEF Ledger
<1>5. \A n \in Items \ {m} : Unmoved(n)
  <2>1. \A n \in Items \ {m} : status'[n] = status[n]
    BY <1>1 DEF DeliveryInv, TypeOK
  <2>2. QED  BY <1>2, <1>3, <2>1 DEF Unmoved, PhaseOf
<1>6. Allowed(m)
  <2>1. status[m] \in Statuses /\ status'[m] = "committed"
    BY <1>1 DEF DeliveryInv, TypeOK
  <2>2. PhaseOf(m)' = "delivered"
    BY <2>1, PhaseByStatusNext DEF Statuses
  <2>3. Begun(m)
    BY <1>1 DEF Ledger, DeliveryInv, Quiet
  <2>4. PhaseOf(m) \in {"begun", "delivered"}
    BY <2>1, <2>3, PhaseByStatus DEF Begun
  <2>5. QED
    BY <1>1, <1>3, <2>2, <2>4 DEF Allowed, Turns, Unmoved
<1>7. QED
  BY <1>4, <1>5, <1>6, AllowedIsPromised

\* A hook that tries again, gives up or dies is not noticed.
LEMMA SessionPromise ==
  ASSUME DeliveryInv, Ledger, TypeOK', NEW s \in Sessions, SessionStep(s)
  PROVE  Ledger' /\ [Promise!Next]_Mapped
<1> USE DEF rowVars, eveVars
<1>1. ASSUME NEW m \in Items, MessageReceived(s, m) PROVE Ledger' /\ [Promise!Next]_Mapped
  BY <1>1, ReceiptPromise
<1>2. CASE HookCommit(s)
  BY <1>2, CommitPromise
<1>3. CASE UNCHANGED <<status, admitted, sends, receipts, inbox, hook>>
  BY <1>3, RowsKeptPromise
<1>4. CASE HookAttemptThrows(s) \/ HookCrash(s)
  <2>1. /\ UNCHANGED <<status, admitted, sends, receipts, inbox>>
        /\ \A t \in Sessions : \/ hook'[t] = None \/ hook'[t] = hook[t]
                               \/ hook[t] # None /\ hook'[t].item = hook[t].item
    BY <1>4 DEF HookAttemptThrows, HookCrash, Attempt, DeliveryInv, TypeOK
  <2>2. (\A t \in Sessions : hook[t] # None => Heard(hook[t].item))'
    BY <2>1 DEF Ledger, Heard
  <2>3. \A n : sends'[n] = sends[n] /\ Heard(n)' = Heard(n)
    BY <2>1 DEF Heard
  <2>4. Ledger'
    BY <2>1, <2>2, <2>3 DEF Ledger
  <2>5. \A n \in Items : Unmoved(n)
    BY <2>1, <2>3 DEF Unmoved, PhaseOf
  <2>6. QED  BY <2>4, <2>5, UnmovedIsStutter
<1>5. QED
  BY <1>1, <1>2, <1>3, <1>4 DEF SessionStep, DirectTurn, TurnEnds

\* Every step of the mailbox is a step of the abstract delivery or is not noticed.
LEMMA StepPromise ==
  DeliveryInv /\ DeliveryInv' /\ Ledger /\ [Next]_vars => Ledger' /\ [Promise!Next]_Mapped
<1> SUFFICES ASSUME DeliveryInv, DeliveryInv', Ledger, [Next]_vars
             PROVE  Ledger' /\ [Promise!Next]_Mapped
  OBVIOUS
<1>1. TypeOK'
  BY DEF DeliveryInv
<1>2. CASE UNCHANGED vars
  BY <1>2, RowsKeptPromise DEF vars, rowVars, eveVars
<1>3. QED
  BY <1>1, <1>2, ClientPromise, RowPromise, DispatcherPromise, RoutePromise, SessionPromise
     DEF Next

\* With an empty table every message is new.
LEMMA InitPromise == Init => Ledger /\ Promise!Init
<1> SUFFICES ASSUME Init PROVE Ledger /\ Promise!Init
  OBVIOUS
<1>1. \A m : ~Heard(m)
  BY DEF Init, Heard
<1>2. Ledger
  BY <1>1 DEF Init, Ledger
<1>3. \A m \in Items : PhaseOf(m) = "new" /\ sends[m] = 0 /\ Heard(m) = FALSE
  BY <1>1 DEF Init, PhaseOf, Heard
<1>4. QED
  BY <1>2, <1>3 DEF Promise!Init

\* What the status column tells the owner of a message is the abstract delivery: never
\* sent twice, withdrawn only unsent, delivered only after the session heard it
\* (agent-mailbox-store.ts:168-378, docs/architecture.md:80-107).
THEOREM MailboxImplementsDelivery == Spec => ImplementsDelivery
<1>1. Init => Ledger /\ Promise!Init
  BY InitPromise
<1>2. DeliveryInv /\ DeliveryInv' /\ Ledger /\ [Next]_vars => Ledger' /\ [Promise!Next]_Mapped
  BY StepPromise
<1>3. QED
  BY <1>1, <1>2, DeliveryInvariant, PTL DEF Spec, ImplementsDelivery, Promise!Spec, Mapped
=============================================================================
