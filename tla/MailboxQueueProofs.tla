-------------------------- MODULE MailboxQueueProofs --------------------------
(***************************************************************************)
(* The mailbox as a queue: how many rows a session may have, in which      *)
(* order they are leased and received, and who may end a lease; for every  *)
(* set of items, sessions, clients, dispatchers and tokens and every bound.*)
(*                                                                         *)
(* Every action but an insert moves single rows along RowMoves, so each    *)
(* invariant is proved twice: for the insert and for a step that inserts   *)
(* nothing.                                                                *)
(***************************************************************************)
EXTENDS MailboxProofs, FiniteSetTheorems

USE MailboxAssumption

\* What a step that inserts nothing may do with row m.
RowMoves(m) ==
  \/ status'[m] = status[m]
  \/ /\ status[m] = "queued" /\ status'[m] = "delivering"
     /\ \A b \in Items : ~Blocks(b, m)
  \/ status[m] \in {"queued", "failed"} /\ status'[m] = "cancelled"
  \/ status[m] = "failed" /\ status'[m] = "queued"
  \/ /\ status[m] = "delivering"
     /\ status'[m] \in {"queued", "failed", "accepted", "submission-ambiguous"}
  \/ /\ status[m] \in {"delivering", "accepted", "submission-ambiguous"}
     /\ status'[m] = "committed"

\* No row appears, and time does not go back.
Uninserted ==
  /\ UNCHANGED <<session, created, insertedAt>>
  /\ clock' \in Nat /\ clock <= clock'
  /\ \A m \in Items : RowMoves(m)

\* client c's transaction inserts row m.
Inserts(c, m) ==
  /\ client[c] # None /\ client[c].item = m /\ status[m] = "absent"
  /\ Backlog(client[c].session) < MailboxLimit
  /\ status' = [status EXCEPT ![m] = "queued"]
  /\ session' = [session EXCEPT ![m] = client[c].session]
  /\ created' = [created EXCEPT ![m] = client[c].at]
  /\ insertedAt' = [insertedAt EXCEPT ![m] = clock + 1]
  /\ clock' = clock + 1
  /\ client' = [client EXCEPT ![c] = None]
  /\ UNCHANGED receipts

-----------------------------------------------------------------------------
(* Every step is an insert or inserts nothing.                             *)

\* A dispatcher moves rows it leases, sweeps or holds the lease of.
LEMMA DispatcherMovesRows ==
  ASSUME DeliveryInv, NEW d \in Dispatchers, DispatcherStep(d)
  PROVE  Uninserted /\ UNCHANGED <<client, receipts>>
<1> USE DEF rowVars, eveVars, timeVars
<1>1. UNCHANGED <<session, created, client, receipts, timeVars>>
  BY DEF DispatcherStep, Sweep, Claim, ClaimNothing, Inspect, InspectFails, Defer, FailTerminal,
         BeginAdmission, BeginAdmissionThrows, Post, Receive, DeliverTimeout, Accept,
         AcceptThrows, FindOwned, Resolve, DispatcherCrash
<1>2. clock' \in Nat /\ clock <= clock'
  BY <1>1 DEF DeliveryInv, TypeOK
<1>3. ASSUME UNCHANGED status PROVE \A n \in Items : RowMoves(n)
  BY <1>3 DEF RowMoves
<1>4. ASSUME Sweep(d) PROVE \A n \in Items : RowMoves(n)
  BY <1>4 DEF Sweep, Stranded, RowMoves
<1>5. ASSUME NEW m \in Items, Claim(d, m) PROVE \A n \in Items : RowMoves(n)
  BY <1>5 DEF Claim, Claimable, RowMoves, DeliveryInv, TypeOK
<1>6. ASSUME NEW to \in {"queued", "failed", "accepted", "submission-ambiguous"},
             pc[d] \notin {"idle", "claiming"}, HoldsLease(d), LeaveDelivering(held[d], to)
      PROVE  \A n \in Items : RowMoves(n)
  BY <1>6 DEF HoldsLease, LeaveDelivering, RowMoves, DeliveryInv, TypeOK, Holding
<1>7. ASSUME Defer(d) \/ FailTerminal(d) PROVE \A n \in Items : RowMoves(n)
  BY <1>3, <1>6, <1>7 DEF Defer, FailTerminal
<1>8. ASSUME Accept(d) \/ AcceptThrows(d) PROVE \A n \in Items : RowMoves(n)
  BY <1>3, <1>6, <1>8 DEF Accept, AcceptThrows
<1>9. ASSUME Resolve(d) PROVE \A n \in Items : RowMoves(n)
  BY <1>3, <1>6, <1>9 DEF Resolve
<1>10. \A n \in Items : RowMoves(n)
  BY <1>3, <1>4, <1>5, <1>7, <1>8, <1>9
     DEF DispatcherStep, ClaimNothing, Inspect, InspectFails, BeginAdmission,
         BeginAdmissionThrows, Post, Receive, DeliverTimeout, FindOwned, DispatcherCrash
<1>11. QED
  BY <1>1, <1>2, <1>10 DEF Uninserted

\* A session moves only the row its hook commits.
LEMMA SessionMovesRows ==
  ASSUME DeliveryInv, NEW s \in Sessions, SessionStep(s)
  PROVE  Uninserted /\ UNCHANGED client
<1> USE DEF rowVars, timeVars
<1>1. UNCHANGED <<session, created, client, timeVars>>
  BY DEF SessionStep, MessageReceived, DirectTurn, TurnEnds, HookCommit, HookAttemptThrows,
         HookCrash
<1>2. ASSUME UNCHANGED status PROVE \A n \in Items : RowMoves(n)
  BY <1>2 DEF RowMoves
<1>3. ASSUME HookCommit(s) PROVE \A n \in Items : RowMoves(n)
  BY <1>3 DEF HookCommit, CanCommit, LeaveDelivering, RowMoves, DeliveryInv, TypeOK
<1>4. \A n \in Items : RowMoves(n)
  BY <1>2, <1>3
     DEF SessionStep, MessageReceived, DirectTurn, TurnEnds, HookAttemptThrows, HookCrash
<1>5. QED
  BY <1>1, <1>4 DEF Uninserted, DeliveryInv, TypeOK

\* Of a client's steps one inserts a row; BEGIN only moves the clock.
LEMMA ClientMovesRows ==
  ASSUME DeliveryInv, NEW c \in Clients, ClientStep(c)
  PROVE  \/ Uninserted /\ UNCHANGED receipts
         \/ \E m \in Items : Inserts(c, m)
<1> USE DEF rowVars, eveVars, timeVars
<1>1. CASE EnqueueInsert(c)
  BY <1>1 DEF EnqueueInsert, Inserts, DeliveryInv, TypeOK
<1>2. CASE ~EnqueueInsert(c)
  BY <1>2 DEF ClientStep, EnqueueBegin, EnqueueRefused, EnqueueRollback, Uninserted, RowMoves,
              DeliveryInv, TypeOK
<1>3. QED
  BY <1>1, <1>2

\* cancelOwned, retryOwned and an expiring lease move one row.
LEMMA OwnerMovesRows ==
  ASSUME DeliveryInv, NEW m \in Items, RowStep(m)
  PROVE  Uninserted /\ UNCHANGED <<client, receipts>>
BY DEF RowStep, CancelOwned, RetryOwned, LeaseExpires, Uninserted, RowMoves, DeliveryInv, TypeOK,
       rowVars, eveVars, timeVars

\* The route moves no row.
LEMMA RouteMovesRows ==
  ASSUME DeliveryInv, RouteStep
  PROVE  Uninserted /\ UNCHANGED <<client, receipts>>
BY DEF RouteStep, RouteChecks, RouteRefuses, RouteSendThrows, RouteSends, Uninserted, RowMoves,
       DeliveryInv, TypeOK, rowVars, eveVars, timeVars

\* Every step of the mailbox is an insert, or inserts nothing and moves each row as RowMoves
\* says.
LEMMA StepMovesRows ==
  ASSUME DeliveryInv, [Next]_vars
  PROVE  \/ Uninserted
         \/ \E c \in Clients, m \in Items : Inserts(c, m)
<1>1. CASE UNCHANGED vars
  BY <1>1 DEF vars, rowVars, timeVars, Uninserted, RowMoves, DeliveryInv, TypeOK
<1>2. QED
  BY <1>1, DispatcherMovesRows, SessionMovesRows, ClientMovesRows, OwnerMovesRows, RouteMovesRows
     DEF Next

-----------------------------------------------------------------------------
(* The limit.                                                              *)

\* The rows the limit counts.
Counted(s) == {m \in Items : session[m] = s /\ Open(m)}

\* A table holds finitely many rows, whatever the set of possible ids.
FiniteTable == IsFiniteSet({m \in Items : status[m] # "absent"})

CapacityInv == FiniteTable /\ CapacityHolds

\* No row becomes open but the one that is inserted, and that only below the limit.
LEMMA CapacityStep ==
  ASSUME DeliveryInv, CapacityInv, [Next]_vars
  PROVE  CapacityInv'
<1> DEFINE Rows == {m \in Items : status[m] # "absent"}
<1>1. IsFiniteSet(Rows)
  BY DEF CapacityInv, FiniteTable
<1>2. \A s : /\ Counted(s) \in SUBSET Rows
             /\ IsFiniteSet(Counted(s)) /\ Cardinality(Counted(s)) \in Nat
  BY <1>1, FS_Subset, FS_CardinalityType DEF Counted, Open
<1>3. CASE Uninserted
  <2>1. Rows' \in SUBSET Rows
    BY <1>3 DEF Uninserted, RowMoves
  <2>2. \A s : Counted(s)' \in SUBSET Counted(s)
    BY <1>3 DEF Counted, Open, Terminal, Uninserted, RowMoves
  <2>3. IsFiniteSet(Rows')
    BY <1>1, <2>1, FS_Subset
  <2>4. \A s \in Sessions : Cardinality(Counted(s)') <= MailboxLimit
    <3>1. TAKE s \in Sessions
    <3>2. Cardinality(Counted(s)') <= Cardinality(Counted(s)) /\ IsFiniteSet(Counted(s)')
      BY <1>2, <2>2, FS_Subset
    <3>3. Cardinality(Counted(s)') \in Nat
      BY <3>2, FS_CardinalityType
    <3>4. Cardinality(Counted(s)) <= MailboxLimit
      BY DEF CapacityInv, CapacityHolds, Counted
    <3>5. QED
      BY <1>2, <3>2, <3>3, <3>4
  <2>5. QED
    BY <2>3, <2>4 DEF CapacityInv, CapacityHolds, FiniteTable, Counted
<1>4. ASSUME NEW c \in Clients, NEW m \in Items, Inserts(c, m) PROVE CapacityInv'
  <2> DEFINE to == client[c].session
  <2>1. /\ status[m] = "absent" /\ Backlog(to) < MailboxLimit
        /\ \A n \in Items : status'[n] = IF n = m THEN "queued" ELSE status[n]
        /\ \A n \in Items : session'[n] = IF n = m THEN to ELSE session[n]
    BY <1>4 DEF Inserts, DeliveryInv, TypeOK
  <2>2. Rows' = Rows \cup {m}
    BY <2>1
  <2>3. IsFiniteSet(Rows')
    BY <1>1, <2>2, FS_AddElement
  <2>4. ASSUME NEW s \in Sessions PROVE Cardinality(Counted(s)') <= MailboxLimit
    <3>1. CASE s = to
      <4>1. m \notin Counted(s)
        BY <2>1 DEF Counted, Open
      <4>2. Counted(s)' = Counted(s) \cup {m}
        BY <2>1, <3>1 DEF Counted, Open, Terminal
      <4>3. Cardinality(Counted(s)') = Cardinality(Counted(s)) + 1
        BY <1>2, <4>1, <4>2, FS_AddElement
      <4>4. Cardinality(Counted(s)) < MailboxLimit
        BY <2>1, <3>1 DEF Backlog, Counted
      <4>5. QED
        BY <1>2, <4>3, <4>4
    <3>2. CASE s # to
      <4>1. Counted(s)' = Counted(s)
        BY <2>1, <3>2 DEF Counted, Open
      <4>2. QED
        BY <4>1 DEF CapacityInv, CapacityHolds, Counted
    <3>3. QED
      BY <3>1, <3>2
  <2>5. QED
    BY <2>3, <2>4 DEF CapacityInv, CapacityHolds, FiniteTable, Counted
<1>5. QED
  BY <1>3, <1>4, StepMovesRows

\* A session never has more non-terminal rows than the limit, however enqueues overlap and
\* retries, cancels and failures interleave (agent-mailbox-store.ts:107-166).
THEOREM CapacityIsKept == Spec => []CapacityHolds
<1>1. Init => CapacityInv
  <2> SUFFICES ASSUME Init PROVE CapacityInv
    OBVIOUS
  <2>1. {m \in Items : status[m] # "absent"} = {}
    BY DEF Init
  <2>2. \A s : {m \in Items : session[m] = s /\ Open(m)} = {}
    BY DEF Init, Open
  <2>3. QED
    BY <2>1, <2>2, FS_EmptySet DEF CapacityInv, FiniteTable, CapacityHolds
<1>2. DeliveryInv /\ CapacityInv /\ [Next]_vars => CapacityInv'
  BY CapacityStep
<1>3. CapacityInv => CapacityHolds
  BY DEF CapacityInv
<1>4. QED
  BY <1>1, <1>2, <1>3, DeliveryInvariant, PTL DEF Spec

-----------------------------------------------------------------------------
(* The order.                                                              *)

\* Row m has been leased and was not given back.
Leased(m) == status[m] \in {"delivering", "accepted", "submission-ambiguous", "committed"}

\* A transaction began before its row was visible, and neither is in the future.
Stamped ==
  /\ \A c \in Clients : client[c] # None => client[c].at <= clock
  /\ \A m \in Items : created[m] <= insertedAt[m] /\ insertedAt[m] <= clock

\* A leased row has no open predecessor whose enqueue returned before its own began.
PredecessorsSettled ==
  \A i, j \in Items :
    (Leased(i) /\ session[i] = session[j] /\ insertedAt[j] < created[i]) => ~Open(j)

OrderInv == Stamped /\ PredecessorsSettled

\* An empty table is in order.
LEMMA OrderInit == Init => OrderInv
BY DEF Init, OrderInv, Stamped, PredecessorsSettled, Leased

\* Time stamps stay in order.
LEMMA StampedStep ==
  ASSUME DeliveryInv, DeliveryInv', Stamped, [Next]_vars
  PROVE  Stamped'
<1> USE DEF rowVars, eveVars, timeVars, dispatcherVars
<1>1. \A m \in Items : created[m] \in Nat /\ insertedAt[m] \in Nat
  BY DEF DeliveryInv, TypeOK
<1>2. clock \in Nat /\ \A c \in Clients : client[c] # None => client[c].at \in Nat
  BY DEF DeliveryInv, TypeOK
<1>3. CASE \E c \in Clients, m \in Items : Inserts(c, m)
  <2>1. PICK c \in Clients, m \in Items : Inserts(c, m)
    BY <1>3
  <2>2. clock' = clock + 1 /\ client[c].at <= clock /\ client[c].at \in Nat
    BY <1>2, <2>1 DEF Inserts, Stamped
  <2>3. \A e \in Clients : client'[e] # None => client'[e] = client[e] /\ client[e] # None
    BY <2>1 DEF Inserts, DeliveryInv, TypeOK
  <2>4. ASSUME NEW n \in Items PROVE created'[n] <= insertedAt'[n] /\ insertedAt'[n] <= clock'
    <3>1. CASE n = m
      <4>1. created'[n] = client[c].at /\ insertedAt'[n] = clock + 1
        BY <2>1, <3>1 DEF Inserts, DeliveryInv, TypeOK
      <4>2. QED
        BY <1>2, <2>2, <4>1
    <3>2. CASE n # m
      <4>1. created'[n] = created[n] /\ insertedAt'[n] = insertedAt[n]
        BY <2>1, <3>2 DEF Inserts, DeliveryInv, TypeOK
      <4>2. QED
        BY <1>1, <1>2, <2>2, <4>1 DEF Stamped
    <3>3. QED
      BY <3>1, <3>2
  <2>5. QED
    BY <1>2, <2>2, <2>3, <2>4 DEF Stamped
<1>4. CASE Uninserted
  <2>1. \A n \in Items : created'[n] <= insertedAt'[n] /\ insertedAt'[n] <= clock'
    BY <1>1, <1>2, <1>4 DEF Uninserted, Stamped
  <2>2. ASSUME NEW e \in Clients, client'[e] # None PROVE client'[e].at <= clock'
    <3>1. CASE client'[e] = client[e]
      BY <1>2, <1>4, <2>2, <3>1 DEF Uninserted, Stamped
    <3>2. CASE client'[e] # client[e]
      <4>1. PICK c \in Clients : ClientStep(c)
        BY <3>2, DispatcherMovesRows, SessionMovesRows, OwnerMovesRows, RouteMovesRows
           DEF Next, vars
      <4>2. e = c /\ client'[e].at = clock'
        BY <2>2, <3>2, <4>1
           DEF ClientStep, EnqueueBegin, EnqueueRefused, EnqueueInsert, EnqueueRollback,
               DeliveryInv, TypeOK
      <4>3. QED
        BY <1>4, <4>2 DEF Uninserted
    <3>3. QED
      BY <3>1, <3>2
  <2>3. QED
    BY <2>1, <2>2 DEF Stamped
<1>5. QED
  BY <1>3, <1>4, StepMovesRows

\* A row is leased only as the head of its session, and a predecessor that has settled never
\* opens again.
LEMMA PredecessorsStep ==
  ASSUME DeliveryInv, OrderInv, [Next]_vars
  PROVE  PredecessorsSettled'
<1>1. \A m \in Items : created[m] \in Nat /\ insertedAt[m] \in Nat
  BY DEF DeliveryInv, TypeOK
<1>2. CASE Uninserted
  <2> SUFFICES ASSUME NEW i \in Items, NEW j \in Items, Leased(i)', session[i] = session[j],
                      insertedAt[j] < created[i], Open(j)'
               PROVE  FALSE
    BY <1>2 DEF PredecessorsSettled, Uninserted
  <2>1. Open(j)
    BY <1>2 DEF Uninserted, RowMoves, Open, Terminal
  <2>2. CASE Leased(i)
    BY <2>1, <2>2 DEF OrderInv, PredecessorsSettled
  <2>3. CASE ~Leased(i)
    <3>1. ~Blocks(j, i)
      BY <1>2, <2>3 DEF Uninserted, RowMoves, Leased
    <3>2. created[j] < created[i]
      BY <1>1 DEF OrderInv, Stamped
    <3>3. QED
      BY <2>1, <3>1, <3>2 DEF Blocks
  <2>4. QED
    BY <2>2, <2>3
<1>3. ASSUME NEW c \in Clients, NEW m \in Items, Inserts(c, m) PROVE PredecessorsSettled'
  <2> SUFFICES ASSUME NEW i \in Items, NEW j \in Items, Leased(i)',
                      session'[i] = session'[j], insertedAt'[j] < created'[i], Open(j)'
               PROVE  FALSE
    BY DEF PredecessorsSettled
  <2>1. i # m /\ Leased(i) /\ session'[i] = session[i] /\ created'[i] = created[i]
    BY <1>3 DEF Inserts, Leased, DeliveryInv, TypeOK
  <2>2. CASE j = m
    <3>1. insertedAt'[j] = clock + 1 /\ created[i] <= clock /\ clock \in Nat
      BY <1>1, <1>3, <2>2 DEF Inserts, OrderInv, Stamped, DeliveryInv, TypeOK
    <3>2. QED
      BY <1>1, <2>1, <3>1
  <2>3. CASE j # m
    <3>1. Open(j) /\ session'[j] = session[j] /\ insertedAt'[j] = insertedAt[j]
      BY <1>3, <2>3 DEF Inserts, Open, DeliveryInv, TypeOK
    <3>2. QED
      BY <2>1, <3>1 DEF OrderInv, PredecessorsSettled
  <2>4. QED
    BY <2>2, <2>3
<1>4. QED
  BY <1>2, <1>3, StepMovesRows

\* The order is an invariant of the specification.
THEOREM OrderInvariant == Spec => []OrderInv
<1>1. DeliveryInv /\ DeliveryInv' /\ OrderInv /\ [Next]_vars => OrderInv'
  BY StampedStep, PredecessorsStep DEF OrderInv
<1>2. QED
  BY <1>1, OrderInit, DeliveryInvariant, PTL DEF Spec

\* Ledger holds with the invariant of delivery.
LEMMA LedgerInvariant == Spec => [](DeliveryInv /\ Ledger)
<1>1. DeliveryInv /\ DeliveryInv' /\ Ledger /\ [Next]_vars => Ledger'
  BY StepPromise
<1>2. Init => Ledger
  BY InitPromise
<1>3. QED
  BY <1>1, <1>2, DeliveryInvariant, PTL DEF Spec

\* What was heard is leased for good, so its columns no longer change.
LEMMA HeardIsLeased ==
  ASSUME DeliveryInv, Ledger, NEW m \in Items, Heard(m)
  PROVE  Leased(m)
BY DEF Leased, Begun, Quiet, DeliveryInv, Ledger

\* What a session is about to receive is open.
LEMMA InboxIsOpen ==
  ASSUME DeliveryInv, Ledger, NEW s \in Sessions, NEW m \in inbox[s]
  PROVE  m \in Items /\ Open(m)
<1>1. m \in Items /\ sends[m] = 1 /\ ~Heard(m)
  BY DEF DeliveryInv, TypeOK, Ledger
<1>2. Begun(m) /\ status[m] # "committed"
  BY <1>1 DEF DeliveryInv, Quiet, Ledger
<1>3. QED
  BY <1>1, <1>2 DEF Begun, Open, Terminal

\* A receipt of m puts it behind leased rows, none of which m precedes.
LEMMA FifoReceipt ==
  ASSUME DeliveryInv, Ledger, OrderInv, RealTimeFifo,
         NEW s \in Sessions, NEW m \in Items, MessageReceived(s, m)
  PROVE  RealTimeFifo'
<1>1. /\ m \in inbox[s] /\ receipts' = Append(receipts, m)
      /\ UNCHANGED <<session, created, insertedAt>>
  BY DEF MessageReceived, rowVars, timeVars
<1>2. receipts \in Seq(Items)
  BY DEF DeliveryInv, TypeOK
<1>3. /\ DOMAIN receipts = 1..Len(receipts) /\ DOMAIN receipts' = 1..(Len(receipts) + 1)
      /\ Len(receipts) \in Nat /\ receipts'[Len(receipts) + 1] = m
      /\ \A i \in 1..Len(receipts) : receipts'[i] = receipts[i] /\ receipts[i] \in Items
  BY <1>1, <1>2
<1> SUFFICES ASSUME NEW i \in 1..(Len(receipts) + 1), NEW j \in 1..(Len(receipts) + 1), i < j,
                    session[receipts'[i]] = session[receipts'[j]]
             PROVE  ~(insertedAt[receipts'[j]] < created[receipts'[i]])
  BY <1>1, <1>3 DEF RealTimeFifo
<1>4. i \in 1..Len(receipts) /\ receipts'[i] = receipts[i]
  BY <1>3
<1>5. CASE j \in 1..Len(receipts)
  BY <1>3, <1>4, <1>5 DEF RealTimeFifo
<1>6. CASE j = Len(receipts) + 1
  <2>1. receipts'[j] = m /\ Open(m)
    BY <1>1, <1>3, <1>6, InboxIsOpen
  <2>2. PICK a \in Items : a = receipts[i]
    BY <1>3, <1>4
  <2>3. Heard(a)
    BY <1>3, <1>4, <2>2 DEF Heard
  <2>4. Leased(a)
    BY <2>3, HeardIsLeased
  <2>5. QED
    BY <1>4, <2>1, <2>2, <2>4 DEF OrderInv, PredecessorsSettled
<1>7. QED
  BY <1>3, <1>5, <1>6

\* Every step keeps the order of receipts.
LEMMA FifoStep ==
  ASSUME DeliveryInv, Ledger, OrderInv, RealTimeFifo, [Next]_vars
  PROVE  RealTimeFifo'
<1>1. ASSUME NEW s \in Sessions, NEW m \in Items, MessageReceived(s, m) PROVE RealTimeFifo'
  BY <1>1, FifoReceipt
<1>2. ASSUME Uninserted, UNCHANGED receipts PROVE RealTimeFifo'
  BY <1>2 DEF RealTimeFifo, Uninserted
<1>3. ASSUME NEW c \in Clients, NEW m \in Items, Inserts(c, m) PROVE RealTimeFifo'
  <2>1. \A i \in DOMAIN receipts : receipts[i] \in Items /\ Heard(receipts[i])
    BY DEF Heard, DeliveryInv, TypeOK
  <2>2. \A i \in DOMAIN receipts : receipts[i] # m
    BY <1>3, <2>1, HeardIsLeased DEF Inserts, Leased
  <2>3. ASSUME NEW i \in DOMAIN receipts
        PROVE  /\ session'[receipts[i]] = session[receipts[i]]
               /\ created'[receipts[i]] = created[receipts[i]]
               /\ insertedAt'[receipts[i]] = insertedAt[receipts[i]]
    BY <1>3, <2>1, <2>2 DEF Inserts, DeliveryInv, TypeOK
  <2>4. receipts' = receipts
    BY <1>3 DEF Inserts
  <2>5. QED
    BY <2>3, <2>4 DEF RealTimeFifo
<1>4. CASE UNCHANGED vars
  BY <1>2, <1>4 DEF vars, rowVars, eveVars, timeVars, Uninserted, RowMoves, DeliveryInv, TypeOK
<1>5. ASSUME NEW s \in Sessions, SessionStep(s) PROVE RealTimeFifo'
  <2>1. Uninserted
    BY <1>5, SessionMovesRows
  <2>2. QED
    BY <1>1, <1>2, <1>5, <2>1
       DEF SessionStep, DirectTurn, TurnEnds, HookCommit, HookAttemptThrows, HookCrash
<1>6. QED
  BY <1>2, <1>3, <1>4, <1>5, DispatcherMovesRows, ClientMovesRows, OwnerMovesRows, RouteMovesRows
     DEF Next

\* A session receives its follow-ups in the order in which they were enqueued, when one
\* enqueue had returned before the other began, whatever leases expire, dispatchers die or
\* rows are retried (agent-mailbox-store.ts:187-225, docs/architecture.md:87-90).
THEOREM ReceiptsInOrder == Spec => []RealTimeFifo
<1>1. Init => RealTimeFifo
  BY DEF Init, RealTimeFifo
<1>2. DeliveryInv /\ Ledger /\ OrderInv /\ RealTimeFifo /\ [Next]_vars => RealTimeFifo'
  BY FifoStep
<1>3. QED
  BY <1>1, <1>2, LedgerInvariant, OrderInvariant, PTL DEF Spec

-----------------------------------------------------------------------------
(* Strict order, when enqueues do not overlap.                             *)

\* Of two rows one was visible before the other's transaction began, and a transaction that
\* is open began after every row was visible.
Apart ==
  /\ \A a, b \in Items :
       (status[a] # "absent" /\ status[b] # "absent" /\ a # b) =>
         (insertedAt[a] < created[b] \/ insertedAt[b] < created[a])
  /\ \A c \in Clients, m \in Items :
       (client[c] # None /\ status[m] # "absent") => insertedAt[m] < client[c].at

\* One client at a time keeps rows apart.
LEMMA ApartStep ==
  ASSUME \A c, e \in Clients : c = e, DeliveryInv, DeliveryInv', OrderInv, Apart, [Next]_vars
  PROVE  Apart'
<1>1. /\ \A m \in Items : insertedAt[m] \in Nat /\ insertedAt[m] <= clock
      /\ clock \in Nat
  BY DEF OrderInv, Stamped, DeliveryInv, TypeOK
<1>2. ASSUME NEW c \in Clients, NEW m \in Items, Inserts(c, m) PROVE Apart'
  <2>1. \A e \in Clients : client'[e] = None
    BY <1>2 DEF Inserts, DeliveryInv, TypeOK
  <2>2. \A n \in Items : status'[n] # "absent" => n = m \/ status[n] # "absent"
    BY <1>2 DEF Inserts, DeliveryInv, TypeOK
  <2>3. \A n \in Items \ {m} : created'[n] = created[n] /\ insertedAt'[n] = insertedAt[n]
    BY <1>2 DEF Inserts, DeliveryInv, TypeOK
  <2>4. \A n \in Items \ {m} : status[n] # "absent" => insertedAt[n] < created'[m]
    BY <1>2 DEF Inserts, Apart, DeliveryInv, TypeOK
  <2>5. QED
    BY <2>1, <2>2, <2>3, <2>4 DEF Apart
<1>3. CASE Uninserted
  <2>1. \A n \in Items : status'[n] # "absent" => status[n] # "absent"
    BY <1>3 DEF Uninserted, RowMoves
  <2>2. ASSUME NEW e \in Clients, client'[e] # None
        PROVE  \/ client'[e] = client[e]
               \/ client'[e].at = clock + 1
    <3>1. CASE client'[e] = client[e]
      BY <3>1
    <3>2. CASE client'[e] # client[e]
      <4>1. PICK c \in Clients : ClientStep(c)
        BY <3>2, DispatcherMovesRows, SessionMovesRows, OwnerMovesRows, RouteMovesRows
           DEF Next, vars
      <4>2. QED
        BY <2>2, <3>2, <4>1
           DEF ClientStep, EnqueueBegin, EnqueueRefused, EnqueueInsert, EnqueueRollback,
               DeliveryInv, TypeOK
    <3>3. QED
      BY <3>1, <3>2
  <2>3. \A e \in Clients, n \in Items :
          (client'[e] # None /\ status'[n] # "absent") => insertedAt'[n] < client'[e].at
    BY <1>1, <1>3, <2>1, <2>2 DEF Uninserted, Apart
  <2>4. QED
    BY <1>3, <2>1, <2>3 DEF Uninserted, Apart
<1>4. QED
  BY <1>2, <1>3, StepMovesRows

\* Rows that are apart are leased in the order of their creation.
LEMMA ApartIsStrict ==
  ASSUME DeliveryInv, OrderInv, Apart
  PROVE  InFlightIsHead
<1> SUFFICES ASSUME NEW m \in Items, NEW b \in Items, Leased(m), Open(b),
                    session[b] = session[m], created[b] < created[m]
             PROVE  FALSE
  BY DEF InFlightIsHead, Leased
<1>1. created[m] <= insertedAt[m]
  BY DEF OrderInv, Stamped
<1>2. /\ created[m] \in Nat /\ insertedAt[m] \in Nat
      /\ created[b] \in Nat /\ insertedAt[b] \in Nat
  BY DEF DeliveryInv, TypeOK
<1>3. insertedAt[b] < created[m]
  <2>1. m # b
    BY <1>2
  <2>2. insertedAt[b] < created[m] \/ insertedAt[m] < created[b]
    BY <2>1 DEF Apart, Leased, Open
  <2>3. QED
    BY <1>1, <1>2, <2>2
<1>4. QED
  BY <1>3 DEF OrderInv, PredecessorsSettled

\* Where enqueues do not overlap, a session's queue is strict: only its head is past its lease
\* (docs/architecture.md:87-90).  Run MailboxOverlap shows that two open enqueues break it.
THEOREM HeadOnlyInFlight ==
  ASSUME \A c, e \in Clients : c = e
  PROVE  Spec => []InFlightIsHead
<1>1. Init => Apart
  BY DEF Init, Apart
<1>2. DeliveryInv /\ DeliveryInv' /\ OrderInv /\ Apart /\ [Next]_vars => Apart'
  BY ApartStep
<1>3. DeliveryInv /\ OrderInv /\ Apart => InFlightIsHead
  BY ApartIsStrict
<1>4. QED
  BY <1>1, <1>2, <1>3, DeliveryInvariant, OrderInvariant, PTL DEF Spec

-----------------------------------------------------------------------------
(* Leases.                                                                 *)

\* Dispatcher d holds a lease of m that has not expired.
LiveLease(m, d) ==
  held[d] = m /\ status[m] = "delivering" /\ token[m] = tok[d] /\ ~expired[m]

\* What may become of that lease in a step.
LeaseKept(m, d) ==
  \/ status'[m] = "delivering" /\ token'[m] = token[m]
  \/ status'[m] = "committed"
  \/ pc'[d] # pc[d]

\* A step of a dispatcher ends a live lease only if it holds it itself: its token is its own.
LEMMA DispatcherKeepsLease ==
  ASSUME DeliveryInv, NEW e \in Dispatchers, DispatcherStep(e),
         NEW m \in Items, NEW d \in Dispatchers, LiveLease(m, d)
  PROVE  LeaseKept(m, d)
<1> USE DEF rowVars, LiveLease, LeaseKept
<1>1. tok[d] # None /\ token[m] = tok[d] /\ pc[d] \notin {"idle", "claiming"}
  BY DEF DeliveryInv, Holding
<1>2. CASE UNCHANGED <<status, token>>
  BY <1>2
<1>3. CASE Sweep(e)
  BY <1>3 DEF Sweep, Stranded, DeliveryInv, TypeOK
<1>4. ASSUME NEW n \in Items, Claim(e, n) PROVE LeaseKept(m, d)
  BY <1>4 DEF Claim, Claimable, DeliveryInv, TypeOK
<1>5. ASSUME HoldsLease(e), NEW to, LeaveDelivering(held[e], to), pc'[e] # pc[e]
      PROVE  LeaseKept(m, d)
  <2>1. CASE held[e] = m
    BY <1>1, <1>5, <2>1 DEF HoldsLease, DeliveryInv, TokensOwned
  <2>2. CASE held[e] # m
    BY <1>5, <2>2 DEF LeaveDelivering, DeliveryInv, TypeOK
  <2>3. QED
    BY <2>1, <2>2
<1>6. CASE Defer(e) \/ FailTerminal(e) \/ Accept(e) \/ AcceptThrows(e) \/ Resolve(e)
  <2>1. pc'[e] # pc[e]
    BY <1>6 DEF Defer, FailTerminal, Accept, AcceptThrows, Resolve, Return, Catch, Goto,
                DeliveryInv, TypeOK
  <2>2. QED
    BY <1>2, <1>5, <1>6, <2>1 DEF Defer, FailTerminal, Accept, AcceptThrows, Resolve
<1>7. QED
  BY <1>2, <1>3, <1>4, <1>6
     DEF DispatcherStep, ClaimNothing, Inspect, InspectFails, BeginAdmission,
         BeginAdmissionThrows, Post, Receive, DeliverTimeout, FindOwned, DispatcherCrash

\* Every step keeps every live lease, commits its row, or is its holder's.
LEMMA StepKeepsLease ==
  ASSUME DeliveryInv, [Next]_vars, NEW m \in Items, NEW d \in Dispatchers, LiveLease(m, d)
  PROVE  LeaseKept(m, d)
<1> USE DEF rowVars
<1>1. CASE UNCHANGED <<status, token>>
  BY <1>1 DEF LiveLease, LeaseKept
<1>2. ASSUME NEW c \in Clients, ClientStep(c) PROVE LeaseKept(m, d)
  BY <1>1, <1>2
     DEF ClientStep, EnqueueBegin, EnqueueRefused, EnqueueInsert, EnqueueRollback,
         LiveLease, LeaseKept, DeliveryInv, TypeOK
<1>3. ASSUME NEW n \in Items, RowStep(n) PROVE LeaseKept(m, d)
  BY <1>3 DEF RowStep, CancelOwned, RetryOwned, LeaseExpires, LiveLease, LeaseKept,
              DeliveryInv, TypeOK
<1>4. ASSUME NEW e \in Dispatchers, DispatcherStep(e) PROVE LeaseKept(m, d)
  BY <1>4, DispatcherKeepsLease
<1>5. CASE RouteStep
  BY <1>1, <1>5 DEF RouteStep, RouteChecks, RouteRefuses, RouteSendThrows, RouteSends
<1>6. ASSUME NEW s \in Sessions, SessionStep(s) PROVE LeaseKept(m, d)
  <2>1. CASE HookCommit(s)
    BY <2>1 DEF HookCommit, LeaveDelivering, LiveLease, LeaseKept, DeliveryInv, TypeOK
  <2>2. CASE ~HookCommit(s)
    BY <1>1, <1>6, <2>2
       DEF SessionStep, MessageReceived, DirectTurn, TurnEnds, HookAttemptThrows, HookCrash
  <2>3. QED
    BY <2>1, <2>2
<1>7. QED
  BY <1>1, <1>2, <1>3, <1>4, <1>5, <1>6 DEF Next, vars

\* A lease that has not expired is ended by its holder or by the durable receipt, never by a
\* dispatcher that lost its own (agent-mailbox-store.ts:168-291).
THEOREM LeasesAreUndisturbed == Spec => LiveLeaseUndisturbed
<1>1. DeliveryInv /\ [Next]_vars =>
        [\A m \in Items, d \in Dispatchers :
           (held[d] = m /\ status[m] = "delivering" /\ token[m] = tok[d] /\ ~expired[m]) =>
             \/ status'[m] = "delivering" /\ token'[m] = token[m]
             \/ status'[m] = "committed"
             \/ pc'[d] # pc[d]]_vars
  BY StepKeepsLease DEF LiveLease, LeaseKept
<1>2. QED
  BY <1>1, DeliveryInvariant, PTL DEF Spec, LiveLeaseUndisturbed
=============================================================================
