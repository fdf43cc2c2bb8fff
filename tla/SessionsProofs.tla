--------------------------- MODULE SessionsProofs ---------------------------
(***************************************************************************)
(* A sandbox is only removed after its owner asked and Eve retired the     *)
(* session, for every number of sessions, principals, containers and       *)
(* reapers.                                                                *)
(*                                                                         *)
(* Three facts carry it.  Who passed the check of a delete is the owner,   *)
(* and an owner never changes (DeletersOwn).  A deletion record is only    *)
(* written behind a reset that was answered (Asked).  A reaper that works  *)
(* on a container holds or held the claim of a record (Reaped): its token  *)
(* is no later than the record's attempt, and when they are equal the      *)
(* record names that container, so the record that is completed names a    *)
(* container that is gone however many leases expired in between.          *)
(***************************************************************************)
EXTENDS Sessions, FiniteSetTheorems, TLAPS

USE SessionsAssumption, NobodyIsNoRecord

Owned ==
  \A s \in SessionIds :
    /\ sessionOwner[s] \in {Nobody, initiator[s]}
    /\ eveState[s] = "none" => initiator[s] = Nobody /\ sessionOwner[s] = Nobody

Asked ==
  \A s \in SessionIds : deletion[s] # Nobody =>
    eveState[s] = "retired" /\ sessionOwner[s] = deletion[s].by

DeletersOwn ==
  \A p \in Principals :
    /\ deleting[p].at # "idle" => deleting[p].session \in SessionIds
    /\ deleting[p].at \in {"finding", "resetting", "requesting"} => sessionOwner[deleting[p].session] = p
    /\ deleting[p].at = "requesting" => eveState[deleting[p].session] = "retired"

\* Run q works on container c and has a claim, now or before.
Works(q, c) ==
  q.at \in {"inspecting", "removing", "completing", "failing"} /\ q.todo # <<>> /\ c = Head(q.todo)

\* What that claim says of the record of the session.
ClaimOf(q, c, d) ==
  /\ d # Nobody /\ q.token <= d.attempt
  /\ q.token = d.attempt => d.container = c

Sound(q) ==
  /\ q.at \in {"inspecting", "removing", "completing", "failing"} => q.todo # <<>>
  /\ \A c \in Containers : Works(q, c) =>
       /\ ClaimOf(q, c, deletion[Home[c]])
       /\ q.at = "completing" => box[c].state = "removed"

Reaped == \A r \in Reapers : Sound(reaping[r])

\* Gone containers were asked for; completed records name gone containers.
Gone == \A c \in Containers : box[c].state = "removed" => deletion[Home[c]] # Nobody

Completed ==
  \A s \in SessionIds : deletion[s] # Nobody /\ deletion[s].status = "completed" =>
    deletion[s].container # Nobody /\ box[deletion[s].container].state = "removed"

RemovalInv ==
  SessionsTypeOK /\ Owned /\ Asked /\ DeletersOwn /\ Reaped /\ Gone /\ Completed

\* The invariant says what the property says.
LEMMA InvAuthorizes == RemovalInv => RemovalIsAuthorized
<1> SUFFICES ASSUME RemovalInv PROVE RemovalIsAuthorized
  OBVIOUS
<1>1. ASSUME NEW c \in Containers, box[c].state = "removed"
      PROVE  /\ eveState[Home[c]] = "retired" /\ deletion[Home[c]] # Nobody
             /\ deletion[Home[c]].by = initiator[Home[c]]
  <2>1. Home[c] \in SessionIds /\ deletion[Home[c]] # Nobody
    BY <1>1 DEF RemovalInv, Gone
  <2>2. deletion[Home[c]].by \in Principals
    BY <2>1 DEF RemovalInv, SessionsTypeOK, Deletion
  <2>3. QED  BY <2>1, <2>2 DEF RemovalInv, Asked, Owned
<1>2. QED  BY <1>1 DEF RemovalInv, RemovalIsAuthorized, Completed

LEMMA RemovalStarts == SessionsInit => RemovalInv
<1> SUFFICES ASSUME SessionsInit PROVE RemovalInv
  OBVIOUS
<1> USE DEF SessionsInit
<1>1. NoRequest \in Request /\ NoRun \in Reaping
  BY DEF NoRequest, Request, NoRun, Reaping
<1>2. SessionsTypeOK
  BY <1>1 DEF SessionsTypeOK, Box
<1>3. QED
  BY <1>2 DEF RemovalInv, Owned, Asked, DeletersOwn, Reaped, Sound, Works, Gone, Completed, NoRequest, NoRun

\* A candidate list is a list of containers.
LEMMA CandidatesType ==
  ASSUME NEW forced, NEW todo \in Candidates(forced) PROVE todo \in Seq(Containers)
<1> DEFINE eligible == {c \in Containers : SkipReason(c, forced, forced, Retention) = "eligible"}
           n == Cardinality(eligible)
           limit == IF n < MaxRemovals THEN n ELSE MaxRemovals
<1>1. n \in Nat
  <2>1. IsFiniteSet(eligible)
    BY FS_Subset
  <2>2. QED  BY <2>1, FS_CardinalityType
<1>2. limit \in 0..n
  BY <1>1
<1>3. PICK q \in SetToSeqs(eligible) : todo = SubSeq(q, 1, limit)
  BY DEF Candidates
<1>4. q \in [1..n -> eligible]
  BY <1>3 DEF SetToSeqs
<1> HIDE DEF limit, n
<1>5. q \in Seq(Containers) /\ Len(q) = n
  <2>1. q \in [1..n -> Containers]
    BY <1>4
  <2>2. QED  BY <1>1, <2>1
<1>6. QED
  BY <1>1, <1>2, <1>3, <1>5

\* A step that no record, no reaper and no removed container notices.
LEMMA RecordsAlone ==
  ASSUME RemovalInv, SessionsTypeOK', Owned', Asked', DeletersOwn', UNCHANGED <<deletion, reaping>>,
         \A c \in Containers : box'[c].state = "removed" <=> box[c].state = "removed"
  PROVE  RemovalInv'
<1>1. Reaped'
  BY DEF RemovalInv, Reaped, Sound, Works, ClaimOf
<1>2. Gone'
  BY DEF RemovalInv, Gone
<1>3. Completed'
  BY DEF RemovalInv, Completed, SessionsTypeOK, Deletion
<1>4. QED  BY <1>1, <1>2, <1>3 DEF RemovalInv

\* Sessions and their owners, while nobody deletes.
LEMMA OwnershipKeeps ==
  ASSUME RemovalInv, NEW s \in SessionIds, NEW p \in Principals,
         StartSession(s, p) \/ ClaimSession(s) \/ BeginAccess(p, s)
  PROVE  RemovalInv'
<1> USE DEF RemovalInv
<1>1. CASE StartSession(s, p)
  <2> USE <1>1 DEF StartSession
  <2>1. SessionsTypeOK'
    BY DEF SessionsTypeOK
  <2>2. Owned' /\ Asked' /\ DeletersOwn'
    BY DEF SessionsTypeOK, Owned, Asked, DeletersOwn
  <2>3. QED  BY <2>1, <2>2, RecordsAlone
<1>2. CASE ClaimSession(s)
  <2> USE <1>2 DEF ClaimSession
  <2>1. SessionsTypeOK'
    BY DEF SessionsTypeOK
  <2>2. deletion[s] = Nobody
    BY DEF SessionsTypeOK, Asked, Deletion
  <2>3. Asked'
    BY <2>2 DEF SessionsTypeOK, Asked
  <2>4. DeletersOwn'
    BY DEF SessionsTypeOK, DeletersOwn
  <2>5. Owned'
    BY DEF SessionsTypeOK, Owned
  <2>6. QED  BY <2>1, <2>3, <2>4, <2>5, RecordsAlone
<1>3. CASE BeginAccess(p, s)
  <2> USE <1>3 DEF BeginAccess
  <2>1. SessionsTypeOK'
    BY DEF SessionsTypeOK, Request
  <2>2. QED  BY <2>1, RecordsAlone DEF Owned, Asked, DeletersOwn
<1>4. QED  BY <1>1, <1>2, <1>3

\* The answer to the ownership check of a request.
LEMMA AccessKeeps ==
  ASSUME RemovalInv, NEW p \in Principals, AccessVerified(p) PROVE RemovalInv'
<1> USE DEF RemovalInv, AccessVerified
<1>1. accessing' \in [Principals -> Request]
  BY DEF SessionsTypeOK, Request, NoRequest
<1>2. SessionsTypeOK'
  BY <1>1 DEF SessionsTypeOK
<1>3. QED  BY <1>2, RecordsAlone DEF Owned, Asked, DeletersOwn

LEMMA TickKeeps == ASSUME RemovalInv, SessionsTick PROVE RemovalInv'
<1> USE DEF RemovalInv, SessionsTick
<1>1. SessionsTypeOK'
  BY DEF SessionsTypeOK
<1>2. QED  BY <1>1, RecordsAlone DEF Owned, Asked, DeletersOwn

\* A sandbox that is started or stopped was not removed and is not.
LEMMA SandboxKeeps ==
  ASSUME RemovalInv, NEW c \in Containers,
         StopSandbox(c) \/ \E p \in Principals : UseSession(p, c)
  PROVE  RemovalInv'
<1> USE DEF RemovalInv
<1>1. /\ UNCHANGED <<initiator, eveState, sessionOwner, deletion, clock, deleting, reaping>>
      /\ \/ box' = box
         \/ /\ box[c].state \in {"none", "stopped", "running"}
            /\ \E state \in {"running", "stopped"} : box' = [box EXCEPT ![c] = [state |-> state, last |-> clock]]
  BY DEF StopSandbox, UseSession
<1>2. box' \in [Containers -> Box]
  BY <1>1 DEF SessionsTypeOK, Box
<1>3. accessing' \in [Principals -> Request]
  BY DEF StopSandbox, UseSession, SessionsTypeOK, NoRequest, Request
<1>4. SessionsTypeOK'
  BY <1>1, <1>2, <1>3 DEF SessionsTypeOK
<1>5. \A b \in Containers : box'[b].state = "removed" <=> box[b].state = "removed"
  BY <1>1 DEF SessionsTypeOK
<1>6. QED  BY <1>1, <1>4, <1>5, RecordsAlone DEF Owned, Asked, DeletersOwn

\* A step of a delete moves the request on, or ends it.
LEMMA DeleteTypes ==
  ASSUME RemovalInv, NEW p \in Principals, NEW from,
         NEW to \in {"idle", "finding", "resetting", "requesting"}, DeleteStep(p, from, to)
  PROVE  /\ deleting' \in [Principals -> Request]
         /\ \A q \in Principals : q # p => deleting'[q] = deleting[q]
         /\ deleting'[p].at = to
         /\ to # "idle" => deleting'[p].session = deleting[p].session
         /\ UNCHANGED <<initiator, sessionOwner, box, clock, accessing, reaping>>
BY DEF DeleteStep, NoRequest, RemovalInv, SessionsTypeOK, Request

\* The steps of a delete before its record is written.
LEMMA DeleteKeeps ==
  ASSUME RemovalInv, NEW p \in Principals,
         \/ \E s \in SessionIds : BeginDelete(p, s)
         \/ DeleteVerified(p) \/ DeleteFound(p) \/ DeleteReset(p) \/ DeleteLost(p)
  PROVE  RemovalInv'
<1> USE DEF RemovalInv
<1>1. ASSUME NEW s \in SessionIds, BeginDelete(p, s) PROVE RemovalInv'
  <2> USE <1>1 DEF BeginDelete
  <2>1. SessionsTypeOK'
    BY DEF SessionsTypeOK, Request
  <2>2. DeletersOwn'
    BY DEF DeletersOwn, SessionsTypeOK
  <2>3. QED  BY <2>1, <2>2, RecordsAlone DEF Owned, Asked
<1>2. CASE DeleteVerified(p)
  <2> DEFINE to == IF Ownership(deleting[p].session, p) = "owned" THEN "finding" ELSE "idle"
  <2>1. DeleteStep(p, "verifying", to) /\ UNCHANGED <<eveState, deletion>> /\ deleting[p].at = "verifying"
    BY <1>2 DEF DeleteVerified, DeleteStep
  <2>2. to = "finding" => sessionOwner[deleting[p].session] = p
    BY DEF Ownership
  <2>3. to \in {"idle", "finding"}
    OBVIOUS
  <2> HIDE DEF to
  <2>4. SessionsTypeOK' /\ DeletersOwn'
    BY <2>1, <2>2, <2>3, DeleteTypes DEF SessionsTypeOK, DeletersOwn
  <2>5. QED  BY <2>1, <2>3, <2>4, DeleteTypes, RecordsAlone DEF Owned, Asked
<1>3. CASE DeleteFound(p)
  <2>1. PICK to \in {"idle", "resetting"} : DeleteStep(p, "finding", to) /\ deleting[p].at = "finding"
    BY <1>3 DEF DeleteFound, DeleteStep
  <2>2. UNCHANGED <<eveState, deletion>>
    BY <1>3 DEF DeleteFound
  <2>3. SessionsTypeOK' /\ DeletersOwn'
    BY <2>1, <2>2, DeleteTypes DEF SessionsTypeOK, DeletersOwn
  <2>4. QED  BY <2>1, <2>2, <2>3, DeleteTypes, RecordsAlone DEF Owned, Asked
<1>4. CASE DeleteReset(p)
  <2>1. PICK to \in {"idle", "requesting"} :
          /\ DeleteStep(p, "resetting", to) /\ deleting[p].at = "resetting" /\ deletion' = deletion
          /\ eveState' = [eveState EXCEPT ![deleting[p].session] = "retired"] \/ (to = "idle" /\ eveState' = eveState)
    BY <1>4 DEF DeleteReset, DeleteStep
  <2>2. deleting[p].session \in SessionIds /\ sessionOwner[deleting[p].session] = p
    BY <2>1 DEF DeletersOwn
  <2>3. /\ eveState' \in [SessionIds -> {"none", "active", "retired"}]
        /\ \A s \in SessionIds : eveState'[s] = eveState[s] \/ eveState'[s] = "retired"
        /\ to = "requesting" => eveState'[deleting[p].session] = "retired"
    BY <2>1, <2>2 DEF SessionsTypeOK
  <2>4. SessionsTypeOK'
    BY <2>1, <2>3, DeleteTypes DEF SessionsTypeOK
  <2>5. DeletersOwn'
    BY <2>1, <2>2, <2>3, DeleteTypes DEF DeletersOwn
  <2>6. Owned' /\ Asked'
    BY <2>1, <2>3, DeleteTypes DEF Owned, Asked
  <2>7. QED  BY <2>1, <2>4, <2>5, <2>6, DeleteTypes, RecordsAlone
<1>5. CASE DeleteLost(p)
  <2>1. DeleteStep(p, deleting[p].at, "idle") /\ UNCHANGED <<eveState, deletion>>
    BY <1>5 DEF DeleteLost
  <2>2. SessionsTypeOK' /\ DeletersOwn'
    BY <2>1, DeleteTypes DEF SessionsTypeOK, DeletersOwn
  <2>3. QED  BY <2>1, <2>2, DeleteTypes, RecordsAlone DEF Owned, Asked
<1>6. QED  BY <1>1, <1>2, <1>3, <1>4, <1>5

\* What every step leaves true of the records and the containers.
Forward ==
  /\ \A s \in SessionIds : deletion[s] # Nobody =>
       /\ deletion'[s] # Nobody
       /\ deletion'[s].by = deletion[s].by
       /\ deletion'[s].attempt \in Nat /\ deletion'[s].attempt >= deletion[s].attempt
       /\ deletion'[s].attempt = deletion[s].attempt => deletion'[s].container = deletion[s].container
  /\ \A c \in Containers : box[c].state = "removed" => box'[c].state = "removed"

\* A claim stays what it says, whatever the other runs do.
LEMMA SoundStays ==
  ASSUME RemovalInv, Forward, NEW q \in Reaping, Sound(q) PROVE Sound(q)'
<1>1. ASSUME NEW c \in Containers, Works(q, c)
      PROVE  ClaimOf(q, c, deletion'[Home[c]]) /\ (q.at = "completing" => box'[c].state = "removed")
  <2>1. ClaimOf(q, c, deletion[Home[c]]) /\ (q.at = "completing" => box[c].state = "removed")
    BY <1>1 DEF Sound
  <2>2. Home[c] \in SessionIds /\ q.token \in Nat
    BY DEF Reaping
  <2>3. deletion[Home[c]].attempt \in Nat
    BY <2>1, <2>2 DEF RemovalInv, SessionsTypeOK, Deletion, ClaimOf
  <2>4. deletion'[Home[c]].attempt \in Nat /\ deletion'[Home[c]].attempt >= deletion[Home[c]].attempt
    BY <2>1, <2>2 DEF Forward, ClaimOf
  <2>5. QED  BY <2>1, <2>2, <2>3, <2>4 DEF Forward, ClaimOf
<1>2. QED  BY <1>1 DEF Sound, Works

\* A run of the reaper takes a step to the state to.
LEMMA ReaperKeeps ==
  ASSUME RemovalInv, Forward, SessionsTypeOK', NEW r \in Reapers, NEW from, NEW to \in Reaping,
         ReaperStep(r, from, to), Sound(to)',
         \A c \in Containers : box'[c].state = "removed" => deletion'[Home[c]] # Nobody,
         \A s \in SessionIds : deletion[s] = Nobody => deletion'[s] = Nobody,
         \A s \in SessionIds : deletion'[s] # Nobody /\ deletion'[s].status = "completed" =>
           \/ deletion[s].status = "completed" /\ deletion'[s].container = deletion[s].container
           \/ /\ deletion'[s].container \in Containers
              /\ box'[deletion'[s].container].state = "removed"
  PROVE  RemovalInv'
<1>1. UNCHANGED <<initiator, eveState, sessionOwner, clock, accessing, deleting>>
  BY DEF ReaperStep
<1>2. Owned' /\ DeletersOwn'
  BY <1>1 DEF RemovalInv, Owned, DeletersOwn
<1>3. Asked'
  BY <1>1 DEF RemovalInv, Asked, Forward
<1>4. Gone'
  BY DEF Gone
<1>5. Completed'
  <2>1. ASSUME NEW s \in SessionIds, deletion'[s] # Nobody, deletion'[s].status = "completed"
        PROVE  deletion'[s].container # Nobody /\ box'[deletion'[s].container].state = "removed"
    <3>1. CASE deletion[s].status = "completed" /\ deletion'[s].container = deletion[s].container
      <4>1. deletion[s] # Nobody /\ deletion[s] \in Deletion
        BY <2>1 DEF RemovalInv, SessionsTypeOK
      <4>2. deletion[s].container \in Containers /\ box[deletion[s].container].state = "removed"
        BY <3>1, <4>1 DEF RemovalInv, Completed, Deletion
      <4>3. QED  BY <3>1, <4>2 DEF Forward
    <3>2. QED  BY <2>1, <3>1
  <2>2. QED  BY <2>1 DEF Completed
<1>6. Reaped'
  <2>1. reaping' = [reaping EXCEPT ![r] = to] /\ reaping \in [Reapers -> Reaping]
    BY DEF ReaperStep, RemovalInv, SessionsTypeOK
  <2>2. ASSUME NEW q \in Reapers PROVE Sound(reaping[q])'
    <3>1. CASE q = r
      BY <2>1, <3>1 DEF Sound, Works
    <3>2. CASE q # r
      <4>1. PICK run \in Reaping : run = reaping[q]
        BY <2>1
      <4>2. Sound(run)
        BY <4>1 DEF RemovalInv, Reaped
      <4>3. Sound(run)'
        BY <4>2, SoundStays
      <4>4. reaping'[q] = run
        BY <2>1, <3>2, <4>1
      <4>5. QED  BY <4>3, <4>4 DEF Sound, Works
    <3>3. QED  BY <3>1, <3>2
  <2>3. QED  BY <2>2 DEF Reaped
<1>7. QED  BY <1>2, <1>3, <1>4, <1>5, <1>6 DEF RemovalInv

\* A record is written, and no run of the reaper moves.
LEMMA RecordsChange ==
  ASSUME RemovalInv, Forward, SessionsTypeOK', Owned', Asked', DeletersOwn',
         UNCHANGED <<reaping, box>>,
         \A s \in SessionIds : deletion'[s] # Nobody /\ deletion'[s].status = "completed" =>
           /\ deletion[s] # Nobody /\ deletion[s].status = "completed"
           /\ deletion'[s].container = deletion[s].container
  PROVE  RemovalInv'
<1>1. Reaped'
  <2>1. ASSUME NEW r \in Reapers PROVE Sound(reaping[r])'
    <3>1. PICK run \in Reaping : run = reaping[r]
      BY DEF RemovalInv, SessionsTypeOK
    <3>2. Sound(run)
      BY <3>1 DEF RemovalInv, Reaped
    <3>3. Sound(run)'
      BY <3>2, SoundStays
    <3>4. QED  BY <3>1, <3>3 DEF Sound, Works
  <2>2. QED  BY <2>1 DEF Reaped
<1>2. Gone'
  BY DEF RemovalInv, Gone, Forward
<1>3. Completed'
  BY DEF RemovalInv, Completed
<1>4. QED  BY <1>1, <1>2, <1>3 DEF RemovalInv

\* The record is written behind the answered reset, by the owner.
LEMMA RequestKeeps ==
  ASSUME RemovalInv, NEW p \in Principals, RequestDeletion(p) PROVE RemovalInv'
<1> USE DEF RemovalInv
<1>1. PICK s \in SessionIds :
        /\ s = deleting[p].session /\ sessionOwner[s] = p /\ eveState[s] = "retired"
  BY DEF RequestDeletion, DeleteStep, DeletersOwn
<1>2. DeleteStep(p, "requesting", "idle") /\ eveState' = eveState
  BY DEF RequestDeletion
<1> DEFINE new == [status |-> "authorized", by |-> p, attempt |-> 0, over |-> FALSE, container |-> Nobody]
<1>13. /\ new.by = p /\ new.status = "authorized"
  OBVIOUS
<1>3. \/ deletion' = deletion
      \/ deletion[s] = Nobody /\ deletion' = [deletion EXCEPT ![s] = new]
  BY <1>1 DEF RequestDeletion
<1>4. new \in Deletion
  BY DEF Deletion
<1>5. new # Nobody
  BY <1>4
<1> HIDE DEF new
<1>6. \A t \in SessionIds : deletion'[t] = deletion[t] \/ (t = s /\ deletion[t] = Nobody /\ deletion'[t] = new)
  BY <1>3 DEF SessionsTypeOK
<1>7. SessionsTypeOK'
  <2>1. deletion' \in [SessionIds -> Deletion \cup {Nobody}]
    BY <1>3, <1>4 DEF SessionsTypeOK
  <2>2. QED  BY <1>2, <2>1, DeleteTypes DEF SessionsTypeOK
<1>8. Owned' /\ DeletersOwn'
  BY <1>2, DeleteTypes DEF Owned, DeletersOwn
<1>9. UNCHANGED <<reaping, box, sessionOwner>>
  BY <1>2, DeleteTypes
<1>10. Asked'
  BY <1>1, <1>2, <1>6, <1>9, <1>13 DEF Asked
<1>11. Forward
  BY <1>6, <1>9 DEF Forward, SessionsTypeOK, Deletion
<1>12. QED  BY <1>13, <1>6, <1>7, <1>8, <1>9, <1>10, <1>11, RecordsChange

\* The lease of a claim expires.
LEMMA ExpiryKeeps ==
  ASSUME RemovalInv, NEW s \in SessionIds, ExpireDeletionLease(s) PROVE RemovalInv'
<1> USE DEF RemovalInv
<1>1. deletion[s] \in Deletion /\ deletion[s] # Nobody
  BY DEF ExpireDeletionLease, SessionsTypeOK
<1>2. PICK new \in Deletion :
        /\ deletion' = [deletion EXCEPT ![s] = new]
        /\ new.by = deletion[s].by /\ new.attempt = deletion[s].attempt
        /\ new.status = "claimed" /\ new.container = deletion[s].container
  <2> DEFINE new == [deletion[s] EXCEPT !.over = TRUE]
  <2>1. new \in Deletion
    BY <1>1 DEF Deletion
  <2>2. /\ new.by = deletion[s].by /\ new.attempt = deletion[s].attempt
        /\ new.status = "claimed" /\ new.container = deletion[s].container
    BY <1>1 DEF Deletion, ExpireDeletionLease
  <2>3. deletion' = [deletion EXCEPT ![s] = new]
    BY DEF ExpireDeletionLease
  <2> HIDE DEF new
  <2>4. QED  BY <2>1, <2>2, <2>3
<1>3. UNCHANGED <<initiator, eveState, sessionOwner, box, clock, accessing, deleting, reaping>>
  BY DEF ExpireDeletionLease
<1>4. SessionsTypeOK'
  BY <1>2, <1>3 DEF SessionsTypeOK
<1>5. \A t \in SessionIds : deletion'[t] = deletion[t] \/ (t = s /\ deletion'[t] = new)
  BY <1>2 DEF SessionsTypeOK
<1>6. Owned' /\ DeletersOwn'
  BY <1>3 DEF Owned, DeletersOwn
<1>7. Asked'
  BY <1>1, <1>2, <1>3, <1>5 DEF Asked
<1>8. Forward
  BY <1>1, <1>2, <1>3, <1>5 DEF Forward, SessionsTypeOK, Deletion
<1>9. QED  BY <1>2, <1>3, <1>4, <1>5, <1>6, <1>7, <1>8, RecordsChange

\* A run takes a step that writes no record and removes no container.
LEMMA ReaperMoves ==
  ASSUME RemovalInv, NEW r \in Reapers, NEW from, NEW to \in Reaping,
         ReaperStep(r, from, to), Sound(to), UNCHANGED <<deletion, box>>
  PROVE  RemovalInv'
<1>1. SessionsTypeOK'
  BY DEF RemovalInv, SessionsTypeOK, ReaperStep
<1>2. Sound(to)'
  BY DEF Sound, Works
<1>3. Forward
  BY DEF RemovalInv, SessionsTypeOK, Deletion, Forward
<1>4. \A c \in Containers : box'[c].state = "removed" => deletion'[Home[c]] # Nobody
  BY DEF RemovalInv, Gone
<1>5. \A s \in SessionIds : deletion'[s] # Nobody /\ deletion'[s].status = "completed" =>
        deletion[s].status = "completed" /\ deletion'[s].container = deletion[s].container
  OBVIOUS
<1>6. \A s \in SessionIds : deletion[s] = Nobody => deletion'[s] = Nobody
  OBVIOUS
<1>7. QED  BY <1>1, <1>2, <1>3, <1>4, <1>5, <1>6, ReaperKeeps

LEMMA IdleRun == NoRun \in Reaping /\ Sound(NoRun)
BY DEF NoRun, Reaping, Sound, Works

\* A run that has claimed a record still works on it after a failure.
LEMMA RunGoesOn ==
  ASSUME RemovalInv, NEW r \in Reapers, NEW at \in {"removing", "failing"},
         reaping[r].at \in {"inspecting", "removing", "completing"},
         NEW from, ReaperStep(r, from, [reaping[r] EXCEPT !.at = at]), UNCHANGED <<deletion, box>>
  PROVE  RemovalInv'
<1>1. PICK run \in Reaping : run = reaping[r]
  BY DEF RemovalInv, SessionsTypeOK
<1>2. PICK to \in Reaping : to = [run EXCEPT !.at = at]
  BY DEF Reaping
<1>3. to.todo = run.todo /\ to.token = run.token /\ to.at = at
  BY <1>2 DEF Reaping
<1>4. Sound(run)
  BY <1>1 DEF RemovalInv, Reaped
<1>5. Sound(to)
  BY <1>1, <1>3, <1>4 DEF Sound, Works, ClaimOf
<1>6. ReaperStep(r, from, to)
  BY <1>1, <1>2
<1>7. QED  BY <1>5, <1>6, ReaperMoves

\* The steps of a run that write no record and remove no container.
LEMMA ReaperOnlyMoves ==
  ASSUME RemovalInv, NEW r \in Reapers,
         \/ \E forced \in SessionIds \cup {Nobody} : BeginReaping(r, forced)
         \/ Revalidate(r) \/ ReaperError(r) \/ EndReaping(r) \/ ReaperCrash(r)
  PROVE  RemovalInv'
<1>1. ASSUME NEW forced \in SessionIds \cup {Nobody}, BeginReaping(r, forced) PROVE RemovalInv'
  <2>1. PICK todo \in Candidates(forced) :
          reaping' = [reaping EXCEPT ![r] = [at |-> "claiming", forced |-> forced, todo |-> todo, token |-> 0]]
    BY <1>1 DEF BeginReaping
  <2>2. todo \in Seq(Containers)
    BY CandidatesType
  <2>3. PICK to \in Reaping : to = [at |-> "claiming", forced |-> forced, todo |-> todo, token |-> 0]
    BY <2>2 DEF Reaping
  <2>4. Sound(to)
    BY <2>3 DEF Sound, Works
  <2>5. ReaperStep(r, "idle", to)
    BY <1>1, <2>1, <2>3 DEF BeginReaping, ReaperStep
  <2>6. UNCHANGED <<deletion, box>>
    BY <1>1 DEF BeginReaping
  <2>7. QED  BY <2>4, <2>5, <2>6, ReaperMoves
<1>2. CASE Revalidate(r)
  <2> DEFINE at == IF SkipReason(Target(r), Home[Target(r)], reaping[r].forced, Retention) = "eligible"
                   THEN "removing" ELSE "failing"
  <2>1. /\ ReaperStep(r, "inspecting", [reaping[r] EXCEPT !.at = at])
        /\ reaping[r].at = "inspecting" /\ UNCHANGED <<deletion, box>>
    BY <1>2 DEF Revalidate, ReaperStep
  <2>2. at \in {"removing", "failing"}
    OBVIOUS
  <2> HIDE DEF at
  <2>3. PICK to \in {"removing", "failing"} : to = at
    BY <2>2
  <2>4. ReaperStep(r, "inspecting", [reaping[r] EXCEPT !.at = to])
    BY <2>1, <2>3
  <2>5. QED  BY <2>1, <2>4, RunGoesOn
<1>3. CASE ReaperError(r)
  <2>1. PICK from \in {"inspecting", "removing", "completing"} : from = reaping[r].at
    BY <1>3 DEF ReaperError
  <2>2. ReaperStep(r, from, [reaping[r] EXCEPT !.at = "failing"]) /\ UNCHANGED <<deletion, box>>
    BY <1>3, <2>1 DEF ReaperError
  <2>3. QED  BY <2>1, <2>2, RunGoesOn
<1>4. CASE EndReaping(r) \/ ReaperCrash(r)
  <2>1. PICK from : ReaperStep(r, from, NoRun) /\ UNCHANGED <<deletion, box>>
    BY <1>4 DEF EndReaping, ReaperCrash
  <2>2. QED  BY <2>1, IdleRun, ReaperMoves
<1>5. QED  BY <1>1, <1>2, <1>3, <1>4

\* A claim takes the next attempt, so that no earlier run holds the record.
LEMMA ClaimKeeps ==
  ASSUME RemovalInv, NEW r \in Reapers, ClaimDeletion(r) PROVE RemovalInv'
<1>1. PICK run \in Reaping : run = reaping[r]
  BY DEF RemovalInv, SessionsTypeOK
<1>2. run.todo # <<>> /\ run.todo \in Seq(Containers) /\ box' = box /\ run.at = "claiming"
  BY <1>1 DEF ClaimDeletion, ReaperStep, Reaping
<1>3. PICK c \in Containers : c = Head(run.todo)
  BY <1>2
<1>4. PICK s \in SessionIds : s = Home[c]
  OBVIOUS
<1>5. PICK d : d = deletion[s]
  OBVIOUS
<1>6. CASE ~Claimable(d)
  <2>1. PICK to \in Reaping : to = [run EXCEPT !.todo = Tail(@)]
    <3>1. Tail(run.todo) \in Seq(Containers)
      BY <1>2
    <3>2. [run EXCEPT !.todo = Tail(@)] \in Reaping
      BY <3>1 DEF Reaping
    <3>3. QED  BY <3>2
  <2>2. ReaperStep(r, "claiming", to) /\ UNCHANGED <<deletion, box>>
    BY <1>1, <1>3, <1>4, <1>5, <1>6, <2>1 DEF ClaimDeletion, Target
  <2>3. to.at = "claiming"
    BY <1>2, <2>1 DEF Reaping
  <2>4. QED  BY <2>2, <2>3, ReaperMoves DEF Sound, Works
<1>7. CASE Claimable(d)
  <2>1. d \in Deletion /\ d # Nobody /\ d.status # "completed" /\ d.attempt \in 0..MaxClaims
    BY <1>5, <1>7 DEF Claimable, RemovalInv, SessionsTypeOK, Deletion
  <2>2. /\ d.attempt < MaxClaims
        /\ deletion' = [deletion EXCEPT ![s] =
             [d EXCEPT !.status = "claimed", !.attempt = @ + 1, !.over = FALSE, !.container = c]]
        /\ ReaperStep(r, "claiming", [run EXCEPT !.at = "inspecting", !.token = d.attempt + 1])
    BY <1>1, <1>3, <1>4, <1>5, <1>7 DEF ClaimDeletion, Target
  <2>3. PICK new \in Deletion :
          /\ new = [d EXCEPT !.status = "claimed", !.attempt = @ + 1, !.over = FALSE, !.container = c]
          /\ new.by = d.by /\ new.attempt = d.attempt + 1 /\ new.status = "claimed" /\ new.container = c
    <3> DEFINE new == [d EXCEPT !.status = "claimed", !.attempt = @ + 1, !.over = FALSE, !.container = c]
    <3>1. d.attempt + 1 \in 0..MaxClaims
      BY <2>1, <2>2
    <3>2. new \in Deletion
      BY <2>1, <3>1 DEF Deletion
    <3>3. new.by = d.by /\ new.attempt = d.attempt + 1 /\ new.status = "claimed" /\ new.container = c
      BY <2>1 DEF Deletion
    <3> HIDE DEF new
    <3>4. QED  BY <3>2, <3>3 DEF new
  <2>4. PICK to \in Reaping :
          to = [run EXCEPT !.at = "inspecting", !.token = d.attempt + 1]
    <3>1. d.attempt + 1 \in Nat
      BY <2>1
    <3>2. [run EXCEPT !.at = "inspecting", !.token = d.attempt + 1] \in Reaping
      BY <3>1 DEF Reaping
    <3>3. QED  BY <3>2
  <2>5. to.at = "inspecting" /\ to.token = d.attempt + 1 /\ to.todo = run.todo
    BY <2>4 DEF Reaping
  <2>6. ReaperStep(r, "claiming", to)
    BY <2>2, <2>4
  <2>7. \A t \in SessionIds : deletion'[t] = IF t = s THEN new ELSE deletion[t]
    BY <2>2, <2>3 DEF RemovalInv, SessionsTypeOK
  <2>8. SessionsTypeOK'
    <3>1. deletion' \in [SessionIds -> Deletion \cup {Nobody}]
      BY <2>2, <2>3 DEF RemovalInv, SessionsTypeOK
    <3>2. QED  BY <1>2, <2>6, <3>1 DEF RemovalInv, SessionsTypeOK, ReaperStep
  <2>9. Forward
    <3>1. \A t \in SessionIds : deletion[t] # Nobody => deletion[t].attempt \in Nat
      BY DEF RemovalInv, SessionsTypeOK, Deletion
    <3>2. new # Nobody /\ new.by = d.by /\ new.attempt \in Nat /\ new.attempt > d.attempt
      BY <2>1, <2>3
    <3>3. QED  BY <1>2, <1>5, <3>1, <3>2, <2>7 DEF Forward
  <2>10. Sound(to)'
    <3>1. \A b \in Containers : Works(to, b) => b = c
      BY <1>3, <2>5 DEF Works
    <3>2. ClaimOf(to, c, deletion'[Home[c]])
      <4>1. deletion'[Home[c]] = new
        BY <1>4, <2>7
      <4>2. new # Nobody /\ new.container = c
        BY <2>3
      <4>3. to.token = new.attempt /\ new.attempt \in Nat
        BY <2>1, <2>3, <2>5
      <4>4. QED  BY <4>1, <4>2, <4>3 DEF ClaimOf
    <3>3. QED  BY <1>2, <2>5, <3>1, <3>2 DEF Sound, Works
  <2>11. \A b \in Containers : box'[b].state = "removed" => deletion'[Home[b]] # Nobody
    BY <1>2, <2>3, <2>7 DEF RemovalInv, Gone
  <2>12. \A t \in SessionIds : deletion'[t] # Nobody /\ deletion'[t].status = "completed" =>
           deletion[t].status = "completed" /\ deletion'[t].container = deletion[t].container
    BY <2>3, <2>7
  <2>13. \A t \in SessionIds : deletion[t] = Nobody => deletion'[t] = Nobody
    BY <1>5, <2>1, <2>7
  <2>14. QED  BY <2>6, <2>8, <2>9, <2>10, <2>11, <2>12, <2>13, ReaperKeeps
<1>8. QED  BY <1>6, <1>7

\* A container is removed by a run that works on it.
LEMMA RemoveKeeps ==
  ASSUME RemovalInv, NEW r \in Reapers, RemoveContainer(r) PROVE RemovalInv'
<1>1. PICK run \in Reaping : run = reaping[r]
  BY DEF RemovalInv, SessionsTypeOK
<1>2. run.at = "removing" /\ run.todo # <<>> /\ run.todo \in Seq(Containers) /\ Sound(run)
  BY <1>1 DEF RemoveContainer, RemovalInv, Reaped, Sound, Reaping
<1>3. PICK c \in Containers : c = Head(run.todo)
  BY <1>2
<1>4. deletion' = deletion
  BY DEF RemoveContainer
<1>5. CASE /\ ReaperStep(r, "removing", [run EXCEPT !.at = "failing"]) /\ box' = box
  BY <1>1, <1>2, <1>4, <1>5, RunGoesOn
<1>6. CASE /\ ReaperStep(r, "removing", [run EXCEPT !.at = "completing"])
           /\ box' = [box EXCEPT ![c].state = "removed"]
  <2>1. PICK to \in Reaping : to = [run EXCEPT !.at = "completing"]
    BY DEF Reaping
  <2>2. to.at = "completing" /\ to.todo = run.todo /\ to.token = run.token
    BY <2>1 DEF Reaping
  <2>3. ReaperStep(r, "removing", to)
    BY <1>6, <2>1
  <2>4. /\ \A b \in Containers : b # c => box'[b] = box[b]
        /\ box'[c].state = "removed"
        /\ box' \in [Containers -> Box]
    BY <1>6 DEF RemovalInv, SessionsTypeOK, Box
  <2>5. SessionsTypeOK'
    BY <1>4, <2>3, <2>4 DEF RemovalInv, SessionsTypeOK, ReaperStep
  <2>6. Forward
    BY <1>4, <2>4 DEF Forward, RemovalInv, SessionsTypeOK, Deletion
  <2>7. Works(run, c) /\ \A b \in Containers : Works(to, b) => b = c
    BY <1>2, <1>3, <2>2 DEF Works
  <2>8. ClaimOf(run, c, deletion[Home[c]])
    BY <1>2, <2>7 DEF Sound
  <2>9. Sound(to)'
    <3>1. ClaimOf(to, c, deletion'[Home[c]])
      BY <1>4, <2>2, <2>8 DEF ClaimOf
    <3>2. QED  BY <1>2, <2>2, <2>4, <2>7, <3>1 DEF Sound, Works
  <2>10. \A b \in Containers : box'[b].state = "removed" => deletion'[Home[b]] # Nobody
    BY <1>4, <2>4, <2>8 DEF RemovalInv, Gone, ClaimOf
  <2>11. \A t \in SessionIds : deletion'[t] # Nobody /\ deletion'[t].status = "completed" =>
           deletion[t].status = "completed" /\ deletion'[t].container = deletion[t].container
    BY <1>4
  <2>12. \A t \in SessionIds : deletion[t] = Nobody => deletion'[t] = Nobody
    BY <1>4
  <2>13. QED  BY <2>3, <2>5, <2>6, <2>9, <2>10, <2>11, <2>12, ReaperKeeps
<1>7. QED  BY <1>1, <1>3, <1>5, <1>6 DEF RemoveContainer, Target

\* A run changes the status of the record it holds, and ends or goes on with
\* the next container.
LEMMA SettleKeeps ==
  ASSUME RemovalInv, NEW r \in Reapers, NEW s \in SessionIds, NEW from, NEW to \in Reaping,
         ReaperStep(r, from, to), to.at \in {"idle", "claiming"},
         NEW status \in {"completed", "failed"}, box' = box,
         deletion[s] # Nobody, deletion[s].status = "claimed",
         deletion' = [deletion EXCEPT ![s] = [deletion[s] EXCEPT !.status = status]],
         status = "completed" =>
           /\ deletion[s].container \in Containers
           /\ box[deletion[s].container].state = "removed"
  PROVE  RemovalInv'
<1>1. PICK d \in Deletion : d = deletion[s]
  BY DEF RemovalInv, SessionsTypeOK
<1>2. PICK new \in Deletion : new = [d EXCEPT !.status = status]
  BY DEF Deletion
<1>3. /\ new.by = d.by /\ new.attempt = d.attempt /\ new.container = d.container
      /\ new.status = status /\ d.attempt \in Nat /\ new # Nobody
  BY <1>2 DEF Deletion
<1>4. deletion' = [deletion EXCEPT ![s] = new]
  BY <1>1, <1>2
<1>5. \A t \in SessionIds : deletion'[t] = IF t = s THEN new ELSE deletion[t]
  BY <1>4 DEF RemovalInv, SessionsTypeOK
<1>6. SessionsTypeOK'
  <2>1. deletion' \in [SessionIds -> Deletion \cup {Nobody}]
    BY <1>4 DEF RemovalInv, SessionsTypeOK
  <2>2. QED  BY <2>1 DEF RemovalInv, SessionsTypeOK, ReaperStep
<1>7. Forward
  <2>1. \A t \in SessionIds : deletion[t] # Nobody => deletion[t].attempt \in Nat
    BY DEF RemovalInv, SessionsTypeOK, Deletion
  <2>2. QED  BY <1>1, <1>3, <1>5, <2>1 DEF Forward
<1>8. Sound(to)'
  BY DEF Sound, Works
<1>9. \A b \in Containers : box'[b].state = "removed" => deletion'[Home[b]] # Nobody
  BY <1>3, <1>5 DEF RemovalInv, Gone
<1>10. ASSUME NEW t \in SessionIds, deletion'[t] # Nobody, deletion'[t].status = "completed"
       PROVE  \/ deletion[t].status = "completed" /\ deletion'[t].container = deletion[t].container
              \/ /\ deletion'[t].container \in Containers
                 /\ box'[deletion'[t].container].state = "removed"
  BY <1>1, <1>3, <1>5, <1>10
<1>11. \A t \in SessionIds : deletion[t] = Nobody => deletion'[t] = Nobody
  BY <1>5
<1>12. QED  BY <1>6, <1>7, <1>8, <1>9, <1>10, <1>11, ReaperKeeps

\* The record that is completed names the container that this run removed.
LEMMA CompleteKeeps ==
  ASSUME RemovalInv, NEW r \in Reapers, CompleteDeletion(r) PROVE RemovalInv'
<1>1. PICK run \in Reaping : run = reaping[r]
  BY DEF RemovalInv, SessionsTypeOK
<1>2. /\ run.at = "completing" /\ run.todo # <<>> /\ run.todo \in Seq(Containers)
      /\ Sound(run) /\ box' = box
  BY <1>1 DEF CompleteDeletion, RemovalInv, Reaped, Sound, Reaping
<1>3. PICK c \in Containers : c = Head(run.todo)
  BY <1>2
<1>4. PICK s \in SessionIds : s = Home[c]
  OBVIOUS
<1>5. ClaimOf(run, c, deletion[s]) /\ box[c].state = "removed"
  BY <1>2, <1>3, <1>4 DEF Sound, Works
<1>6. CASE ~Holds(r, deletion[s])
  <2>1. ReaperStep(r, "completing", [reaping[r] EXCEPT !.at = "failing"]) /\ UNCHANGED <<deletion, box>>
    BY <1>1, <1>2, <1>3, <1>4, <1>6 DEF CompleteDeletion, Target
  <2>2. QED  BY <1>1, <1>2, <2>1, RunGoesOn
<1>7. CASE Holds(r, deletion[s])
  <2>1. deletion[s].status = "claimed" /\ deletion[s].container = c /\ deletion[s] # Nobody
    BY <1>1, <1>5, <1>7 DEF Holds, ClaimOf
  <2>2. PICK to \in Reaping : to = [run EXCEPT !.at = "claiming", !.todo = Tail(@), !.token = 0]
    <3>1. Tail(run.todo) \in Seq(Containers)
      BY <1>2
    <3>2. [run EXCEPT !.at = "claiming", !.todo = Tail(@), !.token = 0] \in Reaping
      BY <3>1 DEF Reaping
    <3>3. QED  BY <3>2
  <2>3. to.at = "claiming"
    BY <2>2 DEF Reaping
  <2>4. /\ ReaperStep(r, "completing", to)
        /\ deletion' = [deletion EXCEPT ![s] = [deletion[s] EXCEPT !.status = "completed"]]
    BY <1>1, <1>3, <1>4, <1>7, <2>2 DEF CompleteDeletion, Target
  <2>5. QED  BY <1>2, <1>5, <2>1, <2>3, <2>4, SettleKeeps
<1>8. QED  BY <1>6, <1>7

\* The record of a run that failed may be claimed again.
LEMMA FailKeeps ==
  ASSUME RemovalInv, NEW r \in Reapers, FailDeletion(r) PROVE RemovalInv'
<1>1. PICK run \in Reaping : run = reaping[r]
  BY DEF RemovalInv, SessionsTypeOK
<1>2. /\ run.at = "failing" /\ run.todo # <<>> /\ run.todo \in Seq(Containers)
      /\ Sound(run) /\ box' = box /\ ReaperStep(r, "failing", NoRun)
  BY <1>1 DEF FailDeletion, ReaperStep, RemovalInv, Reaped, Sound, Reaping
<1>3. PICK c \in Containers : c = Head(run.todo)
  BY <1>2
<1>4. PICK s \in SessionIds : s = Home[c]
  OBVIOUS
<1>5. deletion[s] # Nobody
  BY <1>2, <1>3, <1>4 DEF Sound, Works, ClaimOf
<1>6. CASE ~Holds(r, deletion[s])
  <2>1. deletion' = deletion
    BY <1>1, <1>3, <1>4, <1>6 DEF FailDeletion, Target
  <2>2. QED  BY <1>2, <2>1, IdleRun, ReaperMoves
<1>7. CASE Holds(r, deletion[s])
  <2>1. deletion[s].status = "claimed"
    BY <1>7 DEF Holds
  <2>2. deletion' = [deletion EXCEPT ![s] = [deletion[s] EXCEPT !.status = "failed"]]
    BY <1>1, <1>3, <1>4, <1>7 DEF FailDeletion, Target
  <2>3. NoRun.at = "idle"
    BY DEF NoRun
  <2>4. QED  BY <1>2, <1>5, <2>1, <2>2, <2>3, IdleRun, SettleKeeps
<1>8. QED  BY <1>6, <1>7

LEMMA RemovalStays == RemovalInv /\ [SessionsNext]_sessionsVars => RemovalInv'
<1> SUFFICES ASSUME RemovalInv, [SessionsNext]_sessionsVars PROVE RemovalInv'
  OBVIOUS
<1>1. ASSUME NEW s \in SessionIds, NEW p \in Principals,
             StartSession(s, p) \/ BeginAccess(p, s) \/ BeginDelete(p, s)
      PROVE  RemovalInv'
  BY <1>1, OwnershipKeeps, DeleteKeeps
<1>2. ASSUME NEW s \in SessionIds, ClaimSession(s) \/ ExpireDeletionLease(s) PROVE RemovalInv'
  <2>1. CASE ExpireDeletionLease(s)
    BY <2>1, ExpiryKeeps
  <2>2. CASE ClaimSession(s)
    <3>1. initiator[s] \in Principals
      BY <2>2 DEF ClaimSession, RemovalInv, SessionsTypeOK
    <3>2. QED  BY <2>2, <3>1, OwnershipKeeps
  <2>3. QED  BY <1>2, <2>1, <2>2
<1>3. ASSUME NEW p \in Principals,
             \/ AccessVerified(p) \/ DeleteVerified(p) \/ DeleteFound(p)
             \/ DeleteReset(p) \/ RequestDeletion(p) \/ DeleteLost(p)
      PROVE  RemovalInv'
  <2>1. CASE RequestDeletion(p)
    BY <2>1, RequestKeeps
  <2>2. CASE DeleteVerified(p) \/ DeleteFound(p) \/ DeleteReset(p) \/ DeleteLost(p)
    BY <2>2, DeleteKeeps
  <2>3. CASE AccessVerified(p)
    BY <2>3, AccessKeeps
  <2>4. QED  BY <1>3, <2>1, <2>2, <2>3
<1>4. ASSUME NEW p \in Principals, NEW c \in Containers, UseSession(p, c) PROVE RemovalInv'
  BY <1>4, SandboxKeeps
<1>5. ASSUME NEW c \in Containers, StopSandbox(c) PROVE RemovalInv'
  BY <1>5, SandboxKeeps
<1>6. ASSUME NEW r \in Reapers, NEW forced \in SessionIds \cup {Nobody}, BeginReaping(r, forced) PROVE RemovalInv'
  BY <1>6, ReaperOnlyMoves
<1>7. ASSUME NEW r \in Reapers, ReaperWorks(r) \/ ReaperError(r) \/ ReaperCrash(r) PROVE RemovalInv'
  BY <1>7, ReaperOnlyMoves, ClaimKeeps, RemoveKeeps, CompleteKeeps, FailKeeps DEF ReaperWorks
<1>8. CASE SessionsTick
  BY <1>8, TickKeeps
<1>9. CASE UNCHANGED sessionsVars
  BY <1>9 DEF sessionsVars, RemovalInv, SessionsTypeOK, Owned, Asked, DeletersOwn,
              Reaped, Sound, Works, ClaimOf, Gone, Completed
<1>10. QED  BY <1>1, <1>2, <1>3, <1>4, <1>5, <1>6, <1>7, <1>8, <1>9 DEF SessionsNext

(* A sandbox is only removed after the principal that started its session asked
   for it and Eve retired the session, whatever requests fail and whichever of
   the overlapping reapers remove and record it; a completed record names a
   container that is gone. *)
THEOREM RemovalsAreAuthorized == SessionsSpec => []RemovalIsAuthorized
<1>1. RemovalInv => RemovalIsAuthorized
  BY InvAuthorizes
<1>2. QED  BY <1>1, RemovalStarts, RemovalStays, PTL DEF SessionsSpec
=============================================================================
