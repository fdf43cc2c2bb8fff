--------------------------- MODULE ServicesProofs ---------------------------
(***************************************************************************)
(* What holds of the components that keep their state to themselves, for   *)
(* every value of their constants: the installations, the run policy, the  *)
(* publications, the readers of streams, the composer, the preferences,    *)
(* the configuration, the request boundaries and the thread's follow-ups.  *)
(* Each part states an inductive invariant, shows that it holds at first   *)
(* and that every action preserves it, and derives the promises of the     *)
(* component from it.                                                      *)
(***************************************************************************)
EXTENDS Extensions, RunPolicy, Publications, Followers, Composer, Preferences, Deployment, Requests,
        ThreadView, FiniteSetTheorems, SequenceTheorems, NaturalsInduction, TLAPS

-----------------------------------------------------------------------------
(* Extensions: installations, their audit trail and the grants of sessions. *)

\* An operator's transaction owns the row it will write: at most one transaction of
\* an extension holds the row's lock, it holds the lock when it is about to commit,
\* and the state it read is the row's unless it found none.
TransactionsOwnTheirRow ==
  \A a \in Admins : changing[a] # NoChange =>
    /\ changing[a].at = "auditing" => changing[a].locked
    /\ changing[a].locked => ~LockedByOther(a, changing[a].ext)
    /\ \/ changing[a].before = Absent
       \/ changing[a].locked /\ changing[a].before = installed[changing[a].ext]

\* A session that is not running has been granted nothing, and its latest question
\* to the audit trail lies in the past.
GrantsArePast ==
  \A s \in Conversations : session[s] # NoSession =>
    /\ session[s].seen <= Len(auditTrail)
    /\ session[s].at # "running" => session[s].granted = {}

\* The inductive invariant of the installations: who owns a row while it changes, and
\* what the audit trail and the grants of the past say.
ExtensionsInv ==
  /\ ExtensionsTypeOK
  /\ TransactionsOwnTheirRow
  /\ AuditTellsTheState
  /\ GrantsArePast
  /\ GrantsWereEnabled

\* It holds of an empty store.
LEMMA ExtensionsStart == ExtensionsInit => ExtensionsInv
<1> SUFFICES ASSUME ExtensionsInit PROVE ExtensionsInv
  OBVIOUS
<1> USE ExtensionsAssumption DEF ExtensionsInit
<1>1. ExtensionsTypeOK
  BY DEF ExtensionsTypeOK, MaybeInstalled
<1>2. TransactionsOwnTheirRow
  BY DEF TransactionsOwnTheirRow
<1>3. AuditTellsTheState
  BY DEF AuditTellsTheState, AuditedState
<1>4. GrantsArePast /\ GrantsWereEnabled
  BY DEF GrantsArePast, GrantsWereEnabled
<1> QED BY <1>1, <1>2, <1>3, <1>4 DEF ExtensionsInv

\* A set of numbers that is not empty has a least one.
LEMMA LeastNumber ==
  ASSUME NEW T \in SUBSET Nat, T # {}
  PROVE  \E n \in T : \A m \in T : n <= m
<1> DEFINE R == {ss \in Nat \X Nat : ss[1] < ss[2]}
<1>1. IsWellFoundedOn(R, Nat)
  BY NatLessThanWellFounded DEF OpToRel
<1>2. \A x, y \in Nat : x < y => <<x, y>> \in R
  OBVIOUS
<1> HIDE DEF R
<1>3. PICK n \in T : \A m \in T : ~ (<<m, n>> \in R)
  BY <1>1, WFMin
<1>4. \A m \in T : ~ (m < n)
  BY <1>2, <1>3
<1>5. QED
  BY <1>4

\* The last of a nonempty set of positions up to n.
LEMMA LastPosition ==
  ASSUME NEW n \in Nat, NEW S \in SUBSET (1..n), S # {}
  PROVE  \E i \in S : \A j \in S : j <= i
<1> DEFINE T == {k \in Nat : \E i \in S : k = n - i}
<1>1. T \in SUBSET Nat /\ T # {}
  <2>1. \A i \in S : n - i \in Nat
    OBVIOUS
  <2> QED BY <2>1
<1>2. PICK k \in T : \A m \in T : k <= m
  <2> HIDE DEF T
  <2>1. QED BY <1>1, LeastNumber
<1>3. PICK i \in S : k = n - i
  BY <1>2
<1>4. ASSUME NEW j \in S PROVE j <= i
  <2>1. n - j \in T
    OBVIOUS
  <2>2. n - i <= n - j
    <3> HIDE DEF T
    <3> QED BY <2>1, <1>2, <1>3
  <2> QED BY <2>2
<1> QED BY <1>4

\* What the first n events leave behind does not change when an event is added.
LEMMA AuditIsKept ==
  ASSUME auditTrail \in Seq([ext: Exts, before: MaybeInstalled, after: Installation]),
         NEW e, auditTrail' = Append(auditTrail, e),
         NEW n \in Nat, n <= Len(auditTrail), NEW x
  PROVE  AuditedState(n, x)' = AuditedState(n, x)
<1> DEFINE S == {i \in 1..n : auditTrail[i].ext = x}
           last == CHOOSE i \in S : \A j \in S : j <= i
<1>1. \A i \in 1..n : auditTrail'[i] = auditTrail[i]
  OBVIOUS
<1>2. {i \in 1..n : auditTrail'[i].ext = x} = S
  BY <1>1
<1>3. CASE S = {}
  BY <1>2, <1>3 DEF AuditedState
<1>4. CASE S # {}
  <2>1. \E i \in S : \A j \in S : j <= i
    <3>1. S \in SUBSET (1..n)
      OBVIOUS
    <3> HIDE DEF S
    <3> QED BY <3>1, <1>4, LastPosition
  <2>2. last \in S
    BY <2>1
  <2>3. auditTrail'[last] = auditTrail[last]
    <3> HIDE DEF last
    <3> QED BY <2>2, <1>1
  <2>4. AuditedState(n, x) = auditTrail[last].after
    BY <1>4 DEF AuditedState
  <2>5. AuditedState(n, x)' = auditTrail'[last].after
    BY <1>4, <1>2 DEF AuditedState
  <2> QED BY <2>3, <2>4, <2>5
<1> QED BY <1>3, <1>4

\* An added event decides the state of its extension, and of no other.
LEMMA AuditIsExtended ==
  ASSUME auditTrail \in Seq([ext: Exts, before: MaybeInstalled, after: Installation]),
         NEW e, auditTrail' = Append(auditTrail, e), NEW x
  PROVE  AuditedState(Len(auditTrail), x)'
           = IF e.ext = x THEN e.after ELSE AuditedState(Len(auditTrail), x)
<1>0. PICK n \in Nat : n = Len(auditTrail)
  OBVIOUS
<1> DEFINE S == {i \in 1..n + 1 : auditTrail'[i].ext = x}
<1>1. Len(auditTrail') = n + 1 /\ auditTrail'[n + 1] = e
  BY <1>0
<1>a. AuditedState(Len(auditTrail), x)'
        = IF S = {} THEN Absent ELSE auditTrail'[CHOOSE i \in S : \A j \in S : j <= i].after
  BY <1>1 DEF AuditedState
<1>2. CASE e.ext = x
  <2>1. n + 1 \in S /\ \A j \in S : j <= n + 1
    BY <1>1, <1>2
  <2>2. (CHOOSE i \in S : \A j \in S : j <= i) = n + 1
    <3>1. ASSUME NEW i \in S, \A j \in S : j <= i PROVE i = n + 1
      <4>1. i \in Int /\ i <= n + 1
        OBVIOUS
      <4>2. n + 1 <= i
        BY <2>1, <3>1
      <4> QED BY <4>1, <4>2
    <3> DEFINE Last1(i) == i \in S /\ \A j \in S : j <= i
    <3>2. (CHOOSE i \in S : \A j \in S : j <= i) = CHOOSE i : Last1(i)
      OBVIOUS
    <3>3. Last1(n + 1)
      BY <2>1
    <3>4. Last1(CHOOSE i : Last1(i))
      <4> HIDE DEF Last1
      <4> QED BY <3>3, Zenon
    <3> QED BY <3>1, <3>2, <3>4
  <2> HIDE DEF S
  <2> QED BY <2>1, <2>2, <1>1, <1>2, <1>a
<1>3. CASE e.ext # x
  <2>1. {i \in 1..n : auditTrail'[i].ext = x} = S
    BY <1>1, <1>3
  <2>2. AuditedState(Len(auditTrail), x)' = AuditedState(n, x)'
    <3>1. AuditedState(n, x)'
            = IF S = {} THEN Absent ELSE auditTrail'[CHOOSE i \in S : \A j \in S : j <= i].after
      <4>1. AuditedState(n, x)'
              = IF {i \in 1..n : auditTrail'[i].ext = x} = {} THEN Absent
                ELSE auditTrail'[CHOOSE i \in {k \in 1..n : auditTrail'[k].ext = x} :
                                  \A j \in {k \in 1..n : auditTrail'[k].ext = x} : j <= i].after
        BY DEF AuditedState
      <4> QED BY <4>1, <2>1
    <3> HIDE DEF S
    <3> QED BY <3>1, <1>a
  <2>3. AuditedState(n, x)' = AuditedState(n, x)
    BY <1>0, AuditIsKept
  <2>4. AuditedState(Len(auditTrail), x)' = AuditedState(Len(auditTrail), x)
    <3> HIDE DEF S
    <3> QED BY <2>2, <2>3, <1>0, Zenon
  <2> HIDE DEF S
  <2> QED BY <2>4, <1>3, Zenon
<1> HIDE DEF S
<1> QED BY <1>2, <1>3, Zenon

\* The configuration may change under the installations, the audit trail and the grants.
LEMMA AuditIsUndisturbed ==
  ASSUME AuditTellsTheState, UNCHANGED <<installed, auditTrail>>
  PROVE  AuditTellsTheState'
<1>1. \A n, x : AuditedState(n, x)' = AuditedState(n, x)
  BY DEF AuditedState
<1> QED BY <1>1 DEF AuditTellsTheState

\* A new event of the audit trail takes no grant back: the positions a grant was judged
\* at lie in the past.
LEMMA GrantsAreUndisturbed ==
  ASSUME GrantsArePast, GrantsWereEnabled, UNCHANGED <<session, auditTrail>>
  PROVE  GrantsArePast' /\ GrantsWereEnabled'
<1>1. GrantsArePast'
  BY DEF GrantsArePast
<1>2. \A n, x : AuditedState(n, x)' = AuditedState(n, x)
  BY DEF AuditedState
<1>3. ASSUME NEW s \in Conversations, session'[s] # NoSession, NEW x \in session'[s].granted
      PROVE  LET state == AuditedState(session[s].seen, x)' IN
             /\ x \in session'[s].pinned.allowed
             /\ IF state = Absent THEN DefaultEnabled(session'[s].pinned, x) ELSE state.status = "enabled"
  <2>1. PICK n : n = session[s].seen
    OBVIOUS
  <2>2. session' = session
    OBVIOUS
  <2>3. AuditedState(session[s].seen, x)' = AuditedState(n, x)
    BY <2>1, <2>2, <1>2
  <2> QED BY <2>1, <2>2, <2>3, <1>3 DEF GrantsWereEnabled
<1> QED BY <1>1, <1>3 DEF GrantsWereEnabled, DefaultEnabled

\* A transaction that begins, reads, waits for its lock or rolls back.
LEMMA TransactionStep ==
  ASSUME ExtensionsInv, NEW a \in Admins, NEW w,
         changing' = [changing EXCEPT ![a] = w],
         w \in Change \cup {NoChange},
         w # NoChange =>
           /\ w.at = "auditing" => w.locked
           /\ w.locked => ~LockedByOther(a, w.ext)
           /\ w.before = Absent \/ (w.locked /\ w.before = installed[w.ext]),
         UNCHANGED <<published, revokedRefs, versions, installed, auditTrail, session>>
  PROVE  ExtensionsInv'
<1> USE DEF ExtensionsInv
<1>1. ExtensionsTypeOK'
  BY DEF ExtensionsTypeOK
<1>2. changing'[a] = w /\ \A b \in Admins \ {a} : changing'[b] = changing[b]
  BY DEF ExtensionsTypeOK
<1>3. TransactionsOwnTheirRow'
  <2> SUFFICES ASSUME NEW b \in Admins, changing'[b] # NoChange
      PROVE  /\ changing'[b].at = "auditing" => changing'[b].locked
             /\ changing'[b].locked => ~LockedByOther(b, changing[b].ext)'
             /\ \/ changing'[b].before = Absent
                \/ changing'[b].locked /\ changing'[b].before = installed'[changing'[b].ext]
    BY DEF TransactionsOwnTheirRow
  <2>1. CASE b = a
    BY <2>1, <1>2 DEF LockedByOther
  <2>2. CASE b # a
    <3>1. ~(changing'[b].locked /\ w # NoChange /\ w.locked /\ w.ext = changing[b].ext)
      BY <2>2, <1>2 DEF LockedByOther
    <3> QED BY <2>2, <1>2, <3>1 DEF LockedByOther, TransactionsOwnTheirRow
  <2> QED BY <2>1, <2>2
<1>4. AuditTellsTheState' /\ GrantsArePast' /\ GrantsWereEnabled'
  BY AuditIsUndisturbed, GrantsAreUndisturbed
<1> QED BY <1>1, <1>3, <1>4

\* A transaction that commits writes the state its audit event tells.
LEMMA CommitStep ==
  ASSUME ExtensionsInv, NEW a \in Admins, CommitChange(a)
  PROVE  ExtensionsInv'
<1> USE DEF ExtensionsInv, CommitChange
<1> DEFINE trailType == [ext: Exts, before: MaybeInstalled, after: Installation]
<1>0. PICK t : t = changing[a]
  OBVIOUS
<1>1. t \in Change /\ t.at = "auditing" /\ t # NoChange
  BY <1>0 DEF ExtensionsTypeOK, NoChange
<1>2. t.ext \in Exts /\ t.to \in Installation /\ t.before \in MaybeInstalled
  BY <1>1 DEF Change
<1>3. PICK e : e = [ext |-> t.ext, before |-> t.before, after |-> t.to]
  OBVIOUS
<1>4. e \in trailType /\ e.ext = t.ext /\ e.before = t.before /\ e.after = t.to
  BY <1>2, <1>3
<1>5. /\ installed' = [installed EXCEPT ![t.ext] = t.to]
      /\ auditTrail' = Append(auditTrail, e)
      /\ changing' = [changing EXCEPT ![a] = NoChange]
      /\ UNCHANGED <<published, revokedRefs, versions, session>>
  BY <1>0, <1>3
<1>6. auditTrail \in Seq(trailType)
  BY DEF ExtensionsTypeOK
<1>7. /\ Len(auditTrail) \in Nat /\ Len(auditTrail') = Len(auditTrail) + 1
      /\ \A i \in 1..Len(auditTrail) : auditTrail'[i] = auditTrail[i]
      /\ auditTrail'[Len(auditTrail) + 1] = e
      /\ auditTrail' \in Seq(trailType)
  BY <1>4, <1>5, <1>6
<1>8. \A n \in Nat : \A x : n <= Len(auditTrail) => AuditedState(n, x)' = AuditedState(n, x)
  BY <1>5, <1>6, AuditIsKept
<1> HIDE DEF CommitChange
<1>9. ExtensionsTypeOK'
  <2>1. installed' \in [Exts -> MaybeInstalled]
    BY <1>2, <1>5 DEF ExtensionsTypeOK, MaybeInstalled
  <2>2. changing' \in [Admins -> Change \cup {NoChange}]
    BY <1>5 DEF ExtensionsTypeOK
  <2> QED BY <2>1, <2>2, <1>5, <1>7 DEF ExtensionsTypeOK
<1>10. TransactionsOwnTheirRow'
  <2> SUFFICES ASSUME NEW b \in Admins, changing'[b] # NoChange
      PROVE  /\ changing'[b].at = "auditing" => changing'[b].locked
             /\ changing'[b].locked => ~LockedByOther(b, changing[b].ext)'
             /\ \/ changing'[b].before = Absent
                \/ changing'[b].locked /\ changing'[b].before = installed'[changing'[b].ext]
    BY DEF TransactionsOwnTheirRow
  <2>1. b # a /\ changing'[b] = changing[b] /\ changing[b] # NoChange
    BY <1>5 DEF ExtensionsTypeOK
  <2>2. \A c \in Admins : changing'[c] # NoChange => changing'[c] = changing[c]
    BY <1>5 DEF ExtensionsTypeOK
  <2>3. LockedByOther(b, changing[b].ext)' => LockedByOther(b, changing[b].ext)
    BY <2>1, <2>2 DEF LockedByOther
  <2>4. changing[b].locked => changing[b].ext # t.ext
    BY <2>1, <1>0, <1>1 DEF TransactionsOwnTheirRow, LockedByOther
  <2>5. changing[b].ext \in Exts
    BY <2>1 DEF ExtensionsTypeOK, Change
  <2>6. changing[b].locked => installed'[changing[b].ext] = installed[changing[b].ext]
    BY <2>4, <2>5, <1>5 DEF ExtensionsTypeOK
  <2> QED BY <2>1, <2>3, <2>6 DEF TransactionsOwnTheirRow
<1>11. AuditTellsTheState'
  <2>1. ASSUME NEW x \in Exts PROVE installed'[x] = AuditedState(Len(auditTrail), x)'
    <3>1. AuditedState(Len(auditTrail), x)'
            = IF e.ext = x THEN e.after ELSE AuditedState(Len(auditTrail), x)
      BY <1>5, <1>6, AuditIsExtended
    <3>2. installed[x] = AuditedState(Len(auditTrail), x)
      BY DEF AuditTellsTheState
    <3>3. installed'[x] = IF t.ext = x THEN t.to ELSE installed[x]
      BY <1>5 DEF ExtensionsTypeOK
    <3> QED BY <3>1, <3>2, <3>3, <1>4
  <2>2. ASSUME NEW i \in 1..Len(auditTrail) + 1
        PROVE  auditTrail'[i].before \in {Absent, AuditedState(i - 1, auditTrail[i].ext)'}
    <3>1. CASE i <= Len(auditTrail)
      <4>1. auditTrail[i].before \in {Absent, AuditedState(i - 1, auditTrail[i].ext)}
        BY <3>1, <1>7 DEF AuditTellsTheState
      <4>3. PICK y : y = auditTrail[i].ext
        OBVIOUS
      <4>4. AuditedState(i - 1, y)' = AuditedState(i - 1, y)
        BY <3>1, <1>7, <1>8
      <4>5. auditTrail'[i].ext = y /\ auditTrail'[i].before = auditTrail[i].before
        BY <4>3, <3>1, <1>7
      <4>6. AuditedState(i - 1, auditTrail[i].ext)' = AuditedState(i - 1, y)
        BY <4>4, <4>5
      <4> QED BY <4>1, <4>3, <4>5, <4>6
    <3>2. CASE i = Len(auditTrail) + 1
      <4>1. installed[t.ext] = AuditedState(i - 1, t.ext)
        BY <3>2, <1>2, <1>7 DEF AuditTellsTheState
      <4>2. t.before \in {Absent, installed[t.ext]}
        BY <1>0, <1>1 DEF TransactionsOwnTheirRow
      <4>3. AuditedState(i - 1, t.ext)' = AuditedState(i - 1, t.ext)
        BY <3>2, <1>7, <1>8
      <4>4. auditTrail'[i].ext = t.ext /\ auditTrail'[i].before = t.before
        BY <3>2, <1>4, <1>7
      <4>5. AuditedState(i - 1, auditTrail[i].ext)' = AuditedState(i - 1, t.ext)'
        BY <4>4
      <4> QED BY <4>1, <4>2, <4>3, <4>4, <4>5
    <3> QED BY <3>1, <3>2, <1>7
  <2> QED BY <2>1, <2>2, <1>7 DEF AuditTellsTheState
<1>12. GrantsArePast'
  BY <1>5, <1>7 DEF GrantsArePast, ExtensionsTypeOK, Session
<1>13. GrantsWereEnabled'
  <2> SUFFICES ASSUME NEW s \in Conversations, session[s] # NoSession, NEW x \in session[s].granted
      PROVE  LET state == AuditedState(session[s].seen, x)' IN
             /\ x \in session[s].pinned.allowed
             /\ IF state = Absent THEN DefaultEnabled(session[s].pinned, x) ELSE state.status = "enabled"
    BY <1>5 DEF GrantsWereEnabled, DefaultEnabled
  <2>1. PICK n \in Nat : n = session[s].seen
    BY DEF ExtensionsTypeOK, Session
  <2>2. session'[s].seen = n /\ n <= Len(auditTrail)
    BY <2>1, <1>5 DEF GrantsArePast
  <2>3. AuditedState(session[s].seen, x)' = AuditedState(n, x)
    BY <2>2, <1>8
  <2> QED BY <2>1, <2>3 DEF GrantsWereEnabled
<1> QED BY <1>9, <1>10, <1>11, <1>12, <1>13

\* A session that is granted what its profile allows and the audit trail enables.
LEMMA SessionStepIsSafe ==
  ASSUME ExtensionsInv, NEW s \in Conversations, NEW v \in Session, SessionStep(s, v),
         v.seen <= Len(auditTrail), v.at # "running" => v.granted = {},
         \A x \in v.granted :
           /\ x \in v.pinned.allowed
           /\ IF AuditedState(v.seen, x) = Absent THEN DefaultEnabled(v.pinned, x)
              ELSE AuditedState(v.seen, x).status = "enabled"
  PROVE  ExtensionsInv'
<1> USE DEF ExtensionsInv, SessionStep
<1>1. ExtensionsTypeOK'
  BY DEF ExtensionsTypeOK
<1>2. session'[s] = v /\ \A r \in Conversations \ {s} : session'[r] = session[r]
  BY DEF ExtensionsTypeOK
<1>3. TransactionsOwnTheirRow'
  BY DEF TransactionsOwnTheirRow, LockedByOther
<1>4. AuditTellsTheState'
  BY AuditIsUndisturbed
<1>5. GrantsArePast'
  BY <1>2 DEF GrantsArePast
<1>6. \A n, x : AuditedState(n, x)' = AuditedState(n, x)
  BY DEF AuditedState
<1>7. GrantsWereEnabled'
  <2> SUFFICES ASSUME NEW r \in Conversations, session'[r] # NoSession, NEW x \in session'[r].granted
      PROVE  LET state == AuditedState(session[r].seen, x)' IN
             /\ x \in session'[r].pinned.allowed
             /\ IF state = Absent THEN DefaultEnabled(session'[r].pinned, x) ELSE state.status = "enabled"
    BY DEF GrantsWereEnabled, DefaultEnabled
  <2>1. PICK n : n = session'[r].seen
    OBVIOUS
  <2>2. AuditedState(session[r].seen, x)' = AuditedState(n, x)
    BY <2>1, <1>6
  <2>3. CASE r = s
    BY <2>1, <2>2, <2>3, <1>2
  <2>4. CASE r # s
    BY <2>1, <2>2, <2>4, <1>2 DEF GrantsWereEnabled
  <2> QED BY <2>3, <2>4
<1> QED BY <1>1, <1>3, <1>4, <1>5, <1>7

\* What a request may ask for is in the profile.
LEMMA AskedIsAllowed ==
  ASSUME NEW c \in Configs, NEW requested, Resolvable(c, requested)
  PROVE  Asked(c, requested) \subseteq c.allowed /\ Asked(c, requested) \subseteq Exts
BY ExtensionsAssumption DEF Resolvable

\* Every step of operators, sessions and the deployment preserves the invariant.
LEMMA ExtensionsStep == ExtensionsInv /\ [ExtensionsNext]_extensionVars => ExtensionsInv'
<1> SUFFICES ASSUME ExtensionsInv, [ExtensionsNext]_extensionVars PROVE ExtensionsInv'
  OBVIOUS
<1> USE DEF ExtensionsInv
<1>types. /\ \A a \in Admins : changing[a] \in Change \cup {NoChange}
          /\ \A s \in Conversations : session[s] \in Session \cup {NoSession}
          /\ \A x \in Exts : installed[x] \in MaybeInstalled
          /\ Len(auditTrail) \in Nat
  BY DEF ExtensionsTypeOK
<1>1. ASSUME NEW a \in Admins, NEW x \in Exts, NEW to \in Installation, BeginChange(a, x, to)
      PROVE  ExtensionsInv'
  <2>1. PICK w : w = [at |-> "selecting", ext |-> x, to |-> to, before |-> Absent, locked |-> FALSE]
    OBVIOUS
  <2>2. w \in Change /\ w.before = Absent /\ ~w.locked /\ w.at # "auditing"
    BY <2>1 DEF Change, MaybeInstalled
  <2>3. changing' = [changing EXCEPT ![a] = w]
    BY <1>1, <2>1 DEF BeginChange
  <2>4. UNCHANGED <<published, revokedRefs, versions, installed, auditTrail, session>>
    BY <1>1 DEF BeginChange
  <2> QED BY <2>2, <2>3, <2>4, TransactionStep
<1>2. ASSUME NEW a \in Admins, SelectInstallation(a) PROVE ExtensionsInv'
  <2>1. PICK t : t = changing[a]
    OBVIOUS
  <2>2. t \in Change /\ t.ext \in Exts
    BY <2>1, <1>2, <1>types DEF SelectInstallation, NoChange, Change
  <2>3. PICK w : w = [t EXCEPT !.at = "upserting", !.before = installed[t.ext],
                              !.locked = installed[t.ext] # Absent]
    OBVIOUS
  <2>4. w.at = "upserting" /\ w.ext = t.ext /\ w.before = installed[t.ext]
    BY <2>2, <2>3 DEF Change
  <2>5. w.locked <=> installed[t.ext] # Absent
    BY <2>2, <2>3 DEF Change
  <2>6. w \in Change
    BY <2>2, <2>3, <1>types DEF Change
  <2>7. installed[t.ext] # Absent => ~LockedByOther(a, t.ext)
    BY <2>1, <1>2 DEF SelectInstallation
  <2>8. changing' = [changing EXCEPT ![a] = w]
    BY <2>1, <2>3, <1>2 DEF SelectInstallation
  <2>9. UNCHANGED <<published, revokedRefs, versions, installed, auditTrail, session>>
    BY <1>2 DEF SelectInstallation
  <2> QED BY <2>4, <2>5, <2>6, <2>7, <2>8, <2>9, TransactionStep
<1>3. ASSUME NEW a \in Admins, UpsertInstallation(a) PROVE ExtensionsInv'
  <2>1. PICK t : t = changing[a]
    OBVIOUS
  <2>2. t \in Change /\ t # NoChange
    BY <2>1, <1>3, <1>types DEF UpsertInstallation, NoChange, Change
  <2>3. PICK w : w = [t EXCEPT !.at = "auditing", !.locked = TRUE]
    OBVIOUS
  <2>4. w.ext = t.ext /\ w.before = t.before
    BY <2>2, <2>3 DEF Change
  <2>5. w.locked
    BY <2>2, <2>3 DEF Change
  <2>6. w \in Change
    BY <2>2, <2>3 DEF Change
  <2>7. ~LockedByOther(a, w.ext)
    BY <2>1, <2>4, <1>3 DEF UpsertInstallation
  <2>8. w.before = Absent \/ w.before = installed[w.ext]
    BY <2>1, <2>2, <2>4 DEF TransactionsOwnTheirRow
  <2>9. changing' = [changing EXCEPT ![a] = w]
    BY <2>1, <2>3, <1>3 DEF UpsertInstallation
  <2>10. UNCHANGED <<published, revokedRefs, versions, installed, auditTrail, session>>
    BY <1>3 DEF UpsertInstallation
  <2> QED BY <2>5, <2>6, <2>7, <2>8, <2>9, <2>10, TransactionStep
<1>4. ASSUME NEW a \in Admins, RollbackChange(a) PROVE ExtensionsInv'
  BY <1>4, TransactionStep DEF RollbackChange
<1>5. ASSUME \/ \E c \in Configs : PublishConfig(c)
             \/ \E x \in Exts : RestartWithRevoked(x)
             \/ UNCHANGED extensionVars
      PROVE  ExtensionsInv'
  <2>1. UNCHANGED <<installed, auditTrail, changing, session>>
    BY <1>5 DEF PublishConfig, RestartWithRevoked, extensionVars
  <2>2. ExtensionsTypeOK'
    <3>1. published' \in Configs /\ revokedRefs' \subseteq Exts /\ versions' \in 0..MaxPublished
      BY <1>5, ExtensionsAssumption DEF PublishConfig, RestartWithRevoked, extensionVars, ExtensionsTypeOK
    <3> QED BY <2>1, <3>1 DEF ExtensionsTypeOK
  <2>3. TransactionsOwnTheirRow'
    BY <2>1 DEF TransactionsOwnTheirRow, LockedByOther
  <2> QED BY <2>1, <2>2, <2>3, AuditIsUndisturbed, GrantsAreUndisturbed
<1>6. ASSUME NEW s \in Conversations, NEW requested \in SUBSET Exts \cup {{Absent}},
             StartRequest(s, requested)
      PROVE  ExtensionsInv'
  <2>1. PICK v : v = [at |-> "admitted", requested |-> Asked(published, requested),
                      pinned |-> published, granted |-> {}, seen |-> 0]
    OBVIOUS
  <2>2. v \in Session
    BY <2>1, <1>6, AskedIsAllowed DEF StartRequest, Session, ExtensionsTypeOK
  <2>3. v.granted = {} /\ v.seen = 0
    BY <2>1
  <2>4. SessionStep(s, v)
    BY <2>1, <1>6 DEF StartRequest
  <2> QED BY <2>2, <2>3, <2>4, <1>types, SessionStepIsSafe
<1>7. ASSUME NEW s \in Conversations, NEW requested, ContinueRequest(s, requested)
      PROVE  ExtensionsInv'
  <2>1. PICK u : u = session[s]
    OBVIOUS
  <2>2. u \in Session /\ u.granted = {} /\ u.seen <= Len(auditTrail)
    BY <2>1, <1>7, <1>types DEF ContinueRequest, GrantsArePast
  <2>3. PICK v : v = [u EXCEPT !.at = "admitted"]
    OBVIOUS
  <2>4. v \in Session /\ v.granted = {} /\ v.seen = u.seen
    BY <2>2, <2>3 DEF Session
  <2>5. SessionStep(s, v)
    BY <2>1, <2>3, <1>7 DEF ContinueRequest
  <2> QED BY <2>2, <2>4, <2>5, SessionStepIsSafe
<1>8. ASSUME NEW s \in Conversations, EndExtensionTurn(s) PROVE ExtensionsInv'
  <2>1. PICK u : u = session[s]
    OBVIOUS
  <2>2. u \in Session /\ u.seen <= Len(auditTrail)
    BY <2>1, <1>8, <1>types DEF EndExtensionTurn, GrantsArePast
  <2>3. PICK v : v = [u EXCEPT !.at = "waiting", !.granted = {}]
    OBVIOUS
  <2>4. v \in Session /\ v.granted = {} /\ v.seen = u.seen
    BY <2>2, <2>3 DEF Session
  <2>5. SessionStep(s, v)
    BY <2>1, <2>3, <1>8 DEF EndExtensionTurn
  <2> QED BY <2>2, <2>4, <2>5, SessionStepIsSafe
<1>9. ASSUME NEW s \in Conversations, ResolveSkills(s) PROVE ExtensionsInv'
  <2>1. PICK u : u = session[s]
    OBVIOUS
  <2>2. u \in Session /\ u.granted = {}
    BY <2>1, <1>9, <1>types DEF ResolveSkills, GrantsArePast
  <2> DEFINE allowed == Resolvable(u.pinned, u.requested) /\ AllEnabled(u.pinned, u.requested, installed)
  <2>3. PICK v : v = [u EXCEPT !.at = IF allowed THEN "running" ELSE "waiting",
                               !.granted = IF allowed THEN @ \cup u.requested ELSE {},
                               !.seen = Len(auditTrail)]
    OBVIOUS
  <2>4. SessionStep(s, v)
    BY <2>1, <2>3, <1>9 DEF ResolveSkills
  <2>5. /\ v.at = (IF allowed THEN "running" ELSE "waiting") /\ v.pinned = u.pinned
        /\ v.granted = (IF allowed THEN u.requested ELSE {}) /\ v.seen = Len(auditTrail)
    BY <2>2, <2>3 DEF Session
  <2>6. v \in Session
    BY <2>2, <2>3, <1>types DEF Session
  <2>7. ASSUME NEW x \in v.granted
        PROVE  /\ x \in v.pinned.allowed
               /\ IF AuditedState(v.seen, x) = Absent THEN DefaultEnabled(v.pinned, x)
                  ELSE AuditedState(v.seen, x).status = "enabled"
    <3>1. allowed /\ x \in u.requested /\ u.requested \subseteq Exts /\ u.pinned \in Configs
      BY <2>2, <2>5, <2>7 DEF Session
    <3>2. x \in u.pinned.allowed
      BY <3>1, ExtensionsAssumption DEF Resolvable, Asked
    <3>3. AuditedState(Len(auditTrail), x) = installed[x]
      BY <3>1 DEF AuditTellsTheState
    <3>4. IF installed[x] = Absent THEN DefaultEnabled(u.pinned, x) ELSE installed[x].status = "enabled"
      BY <3>1 DEF AllEnabled
    <3> QED BY <2>5, <3>2, <3>3, <3>4
  <2> HIDE DEF allowed
  <2> QED BY <2>4, <2>5, <2>6, <2>7, <1>types, SessionStepIsSafe
<1>10. QED
  BY <1>1, <1>2, <1>3, <1>4, <1>5, <1>6, <1>7, <1>8, <1>9, CommitStep DEF ExtensionsNext

\* The last event of the audit trail about an extension tells the state of its row,
\* whatever transactions ran side by side (lib/extension-installations.ts).
THEOREM AuditIsTold == ExtensionsSpec => []AuditTellsTheState
<1>1. ExtensionsSpec => []ExtensionsInv
  BY ExtensionsStart, ExtensionsStep, PTL DEF ExtensionsSpec
<1>2. ExtensionsInv => AuditTellsTheState
  BY DEF ExtensionsInv
<1> QED BY <1>1, <1>2, PTL

\* What a session was granted was enabled by the audit trail when it was granted, and
\* allowed by its profile.
THEOREM GrantsAreEnabled == ExtensionsSpec => []GrantsWereEnabled
<1>1. ExtensionsSpec => []ExtensionsInv
  BY ExtensionsStart, ExtensionsStep, PTL DEF ExtensionsSpec
<1>2. ExtensionsInv => GrantsWereEnabled
  BY DEF ExtensionsInv
<1> QED BY <1>1, <1>2, PTL

-----------------------------------------------------------------------------
(* RunPolicy: what a turn may do, what the counters say.                   *)

\* Min is a least element.
LEMMA LeastIsMin ==
  ASSUME NEW T \in SUBSET Nat, T # {}
  PROVE  Min(T) \in T /\ \A m \in T : Min(T) <= m
<1>1. \E n \in T : \A m \in T : n <= m
  BY LeastNumber
<1> QED BY <1>1 DEF Min

\* Merging a request's limits with the configured ones: the result has the names of both,
\* each a number that exceeds neither, so a request only lowers what the Runtime Config
\* configures (lib/agent-run-policy.ts).
LEMMA LimitsMerge ==
  ASSUME NEW p \in Policies
  PROVE  LET merged == MergeLimits(p.configured, p.requested) IN
         /\ DOMAIN merged \subseteq LimitNames
         /\ \A n \in DOMAIN merged : merged[n] \in Nat
         /\ \A l \in {p.configured, p.requested} : \A n \in DOMAIN l : merged[n] <= l[n]
<1> DEFINE merged == MergeLimits(p.configured, p.requested)
           of(n) == {l[n] : l \in {f \in {p.configured, p.requested} : n \in DOMAIN f}}
<1>1. \A l \in {p.configured, p.requested} :
        DOMAIN l \subseteq LimitNames /\ \A n \in DOMAIN l : l[n] \in Nat
  BY RunPolicyAssumption
<1>2. /\ DOMAIN merged = DOMAIN p.configured \cup DOMAIN p.requested
      /\ \A n \in DOMAIN merged : merged[n] = Min(of(n))
  BY DEF MergeLimits
<1>3. ASSUME NEW n \in DOMAIN merged PROVE of(n) \in SUBSET Nat /\ of(n) # {}
  BY <1>1, <1>2
<1>4. ASSUME NEW n \in DOMAIN merged PROVE merged[n] \in Nat /\ \A m \in of(n) : merged[n] <= m
  <2> HIDE DEF merged, of
  <2> QED BY <1>2, <1>3, <1>4, LeastIsMin
<1>5. ASSUME NEW l \in {p.configured, p.requested}, NEW n \in DOMAIN l PROVE merged[n] <= l[n]
  <2>1. l[n] \in of(n) /\ n \in DOMAIN merged
    BY <1>2
  <2> HIDE DEF merged, of
  <2> QED BY <2>1, <1>4
<1> HIDE DEF merged
<1>6. DOMAIN merged \subseteq LimitNames
  BY <1>1, <1>2
<1> QED BY <1>4, <1>5, <1>6 DEF merged

\* What a turn may be: no attempt of its step follows one that crossed a tool
\* boundary, since an interrupted one carries the error that Eve does not retry; the
\* user was asked before an external effect, and only a user's turn asks.
TurnIsGuarded(t) ==
  /\ t \in Turn /\ ~t.replayed
  /\ t.crossed => t.output
  /\ t.at \in {"between", "calling"} => ~t.crossed
  /\ t.at = "interrupted" /\ t.crossed => t.error = StreamInterrupted(TRUE)
  /\ "external-side-effect" \in t.asked => t.actor = "user"
  /\ bashMode # "never" /\ "external-side-effect" \in t.ran =>
       t.actor = "user" /\ "external-side-effect" \in t.approved

\* The counters say what was really done, up to one step's tokens for each turn that
\* a limit ended, and were enforced.
CountersTell ==
  /\ \A n \in {"turns", "models", "tools"} : counters[n] = spent[n]
  /\ spent.tokens <= counters.tokens + failures * ModelMax
  /\ \A n \in DOMAIN policy.limits \cap Counted : counters[n] <= policy.limits[n]

\* The policy of a session is what the merge and the run's mode make of it.
PolicyIsMerged ==
  /\ bashMode \in {"always", "risky", "never"}
  /\ \A n \in DOMAIN policy.limits : policy.limits[n] \in Nat

\* The inductive invariant of a session's limits and of its turn.
RunPolicyInv ==
  /\ RunPolicyTypeOK
  /\ PolicyIsMerged
  /\ CountersTell
  /\ turn # NoTurnYet => TurnIsGuarded(turn)

\* It holds of a session that has not begun.
LEMMA RunPolicyStart == RunPolicyInit => RunPolicyInv
<1> SUFFICES ASSUME RunPolicyInit PROVE RunPolicyInv
  OBVIOUS
<1> USE RunPolicyAssumption DEF RunPolicyInit
<1>1. PICK p \in Policies :
        policy = [limits |-> MergeLimits(p.configured, p.requested), mode |-> p.mode]
  OBVIOUS
<1>2. policy.limits = MergeLimits(p.configured, p.requested)
  BY <1>1
<1>3. DOMAIN policy.limits \subseteq LimitNames /\ \A n \in DOMAIN policy.limits : policy.limits[n] \in Nat
  BY <1>2, LimitsMerge
<1>4. RunPolicyTypeOK
  BY <1>3 DEF RunPolicyTypeOK
<1>5. PolicyIsMerged
  BY <1>3 DEF PolicyIsMerged
<1>6. CountersTell
  BY <1>3 DEF CountersTell, Counted
<1> QED BY <1>4, <1>5, <1>6 DEF RunPolicyInv

\* A step of the turn that touches no counter.
LEMMA TurnStep ==
  ASSUME RunPolicyInv, NEW t, t = NoTurnYet \/ TurnIsGuarded(t), StepOnly(t),
         UNCHANGED <<policy, bashMode, runClock>>
  PROVE  RunPolicyInv'
<1> USE DEF RunPolicyInv, StepOnly
<1>1. RunPolicyTypeOK'
  BY DEF RunPolicyTypeOK, TurnIsGuarded
<1>2. PolicyIsMerged' /\ CountersTell'
  BY DEF PolicyIsMerged, CountersTell
<1>3. turn' # NoTurnYet => TurnIsGuarded(turn)'
  BY DEF TurnIsGuarded
<1> QED BY <1>1, <1>2, <1>3

\* A boundary: the turn goes on within the limits, or it ends and nothing is stored.
LEMMA BoundaryStep ==
  ASSUME RunPolicyInv, NEW counter \in {"turns", "models", "tools"}, NEW increment \in Nat,
         NEW t, TurnIsGuarded(t), Boundary(counter, increment, t),
         UNCHANGED <<policy, bashMode, runClock>>
  PROVE  RunPolicyInv'
<1> USE RunPolicyAssumption DEF RunPolicyInv
<1> DEFINE c == [counters EXCEPT ![counter] = @ + increment]
<1>types. /\ counters \in [Counted \cup {"startedAt"} -> Nat] /\ spent \in [Counted -> Nat]
          /\ failures \in Nat /\ ModelMax \in Nat
  BY DEF RunPolicyTypeOK
<1>0. c \in [Counted \cup {"startedAt"} -> Nat]
  BY <1>types DEF Counted
<1>1. PolicyIsMerged'
  BY DEF PolicyIsMerged
<1>2. CASE Exceeds(policy.limits, c, runClock)
  <2>1. turn' = NoTurnYet /\ failures' = failures + 1 /\ UNCHANGED <<counters, spent>>
    BY <1>2 DEF Boundary
  <2>2. RunPolicyTypeOK'
    BY <2>1 DEF RunPolicyTypeOK
  <2>3. (failures + 1) * ModelMax >= failures * ModelMax
    BY <1>types
  <2>4. spent'.tokens <= counters'.tokens + failures' * ModelMax
    <3>1. spent.tokens \in Nat /\ counters.tokens \in Nat /\ failures * ModelMax \in Nat /\ (failures + 1) * ModelMax \in Nat
      BY <1>types DEF Counted
    <3> QED BY <2>1, <2>3, <3>1 DEF CountersTell
  <2>5. CountersTell'
    BY <2>1, <2>4 DEF CountersTell
  <2> QED BY <1>1, <2>1, <2>2, <2>5
<1>3. CASE ~Exceeds(policy.limits, c, runClock)
  <2>1. /\ counters' = c /\ turn' = t /\ UNCHANGED failures
        /\ spent' = [spent EXCEPT ![counter] = @ + increment]
    BY <1>3 DEF Boundary
  <2>2. RunPolicyTypeOK'
    <3>1. spent' \in [Counted -> Nat]
      BY <2>1, <1>types DEF Counted
    <3> QED BY <2>1, <3>1, <1>0 DEF RunPolicyTypeOK, TurnIsGuarded
  <2>3. CountersTell'
    <3>1. \A n \in {"turns", "models", "tools"} : counters'[n] = spent'[n]
      BY <2>1, <1>types DEF CountersTell, Counted
    <3>2. spent'.tokens = spent.tokens /\ counters'.tokens = counters.tokens
      BY <2>1, <1>types DEF Counted
    <3>3. ASSUME NEW n \in DOMAIN policy.limits \cap Counted PROVE counters'[n] <= policy.limits[n]
      <4>1. n # "duration" /\ c[n] \in Nat /\ policy.limits[n] \in Nat
        BY <1>0 DEF Counted, PolicyIsMerged
      <4>2. ~(c[n] > policy.limits[n])
        BY <1>3, <4>1 DEF Exceeds
      <4> QED BY <4>1, <4>2, <2>1
    <3> QED BY <2>1, <3>1, <3>2, <3>3 DEF CountersTell
  <2>4. TurnIsGuarded(turn)'
    BY <2>1 DEF TurnIsGuarded
  <2> QED BY <1>1, <2>2, <2>3, <2>4
<1> QED BY <1>2, <1>3

\* The tokens of a completed step, which were used whether or not they are stored.
LEMMA UsageStep ==
  ASSUME RunPolicyInv, NEW used \in Nat, used <= ModelMax,
         NEW t, TurnIsGuarded(t), Usage(used, t),
         UNCHANGED <<policy, bashMode, runClock>>
  PROVE  RunPolicyInv'
<1> USE RunPolicyAssumption DEF RunPolicyInv
<1> DEFINE c == [counters EXCEPT !.tokens = @ + used]
<1>types. /\ counters \in [Counted \cup {"startedAt"} -> Nat] /\ spent \in [Counted -> Nat]
          /\ failures \in Nat /\ ModelMax \in Nat
  BY DEF RunPolicyTypeOK
<1>0. c \in [Counted \cup {"startedAt"} -> Nat]
  BY <1>types DEF Counted
<1>1. PolicyIsMerged'
  BY DEF PolicyIsMerged
<1>2. /\ spent' = [spent EXCEPT !.tokens = @ + used] /\ spent' \in [Counted -> Nat]
      /\ spent'.tokens = spent.tokens + used
      /\ \A n \in {"turns", "models", "tools"} : spent'[n] = spent[n]
  BY <1>types DEF Usage, Counted
<1>3. spent.tokens <= counters.tokens + failures * ModelMax
  BY DEF CountersTell
<1>4. spent.tokens \in Nat /\ counters.tokens \in Nat /\ failures * ModelMax \in Nat
  BY <1>types DEF Counted
<1>5. CASE Exceeds(policy.limits, c, runClock)
  <2>1. turn' = NoTurnYet /\ failures' = failures + 1 /\ UNCHANGED counters
    BY <1>5 DEF Usage
  <2>2. RunPolicyTypeOK'
    BY <1>2, <2>1 DEF RunPolicyTypeOK
  <2>3. (failures + 1) * ModelMax = failures * ModelMax + ModelMax
    BY <1>types
  <2>4. spent'.tokens <= counters'.tokens + failures' * ModelMax
    BY <1>2, <1>3, <1>4, <2>1, <2>3
  <2>5. CountersTell'
    BY <1>2, <2>1, <2>4 DEF CountersTell
  <2> QED BY <1>1, <2>1, <2>2, <2>5
<1>6. CASE ~Exceeds(policy.limits, c, runClock)
  <2>1. counters' = c /\ turn' = t /\ failures' = failures
    BY <1>6, <1>types DEF Usage
  <2>2. RunPolicyTypeOK'
    BY <1>0, <1>2, <2>1 DEF RunPolicyTypeOK, TurnIsGuarded
  <2>3. CountersTell'
    <3>1. \A n \in {"turns", "models", "tools"} : counters'[n] = spent'[n]
      BY <2>1, <1>2, <1>types DEF CountersTell, Counted
    <3>2. counters'.tokens = counters.tokens + used
      BY <2>1, <1>types DEF Counted
    <3>3. ASSUME NEW n \in DOMAIN policy.limits \cap Counted PROVE counters'[n] <= policy.limits[n]
      <4>1. n # "duration" /\ c[n] \in Nat /\ policy.limits[n] \in Nat
        BY <1>0 DEF Counted, PolicyIsMerged
      <4>2. ~(c[n] > policy.limits[n])
        BY <1>6, <4>1 DEF Exceeds
      <4> QED BY <4>1, <4>2, <2>1
    <3> HIDE DEF c
    <3>4. spent'.tokens <= counters'.tokens + failures' * ModelMax
      BY <1>2, <1>3, <1>4, <2>1, <3>2
    <3> QED BY <3>1, <3>3, <3>4 DEF CountersTell
  <2>4. TurnIsGuarded(turn)'
    BY <2>1 DEF TurnIsGuarded
  <2> QED BY <1>1, <2>2, <2>3, <2>4
<1> QED BY <1>5, <1>6

\* A step of the output budget uses no more than the deployment's maximum.
LEMMA BudgetIsBounded ==
  ASSUME NEW m \in DOMAIN Models
  PROVE  OutputBudget(m) \in Nat /\ OutputBudget(m) <= ModelMax
<1>1. {ModelMax, Models[m]} \in SUBSET Nat /\ {ModelMax, Models[m]} # {}
  BY RunPolicyAssumption
<1>2. OutputBudget(m) \in {ModelMax, Models[m]} /\ \A k \in {ModelMax, Models[m]} : OutputBudget(m) <= k
  BY <1>1, LeastIsMin DEF OutputBudget
<1> QED BY <1>1, <1>2

\* An idle turn is no turn, and a turn is not idle.
LEMMA NoTurnIsIdle == NoTurnYet.at = "idle" /\ NoTurnYet \notin Turn
BY DEF NoTurnYet, Turn

\* What is left of a turn between its steps.
LEMMA BetweenIsGuarded ==
  ASSUME NEW actor \in Actors, NEW steps \in 0..MaxSteps, NEW m \in DOMAIN Models,
         NEW t, t.actor = actor, t.steps = steps, t.model = m
  PROVE  TurnIsGuarded(Between(t))
<1> USE RunPolicyAssumption
<1>1. Between(t) \in Turn
  BY DEF Between, Turn, NoError, ProviderError
<1> QED BY <1>1 DEF Between, TurnIsGuarded

\* Beginning a session, a turn or a step.
LEMMA StartTurnStep ==
  ASSUME RunPolicyInv, NEW actor \in Actors, NEW m, StartTurn(actor, m),
         UNCHANGED <<policy, bashMode, runClock>>
  PROVE  RunPolicyInv'
<1>1. PICK t : t = Between([actor |-> actor, steps |-> 0, model |-> StepModel(m)])
  OBVIOUS
<1>2. TurnIsGuarded(t)
  <2>1. StepModel(m) \in DOMAIN Models /\ 0 \in 0..MaxSteps
    BY RunPolicyAssumption DEF StepModel
  <2> QED BY <1>1, <2>1, BetweenIsGuarded
<1>3. Boundary("turns", 1, t)
  BY <1>1 DEF StartTurn
<1> QED BY <1>2, <1>3, BoundaryStep

\* The first turn stores the merged policy.
LEMMA InitializeStep ==
  ASSUME RunPolicyInv, InitializeRunPolicy, UNCHANGED <<policy, bashMode, runClock>>
  PROVE  RunPolicyInv'
<1> USE DEF RunPolicyInv, InitializeRunPolicy
<1>1. RunPolicyTypeOK'
  BY RunPolicyAssumption DEF RunPolicyTypeOK
<1>2. \A n \in Counted : counters'[n] = counters[n]
  BY DEF RunPolicyTypeOK, Counted
<1>3. CountersTell'
  BY <1>2 DEF CountersTell, Counted
<1>4. PolicyIsMerged' /\ (turn' # NoTurnYet => TurnIsGuarded(turn)')
  BY DEF PolicyIsMerged, TurnIsGuarded
<1> QED BY <1>1, <1>3, <1>4

\* The other steps of a turn: the Provider's stream and its retries, and tool calls.
LEMMA StreamStep ==
  ASSUME RunPolicyInv, turn # NoTurnYet, UNCHANGED <<policy, bashMode, runClock>>,
         \/ EndTurn \/ StreamOpens \/ CallerAborts \/ EveRetriesStep \/ EveGivesUp
         \/ \E cause \in {"network", "transient", "rejected", "unknown"} :
              AttemptFails(cause) \/ StreamFails(cause)
         \/ \E part \in {"text", "tool", "raw"} : StreamPart(part)
  PROVE  RunPolicyInv'
<1> USE RunPolicyAssumption
<1>1. TurnIsGuarded(turn) /\ turn \in Turn
  BY DEF RunPolicyInv, TurnIsGuarded
<1>2. PICK u : u = turn
  OBVIOUS
<1>3. TurnIsGuarded(u) /\ u \in Turn
  BY <1>1, <1>2
<1>4. CASE EndTurn \/ CallerAborts \/ EveGivesUp
  BY <1>4, TurnStep DEF EndTurn, CallerAborts, EveGivesUp
<1>5. CASE StreamOpens
  <2>1. PICK t : t = [u EXCEPT !.at = "streaming"]
    OBVIOUS
  <2>2. TurnIsGuarded(t)
    BY <1>2, <1>3, <1>5, <2>1 DEF StreamOpens, TurnIsGuarded, Turn
  <2> QED BY <1>2, <1>5, <2>1, <2>2, TurnStep DEF StreamOpens
<1>6. ASSUME NEW cause \in {"network", "transient", "rejected", "unknown"}, AttemptFails(cause)
      PROVE  RunPolicyInv'
  <2>1. PICK t : t = [u EXCEPT !.at = "interrupted", !.error = AttemptError(cause)]
    OBVIOUS
  <2>2. AttemptError(cause) \in ProviderError
    BY DEF AttemptError, ProviderError, NoError
  <2>3. t \in Turn
    BY <1>3, <2>1, <2>2 DEF Turn
  <2>4. TurnIsGuarded(t)
    BY <1>2, <1>3, <1>6, <2>1, <2>3 DEF AttemptFails, TurnIsGuarded, Turn
  <2> QED BY <1>2, <1>6, <2>1, <2>4, TurnStep DEF AttemptFails
<1>7. ASSUME NEW cause \in {"network", "transient", "rejected", "unknown"}, StreamFails(cause)
      PROVE  RunPolicyInv'
  <2>1. PICK error : error = IF u.output THEN StreamInterrupted(u.crossed) ELSE AttemptError(cause)
    OBVIOUS
  <2>2. error \in ProviderError
    BY <1>3, <2>1 DEF AttemptError, StreamInterrupted, ProviderError, NoError, Turn
  <2>3. PICK t : t = [u EXCEPT !.at = "interrupted", !.error = error]
    OBVIOUS
  <2>4. t \in Turn
    BY <1>3, <2>2, <2>3 DEF Turn
  <2>5. TurnIsGuarded(t)
    <3>1. u.crossed => error = StreamInterrupted(TRUE)
      BY <1>3, <2>1 DEF TurnIsGuarded, Turn
    <3> QED BY <1>3, <2>3, <2>4, <3>1 DEF TurnIsGuarded, Turn
  <2> QED BY <1>2, <1>7, <2>1, <2>3, <2>5, TurnStep DEF StreamFails
<1>8. ASSUME NEW part \in {"text", "tool", "raw"}, StreamPart(part) PROVE RunPolicyInv'
  <2>1. PICK risk \in Risks :
          StepOnly([u EXCEPT !.parts = @ + 1, !.output = TRUE,
                             !.crossed = @ \/ CrossesToolBoundary(part),
                             !.calls = IF part = "tool" THEN @ \cup {risk} ELSE @])
    BY <1>2, <1>8 DEF StreamPart
  <2>2. PICK t : t = [u EXCEPT !.parts = @ + 1, !.output = TRUE,
                               !.crossed = @ \/ CrossesToolBoundary(part),
                               !.calls = IF part = "tool" THEN @ \cup {risk} ELSE @]
    OBVIOUS
  <2>3. u.at = "streaming" /\ u.parts + 1 \in 0..MaxParts
    <3>1. u.at = "streaming" /\ u.parts < MaxParts
      BY <1>2, <1>8 DEF StreamPart
    <3>2. u.parts \in 0..MaxParts /\ MaxParts \in Nat
      BY <1>3 DEF Turn
    <3> QED BY <3>1, <3>2
  <2>4. t \in Turn
    BY <1>3, <2>2, <2>3 DEF Turn, CrossesToolBoundary
  <2>5. TurnIsGuarded(t)
    BY <1>3, <2>2, <2>3, <2>4 DEF TurnIsGuarded, Turn
  <2> QED BY <2>1, <2>2, <2>5, TurnStep
<1>9. CASE EveRetriesStep
  <2>1. u.at = "interrupted" /\ EveRetries(u.error) /\ u.attempt + 1 \in 0..Attempts
    BY <1>2, <1>3, <1>9 DEF EveRetriesStep, Turn
  <2>2. ~u.crossed
    BY <1>3, <2>1 DEF TurnIsGuarded, EveRetries, StreamInterrupted
  <2>3. PICK t : t = [u EXCEPT !.at = "calling", !.attempt = @ + 1, !.parts = 0, !.output = FALSE,
                         !.error = NoError, !.crossed = FALSE, !.replayed = @ \/ u.crossed, !.calls = {}]
    OBVIOUS
  <2>4. t \in Turn
    <3>1. NoError \in ProviderError /\ 0 \in 0..MaxParts
      BY DEF NoError, ProviderError
    <3> QED BY <1>3, <2>1, <2>2, <2>3, <3>1 DEF Turn
  <2>5. TurnIsGuarded(t)
    BY <1>3, <2>2, <2>3, <2>4 DEF TurnIsGuarded, Turn
  <2> QED BY <1>2, <1>9, <2>3, <2>5, TurnStep DEF EveRetriesStep
<1> QED BY <1>4, <1>5, <1>6, <1>7, <1>8, <1>9

\* Tool calls: approval, the boundary it crosses and the counter it moves.
LEMMA CallStep ==
  ASSUME RunPolicyInv, turn # NoTurnYet, UNCHANGED <<policy, bashMode, runClock>>, NEW risk \in Risks,
         DecideCall(risk) \/ \E approved \in BOOLEAN : AnswerApproval(risk, approved)
  PROVE  RunPolicyInv'
<1>1. PICK u : u = turn
  OBVIOUS
<1>2. TurnIsGuarded(u) /\ u \in Turn
  BY <1>1 DEF RunPolicyInv, TurnIsGuarded
<1>3. CASE DecideCall(risk)
  <2>1. u.at = "acting"
    BY <1>1, <1>3 DEF DecideCall
  <2>2. CASE Decision(risk, u.actor) = "ask"
    <3>1. PICK t : t = [u EXCEPT !.asked = @ \cup {risk}]
      OBVIOUS
    <3>2. u.actor = "user"
      BY <1>2, <2>2 DEF Decision, Turn, Actors
    <3>3. t \in Turn
      BY <1>2, <3>1 DEF Turn
    <3>4. TurnIsGuarded(t)
      BY <1>2, <2>1, <3>1, <3>2, <3>3 DEF TurnIsGuarded, Turn
    <3> QED BY <1>1, <1>3, <2>2, <3>1, <3>4, TurnStep DEF DecideCall
  <2>3. CASE Decision(risk, u.actor) # "ask"
    <3>1. PICK t : t = [u EXCEPT !.calls = @ \ {risk},
                                 !.ran = IF Decision(risk, u.actor) = "run" THEN @ \cup {risk} ELSE @]
      OBVIOUS
    <3>2. t \in Turn
      BY <1>2, <3>1 DEF Turn
    <3>3. bashMode # "never" /\ risk = "external-side-effect" => Decision(risk, u.actor) # "run"
      BY <1>2 DEF RunPolicyInv, PolicyIsMerged, Decision, Turn, Actors
    <3>4. /\ t.at = u.at /\ t.asked = u.asked /\ t.approved = u.approved /\ t.actor = u.actor
          /\ t.crossed = u.crossed /\ t.output = u.output /\ t.replayed = u.replayed /\ t.error = u.error
          /\ t.ran = (IF Decision(risk, u.actor) = "run" THEN u.ran \cup {risk} ELSE u.ran)
      BY <1>2, <3>1 DEF Turn
    <3>5. bashMode # "never" /\ "external-side-effect" \in t.ran => "external-side-effect" \in u.ran
      BY <3>3, <3>4
    <3>6. TurnIsGuarded(t)
      BY <1>2, <2>1, <3>2, <3>4, <3>5 DEF TurnIsGuarded
    <3> QED BY <1>1, <1>3, <2>3, <3>1, <3>6, TurnStep DEF DecideCall
  <2> QED BY <2>2, <2>3
<1>4. ASSUME NEW approved \in BOOLEAN, AnswerApproval(risk, approved) PROVE RunPolicyInv'
  <2>1. u.at = "acting" /\ risk \in u.asked
    BY <1>1, <1>4 DEF AnswerApproval
  <2>2. PICK t : t = [u EXCEPT !.calls = @ \ {risk},
                               !.approved = IF approved THEN @ \cup {risk} ELSE @,
                               !.ran = IF approved THEN @ \cup {risk} ELSE @]
    OBVIOUS
  <2>3. t \in Turn
    BY <1>2, <2>2 DEF Turn
  <2>4. /\ t.at = u.at /\ t.asked = u.asked /\ t.actor = u.actor
        /\ t.crossed = u.crossed /\ t.output = u.output /\ t.replayed = u.replayed /\ t.error = u.error
        /\ t.approved = (IF approved THEN u.approved \cup {risk} ELSE u.approved)
        /\ t.ran = (IF approved THEN u.ran \cup {risk} ELSE u.ran)
    BY <1>2, <2>2 DEF Turn
  <2>5. bashMode # "never" /\ "external-side-effect" \in t.ran =>
          t.actor = "user" /\ "external-side-effect" \in t.approved
    BY <1>2, <2>1, <2>4 DEF TurnIsGuarded
  <2>6. TurnIsGuarded(t)
    BY <1>2, <2>1, <2>3, <2>4, <2>5 DEF TurnIsGuarded
  <2> QED BY <1>1, <1>4, <2>2, <2>6, TurnStep DEF AnswerApproval
<1> QED BY <1>3, <1>4

\* The steps of a turn that a limit may end.
LEMMA CountedStep ==
  ASSUME RunPolicyInv, turn # NoTurnYet, UNCHANGED <<policy, bashMode, runClock>>,
         StartStep \/ RequestActions \/ \E used \in {0, OutputBudget(turn.model)} : CompleteStep(used)
  PROVE  RunPolicyInv'
<1> USE RunPolicyAssumption
<1>1. PICK u : u = turn
  OBVIOUS
<1>2. TurnIsGuarded(u) /\ u \in Turn
  BY <1>1 DEF RunPolicyInv, TurnIsGuarded
<1>3. CASE StartStep
  <2>1. PICK t : t = [u EXCEPT !.at = "calling", !.steps = @ + 1, !.attempt = 1]
    OBVIOUS
  <2>2. u.at = "between" /\ u.steps + 1 \in 0..MaxSteps
    BY <1>1, <1>2, <1>3 DEF StartStep, Turn
  <2>3. t \in Turn
    <3>1. 1 \in 0..Attempts
      OBVIOUS
    <3> QED BY <1>2, <2>1, <2>2, <3>1 DEF Turn
  <2>4. TurnIsGuarded(t)
    BY <1>2, <2>1, <2>2, <2>3 DEF TurnIsGuarded, Turn
  <2> QED BY <1>1, <1>3, <2>1, <2>4, BoundaryStep DEF StartStep
<1>4. CASE RequestActions
  <2>1. PICK t : t = [u EXCEPT !.at = "acting"]
    OBVIOUS
  <2>2. t \in Turn
    BY <1>2, <2>1 DEF Turn
  <2>3. TurnIsGuarded(t)
    BY <1>2, <2>1, <2>2 DEF TurnIsGuarded, Turn
  <2>4. PICK n : n = Cardinality(u.calls)
    OBVIOUS
  <2>5. n \in Nat
    <3>1. IsFiniteSet(Risks)
      <4>1. IsFiniteSet({}) /\ Risks = (({} \cup {"none"}) \cup {"sandbox-local"}) \cup {"external-side-effect"}
        BY FS_EmptySet DEF Risks
      <4> QED BY <4>1, FS_AddElement
    <3>2. u.calls \subseteq Risks
      BY <1>2 DEF Turn
    <3> QED BY <2>4, <3>1, <3>2, FS_Subset, FS_CardinalityType
  <2> QED BY <1>1, <1>4, <2>1, <2>3, <2>4, <2>5, BoundaryStep DEF RequestActions
<1>5. ASSUME NEW used \in {0, OutputBudget(turn.model)}, CompleteStep(used) PROVE RunPolicyInv'
  <2>1. u.actor \in Actors /\ u.steps \in 0..MaxSteps /\ u.model \in DOMAIN Models
    BY <1>2 DEF Turn
  <2>2. used \in Nat /\ used <= ModelMax
    BY <1>1, <2>1, BudgetIsBounded
  <2>3. PICK t : t = Between(u)
    OBVIOUS
  <2>4. TurnIsGuarded(t)
    BY <2>1, <2>3, BetweenIsGuarded
  <2> QED BY <1>1, <1>5, <2>2, <2>3, <2>4, UsageStep DEF CompleteStep
<1> QED BY <1>3, <1>4, <1>5

\* Every step of the session preserves the invariant.
LEMMA RunPolicyStep == RunPolicyInv /\ [RunPolicyNext]_runPolicyVars => RunPolicyInv'
<1> SUFFICES ASSUME RunPolicyInv, [RunPolicyNext]_runPolicyVars PROVE RunPolicyInv'
  OBVIOUS
<1>1. CASE (TickRun /\ UNCHANGED <<policy, bashMode>>) \/ UNCHANGED runPolicyVars
  <2>1. UNCHANGED <<policy, bashMode, counters, spent, failures, turn>>
    BY <1>1 DEF TickRun, runPolicyVars
  <2>2. runClock' \in 1..MaxRunTime
    BY <1>1, RunPolicyAssumption DEF TickRun, runPolicyVars, RunPolicyInv, RunPolicyTypeOK
  <2>3. RunPolicyTypeOK' /\ PolicyIsMerged' /\ CountersTell'
    BY <2>1, <2>2 DEF RunPolicyInv, RunPolicyTypeOK, PolicyIsMerged, CountersTell
  <2>4. turn' # NoTurnYet => TurnIsGuarded(turn)'
    BY <2>1 DEF RunPolicyInv, TurnIsGuarded
  <2> QED BY <2>3, <2>4 DEF RunPolicyInv
<1>2. CASE RunPolicyNext /\ UNCHANGED runClock
  <2>1. UNCHANGED <<policy, bashMode, runClock>>
    BY <1>2 DEF RunPolicyNext
  <2>2. CASE \E actor \in Actors, m \in DOMAIN Models \cup {"unknown"} : StartTurn(actor, m)
    BY <2>1, <2>2, StartTurnStep
  <2>3. CASE InitializeRunPolicy
    BY <2>1, <2>3, InitializeStep
  <2>4. CASE turn # NoTurnYet /\ \E risk \in Risks :
               \/ DecideCall(risk) \/ \E approved \in BOOLEAN : AnswerApproval(risk, approved)
    BY <2>1, <2>4, CallStep
  <2>5. CASE /\ turn # NoTurnYet
             /\ \/ StartStep \/ RequestActions
                \/ \E used \in {0, OutputBudget(turn.model)} : CompleteStep(used)
    BY <2>1, <2>5, CountedStep
  <2>6. CASE /\ turn # NoTurnYet
             /\ \/ EndTurn \/ StreamOpens \/ CallerAborts \/ EveRetriesStep \/ EveGivesUp
                \/ \E cause \in {"network", "transient", "rejected", "unknown"} :
                     AttemptFails(cause) \/ StreamFails(cause)
                \/ \E part \in {"text", "tool", "raw"} : StreamPart(part)
    BY <2>1, <2>6, StreamStep
  <2>7. CASE TickRun
    BY <1>1, <2>1, <2>7
  <2> QED BY <1>2, <2>2, <2>3, <2>4, <2>5, <2>6, <2>7 DEF RunPolicyNext
<1> QED BY <1>1, <1>2 DEF RunPolicyNext

\* The three promises follow from the invariant.
LEMMA RunPolicyPromises ==
  RunPolicyInv => ToolBoundaryIsNotReplayed /\ LimitsHold /\ EffectsAreApproved
<1> SUFFICES ASSUME RunPolicyInv PROVE ToolBoundaryIsNotReplayed /\ LimitsHold /\ EffectsAreApproved
  OBVIOUS
<1> USE DEF RunPolicyInv
<1>1. ToolBoundaryIsNotReplayed
  BY DEF ToolBoundaryIsNotReplayed, TurnIsGuarded
<1>2. EffectsAreApproved
  BY DEF EffectsAreApproved, TurnIsGuarded
<1>3. ASSUME NEW n \in DOMAIN policy.limits \cap {"turns", "models", "tools"}
      PROVE  spent[n] <= policy.limits[n]
  BY DEF CountersTell, Counted
<1>4. ASSUME "tokens" \in DOMAIN policy.limits
      PROVE  spent.tokens <= policy.limits.tokens + failures * ModelMax
  <2>1. /\ spent.tokens \in Nat /\ counters.tokens \in Nat /\ policy.limits.tokens \in Nat
        /\ failures * ModelMax \in Nat
    BY <1>4, RunPolicyAssumption DEF RunPolicyTypeOK, PolicyIsMerged, Counted
  <2>2. counters.tokens <= policy.limits.tokens
    BY <1>4 DEF CountersTell, Counted
  <2> QED BY <2>1, <2>2 DEF CountersTell
<1> QED BY <1>1, <1>2, <1>3, <1>4 DEF LimitsHold

\* No attempt of a step follows one that crossed a tool boundary: what a tool did is never
\* done again by a retry of the Provider (lib/provider-stream-retry.ts).
THEOREM ToolBoundariesHold == RunPolicySpec => []ToolBoundaryIsNotReplayed
BY RunPolicyStart, RunPolicyStep, RunPolicyPromises, PTL DEF RunPolicySpec

\* What the session really spent stays within its limits, up to the step in which a turn
\* was ended, and a request never raised a limit.
THEOREM LimitsAreHeld == RunPolicySpec => []LimitsHold
BY RunPolicyStart, RunPolicyStep, RunPolicyPromises, PTL DEF RunPolicySpec

\* An external effect happened only after the user approved it, or under a mode that needs
\* no approval; a run without a user is never asked.
THEOREM EffectsWereApproved == RunPolicySpec => []EffectsAreApproved
BY RunPolicyStart, RunPolicyStep, RunPolicyPromises, PTL DEF RunPolicySpec

-----------------------------------------------------------------------------
(* Publications: previews and artifacts, their links and their readers.    *)

\* What is stored of a publication.
PublicationRecord == [files: [Paths -> Version], count: {Cardinality(S) : S \in SUBSET Paths} \cup {0},
           meta: BOOLEAN, owner: 0..MaxMints, expires: Nat]
\* The states of the calls that store it.
PublishingState == Publishing \cup {NotPublishing, Published, PublishingFailed}

\* The files a record has.
FilesOf(r) == {p \in Paths : r.files[p] # 0}

\* A record that is found is whole, and has what the link of u serves.
IsWhole(u, r) ==
  /\ Cardinality(FilesOf(r)) = r.count
  /\ IF u \in Artifacts THEN FilesOf(r) # {} ELSE Entrypoint \in FilesOf(r) \ Unsafe

\* A call of a publishing tool and what it has stored: it reads only what it listed,
\* refuses unsafe paths of a preview, has read everything when it begins to write,
\* stores what it read, and describes it last.
Agree(u, v, r) ==
  /\ v \in PublishingState /\ r \in PublicationRecord
  /\ v = NotPublishing \/ v.at = "reading" => r = NotPublished
  /\ v \in Publishing =>
       /\ \A p \in Paths : v.read[p] # 0 => p \in v.listing /\ (p \in Unsafe => u \in Artifacts)
       /\ u \in Artifacts => \E p \in Paths : v.listing = {p}
  /\ v.at = "writing" =>
       /\ ~r.meta
       /\ \A p \in v.listing : v.read[p] # 0
       /\ u \notin Artifacts => Entrypoint \in v.listing
       /\ \A p \in Paths : r.files[p] \in {0, v.read[p]}
  /\ v.at = "signing" => r.meta /\ r.expires = v.expires
  /\ r.meta => IsWhole(u, r)

\* What was given out is of a record that is found, and expires with it.
GivenOut(t) == t \in Token /\ publications[t.id].meta /\ t.expires = publications[t.id].expires

\* Links and cookies are of records that are found.
GivenIsFound ==
  /\ \A t \in links : GivenOut(t)
  /\ \A r \in recovered : GivenOut(r.token) /\ r.identity = publications[r.token.id].owner
  /\ \A b \in Browsers, u \in PubIds : LET t == cookies[b].access[u] IN
       t # Nothing => t.id = u /\ t \in links \cup {r.token : r \in recovered}

\* Every call and its record agree.
StoresAgree == \A u \in PubIds : Agree(u, publishing[u], publications[u])

\* The inductive invariant of the publishing calls, their store and the links given out.
PublicationsInv ==
  /\ PublicationsTypeOK
  /\ publications \in [PubIds -> PublicationRecord]
  /\ minting \subseteq [browser: Browsers, identity: 1..MaxMints]
  /\ StoresAgree
  /\ GivenIsFound

\* It holds of an empty store.
LEMMA PublicationsStart == PublicationsInit => PublicationsInv
<1> SUFFICES ASSUME PublicationsInit PROVE PublicationsInv
  OBVIOUS
<1> USE PublicationsAssumption DEF PublicationsInit
<1>0. 0 \in Version /\ 1 \in Version
  BY DEF Version
<1>1. NotPublished \in PublicationRecord
  BY <1>0 DEF NotPublished, PublicationRecord
<1>2. publications \in [PubIds -> PublicationRecord]
  BY <1>1
<1>3. PublicationsTypeOK
  <2>1. \A u \in PubIds : publications[u].files \in [Paths -> Version]
    BY <1>2 DEF PublicationRecord
  <2>2. sandbox \in [Paths -> Version]
    BY <1>0
  <2>3. cookies \in [Browsers -> [identity: 0..MaxMints, access: [PubIds -> Token \cup {Nothing}]]]
    OBVIOUS
  <2> QED BY <2>1, <2>2, <2>3 DEF PublicationsTypeOK
<1>4. StoresAgree
  BY <1>1 DEF StoresAgree, Agree, PublishingState, NotPublishing, NotPublished, Publishing
<1>5. GivenIsFound
  BY DEF GivenIsFound
<1> QED BY <1>2, <1>3, <1>4, <1>5 DEF PublicationsInv

\* A step of one call, which leaves a record that is found as it is.
LEMMA PublishingStep ==
  ASSUME PublicationsInv, NEW u \in PubIds, NEW v, NEW r, PublishStep(u, v), Stored(u, r),
         UNCHANGED backend, Agree(u, v, r), publications[u].meta => r = publications[u],
         \/ UNCHANGED links
         \/ v = Published /\ links' = links \cup {SignedToken(u)} /\ publishing[u].at = "signing"
  PROVE  PublicationsInv'
<1> USE DEF PublicationsInv, PublishStep, Stored
<1>0. /\ publishing' \in [PubIds -> PublishingState] /\ publications' \in [PubIds -> PublicationRecord]
      /\ publishing'[u] = v /\ publications'[u] = r
      /\ \A w \in PubIds \ {u} : publishing'[w] = publishing[w] /\ publications'[w] = publications[w]
      /\ \A w \in PubIds : publications[w].meta => publications'[w] = publications[w]
  BY DEF PublicationsTypeOK, PublishingState, Agree
<1>1. StoresAgree'
  BY <1>0 DEF StoresAgree
<1>2. links \subseteq links' /\ links' \subseteq Token /\ \A t \in links' \ links : GivenOut(t)'
  <2>1. CASE UNCHANGED links
    BY <2>1 DEF PublicationsTypeOK
  <2>2. CASE links' = links \cup {SignedToken(u)} /\ publishing[u].at = "signing"
    <3>1. publishing[u] \in Publishing /\ publications[u].meta /\ publications[u].expires = publishing[u].expires
      BY <2>2 DEF StoresAgree, Agree, PublishingState, NotPublishing, Published, PublishingFailed
    <3>2. SignedToken(u) \in Token
      BY <3>1 DEF SignedToken, Token, Publishing, PublicationsTypeOK
    <3>3. SignedToken(u).id = u /\ SignedToken(u).expires = publications[u].expires
      BY <3>1 DEF SignedToken
    <3> QED BY <2>2, <3>1, <3>2, <3>3, <1>0 DEF GivenOut, PublicationsTypeOK
  <2> QED BY <2>1, <2>2
<1>3. PublicationsTypeOK'
  <2>1. \A w \in PubIds : publications'[w].files \in [Paths -> Version]
    BY <1>0 DEF PublicationRecord
  <2> QED BY <2>1, <1>0, <1>2 DEF PublicationsTypeOK, PublishingState
<1>4. \A t \in Token : GivenOut(t) => GivenOut(t)' /\ publications'[t.id].owner = publications[t.id].owner
  BY <1>0 DEF GivenOut, Token
<1>5. GivenIsFound'
  BY <1>2, <1>4 DEF GivenIsFound, GivenOut
<1> QED BY <1>0, <1>1, <1>3, <1>5

\* The steps outside of the calls.
LEMMA SurroundingsStep ==
  ASSUME PublicationsInv, UNCHANGED <<backend, publishing, publications, links, recovered>>,
         \/ TickPublications \/ RotateKey
         \/ \E p \in Paths, w \in {0, edits + 2} : w \in Version /\ WriteSandbox(p, w)
         \/ \E m \in minting : AcceptIdentity(m)
         \/ \E b \in Browsers : MintIdentity(b)
         \/ UNCHANGED publicationsVars
  PROVE  PublicationsInv'
<1> USE PublicationsAssumption DEF PublicationsInv
<1>1. StoresAgree' /\ publications' \in [PubIds -> PublicationRecord]
  BY DEF StoresAgree
<1>2. /\ sandbox' \in [Paths -> Version] /\ edits' \in 0..MaxEdits
      /\ signingKey' \in 1..MaxKeys /\ mints' \in 0..MaxMints /\ pubClock' \in 0..MaxPubTime
  <2>1. ASSUME NEW p \in Paths, NEW w \in Version, WriteSandbox(p, w)
        PROVE  /\ sandbox' \in [Paths -> Version] /\ edits' \in 0..MaxEdits
               /\ UNCHANGED <<signingKey, mints, pubClock>>
    BY <2>1 DEF PublicationsTypeOK, WriteSandbox
  <2>2. CASE TickPublications \/ RotateKey \/ UNCHANGED publicationsVars
    BY <2>2 DEF PublicationsTypeOK, TickPublications, RotateKey, publicationsVars
  <2>3. ASSUME (\E m \in minting : AcceptIdentity(m)) \/ \E b \in Browsers : MintIdentity(b)
        PROVE  UNCHANGED <<sandbox, edits, signingKey, pubClock>> /\ mints' \in 0..MaxMints
    <3>1. ASSUME NEW m \in minting, AcceptIdentity(m)
          PROVE  UNCHANGED <<sandbox, edits, signingKey, pubClock>> /\ mints' \in 0..MaxMints
      BY <3>1 DEF PublicationsTypeOK, AcceptIdentity
    <3>2. ASSUME NEW b \in Browsers, MintIdentity(b)
          PROVE  UNCHANGED <<sandbox, edits, signingKey, pubClock>> /\ mints' \in 0..MaxMints
      BY <3>2 DEF PublicationsTypeOK, MintIdentity
    <3> QED BY <2>3, <3>1, <3>2
  <2> QED BY <2>1, <2>2, <2>3 DEF PublicationsTypeOK
<1>3. /\ cookies' \in [Browsers -> [identity: 0..MaxMints, access: [PubIds -> Token \cup {Nothing}]]]
      /\ minting' \subseteq [browser: Browsers, identity: 1..MaxMints]
      /\ \A b \in Browsers : cookies'[b].access = cookies[b].access
  <2>1. CASE UNCHANGED <<cookies, minting>>
    BY <2>1 DEF PublicationsTypeOK
  <2>2. ASSUME NEW b \in Browsers, MintIdentity(b)
        PROVE  UNCHANGED cookies /\ minting' \subseteq [browser: Browsers, identity: 1..MaxMints]
    <3>1. mints + 1 \in 1..MaxMints
      BY <2>2 DEF MintIdentity, PublicationsTypeOK
    <3> QED BY <2>2, <3>1 DEF MintIdentity
  <2>3. ASSUME NEW m \in minting, AcceptIdentity(m)
        PROVE  /\ cookies' \in [Browsers -> [identity: 0..MaxMints, access: [PubIds -> Token \cup {Nothing}]]]
               /\ minting' \subseteq minting
               /\ \A b \in Browsers : cookies'[b].access = cookies[b].access
    <3>1. m.browser \in Browsers /\ m.identity \in 0..MaxMints
      OBVIOUS
    <3>2. cookies' = [cookies EXCEPT ![m.browser].identity = m.identity] /\ minting' \subseteq minting
      BY <2>3 DEF AcceptIdentity
    <3> QED BY <3>1, <3>2 DEF PublicationsTypeOK
  <2>4. CASE TickPublications \/ RotateKey \/ UNCHANGED publicationsVars
             \/ \E p \in Paths, w \in {0, edits + 2} : w \in Version /\ WriteSandbox(p, w)
    BY <2>1, <2>4 DEF TickPublications, RotateKey, WriteSandbox, publicationsVars
  <2> QED BY <2>2, <2>3, <2>4 DEF PublicationsTypeOK
<1>4. PublicationsTypeOK'
  BY <1>2, <1>3 DEF PublicationsTypeOK
<1>5. GivenIsFound'
  BY <1>3 DEF GivenIsFound, GivenOut
<1> QED BY <1>1, <1>3, <1>4, <1>5

\* A request for a preview earns access by a link, or as the owner.
LEMMA PreviewStep ==
  ASSUME PublicationsInv, NEW b \in Browsers, NEW u \in PubIds, NEW p, NEW query \in links \cup {Nothing},
         GetPreview(b, u, p, query), UNCHANGED backend
  PROVE  PublicationsInv'
<1> USE DEF PublicationsInv
<1>1. publications[u].meta /\ UNCHANGED <<publishing, publications, links, minting>>
  BY DEF GetPreview, PreviewExists, FindPublication
<1>2. PICK t : /\ cookies' = [cookies EXCEPT ![b].access[u] = t]
               /\ GivenOut(t) /\ t.id = u
               /\ \/ t \in links /\ UNCHANGED recovered
                  \/ /\ recovered' = recovered \cup {[token |-> t, identity |-> Identity(b)]}
                     /\ Identity(b) \in 1..MaxMints /\ Identity(b) = publications[u].owner
  <2>1. CASE query # Nothing /\ ValidToken(query, u) /\ KeepAccess(b, u, query) /\ UNCHANGED recovered
    BY <2>1 DEF ValidToken, KeepAccess, GivenIsFound
  <2>2. CASE ~(query # Nothing /\ ValidToken(query, u) /\ KeepAccess(b, u, query) /\ UNCHANGED recovered)
    <3>1. PICK t : t = [id |-> u, expires |-> publications[u].expires, key |-> signingKey]
      OBVIOUS
    <3>2. /\ OwnerRecovers(b, u) /\ KeepAccess(b, u, t)
          /\ recovered' = recovered \cup {[token |-> t, identity |-> Identity(b)]}
      BY <2>2, <3>1 DEF GetPreview
    <3>3. t \in Token /\ t.id = u /\ GivenOut(t)
      BY <1>1, <3>1 DEF Token, GivenOut, PublicationRecord, PublicationsTypeOK
    <3>4. Identity(b) \in 1..MaxMints /\ Identity(b) = publications[u].owner
      BY <3>2 DEF OwnerRecovers, Identity, PublicationsTypeOK
    <3> QED BY <3>2, <3>3, <3>4 DEF KeepAccess
  <2> QED BY <2>1, <2>2
<1>3. t \in Token
  BY <1>2 DEF GivenOut
<1>4. cookies' \in [Browsers -> [identity: 0..MaxMints, access: [PubIds -> Token \cup {Nothing}]]]
  BY <1>2, <1>3 DEF PublicationsTypeOK
<1>5. recovered' \subseteq [token: Token, identity: 1..MaxMints] /\ recovered \subseteq recovered'
  BY <1>2, <1>3 DEF PublicationsTypeOK
<1>6. PublicationsTypeOK'
  BY <1>1, <1>4, <1>5 DEF GetPreview, PublicationsTypeOK
<1>7. StoresAgree'
  BY <1>1 DEF StoresAgree
<1>8. \A a : GivenOut(a) => GivenOut(a)'
  BY <1>1 DEF GivenOut
<1>9. \A r \in recovered' : GivenOut(r.token) /\ r.identity = publications[r.token.id].owner
  BY <1>2 DEF GivenIsFound
<1>10. t \in links' \cup {r.token : r \in recovered'}
  BY <1>1, <1>2
<1>11. ASSUME NEW c \in Browsers, NEW w \in PubIds, cookies'[c].access[w] # Nothing
       PROVE  cookies'[c].access[w].id = w /\ cookies'[c].access[w] \in links' \cup {r.token : r \in recovered'}
  <2>1. CASE c = b /\ w = u
    BY <1>2, <1>10, <2>1 DEF PublicationsTypeOK
  <2>2. CASE ~(c = b /\ w = u)
    <3>1. cookies'[c].access[w] = cookies[c].access[w]
      BY <1>2, <2>2 DEF PublicationsTypeOK
    <3> QED BY <1>1, <1>5, <1>11, <3>1 DEF GivenIsFound
  <2> QED BY <2>1, <2>2
<1>12. GivenIsFound'
  BY <1>1, <1>8, <1>9, <1>11 DEF GivenIsFound
<1> QED BY <1>1, <1>6, <1>7, <1>12

\* A call that ends, well or not.
LEMMA EndedAgrees ==
  ASSUME NEW u \in PubIds, NEW r \in PublicationRecord, r.meta => IsWhole(u, r)
  PROVE  Agree(u, Published, r) /\ Agree(u, PublishingFailed, r)
<1> USE DEF Published, PublishingFailed, NotPublishing
<1>1. Published \in PublishingState /\ PublishingFailed \in PublishingState
  BY DEF PublishingState
<1>2. Published \notin Publishing /\ PublishingFailed \notin Publishing
  BY DEF Publishing
<1> QED BY <1>1, <1>2 DEF Agree

\* A call that reads.
LEMMA ReadingStep ==
  ASSUME PublicationsInv, NEW u \in PubIds, NEW v \in Publishing,
         v.at = "reading" \/ v.at = "writing",
         publications[u] = NotPublished,
         PublishStep(u, v), UNCHANGED <<backend, publications, links>>,
         \A p \in Paths : v.read[p] # 0 => p \in v.listing /\ (p \in Unsafe => u \in Artifacts),
         u \in Artifacts => \E p \in Paths : v.listing = {p},
         v.at = "writing" => /\ \A p \in v.listing : v.read[p] # 0
                             /\ u \notin Artifacts => Entrypoint \in v.listing
  PROVE  PublicationsInv'
<1>1. publications[u] \in PublicationRecord /\ ~publications[u].meta
  <2>1. publications[u] \in PublicationRecord
    BY DEF PublicationsInv
  <2>2. ~NotPublished.meta
    BY DEF NotPublished
  <2> QED BY <2>1, <2>2
<1>2. \A p \in Paths : publications[u].files[p] = 0
  BY DEF NotPublished
<1>3. Agree(u, v, publications[u])
  BY <1>1, <1>2 DEF Agree, PublishingState
<1>4. Stored(u, publications[u])
  BY DEF Stored, PublicationsInv
<1> QED BY <1>3, <1>4, PublishingStep

\* A call that gives up, at any step.
LEMMA FailingStep ==
  ASSUME PublicationsInv, NEW u \in PubIds, PublishStep(u, PublishingFailed),
         UNCHANGED <<backend, publications, links>>
  PROVE  PublicationsInv'
<1>1. Agree(u, PublishingFailed, publications[u])
  <2>1. publications[u] \in PublicationRecord /\ (publications[u].meta => IsWhole(u, publications[u]))
    BY DEF PublicationsInv, StoresAgree, Agree
  <2> QED BY <2>1, EndedAgrees
<1>2. Stored(u, publications[u])
  BY DEF Stored, PublicationsInv
<1> QED BY <1>1, <1>2, PublishingStep

\* A call that begins, and lists the workspace.
LEMMA BeginStep ==
  ASSUME PublicationsInv, UNCHANGED backend, NEW u \in PubIds, NEW b \in Browsers, NEW listing \in SUBSET Paths,
         Begin(u, b, listing), u \in Artifacts => \E p \in Paths : listing = {p}
  PROVE  PublicationsInv'
<1> USE PublicationsAssumption
<1>1. PICK v : v = [at |-> "reading", owner |-> Identity(b), listing |-> listing,
                    read |-> [p \in Paths |-> 0], expires |-> 0]
  OBVIOUS
<1>2. v \in Publishing
  <2>1. Identity(b) \in 0..MaxMints
    BY DEF PublicationsInv, PublicationsTypeOK, Identity
  <2>2. [p \in Paths |-> 0] \in [Paths -> Version]
    BY DEF Version
  <2> QED BY <1>1, <2>1, <2>2 DEF Publishing
<1>3. v.at = "reading" /\ v.listing = listing /\ \A p \in Paths : v.read[p] = 0
  BY <1>1
<1>4. publications[u] = NotPublished
  BY DEF Begin, PublicationsInv, StoresAgree, Agree
<1>5. PublishStep(u, v) /\ UNCHANGED <<publications, links>>
  BY <1>1 DEF Begin
<1> QED BY <1>2, <1>3, <1>4, <1>5, ReadingStep

\* Reading one file, and turning to the store.
LEMMA ReadStep ==
  ASSUME PublicationsInv, UNCHANGED backend, NEW u \in PubIds,
         \/ \E p \in Paths : ReadSandboxFile(u, p)
         \/ BeginCreate(u)
         \/ \E named \in BOOLEAN : BeginCreateArtifact(u, named)
  PROVE  PublicationsInv'
<1> USE PublicationsAssumption
<1>1. PICK v : v = publishing[u]
  OBVIOUS
<1>2. v.at = "reading"
  BY <1>1 DEF ReadSandboxFile, BeginCreate, BeginCreateArtifact
<1>3. v \in Publishing /\ publications[u] = NotPublished /\ Agree(u, v, publications[u])
  <2>1. Agree(u, v, publications[u])
    BY <1>1 DEF PublicationsInv, StoresAgree
  <2> QED BY <1>2, <2>1 DEF Agree, PublishingState, NotPublishing, Published, PublishingFailed
<1>4. /\ \A p \in Paths : v.read[p] # 0 => p \in v.listing /\ (p \in Unsafe => u \in Artifacts)
      /\ u \in Artifacts => \E p \in Paths : v.listing = {p}
  BY <1>3 DEF Agree
<1>5. ASSUME NEW p \in Paths, ReadSandboxFile(u, p) PROVE PublicationsInv'
  <2>1. u \notin Artifacts /\ p \in v.listing /\ UNCHANGED <<publications, links>>
    BY <1>1, <1>5 DEF ReadSandboxFile, UnreadFiles
  <2>2. CASE sandbox[p] = 0 \/ p \in Unsafe
    BY <1>5, <2>1, <2>2, FailingStep DEF ReadSandboxFile
  <2>3. CASE ~(sandbox[p] = 0 \/ p \in Unsafe)
    <3>1. PICK w : w = [v EXCEPT !.read[p] = sandbox[p]]
      OBVIOUS
    <3>2. PublishStep(u, w)
      BY <1>1, <1>5, <2>3, <3>1 DEF ReadSandboxFile
    <3>3. /\ w \in Publishing /\ w.at = "reading" /\ w.listing = v.listing
          /\ w.read = [v.read EXCEPT ![p] = sandbox[p]]
      <4>1. sandbox[p] \in Version
        BY DEF PublicationsInv, PublicationsTypeOK
      <4> QED BY <1>2, <1>3, <3>1, <4>1 DEF Publishing
    <3>4. \A q \in Paths : w.read[q] # 0 => q \in w.listing /\ (q \in Unsafe => u \in Artifacts)
      BY <1>3, <1>4, <2>1, <2>3, <3>3 DEF Publishing
    <3> QED BY <1>3, <2>1, <3>2, <3>3, <3>4, ReadingStep
  <2> QED BY <2>2, <2>3
<1>6. CASE BeginCreate(u)
  <2>1. u \notin Artifacts /\ UnreadFiles(v) = {} /\ CreateIf(Entrypoint \in v.listing, u, v)
    BY <1>1, <1>6 DEF BeginCreate
  <2>2. CASE Entrypoint \notin v.listing
    BY <2>1, <2>2, FailingStep DEF CreateIf
  <2>3. CASE Entrypoint \in v.listing
    <3>1. PICK w : w = [v EXCEPT !.at = "writing", !.expires = pubClock + 1]
      OBVIOUS
    <3>2. w \in Publishing /\ w.at = "writing" /\ w.listing = v.listing /\ w.read = v.read
      <4>1. pubClock + 1 \in Nat
        BY DEF PublicationsInv, PublicationsTypeOK
      <4> QED BY <1>3, <3>1, <4>1 DEF Publishing
    <3>3. PublishStep(u, w) /\ UNCHANGED <<publications, links>>
      BY <2>1, <2>3, <3>1 DEF CreateIf
    <3>4. \A p \in v.listing : v.read[p] # 0
      BY <2>1 DEF UnreadFiles
    <3> QED BY <1>3, <1>4, <2>1, <2>3, <3>2, <3>3, <3>4, ReadingStep
  <2> QED BY <2>2, <2>3
<1>7. ASSUME NEW named \in BOOLEAN, BeginCreateArtifact(u, named) PROVE PublicationsInv'
  <2>1. PICK p \in v.listing :
          /\ u \in Artifacts
          /\ CreateIf(sandbox[p] # 0 /\ (p \in Unsafe => named), u, [v EXCEPT !.read[p] = sandbox[p]])
    BY <1>1, <1>7 DEF BeginCreateArtifact
  <2>2. p \in Paths /\ v.listing = {p}
    BY <1>3, <1>4, <2>1 DEF Publishing
  <2>3. CASE ~(sandbox[p] # 0 /\ (p \in Unsafe => named))
    BY <2>1, <2>3, FailingStep DEF CreateIf
  <2>4. CASE sandbox[p] # 0 /\ (p \in Unsafe => named)
    <3>1. PICK w : w = [[v EXCEPT !.read[p] = sandbox[p]] EXCEPT !.at = "writing", !.expires = pubClock + 1]
      OBVIOUS
    <3>2. /\ w \in Publishing /\ w.at = "writing" /\ w.listing = v.listing
          /\ w.read = [v.read EXCEPT ![p] = sandbox[p]]
      <4>1. pubClock + 1 \in Nat /\ sandbox[p] \in Version
        BY <2>2 DEF PublicationsInv, PublicationsTypeOK
      <4> QED BY <1>3, <3>1, <4>1 DEF Publishing
    <3>3. PublishStep(u, w) /\ UNCHANGED <<publications, links>>
      BY <2>1, <2>4, <3>1 DEF CreateIf
    <3>4. \A q \in Paths : w.read[q] # 0 => q \in w.listing
      BY <1>3, <1>4, <2>2, <3>2 DEF Publishing
    <3>5. \A q \in w.listing : w.read[q] # 0
      BY <1>3, <2>2, <2>4, <3>2 DEF Publishing
    <3> QED BY <1>3, <1>4, <2>1, <3>2, <3>3, <3>4, <3>5, ReadingStep
  <2> QED BY <2>3, <2>4
<1> QED BY <1>5, <1>6, <1>7

\* Storing: at once, or file by file with the record last.
LEMMA StoreStep ==
  ASSUME PublicationsInv, UNCHANGED backend, NEW u \in PubIds,
         Insert(u) \/ WriteMeta(u) \/ \E p \in Paths : WriteOne(u, p)
  PROVE  PublicationsInv'
<1> USE PublicationsAssumption
<1>1. PICK v : v = publishing[u]
  OBVIOUS
<1>2. PICK r : r = publications[u]
  OBVIOUS
<1>3. v.at = "writing"
  BY <1>1 DEF Insert, WriteMeta, WriteOne
<1>4. v \in Publishing /\ r \in PublicationRecord /\ Agree(u, v, r) /\ ~r.meta
  <2>1. Agree(u, v, r) /\ r \in PublicationRecord
    BY <1>1, <1>2 DEF PublicationsInv, StoresAgree
  <2> QED BY <1>3, <2>1 DEF Agree, PublishingState, NotPublishing, Published, PublishingFailed
<1>5. /\ \A p \in Paths : v.read[p] # 0 <=> p \in v.listing
      /\ \A p \in v.listing : p \in Unsafe => u \in Artifacts
      /\ u \in Artifacts => \E p \in Paths : v.listing = {p}
      /\ u \notin Artifacts => Entrypoint \in v.listing
      /\ \A p \in Paths : r.files[p] \in {0, v.read[p]}
      /\ v.listing \in SUBSET Paths /\ v.read \in [Paths -> Version] /\ v.expires \in Nat /\ v.owner \in 0..MaxMints
  BY <1>3, <1>4 DEF Agree, Publishing
\* A call that has described what it read.
<1>6. ASSUME NEW w, NEW d, w = [v EXCEPT !.at = "signing"], d \in PublicationRecord,
             d.meta, d.expires = v.expires, d.count = Cardinality(v.listing),
             \A p \in Paths : d.files[p] # 0 <=> p \in v.listing
      PROVE  Agree(u, w, d)
  <2>1. w \in Publishing /\ w.at = "signing" /\ w.listing = v.listing /\ w.read = v.read /\ w.expires = v.expires
    BY <1>4, <1>6 DEF Publishing
  <2>2. FilesOf(d) = v.listing
    BY <1>5, <1>6 DEF FilesOf
  <2>3. IsWhole(u, d)
    BY <1>5, <1>6, <2>2 DEF IsWhole
  <2>4. w # NotPublishing
    BY <2>1 DEF NotPublishing
  <2> QED BY <1>5, <1>6, <2>1, <2>3, <2>4 DEF Agree, PublishingState
<1>7. CASE Insert(u)
  <2>1. PICK w : w = [v EXCEPT !.at = "signing"]
    OBVIOUS
  <2>2. PICK d : d = [files |-> v.read, count |-> Cardinality(v.listing), meta |-> TRUE,
                      owner |-> v.owner, expires |-> v.expires]
    OBVIOUS
  <2>3. PublishStep(u, w) /\ Stored(u, d) /\ UNCHANGED links
    BY <1>1, <1>7, <2>1, <2>2 DEF Insert
  <2>4. d \in PublicationRecord
    BY <1>5, <2>2 DEF PublicationRecord
  <2>5. Agree(u, w, d)
    <3>1. d.meta /\ d.expires = v.expires /\ d.count = Cardinality(v.listing) /\ d.files = v.read
      BY <2>2
    <3> QED BY <1>5, <1>6, <2>1, <2>4, <3>1
  <2> QED BY <1>2, <1>4, <2>3, <2>5, PublishingStep
<1>8. CASE WriteMeta(u)
  <2>1. PICK w : w = [v EXCEPT !.at = "signing"]
    OBVIOUS
  <2>2. PICK d : d = [r EXCEPT !.meta = TRUE, !.count = Cardinality(v.listing), !.owner = v.owner, !.expires = v.expires]
    OBVIOUS
  <2>3. PublishStep(u, w) /\ Stored(u, d) /\ UNCHANGED links
    BY <1>1, <1>2, <1>8, <2>1, <2>2 DEF WriteMeta, Described
  <2>4. d \in PublicationRecord
    <3>1. Cardinality(v.listing) \in {Cardinality(S) : S \in SUBSET Paths}
      BY <1>5
    <3> QED BY <1>4, <1>5, <2>2, <3>1 DEF PublicationRecord
  <2>5. Agree(u, w, d)
    <3>1. d.meta /\ d.expires = v.expires /\ d.count = Cardinality(v.listing) /\ d.files = r.files
      BY <1>4, <2>2 DEF PublicationRecord
    <3>2. \A p \in v.listing : r.files[p] # 0
      BY <1>1, <1>2, <1>8 DEF WriteMeta
    <3>3. \A p \in Paths : r.files[p] # 0 <=> p \in v.listing
      BY <1>5, <3>2
    <3> QED BY <1>6, <2>1, <2>4, <3>1, <3>3
  <2> QED BY <1>2, <1>4, <2>3, <2>5, PublishingStep
<1>9. ASSUME NEW p \in Paths, WriteOne(u, p) PROVE PublicationsInv'
  <2>1. PICK d : d = [r EXCEPT !.files[p] = v.read[p]]
    OBVIOUS
  <2>2. PublishStep(u, v) /\ Stored(u, d) /\ UNCHANGED links
    BY <1>1, <1>2, <1>9, <2>1 DEF WriteOne
  <2>3. d \in PublicationRecord /\ ~d.meta /\ d.files = [r.files EXCEPT ![p] = v.read[p]]
    BY <1>4, <1>5, <2>1 DEF PublicationRecord
  <2>4. \A q \in Paths : d.files[q] \in {0, v.read[q]}
    BY <1>4, <1>5, <2>3 DEF PublicationRecord
  <2>5. Agree(u, v, d)
    BY <1>3, <1>4, <2>3, <2>4 DEF Agree, NotPublishing
  <2> QED BY <1>2, <1>4, <2>2, <2>5, PublishingStep
<1> QED BY <1>7, <1>8, <1>9

\* The link of a stored preview.
LEMMA SignStep ==
  ASSUME PublicationsInv, UNCHANGED backend, NEW u \in PubIds, SignLink(u) \/ SignArtifactLink(u)
  PROVE  PublicationsInv'
<1>1. publishing[u].at = "signing" /\ PublishStep(u, Published) /\ UNCHANGED publications
  BY DEF SignLink, SignArtifactLink
<1>2. links' = links \cup {SignedToken(u)}
  BY DEF SignLink, SignArtifactLink
<1>3. Agree(u, Published, publications[u])
  <2>1. publications[u] \in PublicationRecord /\ (publications[u].meta => IsWhole(u, publications[u]))
    BY DEF PublicationsInv, StoresAgree, Agree
  <2> QED BY <2>1, EndedAgrees
<1>4. Stored(u, publications[u])
  BY <1>1 DEF Stored, PublicationsInv
<1> QED BY <1>1, <1>2, <1>3, <1>4, PublishingStep

\* Every step of calls, browsers and the clock preserves the invariant.
LEMMA PublicationsStep == PublicationsInv /\ [PublicationsNext]_publicationsVars => PublicationsInv'
<1> SUFFICES ASSUME PublicationsInv, [PublicationsNext]_publicationsVars PROVE PublicationsInv'
  OBVIOUS
<1>0. UNCHANGED backend
  BY DEF PublicationsNext, publicationsVars
<1>1. CASE UNCHANGED publicationsVars
  <2>1. UNCHANGED <<backend, publishing, publications, links, recovered>>
    BY <1>1 DEF publicationsVars
  <2> QED BY <1>1, <2>1, SurroundingsStep
<1>2. CASE TickPublications \/ RotateKey
  <2>1. UNCHANGED <<backend, publishing, publications, links, recovered>>
    BY <1>0, <1>2 DEF TickPublications, RotateKey
  <2> QED BY <1>2, <2>1, SurroundingsStep
<1>3. CASE \E p \in Paths, w \in {0, edits + 2} : w \in Version /\ WriteSandbox(p, w)
  <2>1. UNCHANGED <<backend, publishing, publications, links, recovered>>
    BY <1>0, <1>3 DEF WriteSandbox
  <2> QED BY <1>3, <2>1, SurroundingsStep
<1>4. CASE \E m \in minting : AcceptIdentity(m)
  <2>1. UNCHANGED <<backend, publishing, publications, links, recovered>>
    BY <1>0, <1>4 DEF AcceptIdentity
  <2> QED BY <1>4, <2>1, SurroundingsStep
<1>5. CASE \E b \in Browsers : MintIdentity(b)
  <2>1. UNCHANGED <<backend, publishing, publications, links, recovered>>
    BY <1>0, <1>5 DEF MintIdentity
  <2> QED BY <1>5, <2>1, SurroundingsStep
<1>6. ASSUME NEW u \in PubIds,
             \/ BeginCreate(u) \/ (\E named \in BOOLEAN : BeginCreateArtifact(u, named))
             \/ \E p \in Paths : ReadSandboxFile(u, p)
      PROVE  PublicationsInv'
  BY <1>0, <1>6, ReadStep
<1>7. ASSUME NEW u \in PubIds,
             \/ InsertPublication(u) \/ InsertArtifact(u) \/ WriteMeta(u)
             \/ \E p \in Paths : WriteFile(u, p) \/ WriteContent(u, p)
      PROVE  PublicationsInv'
  BY <1>0, <1>7, StoreStep DEF InsertPublication, InsertArtifact, WriteFile, WriteContent
<1>8. ASSUME NEW u \in PubIds, SignLink(u) \/ SignArtifactLink(u) PROVE PublicationsInv'
  BY <1>0, <1>8, SignStep
<1>9. ASSUME NEW u \in PubIds, PublishingFails(u) PROVE PublicationsInv'
  BY <1>0, <1>9, FailingStep DEF PublishingFails
<1>10. ASSUME NEW b \in Browsers, NEW u \in PubIds, NEW listing \in SUBSET Paths, BeginPublishing(u, b, listing)
       PROVE  PublicationsInv'
  BY <1>0, <1>10, BeginStep DEF BeginPublishing
<1>11. ASSUME NEW b \in Browsers, NEW u \in PubIds, NEW p \in Paths, BeginArtifact(u, b, p) PROVE PublicationsInv'
  <2>1. Begin(u, b, {p}) /\ {p} \in SUBSET Paths
    BY <1>11 DEF BeginArtifact
  <2> QED BY <1>0, <2>1, BeginStep
<1>12. ASSUME NEW b \in Browsers, NEW u \in PubIds, NEW query \in links \cup {Nothing}, NEW p \in Paths,
              GetPreview(b, u, p, query)
       PROVE  PublicationsInv'
  BY <1>0, <1>12, PreviewStep
<1> QED BY <1>1, <1>2, <1>3, <1>4, <1>5, <1>6, <1>7, <1>8, <1>9, <1>10, <1>11, <1>12 DEF PublicationsNext

\* The two promises follow from the invariant.
LEMMA PublicationsPromises == PublicationsInv => FoundIsComplete /\ AccessIsEarned
<1> SUFFICES ASSUME PublicationsInv PROVE FoundIsComplete /\ AccessIsEarned
  OBVIOUS
<1> USE DEF PublicationsInv
<1>1. ASSUME NEW u \in PubIds, FindPublication(u) PROVE IsWhole(u, publications[u])
  BY <1>1 DEF FindPublication, StoresAgree, Agree
<1>2. ASSUME NEW t \in links, ValidToken(t, t.id)
      PROVE  PreviewExists(t.id, Entrypoint) \/ ArtifactServed(t.id, t)
  <2>1. t \in Token /\ t.id \in PubIds /\ publications[t.id].meta /\ t.expires = publications[t.id].expires
    BY DEF GivenIsFound, GivenOut, Token
  <2>2. ~Expired(t.id)
    <3>1. t.expires > pubClock /\ t.expires \in Nat /\ pubClock \in Nat
      BY <1>2, <2>1 DEF ValidToken, Token, PublicationsTypeOK
    <3> QED BY <2>1, <3>1 DEF Expired
  <2>3. IsWhole(t.id, publications[t.id])
    BY <1>1, <2>1 DEF FindPublication
  <2> QED BY <1>2, <2>1, <2>2, <2>3, PublicationsAssumption
        DEF IsWhole, FilesOf, PreviewExists, ArtifactServed, FindPublication, FindArtifact, ReadArtifact
<1>3. FoundIsComplete
  BY <1>1, <1>2 DEF FoundIsComplete, IsWhole, FilesOf
<1>4. AccessIsEarned
  BY DEF AccessIsEarned, GivenIsFound, GivenOut
<1> QED BY <1>3, <1>4

\* A publication that a reader finds is complete: all the files that were read, none of an
\* unsafe path, whichever step of the call failed or crashed (agent/lib/agent-previews.ts,
\* agent/lib/agent-artifacts.ts).
THEOREM FoundPublicationsAreWhole == PublicationsSpec => []FoundIsComplete
BY PublicationsStart, PublicationsStep, PublicationsPromises, PTL DEF PublicationsSpec

\* A browser that reads a preview holds a link or is its owner's, and the access ends when
\* the link does (lib/preview-access.ts).
THEOREM AccessWasEarned == PublicationsSpec => []AccessIsEarned
BY PublicationsStart, PublicationsStep, PublicationsPromises, PTL DEF PublicationsSpec

-----------------------------------------------------------------------------
(* Followers: the readers of a durable stream.                             *)

\* The inductive invariant of a stream's reader: what it promises, and a cursor at 0 while
\* it has no session.
FollowersInv ==
  /\ FollowersTypeOK
  /\ FollowsTheStream
  /\ follower.of = NoStream => follower.cursor = 0

\* What a reader shows: an event of a session, by its place.
Place == [of: StreamIds, at: Nat]

\* A place of the second of two sequences, in their concatenation.
LEMMA PlaceInConcat ==
  ASSUME NEW S, NEW s \in Seq(S), NEW t \in Seq(S), NEW j \in 1..Len(t)
  PROVE  (s \o t)[Len(s) + j] = t[j]
OBVIOUS

\* A number beyond c is c and a rest.
LEMMA PlaceBeyond ==
  ASSUME NEW c \in Nat, NEW n \in Nat, NEW i \in 1..(c + n), i > c
  PROVE  \E j \in 1..n : i = c + j
<1>1. i - c \in 1..n /\ i = c + (i - c)
  OBVIOUS
<1> QED BY <1>1

\* The types of an empty view.
LEMMA NothingShown == <<>> \in Seq(Place) /\ 0 \in 0..(ReconnectLimit + 1)
BY FollowersAssumption

\* It holds of a reader that has not begun.
LEMMA FollowersStart == FollowersInit => FollowersInv
<1> SUFFICES ASSUME FollowersInit PROVE FollowersInv
  OBVIOUS
<1> USE FollowersAssumption
<1>1. PICK k \in {"child", "session", "run"} :
        follower = [kind |-> k, of |-> NoStream, cursor |-> 0, shown |-> <<>>, phase |-> "connecting",
                    failures |-> 0, loop |-> "over", error |-> FALSE]
  BY DEF FollowersInit
<1>2. follower \in Follower
  BY <1>1, NothingShown DEF Follower, Phase, Place
<1>3. streams \in [StreamIds -> Seq(StreamEvent)]
  <2>1. <<>> \in Seq(StreamEvent)
    OBVIOUS
  <2> QED BY <2>1 DEF FollowersInit
<1>4. runRow \in [count: Nat, terminal: BOOLEAN] /\ opened \in 0..MaxOpened
  BY DEF FollowersInit
<1>5. FollowsTheStream /\ follower.cursor = 0
  BY <1>1 DEF FollowsTheStream
<1> QED BY <1>2, <1>3, <1>4, <1>5 DEF FollowersInv, FollowersTypeOK

\* A follower that reads nothing, of the same session.
LEMMA FollowerKeepsPlace ==
  ASSUME FollowersInv, NEW f \in Follower, follower' = f,
         f.of = follower.of, f.cursor = follower.cursor, f.shown = follower.shown,
         UNCHANGED <<streams, runRow>>, opened' \in 0..MaxOpened
  PROVE  FollowersInv'
BY DEF FollowersInv, FollowersTypeOK, FollowsTheStream

\* A follower that begins another session, or none.
LEMMA FollowerStartsOver ==
  ASSUME FollowersInv, NEW f \in Follower, follower' = f, f.cursor = 0, f.shown = <<>>,
         UNCHANGED <<streams, runRow>>, opened' \in 0..MaxOpened
  PROVE  FollowersInv'
BY DEF FollowersInv, FollowersTypeOK, FollowsTheStream

\* A follower that shows the next n events.
LEMMA FollowerAdvances ==
  ASSUME FollowersInv, NEW f \in Follower, NEW n \in Nat, follower' = f, follower.of \in StreamIds,
         f.of = follower.of, f.cursor = follower.cursor + n, f.cursor <= Len(streams[follower.of]),
         f.shown = follower.shown \o [i \in 1..n |-> [of |-> follower.of, at |-> follower.cursor + i]],
         UNCHANGED streams, runRow' \in [count: Nat, terminal: BOOLEAN], UNCHANGED opened
  PROVE  FollowersInv'
<1> USE FollowersAssumption DEF FollowersInv
<1> DEFINE chunk == [i \in 1..n |-> [of |-> follower.of, at |-> follower.cursor + i]]
<1>1. FollowersTypeOK'
  BY DEF FollowersTypeOK
<1>2. /\ follower.cursor \in Nat /\ follower.shown \in Seq([of: StreamIds, at: Nat])
      /\ Len(follower.shown) = follower.cursor
  BY DEF FollowersTypeOK, Follower, FollowsTheStream
<1>3. chunk \in Seq([of: StreamIds, at: Nat]) /\ Len(chunk) = n
  <2>1. \A i \in 1..n : [of |-> follower.of, at |-> follower.cursor + i] \in [of: StreamIds, at: Nat]
    BY <1>2
  <2>2. chunk \in [1..n -> [of: StreamIds, at: Nat]]
    BY <2>1
  <2> QED BY <2>2
<1>4. Len(f.shown) = f.cursor
  BY <1>2, <1>3
<1>5. ASSUME NEW i \in 1..Len(f.shown) PROVE f.shown[i] = [of |-> f.of, at |-> i]
  <2>1. CASE i <= Len(follower.shown)
    <3>1. f.shown[i] = follower.shown[i]
      BY <1>2, <1>3, <2>1
    <3> QED BY <2>1, <3>1 DEF FollowsTheStream
  <2>2. CASE i > Len(follower.shown)
    <3>1. i \in 1..(follower.cursor + n) /\ i > follower.cursor
      BY <1>2, <1>4, <2>2
    <3>2. PICK j \in 1..n : i = follower.cursor + j
      <4>1. PICK c \in Nat : c = follower.cursor
        BY <1>2
      <4>2. i \in 1..(c + n) /\ i > c
        BY <3>1, <4>1
      <4>3. \E j \in 1..n : i = c + j
        BY <4>2, PlaceBeyond
      <4> QED BY <4>1, <4>3
    <3>3. f.shown[i] = chunk[j]
      <4> HIDE DEF chunk
      <4>1. f.shown = follower.shown \o chunk
        BY DEF chunk
      <4>2. PICK t \in Seq([of: StreamIds, at: Nat]) : t = chunk /\ Len(t) = n
        BY <1>3
      <4>3. PICK s \in Seq([of: StreamIds, at: Nat]) : s = follower.shown /\ Len(s) = follower.cursor
        BY <1>2
      <4>4. (s \o t)[Len(s) + j] = t[j]
        BY <3>2, <4>2, PlaceInConcat
      <4> QED BY <3>2, <4>1, <4>2, <4>3, <4>4
    <3>4. chunk[j] = [of |-> follower.of, at |-> follower.cursor + j]
      BY <3>2
    <3> QED BY <3>2, <3>3, <3>4
  <2> QED BY <1>2, <1>4, <2>1, <2>2
<1>6. FollowsTheStream'
  BY <1>4, <1>5 DEF FollowsTheStream
<1> QED BY <1>1, <1>6

\* Eve records an event: streams only grow.
LEMMA RecordStep ==
  ASSUME FollowersInv, NEW s \in StreamIds, NEW e \in EventKinds, Record(s, e)
  PROVE  FollowersInv'
<1> USE FollowersAssumption DEF FollowersInv, Record
<1>1. streams' \in [StreamIds -> Seq(StreamEvent)]
  BY DEF FollowersTypeOK
<1>2. \A r \in StreamIds : Len(streams[r]) \in Nat /\ Len(streams'[r]) \in Nat /\ Len(streams[r]) <= Len(streams'[r])
  BY DEF FollowersTypeOK
<1>3. FollowersTypeOK'
  BY <1>1 DEF FollowersTypeOK
<1>4. follower.of = NoStream \/ follower.cursor <= Len(streams'[follower.of])
  BY <1>2 DEF FollowersTypeOK, Follower, FollowsTheStream
<1> QED BY <1>3, <1>4 DEF FollowsTheStream

\* Projecting a page leaves a row of events counted.
LEMMA ProjectedRowIsTyped ==
  ASSUME FollowersInv, follower.of # NoStream
  PROVE  /\ Synchronized \in [count: Nat, terminal: BOOLEAN]
         /\ [runRow EXCEPT !.terminal = TRUE] \in [count: Nat, terminal: BOOLEAN]
<1> USE FollowersAssumption
<1>1. Len(streams[follower.of]) \in Nat /\ runRow \in [count: Nat, terminal: BOOLEAN]
  BY DEF FollowersInv, FollowersTypeOK, Follower
<1>2. Smaller(Len(streams[follower.of]), runRow.count + PageSize) \in Nat
  BY <1>1 DEF Smaller
<1> QED BY <1>1, <1>2 DEF Synchronized

\* The bound on openings.
LEMMA OpensOnce == FollowersInv /\ Opens => opened' \in 0..MaxOpened
BY FollowersAssumption DEF FollowersInv, FollowersTypeOK, Opens

\* The sub-agent view.
LEMMA ChildStep ==
  ASSUME FollowersInv,
         \/ RestartLoop \/ ChildConsumes \/ ChildStreamEnds \/ ChildWakes \/ StopRefused
         \/ (\E s \in StreamIds : Select(s)) \/ \E retryable \in BOOLEAN : ChildStreamFails(retryable)
  PROVE  FollowersInv'
<1> USE FollowersAssumption
<1>0. PICK g : g = follower
  OBVIOUS
<1>1. g \in Follower /\ opened \in 0..MaxOpened
  BY <1>0 DEF FollowersInv, FollowersTypeOK
<1>2. ASSUME NEW s \in StreamIds, Select(s) PROVE FollowersInv'
  <2>1. PICK f : f = [g EXCEPT !.of = s, !.shown = <<>>, !.cursor = 0, !.phase = "connecting",
                               !.failures = 0, !.loop = "reading", !.error = FALSE]
    OBVIOUS
  <2>2. f \in Follower /\ f.cursor = 0 /\ f.shown = <<>>
    BY <1>1, <2>1, NothingShown DEF Follower, Phase, Place
  <2>3. follower' = f /\ UNCHANGED <<streams, runRow>> /\ opened' \in 0..MaxOpened
    BY <1>0, <1>2, <2>1, OpensOnce DEF Select
  <2> QED BY <2>2, <2>3, FollowerStartsOver
<1>3. CASE RestartLoop
  <2>1. PICK f : f = [g EXCEPT !.failures = 0, !.loop = "reading", !.error = FALSE]
    OBVIOUS
  <2>2. f \in Follower /\ f.cursor = g.cursor /\ f.shown = g.shown /\ f.of = g.of
    BY <1>1, <2>1, NothingShown DEF Follower
  <2>3. follower' = f /\ UNCHANGED <<streams, runRow>> /\ opened' \in 0..MaxOpened
    BY <1>0, <1>3, <2>1, OpensOnce DEF RestartLoop
  <2> QED BY <1>0, <2>2, <2>3, FollowerKeepsPlace
<1>4. CASE ChildWakes \/ StopRefused
  <2>1. \/ follower' = [g EXCEPT !.loop = "reading"] \/ follower' = [g EXCEPT !.error = TRUE]
    BY <1>0, <1>4 DEF ChildWakes, StopRefused
  <2>2. PICK f : follower' = f
    OBVIOUS
  <2>3. f \in Follower /\ f.cursor = g.cursor /\ f.shown = g.shown /\ f.of = g.of
    BY <1>1, <2>1, <2>2 DEF Follower
  <2> QED BY <1>0, <1>1, <1>4, <2>2, <2>3, FollowerKeepsPlace DEF ChildWakes, StopRefused
<1>5. CASE ChildStreamEnds \/ \E retryable \in BOOLEAN : ChildStreamFails(retryable)
  <2>1. \/ follower' = [g EXCEPT !.loop = "sleeping"]
        \/ follower' = [g EXCEPT !.loop = "over", !.phase = "failed", !.error = TRUE]
        \/ /\ follower' = [g EXCEPT !.failures = @ + 1, !.loop = "sleeping", !.phase = "reconnecting"]
           /\ g.failures + 1 \in 0..(ReconnectLimit + 1)
    BY <1>0, <1>1, <1>5 DEF ChildStreamEnds, ChildStreamFails, GivesUp, Reconnects, Follower
  <2>2. PICK f : follower' = f
    OBVIOUS
  <2>3. f \in Follower /\ f.cursor = g.cursor /\ f.shown = g.shown /\ f.of = g.of
    BY <1>1, <2>1, <2>2 DEF Follower, Phase
  <2> QED BY <1>0, <1>1, <1>5, <2>2, <2>3, FollowerKeepsPlace DEF ChildStreamEnds, ChildStreamFails
<1>6. CASE ChildConsumes
  <2>1. g.of \in StreamIds /\ g.cursor < Len(streams[g.of]) /\ g.cursor \in Nat /\ Len(streams[g.of]) \in Nat
    BY <1>0, <1>1, <1>6 DEF ChildConsumes, Behind, Follower, FollowersInv, FollowersTypeOK
  <2>2. PICK one : one = [of |-> g.of, at |-> g.cursor + 1]
    OBVIOUS
  <2>3. PICK p \in Phase : p = PhaseAt(g.of, g.cursor + 1)
    <3>1. g.cursor + 1 # 0 /\ PhaseAt(g.of, g.cursor + 1) \in Phase
      BY <2>1 DEF PhaseAt, Phase
    <3> QED BY <3>1
  <2>4. PICK l \in {"reading", "over"} : 
          l = IF streams[g.of][g.cursor + 1] \in Ends THEN "over" ELSE g.loop
    BY <1>0, <1>6 DEF ChildConsumes
  <2>5. PICK f : f = [g EXCEPT !.cursor = @ + 1, !.shown = Append(@, one), !.failures = 0, !.error = FALSE,
                               !.phase = p, !.loop = l]
    OBVIOUS
  <2>6. follower' = f
    BY <1>0, <1>1, <1>6, <2>2, <2>3, <2>4, <2>5 DEF ChildConsumes, Consumed, Follower
  <2>7. f.of = g.of /\ f.cursor = g.cursor + 1 /\ f.shown = Append(g.shown, one)
    BY <1>1, <2>5 DEF Follower
  <2>8. f \in Follower
    <3>1. Append(g.shown, one) \in Seq([of: StreamIds, at: Nat])
      BY <1>1, <2>1, <2>2 DEF Follower
    <3>2. g.cursor + 1 \in Nat
      BY <2>1
    <3>3. f = [kind |-> g.kind, of |-> g.of, cursor |-> g.cursor + 1, shown |-> Append(g.shown, one),
               phase |-> p, failures |-> 0, loop |-> l, error |-> FALSE]
      BY <1>1, <2>5 DEF Follower
    <3> QED BY <1>1, <2>3, <2>4, <3>1, <3>2, <3>3, NothingShown DEF Follower
  <2>9. Append(g.shown, one) = g.shown \o [i \in 1..1 |-> [of |-> g.of, at |-> g.cursor + i]]
    <3>1. [i \in 1..1 |-> [of |-> g.of, at |-> g.cursor + i]] = <<one>>
      BY <2>2
    <3> QED BY <1>1, <3>1 DEF Follower
  <2>10. UNCHANGED <<streams, runRow, opened>> /\ runRow \in [count: Nat, terminal: BOOLEAN]
    BY <1>6 DEF ChildConsumes, FollowersInv, FollowersTypeOK
  <2>11. g.cursor + 1 <= Len(streams[g.of])
    BY <2>1
  <2> QED BY <1>0, <2>1, <2>6, <2>7, <2>8, <2>9, <2>10, <2>11, FollowerAdvances
<1> QED BY <1>2, <1>3, <1>4, <1>5, <1>6

\* The SDK's session.
LEMMA SessionReaderStep ==
  ASSUME FollowersInv,
         \/ SessionConsumes \/ SessionStops \/ Attach \/ ResetSession \/ \E s \in StreamIds : SendTurn(s)
  PROVE  FollowersInv'
<1> USE FollowersAssumption
<1>0. PICK g : g = follower
  OBVIOUS
<1>1. g \in Follower /\ opened \in 0..MaxOpened
  BY <1>0 DEF FollowersInv, FollowersTypeOK
<1>2. ASSUME NEW s \in StreamIds, SendTurn(s) PROVE FollowersInv'
  <2>1. PICK f : f = [g EXCEPT !.of = s, !.loop = "reading"]
    OBVIOUS
  <2>2. f \in Follower /\ f.cursor = g.cursor /\ f.shown = g.shown /\ f.of = s
    BY <1>1, <2>1 DEF Follower
  <2>3. follower' = f /\ UNCHANGED <<streams, runRow>> /\ opened' \in 0..MaxOpened
    BY <1>0, <1>2, <2>1, OpensOnce DEF SendTurn
  <2>4. CASE g.of = s
    BY <1>0, <2>2, <2>3, <2>4, FollowerKeepsPlace
  <2>5. CASE g.of # s
    <3>1. g.of = NoStream
      BY <1>0, <1>2, <2>5 DEF SendTurn
    <3>2. g.cursor = 0 /\ Len(g.shown) = 0 /\ g.shown \in Seq(Place)
      BY <1>0, <1>1, <3>1 DEF FollowersInv, FollowsTheStream, Follower, Place
    <3>3. g.shown = <<>>
      BY <3>2
    <3> QED BY <2>2, <2>3, <3>2, <3>3, FollowerStartsOver
  <2> QED BY <2>4, <2>5
<1>3. CASE SessionStops \/ Attach
  <2>1. follower' = [g EXCEPT !.loop = "over"] \/ follower' = [g EXCEPT !.loop = "reading"]
    BY <1>0, <1>3 DEF SessionStops, Attach
  <2>2. PICK f : follower' = f
    OBVIOUS
  <2>3. f \in Follower /\ f.cursor = g.cursor /\ f.shown = g.shown /\ f.of = g.of
    BY <1>1, <2>1, <2>2 DEF Follower
  <2>4. UNCHANGED <<streams, runRow>> /\ opened' \in 0..MaxOpened
    BY <1>1, <1>3 DEF SessionStops, Attach, Opens
  <2> QED BY <1>0, <2>2, <2>3, <2>4, FollowerKeepsPlace
<1>4. CASE ResetSession
  <2>1. PICK f : f = [g EXCEPT !.of = NoStream, !.cursor = 0, !.shown = <<>>, !.loop = "over"]
    OBVIOUS
  <2>2. f \in Follower /\ f.cursor = 0 /\ f.shown = <<>>
    BY <1>1, <2>1, NothingShown DEF Follower, Place
  <2>3. follower' = f /\ UNCHANGED <<streams, runRow>> /\ opened' \in 0..MaxOpened
    BY <1>0, <1>4, <2>1, OpensOnce DEF ResetSession
  <2> QED BY <2>2, <2>3, FollowerStartsOver
<1>5. CASE SessionConsumes
  <2>1. g.of \in StreamIds /\ g.cursor < Len(streams[g.of]) /\ g.cursor \in Nat /\ Len(streams[g.of]) \in Nat
    BY <1>0, <1>1, <1>5 DEF SessionConsumes, Behind, Follower, FollowersInv, FollowersTypeOK
  <2>2. PICK one : one = [of |-> g.of, at |-> g.cursor + 1]
    OBVIOUS
  <2>3. PICK f : f = [g EXCEPT !.cursor = @ + 1, !.shown = Append(@, one)]
    OBVIOUS
  <2>4. follower' = f
    BY <1>0, <1>5, <2>2, <2>3 DEF SessionConsumes, Consumed
  <2>5. f.of = g.of /\ f.cursor = g.cursor + 1 /\ f.shown = Append(g.shown, one)
    BY <1>1, <2>3 DEF Follower
  <2>6. f \in Follower
    <3>1. Append(g.shown, one) \in Seq([of: StreamIds, at: Nat])
      BY <1>1, <2>1, <2>2 DEF Follower
    <3>2. g.cursor + 1 \in Nat
      BY <2>1
    <3>3. f = [kind |-> g.kind, of |-> g.of, cursor |-> g.cursor + 1, shown |-> Append(g.shown, one),
               phase |-> g.phase, failures |-> g.failures, loop |-> g.loop, error |-> g.error]
      BY <1>1, <2>3 DEF Follower
    <3> QED BY <1>1, <3>1, <3>2, <3>3 DEF Follower
  <2>7. Append(g.shown, one) = g.shown \o [i \in 1..1 |-> [of |-> g.of, at |-> g.cursor + i]]
    <3>1. [i \in 1..1 |-> [of |-> g.of, at |-> g.cursor + i]] = <<one>>
      BY <2>2
    <3> QED BY <1>1, <3>1 DEF Follower
  <2>8. UNCHANGED <<streams, runRow, opened>> /\ runRow \in [count: Nat, terminal: BOOLEAN]
    BY <1>5 DEF SessionConsumes, FollowersInv, FollowersTypeOK
  <2>9. g.cursor + 1 <= Len(streams[g.of])
    BY <2>1
  <2> QED BY <1>0, <2>1, <2>4, <2>5, <2>6, <2>7, <2>8, <2>9, FollowerAdvances
<1> QED BY <1>2, <1>3, <1>4, <1>5

\* The pages of a run.
LEMMA RunReaderStep ==
  ASSUME FollowersInv, RunStopped \/ Page \/ PageFails \/ \E s \in StreamIds : RunAttached(s)
  PROVE  FollowersInv'
<1> USE FollowersAssumption
<1>0. PICK g : g = follower
  OBVIOUS
<1>1. g \in Follower /\ opened \in 0..MaxOpened
  BY <1>0 DEF FollowersInv, FollowersTypeOK
<1>2. CASE RunStopped \/ PageFails
  <2>1. runRow' \in [count: Nat, terminal: BOOLEAN]
    BY <1>2, ProjectedRowIsTyped DEF RunStopped, PageFails, FollowersInv, FollowersTypeOK
  <2>2. UNCHANGED <<streams, follower, opened>>
    BY <1>2 DEF RunStopped, PageFails
  <2> QED BY <2>1, <2>2 DEF FollowersInv, FollowersTypeOK, FollowsTheStream
<1>3. ASSUME NEW s \in StreamIds, RunAttached(s) PROVE FollowersInv'
  <2>1. PICK f : f = [g EXCEPT !.of = s]
    OBVIOUS
  <2>2. f \in Follower /\ f.cursor = g.cursor /\ f.shown = g.shown
    BY <1>1, <2>1 DEF Follower
  <2>3. g.cursor = 0 /\ g.shown = <<>>
    BY <1>0, <1>1, <1>3 DEF RunAttached, FollowersInv, FollowsTheStream, Follower
  <2> QED BY <1>0, <1>1, <1>3, <2>1, <2>2, <2>3, FollowerStartsOver DEF RunAttached
<1>4. CASE Page
  <2>1. g.of \in StreamIds /\ g.cursor <= Len(streams[g.of]) /\ g.cursor \in Nat /\ Len(streams[g.of]) \in Nat
    BY <1>0, <1>1, <1>4 DEF Page, Follower, FollowersInv, FollowersTypeOK, FollowsTheStream
  <2>2. /\ runRow' = Synchronized /\ runRow' \in [count: Nat, terminal: BOOLEAN]
        /\ UNCHANGED <<streams, opened>>
    BY <1>4, ProjectedRowIsTyped DEF Page
  <2>3. CASE follower.cursor > Synchronized.count
    <3>1. PICK f : f = [g EXCEPT !.error = TRUE]
      OBVIOUS
    <3>2. f \in Follower /\ f.cursor = g.cursor /\ f.shown = g.shown /\ f.of = g.of
      BY <1>1, <3>1 DEF Follower
    <3>3. follower' = f
      BY <1>0, <1>4, <2>3, <3>1 DEF Page
    <3> QED BY <1>0, <2>2, <3>2, <3>3 DEF FollowersInv, FollowersTypeOK, FollowsTheStream
  <2>4. CASE ~(follower.cursor > Synchronized.count)
    <3>1. PICK last : last = Smaller(Len(streams[g.of]), g.cursor + PageSize)
      OBVIOUS
    <3>2. PICK n \in Nat : n = last - g.cursor /\ last = g.cursor + n /\ last <= Len(streams[g.of])
      BY <2>1, <3>1 DEF Smaller
    <3>3. PICK chunk : chunk = [i \in 1..n |-> [of |-> g.of, at |-> g.cursor + i]]
      OBVIOUS
    <3>4. PICK f : f = [g EXCEPT !.error = FALSE, !.cursor = last, !.shown = @ \o chunk]
      OBVIOUS
    <3>5. follower' = f
      BY <1>0, <1>4, <2>4, <3>1, <3>2, <3>3, <3>4 DEF Page
    <3>6. g.shown \o chunk \in Seq([of: StreamIds, at: Nat])
      <4>1. \A i \in 1..n : [of |-> g.of, at |-> g.cursor + i] \in [of: StreamIds, at: Nat]
        BY <2>1
      <4>2. chunk \in [1..n -> [of: StreamIds, at: Nat]]
        BY <3>3, <4>1
      <4>3. chunk \in Seq([of: StreamIds, at: Nat])
        <5>1. chunk \in UNION {[1..m -> [of: StreamIds, at: Nat]] : m \in Nat}
          BY <3>2, <4>2
        <5> QED BY <5>1, SeqDef, Zenon
      <4> QED BY <1>1, <4>3 DEF Follower
    <3>7. last \in Nat
      BY <2>1, <3>2
    <3>8. f \in Follower /\ f.of = g.of /\ f.cursor = last /\ f.shown = g.shown \o chunk
      BY <1>1, <3>4, <3>6, <3>7 DEF Follower
    <3> QED BY <1>0, <2>1, <2>2, <3>2, <3>3, <3>5, <3>8, FollowerAdvances
  <2> QED BY <2>3, <2>4
<1> QED BY <1>2, <1>3, <1>4

\* Every step of the stream and of its reader preserves the invariant.
LEMMA FollowersStep == FollowersInv /\ [FollowersNext]_followersVars => FollowersInv'
<1> SUFFICES ASSUME FollowersInv, [FollowersNext]_followersVars PROVE FollowersInv'
  OBVIOUS
<1>1. CASE UNCHANGED followersVars
  BY <1>1 DEF followersVars, FollowersInv, FollowersTypeOK, FollowsTheStream
<1>2. CASE FollowersNext
  BY <1>2, RecordStep, ChildStep, SessionReaderStep, RunReaderStep DEF FollowersNext
<1> QED BY <1>1, <1>2

\* Whatever ends, fails, restarts or is selected, a reader shows the events of its session
\* from the first one, each once and in order, and reconnects after the last it showed
\* (agent-child-session.tsx, eve-session-client.ts, agent-run-client.ts).
THEOREM FollowersShowTheStream == FollowersSpec => []FollowsTheStream
<1>1. FollowersInv => FollowsTheStream
  BY DEF FollowersInv
<1> QED BY <1>1, FollowersStart, FollowersStep, PTL DEF FollowersSpec

-----------------------------------------------------------------------------
(* Composer: the drafts.                                                   *)

\* The drafts of the browser are what the user left in each place; a mounted
\* composer shows the draft of its key and waits for no load.
ComposerInv ==
  /\ made \in Tasks /\ tasks \subseteq 1..made /\ shown \in tasks
  /\ saved \subseteq 1..made
  /\ path \in [task: 1..made \cup {New}, agent: BOOLEAN]
  /\ composer \in [text: Texts \cup {0}, loaded: [key: Keys \cup {NoKey}, text: Texts \cup {0}],
                   previous: Keys \cup {NoKey}, drafts: [Keys -> Texts \cup {0}]]
  /\ composer.drafts = meant
  /\ composer.loaded = NotLoaded
  /\ ~agentView => composer.text = meant[ShownKey] /\ composer.previous = ShownKey

\* A composer with its drafts.
Composers == [text: Texts \cup {0}, loaded: [key: Keys \cup {NoKey}, text: Texts \cup {0}],
              previous: Keys \cup {NoKey}, drafts: [Keys -> Texts \cup {0}]]

\* A thread has a draft key.
LEMMA KeyIsKey ==
  ASSUME NEW t \in Tasks, NEW fresh
  PROVE  DraftKey(t, fresh) \in Keys
BY DEF DraftKey, Keys

\* Rendering a key shows its stored draft, forgets the draft of the key that was left, and
\* waits for no load.
LEMMA RenderedKey ==
  ASSUME NEW c \in Composers, NEW key \in Keys
  PROVE  /\ RenderKey(c, key) \in Composers
         /\ RenderKey(c, key).loaded = NotLoaded
         /\ RenderKey(c, key).previous = key
         /\ RenderKey(c, key).drafts = [k \in Keys |-> IF k = c.previous /\ k # key THEN 0 ELSE c.drafts[k]]
         /\ RenderKey(c, key).text = c.drafts[key]
<1> USE ComposerAssumption
<1>1. PICK drafts : drafts = [k \in Keys |-> IF k = c.previous /\ k # key THEN 0 ELSE c.drafts[k]]
  OBVIOUS
<1>2. drafts \in [Keys -> Texts \cup {0}] /\ drafts[key] = c.drafts[key]
  BY <1>1 DEF Composers
<1>3. PICK one : one = LoadDraft(c, key)
  OBVIOUS
<1>4. one = [text |-> drafts[key], loaded |-> [key |-> key, text |-> drafts[key]],
             previous |-> key, drafts |-> drafts]
  BY <1>1, <1>3 DEF LoadDraft
<1>5. PICK two : two = [text |-> drafts[key], loaded |-> NotLoaded, previous |-> key, drafts |-> drafts]
  OBVIOUS
<1>6. SaveDraft(one, key, drafts[key]) = two
  <2>1. [drafts EXCEPT ![key] = drafts[key]] = drafts
    BY <1>2
  <2>2. SaveDraft(one, key, drafts[key]) = [one EXCEPT !.loaded = NotLoaded, !.drafts[key] = drafts[key]]
    BY <1>4 DEF SaveDraft
  <2>3. [one EXCEPT !.loaded = NotLoaded, !.drafts[key] = drafts[key]]
        = [text |-> drafts[key], loaded |-> NotLoaded, previous |-> key, drafts |-> [drafts EXCEPT ![key] = drafts[key]]]
    <3>1. one \in Composers
      BY <1>2, <1>4 DEF Composers
    <3>2. PICK e : e = [one EXCEPT !.loaded = NotLoaded, !.drafts[key] = drafts[key]]
      OBVIOUS
    <3>3. e = [text |-> one.text, loaded |-> NotLoaded, previous |-> one.previous,
               drafts |-> [one.drafts EXCEPT ![key] = drafts[key]]]
      BY <3>1, <3>2 DEF Composers
    <3> QED BY <1>4, <3>2, <3>3
  <2> QED BY <1>5, <2>1, <2>2, <2>3
<1>7. NoKey # key /\ NotLoaded.key = NoKey
  BY DEF NotLoaded
<1>8. RenderKey(c, key) = two
  <2>1. CASE c.text = drafts[key]
    <3>1. SaveDraft(one, key, c.text) = two
      BY <1>6, <2>1
    <3>2. two.text = c.text
      BY <1>5, <2>1
    <3> QED BY <1>3, <3>1, <3>2 DEF RenderKey
  <2>2. CASE c.text # drafts[key]
    <3>1. SaveDraft(one, key, c.text) = one
      BY <1>4, <2>2 DEF SaveDraft
    <3>2. one.text = drafts[key] /\ one.text # c.text
      BY <1>4, <2>2
    <3>3. RenderKey(c, key) = SaveDraft(one, key, one.text)
      BY <1>3, <3>1, <3>2 DEF RenderKey
    <3> QED BY <1>6, <3>2, <3>3
  <2> QED BY <2>1, <2>2
<1>9. two \in Composers
  BY <1>2, <1>5 DEF Composers, NotLoaded
<1> QED BY <1>1, <1>2, <1>5, <1>8, <1>9

\* A mounted composer shows what the user left under its key.
LEMMA Mounted ==
  ASSUME ComposerInv, NEW key \in Keys, MountComposer(key)
  PROVE  /\ composer' \in Composers /\ composer'.drafts = meant /\ composer'.loaded = NotLoaded
         /\ composer'.text = meant[key] /\ composer'.previous = key
<1> USE ComposerAssumption
<1>1. PICK c : c = [composer EXCEPT !.text = 0, !.loaded = NotLoaded, !.previous = NoKey]
  OBVIOUS
<1>2. c \in Composers /\ c.drafts = meant /\ c.previous = NoKey
  BY <1>1 DEF ComposerInv, Composers, NotLoaded
<1>3. composer' = RenderKey(c, key)
  BY <1>1 DEF MountComposer
<1>4. [k \in Keys |-> IF k = c.previous /\ k # key THEN 0 ELSE c.drafts[k]] = meant
  <2>1. meant \in [Keys -> Texts \cup {0}]
    BY DEF ComposerInv
  <2>2. NoKey \notin Keys
    OBVIOUS
  <2> QED BY <1>2, <2>1, <2>2
<1> QED BY <1>2, <1>3, <1>4, RenderedKey

\* What is typed is shown and stored under the key, when no load is awaited.
LEMMA TypedIsStored ==
  ASSUME NEW c \in Composers, c.loaded = NotLoaded, NEW key \in Keys, NEW x \in Texts \cup {0}
  PROVE  /\ TypedText(c, key, x) \in Composers
         /\ TypedText(c, key, x).loaded = NotLoaded /\ TypedText(c, key, x).previous = c.previous
         /\ TypedText(c, key, x).text = x /\ TypedText(c, key, x).drafts = [c.drafts EXCEPT ![key] = x]
<1> USE ComposerAssumption
<1>1. PICK d : d = [c EXCEPT !.text = x]
  OBVIOUS
<1>2. d \in Composers /\ d.loaded = NotLoaded /\ d.previous = c.previous /\ d.text = x /\ d.drafts = c.drafts
  BY <1>1 DEF Composers
<1>3. NotLoaded.key # key
  BY DEF NotLoaded
<1>4. TypedText(c, key, x) = [d EXCEPT !.loaded = NotLoaded, !.drafts[key] = x]
  BY <1>1, <1>2, <1>3 DEF TypedText, SaveDraft
<1>5. [d.drafts EXCEPT ![key] = x] \in [Keys -> Texts \cup {0}]
  BY <1>2 DEF Composers
<1>6. PICK e : e = [d EXCEPT !.loaded = NotLoaded, !.drafts[key] = x]
  OBVIOUS
<1>7. e = [text |-> x, loaded |-> NotLoaded, previous |-> c.previous, drafts |-> [d.drafts EXCEPT ![key] = x]]
  BY <1>2, <1>6 DEF Composers
<1>8. e \in Composers
  BY <1>2, <1>5, <1>7 DEF Composers, NotLoaded
<1> QED BY <1>2, <1>4, <1>6, <1>7, <1>8

\* What a composer can show.
Written == Texts \cup {0}

\* The same, as one composer.
LEMMA TypedIsWritten ==
  ASSUME NEW c \in Composers, c.loaded = NotLoaded, NEW key \in Keys, NEW x \in Written
  PROVE  \E d \in Composers : /\ d = TypedText(c, key, x)
                              /\ d.loaded = NotLoaded /\ d.previous = c.previous
                              /\ d.text = x /\ d.drafts = [c.drafts EXCEPT ![key] = x]
BY TypedIsStored DEF Written

\* Showing a thread mounts the composer of its key.
LEMMA ShownIsRight ==
  ASSUME ComposerInv, NEW t \in Tasks, NEW fresh, Show(t, fresh), UNCHANGED meant
  PROVE  /\ composer' \in Composers /\ composer'.drafts = meant' /\ composer'.loaded = NotLoaded
         /\ composer'.text = meant'[ShownKey'] /\ composer'.previous = ShownKey'
         /\ shown' = t /\ path' \in [task: {t, New}, agent: BOOLEAN]
<1>1. PICK key \in Keys : key = DraftKey(t, fresh)
  BY KeyIsKey
<1>2. MountComposer(key) /\ ShownKey' = key /\ shown' = t
  BY <1>1 DEF Show, ShownKey
<1>3. path' \in [task: {t, New}, agent: BOOLEAN]
  BY DEF Show, TellPath, Address
<1> QED BY <1>2, <1>3, Mounted

\* The invariant holds of the first page.
LEMMA ComposerStart == ComposerInit => ComposerInv
<1> SUFFICES ASSUME ComposerInit PROVE ComposerInv
  OBVIOUS
<1> USE ComposerAssumption DEF ComposerInit
<1>1. made \in Tasks /\ tasks \subseteq 1..made /\ shown \in tasks /\ saved \subseteq 1..made
  BY DEF Tasks
<1>2. path \in [task: 1..made \cup {New}, agent: BOOLEAN]
  BY DEF Address
<1>3. composer \in Composers
  BY DEF Composers, NotLoaded, Keys
<1>4. ShownKey = New /\ New \in Keys
  BY DEF ShownKey, DraftKey, Keys
<1> QED BY <1>1, <1>2, <1>3, <1>4 DEF ComposerInv, Composers

\* Showing a thread, among threads that are the page's.
LEMMA ShowingStep ==
  ASSUME ComposerInv, NewTask \/ SelectTask \/ DeleteTask \/ CloseAgent \/ RemountComposer
  PROVE  ComposerInv'
<1> USE ComposerAssumption
<1>0. tasks \subseteq Tasks /\ shown \in Tasks /\ made \in Nat /\ 1..made \subseteq Tasks
  BY DEF ComposerInv, Tasks
<1>1. ASSUME NEW t \in Tasks, NEW fresh, Show(t, fresh), UNCHANGED meant,
             made' \in Tasks, tasks' \subseteq 1..made', t \in tasks', saved' \subseteq tasks' \cup saved, made <= made'
      PROVE  ComposerInv'
  <2>1. saved' \subseteq 1..made'
    <3>1. 1..made \subseteq 1..made'
      BY <1>0, <1>1 DEF Tasks
    <3> QED BY <1>1, <3>1 DEF ComposerInv
  <2>2. [task: {t, New}, agent: BOOLEAN] \subseteq [task: 1..made' \cup {New}, agent: BOOLEAN]
    BY <1>1
  <2>3. shown' \in tasks' /\ path' \in [task: 1..made' \cup {New}, agent: BOOLEAN]
    BY <1>1, <2>2, ShownIsRight
  <2> QED BY <1>1, <2>1, <2>3, ShownIsRight DEF ComposerInv, Composers
<1>2. CASE NewTask
  <2>1. made + 1 \in Tasks /\ made' = made + 1 /\ tasks' \subseteq 1..made' /\ made + 1 \in tasks'
    BY <1>0, <1>2 DEF NewTask, ComposerInv, Tasks
  <2>2. Show(made + 1, unsent \cup {made + 1}) /\ UNCHANGED <<saved, meant>> /\ made <= made'
    BY <1>0, <1>2, <2>1 DEF NewTask
  <2> QED BY <1>1, <2>1, <2>2
<1>3. CASE SelectTask
  BY <1>0, <1>1, <1>3 DEF SelectTask, ComposerInv
<1>4. CASE CloseAgent \/ RemountComposer
  <2>1. PICK t \in Tasks : t = shown /\ t \in tasks
    BY <1>0 DEF ComposerInv
  <2>2. Show(t, unsent) /\ UNCHANGED <<made, tasks, saved, meant>> /\ made <= made'
    BY <1>0, <1>4, <2>1 DEF CloseAgent, RemountComposer
  <2>3. made' \in Tasks /\ tasks' \subseteq 1..made' /\ t \in tasks'
    BY <2>1, <2>2 DEF ComposerInv
  <2> QED BY <1>1, <2>2, <2>3
<1>5. CASE DeleteTask
  <2>1. PICK t \in tasks :
       IF tasks = {t}
         THEN /\ made < MaxTasks /\ made' = made + 1 /\ tasks' = {made + 1}
              /\ Show(made + 1, {made + 1})
         ELSE /\ tasks' = tasks \ {t} /\ UNCHANGED made
              /\ IF t = shown
                   THEN \E u \in tasks \ {t} : Show(u, unsent \ {t})
                   ELSE /\ unsent' = unsent \ {t}
                        /\ UNCHANGED <<shown, agentView, path, composer, stopRequested>>
    BY <1>5 DEF DeleteTask
  <2>2. UNCHANGED meant /\ saved' \subseteq saved
    BY <1>5 DEF DeleteTask
  <2>3. CASE tasks = {t}
    <3>1. made + 1 \in Tasks /\ made' = made + 1 /\ tasks' \subseteq 1..made' /\ made + 1 \in tasks'
      BY <1>0, <2>1, <2>3 DEF Tasks
    <3>2. Show(made + 1, {made + 1}) /\ made <= made'
      BY <1>0, <2>1, <2>3, <3>1
    <3> QED BY <1>1, <2>2, <3>1, <3>2
  <2>4. CASE tasks # {t} /\ t = shown
    <3>1. PICK u \in tasks \ {t} : Show(u, unsent \ {t})
      BY <2>1, <2>4
    <3>2. u \in Tasks /\ u \in tasks' /\ made' = made /\ tasks' \subseteq 1..made
      BY <1>0, <2>1, <2>4 DEF ComposerInv
    <3> QED BY <1>1, <2>2, <3>1, <3>2 DEF ComposerInv
  <2>5. CASE tasks # {t} /\ t # shown
    <3>1. ShownKey' = ShownKey
      BY <2>1, <2>5 DEF ShownKey, DraftKey
    <3>2. UNCHANGED <<shown, agentView, path, composer, made>> /\ tasks' = tasks \ {t}
      BY <2>1, <2>5
    <3> QED BY <2>2, <2>5, <3>1, <3>2 DEF ComposerInv
  <2> QED BY <2>3, <2>4, <2>5
<1> QED BY <1>2, <1>3, <1>4, <1>5

\* A reload mounts the thread of the address, or a new one.
LEMMA ReloadStep == ComposerInv /\ ReloadPage => ComposerInv'
<1> SUFFICES ASSUME ComposerInv, ReloadPage PROVE ComposerInv'
  OBVIOUS
<1> USE ComposerAssumption
<1>0. UNCHANGED <<saved, meant>> /\ saved \subseteq 1..made /\ made \in Nat
  BY DEF ReloadPage, ComposerInv, Tasks
<1>1. CASE path.task = New
  <2>1. made + 1 \in Tasks /\ made' = made + 1 /\ tasks' = saved \cup {made + 1} /\ Show(made + 1, {made + 1})
    BY <1>1 DEF ReloadPage, ComposerInv, Tasks
  <2>2. 1..made \subseteq 1..made' /\ made + 1 \in 1..made'
    BY <1>0, <2>1
  <2>3. tasks' \subseteq 1..made' /\ saved' \subseteq 1..made' /\ shown' \in tasks'
    BY <1>0, <2>1, <2>2 DEF Show
  <2>4. path' \in [task: {made + 1, New}, agent: BOOLEAN]
    BY <1>0, <2>1, ShownIsRight
  <2>5. path' \in [task: 1..made' \cup {New}, agent: BOOLEAN]
    BY <2>2, <2>4
  <2> QED BY <1>0, <2>1, <2>3, <2>5, ShownIsRight DEF ComposerInv, Composers
<1>2. CASE path.task # New
  <2>1. PICK t \in 1..made : t = path.task
    BY <1>2 DEF ComposerInv
  <2>2. t \in Tasks /\ t \in Keys
    BY <1>0, <2>1 DEF ComposerInv, Tasks, Keys
  <2>3. /\ UNCHANGED made /\ tasks' = saved \cup {t} /\ shown' = t /\ unsent' = {}
        /\ MountComposer(t) /\ agentView' \in BOOLEAN /\ path' = Address(t, agentView')
    BY <1>2, <2>1 DEF ReloadPage, TellPath
  <2>4. ShownKey' = t
    BY <2>3 DEF ShownKey, DraftKey
  <2>5. path' \in [task: 1..made' \cup {New}, agent: BOOLEAN]
    BY <2>3 DEF Address
  <2> QED BY <1>0, <2>2, <2>3, <2>4, <2>5, Mounted DEF ComposerInv, Composers
<1> QED BY <1>1, <1>2

\* The composer on screen: typing and sending.
LEMMA TypingStep == ComposerInv /\ (Type \/ SendText) => ComposerInv'
<1> SUFFICES ASSUME ComposerInv, Type \/ SendText PROVE ComposerInv'
  OBVIOUS
<1> USE ComposerAssumption
<1>1. PICK key \in Keys : key = ShownKey
  BY KeyIsKey DEF ShownKey, ComposerInv, Tasks
<1>2. PICK c \in Composers : c = composer
  BY DEF ComposerInv, Composers
<1>3. c.loaded = NotLoaded /\ c.drafts = meant /\ meant \in [Keys -> Texts \cup {0}] /\ ~agentView
      /\ c.text = meant[key] /\ c.previous = key
  BY <1>1, <1>2 DEF ComposerInv, Type, SendText
<1>4. (IF shown \in unsent THEN New ELSE shown) = key
  BY <1>1 DEF ShownKey, DraftKey
<1>5. CASE Type
  <2>1. PICK y \in Texts \cup {0} : composer' = TypedText(c, key, y) /\ meant' = [meant EXCEPT ![key] = y]
    BY <1>1, <1>2, <1>4, <1>5 DEF Type
  <2>2. UNCHANGED <<tasks, made, unsent, saved, shown, agentView, path>>
    BY <1>5 DEF Type
  <2>3. ShownKey' = key
    BY <1>1, <2>2 DEF ShownKey
  <2>4. /\ composer' \in Composers /\ composer'.drafts = meant' /\ composer'.loaded = NotLoaded
        /\ composer'.text = meant'[key] /\ composer'.previous = key
    <3>1. c \in Composers /\ c.loaded = NotLoaded /\ key \in Keys /\ y \in Written
      BY <1>1, <1>2, <1>3, <2>1 DEF Written
    <3>2. PICK d \in Composers : /\ d = TypedText(c, key, y)
                                 /\ d.loaded = NotLoaded /\ d.previous = c.previous
                                 /\ d.text = y /\ d.drafts = [c.drafts EXCEPT ![key] = y]
      BY <3>1, TypedIsWritten
    <3> QED BY <1>3, <2>1, <3>2
  <2> QED BY <2>2, <2>3, <2>4 DEF ComposerInv, Composers
<1>6. CASE SendText
  <2>1. PICK t \in Tasks : t = shown
    BY DEF ComposerInv, Tasks
  <2>2. PICK sent : sent = TypedText(c, key, 0)
    OBVIOUS
  <2>3. sent \in Composers /\ sent.loaded = NotLoaded /\ sent.previous = key /\ sent.text = 0
        /\ sent.drafts = [meant EXCEPT ![key] = 0]
    <3>1. c \in Composers /\ c.loaded = NotLoaded /\ key \in Keys /\ 0 \in Written
      BY <1>1, <1>2, <1>3 DEF Written
    <3>2. PICK d \in Composers : /\ d = TypedText(c, key, 0)
                                 /\ d.loaded = NotLoaded /\ d.previous = c.previous
                                 /\ d.text = 0 /\ d.drafts = [c.drafts EXCEPT ![key] = 0]
      BY <3>1, TypedIsWritten
    <3> QED BY <1>3, <2>2, <3>2
  <2>4. meant' = [meant EXCEPT ![key] = 0] /\ meant' \in [Keys -> Texts \cup {0}]
    BY <1>3, <1>4, <1>6 DEF SendText
  <2>5. /\ UNCHANGED <<tasks, made, saved, shown, agentView>> /\ unsent' = unsent \ {t}
        /\ path' = Address(t, FALSE)
    BY <1>6, <2>1 DEF SendText, TellPath
  <2>6. ShownKey' = t
    BY <2>1, <2>5 DEF ShownKey, DraftKey
  <2>7. path' \in [task: 1..made' \cup {New}, agent: BOOLEAN]
    BY <2>1, <2>5 DEF Address, ComposerInv
  <2>8. CASE shown \notin unsent
    <3>1. composer' = sent /\ key = t
      BY <1>1, <1>2, <1>6, <2>1, <2>2, <2>8 DEF SendText, ShownKey, DraftKey
    <3>2. composer'.text = meant'[t]
      BY <1>3, <2>3, <2>4, <3>1
    <3> QED BY <2>3, <2>4, <2>5, <2>6, <2>7, <3>1, <3>2 DEF ComposerInv, Composers
  <2>9. CASE shown \in unsent
    <3>1. key = New /\ t \in Keys /\ DraftKey(shown, unsent \ {shown}) = t
      BY <1>4, <2>1, <2>9 DEF Keys, DraftKey
    <3>2. composer' = RenderKey(sent, t)
      BY <1>1, <1>2, <1>6, <2>2, <2>9, <3>1 DEF SendText
    <3>3. [k \in Keys |-> IF k = sent.previous /\ k # t THEN 0 ELSE sent.drafts[k]] = meant'
      BY <1>3, <2>3, <2>4
    <3>4. sent.drafts[t] = meant'[t]
      BY <2>3, <2>4
    <3>5. /\ composer' \in Composers /\ composer'.drafts = meant' /\ composer'.loaded = NotLoaded
          /\ composer'.text = meant'[t] /\ composer'.previous = t
      <4>1. sent \in Composers /\ t \in Keys
        BY <2>3, <3>1
      <4>2. /\ RenderKey(sent, t) \in Composers /\ RenderKey(sent, t).loaded = NotLoaded
            /\ RenderKey(sent, t).previous = t /\ RenderKey(sent, t).text = sent.drafts[t]
        BY <4>1, RenderedKey, Zenon
      <4>3. RenderKey(sent, t).drafts = [k \in Keys |-> IF k = sent.previous /\ k # t THEN 0 ELSE sent.drafts[k]]
        BY <4>1, RenderedKey, Zenon
      <4>4. RenderKey(sent, t).drafts = meant'
        BY <3>3, <4>3, Zenon
      <4> QED BY <3>2, <3>4, <4>2, <4>4, Zenon
    <3> QED BY <2>5, <2>6, <2>7, <3>5 DEF ComposerInv, Composers
  <2> QED BY <2>8, <2>9
<1> QED BY <1>5, <1>6

\* Every step of the user, the page and the turns preserves the invariant.
LEMMA ComposerStep == ComposerInv /\ [ComposerNext]_composerVars => ComposerInv'
<1> SUFFICES ASSUME ComposerInv, [ComposerNext]_composerVars PROVE ComposerInv'
  OBVIOUS
<1>1. CASE UNCHANGED composerVars
  BY <1>1 DEF composerVars, ComposerInv, ShownKey
<1>2. CASE SaveTasks
  BY <1>2 DEF SaveTasks, ComposerInv, ShownKey
<1>3. CASE PressStop \/ TurnSettles \/ TurnAsks \/ Answer
  BY <1>3 DEF PressStop, TurnSettles, TurnAsks, Answer, ComposerInv, ShownKey
<1>4. CASE ShowAgent
  <2>1. path' \in [task: 1..made' \cup {New}, agent: BOOLEAN]
    BY <1>4 DEF ShowAgent, TellPath, Address, ComposerInv
  <2> QED BY <1>4, <2>1 DEF ShowAgent, ComposerInv
<1> QED BY <1>1, <1>2, <1>3, <1>4, ShowingStep, ReloadStep, TypingStep DEF ComposerNext

\* However threads are switched, sent, recovered, deleted and reloaded, the composer shows
\* what the user left in that thread, and no draft of another
\* (assistant-thread-surface.tsx:319-349).
THEOREM DraftsAreApart == ComposerSpec => []DraftsStayApart
<1>1. ComposerInv => DraftsStayApart
  <2> SUFFICES ASSUME ComposerInv PROVE DraftsStayApart
    OBVIOUS
  <2>1. ShownKey = IF shown \in unsent THEN New ELSE shown
    BY DEF ShownKey, DraftKey
  <2> QED BY <2>1 DEF ComposerInv, DraftsStayApart
<1> QED BY <1>1, ComposerStart, ComposerStep, PTL DEF ComposerSpec

-----------------------------------------------------------------------------
(* Preferences: the selection of a turn.                                   *)

\* What the latest step ran with is drawn from the turn in progress and the config the
\* session pinned, and that turn was accepted by the config that judged it.
PreferencesInv ==
  /\ pinned # NoDocument => pinned.config \in PublishedConfigs
  /\ waiting # NoDocument => pinned # NoDocument
  /\ running = NoDocument => drawn = NoDocument
  /\ running # NoDocument =>
       /\ pinned.config \in PublishedConfigs
       /\ running.by \in PublishedConfigs
       /\ Accepts(running.by, running.asked)
       /\ running.model = running.asked.model /\ running.reasoning = running.asked.reasoning
       /\ drawn # NoDocument => drawn = DrawnFrom(pinned.config, running)

\* The models of a published config: each default is one of them, each usual level its own.
LEMMA PublishedModels ==
  ASSUME NEW config \in PublishedConfigs
  PROVE  ModelsOk(config)
<1> USE PreferencesAssumption
<1>1. CASE config \in Documents /\ ParseOk(config)
  BY <1>1 DEF ParseOk
<1>2. ASSUME NEW m \in ModelIds(BuiltIn), config = [BuiltIn EXCEPT !.default = m] PROVE ModelsOk(config)
  <2>1. config.models = BuiltIn.models /\ config.default = m
    BY <1>2
  <2>2. ModelIds(config) = ModelIds(BuiltIn)
    BY <2>1 DEF ModelIds
  <2>3. ModelsOk(BuiltIn)
    BY DEF ParseOk
  <2> QED BY <1>2, <2>1, <2>2, <2>3 DEF ModelsOk
<1> QED BY <1>1, <1>2 DEF PublishedConfigs

\* An id that is published names a model.
LEMMA ModelIsFound ==
  ASSUME NEW config, NEW id \in ModelIds(config)
  PROVE  \E m \in FindModel(config, id) : TRUE
BY DEF FindModel, ModelIds, ToSet

\* Resolving a model finds one of the config's, and the named one when it is published.
LEMMA ResolvedIsPublished ==
  ASSUME NEW config \in PublishedConfigs, NEW id
  PROVE  /\ ResolveModel(config, id) \in ToSet(config.models)
         /\ ModelOk(ResolveModel(config, id))
         /\ id \in ModelIds(config) => ResolveModel(config, id).id = id
<1>1. ModelsOk(config)
  BY PublishedModels
<1>2. ASSUME NEW i \in ModelIds(config)
      PROVE  (CHOOSE m \in FindModel(config, i) : TRUE) \in FindModel(config, i)
  BY ModelIsFound
<1>3. ResolveModel(config, id) \in FindModel(config, IF id \in ModelIds(config) THEN id ELSE config.default)
  <2>1. config.default \in ModelIds(config)
    BY <1>1 DEF ModelsOk
  <2> QED BY <1>2, <2>1 DEF ResolveModel
<1>4. ASSUME NEW m \in ToSet(config.models) PROVE ModelOk(m)
  BY <1>1 DEF ToSet, ModelsOk
<1> QED BY <1>3, <1>4 DEF FindModel

\* The promise follows from the invariant.
LEMMA DrawnIsPublished ==
  ASSUME PreferencesInv, running # NoDocument, drawn # NoDocument
  PROVE  SelectionIsHonoured
<1>1. PICK config \in PublishedConfigs : config = pinned.config
  BY DEF PreferencesInv
<1>2. PICK given : given = running
  OBVIOUS
<1>3. PICK model : model = ResolveModel(config, given.model)
  OBVIOUS
<1>4. drawn.model = model.id
      /\ drawn.reasoning = IF given.reasoning \in model.levels THEN given.reasoning ELSE model.usual
  BY <1>1, <1>2, <1>3 DEF PreferencesInv, DrawnFrom
<1>5. model \in ToSet(config.models) /\ model.usual \in model.levels
  BY <1>3, ResolvedIsPublished DEF ModelOk
<1>6. ASSUME FindModel(config, given.asked.model) = FindModel(given.by, given.asked.model)
      PROVE  drawn.model = given.asked.model /\ drawn.reasoning = given.asked.reasoning
  <2>1. PICK id : id = given.asked.model
    OBVIOUS
  <2>2. PICK by \in PublishedConfigs : by = given.by
    BY <1>2 DEF PreferencesInv
  <2>3. id \in ModelIds(by) /\ given.asked.reasoning \in ResolveModel(by, id).levels
    BY <1>2, <2>1, <2>2 DEF PreferencesInv, Accepts
  <2>4. PICK m \in FindModel(by, id) : TRUE
    BY <2>3, ModelIsFound
  <2>5. FindModel(config, id) = FindModel(by, id)
    BY <1>6, <2>1, <2>2
  <2>6. id \in ModelIds(config)
    BY <2>4, <2>5 DEF FindModel, ModelIds, ToSet
  <2>7. ResolveModel(config, id) = ResolveModel(by, id)
    BY <2>3, <2>5, <2>6 DEF ResolveModel
  <2>8. given.model = id /\ given.reasoning = given.asked.reasoning
    BY <1>2, <2>1 DEF PreferencesInv
  <2>9. model.id = id
    BY <1>3, <2>6, <2>8, ResolvedIsPublished
  <2> QED BY <1>3, <1>4, <2>1, <2>3, <2>7, <2>8, <2>9
<1> QED BY <1>1, <1>2, <1>4, <1>5, <1>6 DEF SelectionIsHonoured

\* The deployment's config is one that its contract accepts.
LEMMA DeploymentIsPublished ==
  ASSUME NEW config, config \in ReadDeployment
  PROVE  config \in PublishedConfigs
BY PreferencesAssumption DEF ReadDeployment, PublishedConfigs

\* A turn that a config accepted carries what the user selected.
LEMMA TurnBegins ==
  ASSUME NEW config \in PublishedConfigs, NEW s, Accepts(config, s), NEW given, given = GivenTo(config, s)
  PROVE  /\ given.by \in PublishedConfigs /\ Accepts(given.by, given.asked)
         /\ given.model = given.asked.model /\ given.reasoning = given.asked.reasoning
BY DEF GivenTo

\* Every step of operator, Host, page and turn preserves the invariant.
LEMMA PreferencesStep == PreferencesInv /\ [PreferencesNext]_preferencesVars => PreferencesInv'
<1> SUFFICES ASSUME PreferencesInv, [PreferencesNext]_preferencesVars PROVE PreferencesInv'
  OBVIOUS
<1>0. ASSUME UNCHANGED <<pinned, waiting, running, drawn>> PROVE PreferencesInv'
  BY <1>0 DEF PreferencesInv, DrawnFrom
<1>1. CASE Release \/ LoadPage \/ SelectPreference \/ UNCHANGED preferencesVars
  BY <1>0, <1>1 DEF Release, LoadPage, SelectPreference, preferencesVars
<1>2. CASE SendDirect
  <2>1. PICK config \in ResolveConfig(IF released.hosted THEN released.token ELSE NoDocument) :
          /\ Accepts(config, selection)
          /\ running' = GivenTo(config, selection)
          /\ pinned' = IF pinned = NoDocument THEN [config |-> config, mode |-> selection.mode] ELSE pinned
    BY <1>2 DEF SendDirect
  <2>2. config \in PublishedConfigs
    BY <2>1, DeploymentIsPublished DEF ResolveConfig
  <2>3. running = NoDocument /\ drawn' = NoDocument /\ UNCHANGED waiting
    BY <1>2 DEF SendDirect, PreferencesInv
  <2>4. pinned'.config \in PublishedConfigs /\ (waiting' # NoDocument => pinned' # NoDocument)
    BY <2>1, <2>2, <2>3 DEF PreferencesInv
  <2>5. PICK given : given = GivenTo(config, selection)
    OBVIOUS
  <2>6. /\ given.by \in PublishedConfigs /\ Accepts(given.by, given.asked)
        /\ given.model = given.asked.model /\ given.reasoning = given.asked.reasoning
    BY <2>1, <2>2, <2>5, TurnBegins
  <2> QED BY <2>1, <2>3, <2>4, <2>5, <2>6 DEF PreferencesInv
<1>3. CASE QueueFollowUp
  BY <1>3 DEF QueueFollowUp, PreferencesInv, DrawnFrom
<1>4. CASE DeliverFollowUp
  <2>1. CASE \E config \in ReadDeployment : Accepts(config, waiting)
    <3>1. PICK config : config = CHOOSE c \in ReadDeployment : TRUE
      OBVIOUS
    <3>2. config \in ReadDeployment /\ config \in PublishedConfigs
      BY <2>1, <3>1, DeploymentIsPublished
    <3>3. Accepts(config, waiting)
      BY <2>1, <3>2, PreferencesAssumption DEF ReadDeployment
    <3>4. PICK given : given = GivenTo(config, waiting)
      OBVIOUS
    <3>5. /\ given.by \in PublishedConfigs /\ Accepts(given.by, given.asked)
          /\ given.model = given.asked.model /\ given.reasoning = given.asked.reasoning
      BY <3>2, <3>3, <3>4, TurnBegins
    <3>6. running' = given /\ drawn' = NoDocument /\ pinned' = pinned /\ waiting' = NoDocument
      BY <1>4, <2>1, <3>1, <3>4 DEF DeliverFollowUp, PreferencesInv
    <3>7. pinned.config \in PublishedConfigs
      BY <1>4 DEF DeliverFollowUp, PreferencesInv
    <3> QED BY <3>5, <3>6, <3>7 DEF PreferencesInv
  <2>2. CASE ~\E config \in ReadDeployment : Accepts(config, waiting)
    BY <1>4, <2>2 DEF DeliverFollowUp, PreferencesInv
  <2> QED BY <2>1, <2>2
<1>5. CASE StartModelStep
  <2>1. DrawnFrom(pinned.config, running)' = DrawnFrom(pinned.config, running)
    BY <1>5 DEF StartModelStep, DrawnFrom
  <2> QED BY <1>5, <2>1 DEF StartModelStep, PreferencesInv
<1>6. CASE FinishTurn
  BY <1>6 DEF FinishTurn, PreferencesInv
<1> QED BY <1>1, <1>2, <1>3, <1>4, <1>5, <1>6 DEF PreferencesNext

\* A step runs a model with a level that the pinned config publishes for it, and exactly
\* what the user selected when the config that admitted the message publishes that model
\* as the pinned one does (eve.ts:64-75, agent.ts:86-92).
THEOREM SelectionsAreHonoured == PreferencesSpec => []SelectionIsHonoured
<1>1. PreferencesInit => PreferencesInv
  BY DEF PreferencesInit, PreferencesInv
<1>2. PreferencesInv => SelectionIsHonoured
  BY DrawnIsPublished DEF SelectionIsHonoured
<1> QED BY <1>1, <1>2, PreferencesStep, PTL DEF PreferencesSpec

-----------------------------------------------------------------------------
(* Deployment: the doctor and the processes.                               *)

\* Every edited variable has a class of its own.
Edited == \A v \in DOMAIN env : env[v] \in Classes(v)

\* The verdict is about the configuration of the moment, and what a process refused of
\* a passed one is in the gaps.
DeploymentInv ==
  /\ Edited
  /\ doctor = "pass" => Diagnosed = {}
  /\ PassedMeansReadable

\* Of a configuration without a diagnosis, what several processes read: the database, the
\* Runtime Config and the dispatch secret.
LEMMA SharedSettings ==
  ASSUME Diagnosed = {}
  PROVE  DatabaseRefused \cup RuntimeConfigRefused \cup DispatchRefused \subseteq KnownGaps
<1>1. DatabaseRefused \subseteq KnownGaps
  BY DEF DatabaseRefused, KnownGaps, Tuning, Diagnosed, ChoiceFaults, Is
<1>2. RuntimeConfigRefused \subseteq KnownGaps
  BY DEF RuntimeConfigRefused, KnownGaps, Tuning
<1>3. DispatchRefused \subseteq KnownGaps
  BY DEF DispatchRefused, KnownGaps, Diagnosed, SecretFaults, Secrets, Required, Missing, Is
<1> QED BY <1>1, <1>2, <1>3

\* What the Host integration reads.
LEMMA HostSettings ==
  ASSUME Edited, Diagnosed = {}
  PROVE  HostAuthRefused \cup PreviewSecretRefused \cup HostToolsRefused \subseteq KnownGaps
<1>1. HostAuthRefused \subseteq KnownGaps
  <2>1. {v \in {"AGENT_HOST_JWT_SECRET"} : Is(v, {"short", "wide"})} \subseteq KnownGaps
    BY DEF KnownGaps, Diagnosed, SecretFaults, Secrets, Is
  <2>2. {v \in {"AGENT_HOST_JWT_ISSUER", "AGENT_HOST_JWT_AUDIENCE"} : Is(v, {"unset", "commas"})} \subseteq KnownGaps
    <3>1. ~Is("AGENT_HOST_JWT_ISSUER", {"unset"}) /\ ~Is("AGENT_HOST_JWT_AUDIENCE", {"unset"})
      BY DEF Diagnosed, Required, Missing, Is
    <3>2. ~Is("AGENT_HOST_JWT_ISSUER", {"commas"})
      <4>1. Classes("AGENT_HOST_JWT_ISSUER") = {"unset"}
        BY DEF Classes, Secrets, Integers, Tuning, Urls, Databases, Options
      <4> QED BY <4>1 DEF Edited, Is
    <3> QED BY <3>1, <3>2 DEF KnownGaps, Is
  <2>3. {v \in {"AGENT_HOST_JWT_ALGORITHM"} : Is(v, {"other"})} = {}
    BY DEF Diagnosed, ChoiceFaults, Is
  <2>4. {v \in {"AGENT_HOST_JWT_CLOCK_SKEW_SECONDS"} : Is(v, {"outside"})} \subseteq KnownGaps
    BY DEF KnownGaps, Tuning
  <2> QED BY <2>1, <2>2, <2>3, <2>4 DEF HostAuthRefused
<1>2. PreviewSecretRefused \subseteq KnownGaps
  BY DEF PreviewSecretRefused, KnownGaps, Diagnosed, SecretFaults, Secrets, Required, Missing, Is
<1>3. HostToolsRefused \subseteq KnownGaps
  BY DEF HostToolsRefused, KnownGaps, Tuning, Diagnosed, SecretFaults, Secrets, Missing, Is
<1> QED BY <1>1, <1>2, <1>3

\* What the Eve agent alone reads.
LEMMA AgentSettings ==
  ASSUME Diagnosed = {}
  PROVE  TtlRefused \cup InstrumentationRefused \cup SandboxRefused \cup ModelRefused \cup LinkRefused
         \cup BashRefused \subseteq KnownGaps
<1>1. TtlRefused \subseteq KnownGaps
  BY DEF TtlRefused, KnownGaps, Tuning
<1>2. InstrumentationRefused \subseteq KnownGaps
  BY DEF InstrumentationRefused, KnownGaps, Diagnosed, UrlFaults, Urls, Is
<1>3. SandboxRefused \subseteq KnownGaps
  BY DEF SandboxRefused, KnownGaps, Diagnosed, SandboxFaults, Is
<1>4. ModelRefused \subseteq KnownGaps
  BY DEF ModelRefused, KnownGaps, Diagnosed, IntegerFaults, Integers, Is
<1>5. LinkRefused \subseteq KnownGaps
  BY DEF LinkRefused, KnownGaps, Diagnosed, UrlFaults, Urls, Is
<1>6. BashRefused \subseteq KnownGaps
  BY DEF BashRefused, KnownGaps, Diagnosed, TestOnlyFaults, Is
<1> QED BY <1>1, <1>2, <1>3, <1>4, <1>5, <1>6

\* What the Web server alone reads.
LEMMA WebSettings ==
  ASSUME Diagnosed = {}
  PROVE  RequestsRefused \cup RuntimeHostRefused \cup PortRefused \cup EmbedRefused \cup WorkerSecretRefused
         \subseteq KnownGaps
<1>1. RequestsRefused \subseteq KnownGaps
  BY DEF RequestsRefused, KnownGaps, Tuning
<1>2. RuntimeHostRefused \subseteq KnownGaps
  BY DEF RuntimeHostRefused, KnownGaps, Diagnosed, UrlFaults, Urls, Required, Missing, Is
<1>3. PortRefused \subseteq KnownGaps
  BY DEF PortRefused, KnownGaps, Diagnosed, IntegerFaults, Integers, Is
<1>4. EmbedRefused \subseteq KnownGaps
  BY DEF EmbedRefused, KnownGaps, Diagnosed, OriginFaults, Is
<1>5. WorkerSecretRefused \subseteq KnownGaps
  BY DEF WorkerSecretRefused, KnownGaps, Diagnosed, SecretFaults, Secrets, Required, Missing, Is
<1> QED BY <1>1, <1>2, <1>3, <1>4, <1>5

\* What the worker, the migration and the reaper read.
LEMMA JobSettings ==
  ASSUME Diagnosed = {}
  PROVE  /\ WorkerRefused \cup MigrationRefused \subseteq KnownGaps
         /\ Is("AGENT_SANDBOX_BACKEND", {"good"}) => ReaperRefused \subseteq KnownGaps
<1>1. WorkerRefused \subseteq KnownGaps
  BY DEF WorkerRefused, KnownGaps, Diagnosed, IntegerFaults, Integers, Secrets, Required, Missing, Is
<1>2. MigrationRefused \subseteq KnownGaps
  BY DEF MigrationRefused, KnownGaps, Diagnosed, ChoiceFaults, Databases, Required, Missing, Is
<1>3. ASSUME Is("AGENT_SANDBOX_BACKEND", {"good"}) PROVE ReaperRefused \subseteq KnownGaps
  <2>1. \A v \in {"EVE_SANDBOX_RETENTION_HOURS", "EVE_SANDBOX_REAPER_MAX_REMOVALS"} : ~Is(v, {"unset", "outside"})
    BY <1>3 DEF Diagnosed, IntegerFaults, Integers
  <2> QED BY <2>1, SharedSettings DEF ReaperRefused
<1> QED BY <1>1, <1>2, <1>3

\* So every process reads it, but for the gaps.
LEMMA PassedIsReadable ==
  ASSUME Edited, Diagnosed = {}, NEW p \in Processes, p = "reaper" => Is("AGENT_SANDBOX_BACKEND", {"good"})
  PROVE  Refused(p) \subseteq KnownGaps
BY SharedSettings, HostSettings, AgentSettings, WebSettings, JobSettings DEF Refused, Processes

\* Editing, the doctor and the starts preserve the invariant.
LEMMA DeploymentStep == DeploymentInv /\ [DeploymentNext]_deploymentVars => DeploymentInv'
<1> SUFFICES ASSUME DeploymentInv, [DeploymentNext]_deploymentVars PROVE DeploymentInv'
  OBVIOUS
<1>1. ASSUME UNCHANGED env PROVE Diagnosed' = Diagnosed /\ KnownGaps' = KnownGaps /\ (Edited => Edited')
  BY <1>1 DEF Diagnosed, KnownGaps, IntegerFaults, UrlFaults, BaseUrlFaults, DatabaseFaults, SecretFaults,
     SandboxFaults, TestOnlyFaults, TenancyFaults, ChoiceFaults, OriginFaults, RevokedFaults, Missing, Is, Edited
<1>2. CASE UNCHANGED deploymentVars
  BY <1>1, <1>2 DEF deploymentVars, DeploymentInv, PassedMeansReadable
<1>3. CASE RunDoctor
  BY <1>1, <1>3 DEF RunDoctor, DeploymentInv, PassedMeansReadable
<1>4. ASSUME NEW v \in Variables, NEW c \in Classes(v), Configure(v, c) PROVE DeploymentInv'
  <2>1. env' = [u \in DOMAIN env \cup {v} |-> IF u = v THEN c ELSE env[u]]
    BY <1>4 DEF Configure
  <2>2. Edited'
    BY <2>1 DEF DeploymentInv, Edited
  <2> QED BY <1>4, <2>2 DEF Configure, Idle, DeploymentInv, PassedMeansReadable
<1>5. ASSUME NEW p \in Processes, Start(p) PROVE DeploymentInv'
  <2>1. UNCHANGED <<env, doctor>> /\ process' = [name |-> p, passed |-> doctor = "pass", refused |-> Refused(p)]
    BY <1>5 DEF Start
  <2>2. doctor = "pass" => Refused(p) \subseteq KnownGaps
    BY <1>5, PassedIsReadable DEF Start, DeploymentInv
  <2> QED BY <1>1, <2>1, <2>2 DEF DeploymentInv, PassedMeansReadable
<1> QED BY <1>2, <1>3, <1>4, <1>5 DEF DeploymentNext

\* A configuration the doctor passes is one every process can read, up to the gaps listed
\* (lib/production-config.ts against the processes' own readers).
THEOREM DoctorIsTrusted == DeploymentSpec => []PassedMeansReadable
<1>1. DeploymentInit => DeploymentInv
  BY DEF DeploymentInit, Idle, DeploymentInv, PassedMeansReadable, Edited
<1>2. DeploymentInv => PassedMeansReadable
  BY DEF DeploymentInv
<1> QED BY <1>1, <1>2, DeploymentStep, PTL DEF DeploymentSpec

-----------------------------------------------------------------------------
(* Requests: the boundaries.                                               *)

\* Every row but a root's has its parent before it, and its lineage from it.
Descends(rows) ==
  \A k \in DOMAIN rows : rows[k].parent # 0 =>
    /\ rows[k].parent \in 1..(k - 1)
    /\ rows[k].depth = rows[rows[k].parent].depth + 1
    /\ rows[k].root = rows[rows[k].parent].root

\* The inductive invariant of the boundaries: of the follow-up, the runs and the answers.
RequestsInv ==
  /\ RequestsTypeOK
  /\ followUp # NoItem =>
       /\ followUp.answered # 400
       /\ followUp.answered = 413 => Bytes(followUp, DeliverEnvelope) > BodyLimit
  /\ runs # <<>> =>
       /\ "profile" \notin refused
       /\ runs[Len(runs)].headers = "fit" => refused \subseteq {"extension"}
  /\ Descends(runs)
  /\ sdk = "contract"

\* A client of the contract reads every failure.
LEMMA ProblemsAreRead ==
  ASSUME NEW status
  PROVE  Problem(status) = sdk
BY DEF Problem, Read

\* It reads a success that has the required fields.
LEMMA WholeIsRead ==
  ASSUME NEW status, NEW body, NEW required \in SUBSET body
  PROVE  Read(status, body, required) = sdk
BY DEF Read

\* The invariant holds of an empty store.
LEMMA RequestsStart == RequestsInit => RequestsInv
BY RequestsAssumption DEF RequestsInit, RequestsInv, RequestsTypeOK, Descends

(* The follow-up.                                                          *)

\* What it says of the follow-up.
FollowUpPart(f) ==
  f # NoItem =>
    /\ f \in FollowUp
    /\ f.answered # 400
    /\ f.answered = 413 => Bytes(f, DeliverEnvelope) > BodyLimit

\* A follow-up just stored.
LEMMA StoredIsSound ==
  ASSUME NEW text \in Messages, NEW model \in Offered, text.chars \in 1..TextLimit
  PROVE  FollowUpPart(StoredItem(text, model))
BY RequestsAssumption DEF StoredItem, FollowUpPart, FollowUp, Messages

\* A POST to the mailbox.
LEMMA PostFollowUpStep ==
  ASSUME RequestsInv, PostFollowUp
  PROVE  FollowUpPart(followUp') /\ sdk' = "contract"
<1>0. FollowUpPart(followUp) /\ sdk = "contract"
  BY DEF RequestsInv, RequestsTypeOK, FollowUpPart
<1>1. CASE sdk' \in HostRefusals /\ UNCHANGED followUp
  BY <1>0, <1>1, ProblemsAreRead DEF HostRefusals
<1>2. ASSUME NEW text \in Messages, NEW announced \in BOOLEAN, NEW id, NEW model \in Offered, NEW caller,
             NEW conversation,
             EnqueueHttp(text, announced, id, model, caller, conversation)
      PROVE  FollowUpPart(followUp') /\ sdk' = "contract"
  <2>1. CASE announced /\ Bytes(text, EnqueueEnvelope) + text.padding > BodyLimit
    BY <1>0, <1>2, <2>1, ProblemsAreRead DEF EnqueueHttp
  <2>2. CASE /\ ~(announced /\ Bytes(text, EnqueueEnvelope) + text.padding > BodyLimit)
             /\ ~(ParseEnqueueRequest(text, model) /\ ParseMessage(text, id) /\ AssertPayload(text))
    BY <1>0, <1>2, <2>2, ProblemsAreRead DEF EnqueueHttp
  <2>3. CASE /\ ~(announced /\ Bytes(text, EnqueueEnvelope) + text.padding > BodyLimit)
             /\ ParseEnqueueRequest(text, model) /\ ParseMessage(text, id) /\ AssertPayload(text)
    <3>1. PICK result : result = EnqueueResult(text, model, caller, conversation)
      OBVIOUS
    <3>2. /\ sdk' = MailboxResponse(result)
          /\ followUp' = IF result # "created" THEN followUp ELSE StoredItem(text, model)
      BY <1>2, <2>3, <3>1 DEF EnqueueHttp
    <3>3. result \in {"missing-session", "forbidden", "created", "replay", "conflict"}
      BY <3>1 DEF EnqueueResult
    <3>4. MailboxResponse(result) = sdk
      BY <3>3, ProblemsAreRead, WholeIsRead DEF MailboxResponse
    <3>5. text.chars \in 1..TextLimit
      BY <2>3 DEF AssertPayload
    <3> QED BY <1>0, <3>2, <3>4, <3>5, StoredIsSound
  <2> QED BY <2>1, <2>2, <2>3
<1> QED BY <1>1, <1>2 DEF PostFollowUp

\* The requests about an item.
LEMMA HandleItemStep ==
  ASSUME RequestsInv, HandleItem
  PROVE  FollowUpPart(followUp') /\ sdk' = "contract"
<1>0. FollowUpPart(followUp) /\ sdk = "contract"
  BY DEF RequestsInv, RequestsTypeOK, FollowUpPart
<1>1. PICK operation \in {"inspect", "cancel", "retry"} : \E caller : ItemHttp(operation, caller)
  BY DEF HandleItem
<1>2. PICK to \in {"cancelled", "queued"} : to = IF operation = "cancel" THEN "cancelled" ELSE "queued"
  OBVIOUS
<1>3. sdk' = "contract"
  BY <1>0, <1>1, ProblemsAreRead, WholeIsRead DEF ItemHttp
<1>4. followUp' = followUp \/ (followUp # NoItem /\ followUp' = [followUp EXCEPT !.status = to])
  BY <1>1, <1>2 DEF ItemHttp
<1>5. ASSUME followUp # NoItem PROVE FollowUpPart([followUp EXCEPT !.status = to])
  <2>1. PICK f \in FollowUp : f = followUp
    BY <1>0, <1>5 DEF FollowUpPart
  <2>2. PICK g : g = [f EXCEPT !.status = to]
    OBVIOUS
  <2>3. g \in FollowUp /\ g.chars = f.chars /\ g.width = f.width /\ g.answered = f.answered
    BY <1>2, <2>2 DEF FollowUp
  <2> QED BY <1>0, <1>5, <2>1, <2>2, <2>3 DEF FollowUpPart, Bytes
<1> QED BY <1>0, <1>3, <1>4, <1>5

\* The route refuses a stored follow-up for its content only for its size.
LEMMA AnswersAreSound ==
  ASSUME RequestsInv, followUp # NoItem, NEW trust, NEW boundary,
         NEW reply \in DeliverAnswers(followUp, trust, boundary)
  PROVE  /\ reply[1] \in Nat /\ reply[1] # 400
         /\ reply[1] = 413 => Bytes(followUp, DeliverEnvelope) > BodyLimit
<1>1. PICK size : size = Bytes(followUp, DeliverEnvelope)
  OBVIOUS
<1>2. ParseMailboxRequest(followUp)
  BY DEF RequestsInv, RequestsTypeOK, FollowUp, ParseMailboxRequest
<1>3. PICK status : status = MailboxRoute(size, trust, TRUE, boundary)
  OBVIOUS
<1>4. status \in {413, 503, 401, 404, 200} /\ (status = 413 => size > BodyLimit)
  BY <1>3 DEF MailboxRoute
<1>5. reply \in {<<status, "problem">>, <<409, "running">>, <<410, "terminal">>, <<202, "accepted">>,
                 <<409, "identity-changed">>, <<502, "unknown">>}
  <2>1. ParseMailboxRequest(followUp) = TRUE
    BY <1>2 DEF ParseMailboxRequest
  <2> QED BY <1>1, <1>3, <2>1 DEF DeliverAnswers
<1> QED BY <1>1, <1>4, <1>5

\* A dispatch.
LEMMA DispatchStep ==
  ASSUME RequestsInv, DispatchRoute
  PROVE  FollowUpPart(followUp') /\ sdk' = "contract"
<1>0. FollowUpPart(followUp) /\ sdk = "contract"
  BY DEF RequestsInv, RequestsTypeOK, FollowUpPart
<1>1. sdk' = "contract"
  BY <1>0, ProblemsAreRead, WholeIsRead DEF DispatchRoute
<1>2. ASSUME followUp # NoItem, NEW trust, NEW boundary, NEW later, DispatchNext(trust, boundary, later)
      PROVE  FollowUpPart(followUp')
  <2>1. PICK f \in FollowUp : f = followUp
    BY <1>0, <1>2 DEF FollowUpPart
  <2>2. CASE UNCHANGED followUp
    BY <1>0, <2>2
  <2>3. CASE followUp' = [followUp EXCEPT !.status = "failed"]
    <3>1. PICK g : g = [f EXCEPT !.status = "failed"]
      OBVIOUS
    <3>2. g \in FollowUp /\ g.chars = f.chars /\ g.width = f.width /\ g.answered = f.answered
      BY <3>1 DEF FollowUp
    <3> QED BY <1>0, <1>2, <2>1, <2>3, <3>1, <3>2 DEF FollowUpPart, Bytes
  <2>4. ASSUME NEW reply \in DeliverAnswers(followUp, trust, later),
               followUp' = [followUp EXCEPT !.status = Disposition(reply), !.answered = reply[1]]
        PROVE  FollowUpPart(followUp')
    <3>1. PICK s \in {"accepted", "failed", "submission-ambiguous"} : s = Disposition(reply)
      BY DEF Disposition
    <3>2. PICK n \in Nat : n = reply[1] /\ n # 400 /\ (n = 413 => Bytes(f, DeliverEnvelope) > BodyLimit)
      BY <1>2, <2>1, <2>4, AnswersAreSound
    <3>3. PICK g : g = [f EXCEPT !.status = s, !.answered = n]
      OBVIOUS
    <3>4. g \in FollowUp /\ g.chars = f.chars /\ g.width = f.width /\ g.answered = n
      <4>1. g = [chars |-> f.chars, width |-> f.width, model |-> f.model, answered |-> n, status |-> s]
        BY <3>3 DEF FollowUp
      <4>2. f.chars \in 1..TextLimit /\ f.width \in 1..MaxWidth /\ f.model \in Offered
        BY DEF FollowUp
      <4>3. s \in {"queued", "accepted", "failed", "submission-ambiguous", "cancelled"} /\ n \in Nat
        BY <3>1, <3>2
      <4> QED BY <4>1, <4>2, <4>3 DEF FollowUp
    <3> QED BY <2>1, <2>4, <3>1, <3>2, <3>3, <3>4 DEF FollowUpPart, Bytes
  <2> QED BY <1>2, <2>2, <2>3, <2>4 DEF DispatchNext
<1> QED BY <1>0, <1>1, <1>2 DEF DispatchRoute

(* The runs.                                                               *)

\* What the invariant says of the runs.
RunsPart(rows, reasons) ==
  /\ rows \in Seq(RunRow) /\ Len(rows) <= MaxRuns
  /\ reasons \subseteq {"correlation", "policy", "profile", "extension"}
  /\ rows # <<>> =>
       /\ "profile" \notin reasons
       /\ rows[Len(rows)].headers = "fit" => reasons \subseteq {"extension"}
  /\ Descends(rows)

\* A row is appended whose lineage continues that of one before it.
LEMMA AppendedRun ==
  ASSUME NEW rows \in Seq(RunRow), Descends(rows), NEW row \in RunRow,
         row.parent # 0 =>
           /\ row.parent \in 1..Len(rows)
           /\ row.depth = rows[row.parent].depth + 1
           /\ row.root = rows[row.parent].root
  PROVE  Descends(Append(rows, row))
<1> DEFINE more == Append(rows, row)
<1>1. Len(more) = Len(rows) + 1 /\ more \in Seq(RunRow) /\ more[Len(rows) + 1] = row /\ Len(rows) \in Nat
  OBVIOUS
<1>2. \A k \in 1..Len(rows) : more[k] = rows[k]
  OBVIOUS
<1>3. DOMAIN more = 1..(Len(rows) + 1) /\ DOMAIN rows = 1..Len(rows)
  BY <1>1
<1>4. ASSUME NEW k \in DOMAIN more, more[k].parent # 0
      PROVE  /\ more[k].parent \in 1..(k - 1)
             /\ more[k].depth = more[more[k].parent].depth + 1
             /\ more[k].root = more[more[k].parent].root
  <2> HIDE DEF more
  <2>1. CASE k = Len(rows) + 1
    <3>1. more[k] = row /\ row.parent \in 1..Len(rows) /\ more[row.parent] = rows[row.parent]
      BY <1>1, <1>2, <1>4, <2>1
    <3> QED BY <1>1, <1>4, <2>1, <3>1
  <2>2. CASE k # Len(rows) + 1
    <3>1. k \in 1..Len(rows) /\ more[k] = rows[k]
      BY <1>1, <1>2, <1>3, <2>2
    <3>2. rows[k].parent \in 1..(k - 1)
      BY <1>3, <1>4, <3>1 DEF Descends
    <3>3. rows[k].parent \in 1..Len(rows)
      BY <1>1, <3>1, <3>2
    <3>4. more[rows[k].parent] = rows[rows[k].parent]
      BY <1>2, <3>3
    <3> QED BY <1>3, <1>4, <3>1, <3>2, <3>4 DEF Descends
  <2> QED BY <2>1, <2>2
<1> QED BY <1>4 DEF Descends

\* What is asked of a run: an accepted request names a row as its parent, or none.
LEMMA AdmittedParent ==
  ASSUME RequestsInv, NEW by, NEW needs, NEW parent \in Parents \cup {NoItem}, NEW headers \in Headers, NEW key,
         NEW request, request = [by |-> by, needs |-> needs, parent |-> parent, headers |-> headers, key |-> key],
         ParseStart([by |-> by, needs |-> needs, parent |-> parent]),
         ValidateParent([by |-> by, needs |-> needs, parent |-> parent]) = 200,
         Len(runs) < MaxRuns
  PROVE  /\ request.needs \in served /\ request.headers = headers
         /\ Row(request) \in RunRow /\ Row(request).headers = headers
         /\ Row(request).parent # 0 =>
              /\ Row(request).parent \in 1..Len(runs)
              /\ Row(request).depth = runs[Row(request).parent].depth + 1
              /\ Row(request).root = runs[Row(request).parent].root
<1> USE RequestsAssumption
<1>1. /\ request.needs = needs /\ request.headers = headers /\ request.parent = parent
  OBVIOUS
<1>2. needs \in served
  BY DEF ParseStart
<1>3. runs \in Seq(RunRow) /\ Len(runs) \in Nat /\ DOMAIN runs = 1..Len(runs) /\ served \in RuntimeConfigs
  BY DEF RequestsInv, RequestsTypeOK
<1>4. CASE parent = NoItem
  <2>1. Lineage(request) = <<0, 0, 0>>
    BY <1>1, <1>4 DEF Lineage
  <2>2. Row(request) = [parent |-> 0, depth |-> 0, root |-> Len(runs) + 1, headers |-> headers, policy |-> served]
    BY <1>1, <2>1 DEF Row
  <2>3. Len(runs) + 1 \in 1..MaxRuns /\ 0 \in 0..MaxRuns /\ 0 \in 0..MaxDepth
    BY <1>3
  <2> QED BY <1>1, <1>2, <1>3, <2>2, <2>3 DEF RunRow
<1>5. CASE parent # NoItem
  <2>1. parent.run \in 1..Len(runs) /\ parent.depth \in 1..MaxDepth
        /\ parent.depth = runs[parent.run].depth + 1 /\ parent.root = runs[parent.run].root
    <3>1. parent.depth \in 1..MaxDepth
      BY <1>5 DEF ParseStart
    <3>2. FindOwned(parent.run)
      BY <1>5 DEF ValidateParent
    <3>3. <<parent.depth, parent.root>> = <<runs[parent.run].depth + 1, runs[parent.run].root>>
      BY <1>5, <3>2 DEF ValidateParent
    <3> QED BY <1>3, <3>1, <3>2, <3>3 DEF FindOwned
  <2>2. Lineage(request) = <<parent.run, parent.depth, parent.root>>
    BY <1>1, <1>5 DEF Lineage
  <2>3. parent.run # 0 /\ parent.run \in 0..MaxRuns
    BY <1>3, <2>1
  <2>4. Row(request) = [parent |-> parent.run, depth |-> parent.depth, root |-> parent.root,
                        headers |-> headers, policy |-> served]
    BY <1>1, <2>2, <2>3 DEF Row
  <2>5. parent.root \in 1..MaxRuns
    <3>1. runs[parent.run] \in RunRow
      BY <1>3, <2>1
    <3> QED BY <2>1, <3>1 DEF RunRow
  <2>6. Row(request) \in RunRow
    <3>1. parent.depth \in 0..MaxDepth
      BY <2>1
    <3> QED BY <1>3, <2>3, <2>4, <2>5, <3>1 DEF RunRow
  <2> QED BY <1>1, <1>2, <2>1, <2>4, <2>6
<1> QED BY <1>4, <1>5

\* The channel refuses a run whose profile is published for its headers and extensions.
LEMMA RefusalsAreSound ==
  ASSUME NEW request, NEW enabled, request.needs \in served
  PROVE  /\ ChannelRefusals(request, enabled) \subseteq {"correlation", "policy", "extension"}
         /\ request.headers = "fit" => ChannelRefusals(request, enabled) \subseteq {"extension"}
BY DEF ChannelRefusals

\* A snapshot and an event have what the SDK requires of them.
LEMMA SnapshotIsRead ==
  ASSUME NEW row, NEW status
  PROVE  /\ Read(status, Snapshot(row), RequiredOfRun) = sdk
         /\ Read(status, Snapshot(row) \cup Projected, RequiredOfRun \cup RequiredOfEvent) = sdk
<1>1. RequiredOfRun \subseteq Snapshot(row)
  BY DEF RequiredOfRun, Snapshot
<1>2. RequiredOfEvent \subseteq Snapshot(row) \cup Projected
  BY DEF RequiredOfEvent, Snapshot, Projected
<1> QED BY <1>1, <1>2, WholeIsRead

\* A reservation that the checks before it let through.
LEMMA ReserveStep ==
  ASSUME RequestsInv, NEW by, NEW needs, NEW parent \in Parents \cup {NoItem}, NEW headers \in Headers, NEW key,
         NEW enabled, NEW request,
         request = [by |-> by, needs |-> needs, parent |-> parent, headers |-> headers, key |-> key],
         ParseStart([by |-> by, needs |-> needs, parent |-> parent]),
         ValidateParent([by |-> by, needs |-> needs, parent |-> parent]) = 200,
         ReserveRun(request, enabled)
  PROVE  RunsPart(runs', refused') /\ sdk' = "contract"
<1> USE RequestsAssumption
<1>0. RunsPart(runs, refused) /\ sdk = "contract"
  BY DEF RequestsInv, RequestsTypeOK, RunsPart
<1>1. CASE request.key \in DOMAIN runs
  BY <1>0, <1>1, ProblemsAreRead, SnapshotIsRead DEF ReserveRun
<1>2. CASE request.key \notin DOMAIN runs
  <2>1. PICK refusals, outcome, row :
          /\ refusals = ChannelRefusals(request, enabled) /\ row = Row(request) /\ Len(runs) < MaxRuns
          /\ runs' = Append(runs, row) /\ refused' = refusals
          /\ sdk' = CASE outcome = "running" -> Read(202, Snapshot(row), RequiredOfRun)
                         [] outcome = "failed" -> Problem(502)
                         [] OTHER -> Problem(503)
    BY <1>2 DEF ReserveRun
  <2>2. sdk' = "contract"
    BY <1>0, <2>1, ProblemsAreRead, SnapshotIsRead
  <2>3. /\ request.needs \in served /\ request.headers = headers
        /\ row \in RunRow /\ row.headers = headers
        /\ row.parent # 0 =>
             /\ row.parent \in 1..Len(runs)
             /\ row.depth = runs[row.parent].depth + 1
             /\ row.root = runs[row.parent].root
    BY <2>1, AdmittedParent
  <2>4. Descends(runs')
    BY <1>0, <2>1, <2>3, AppendedRun DEF RunsPart
  <2>5. runs' \in Seq(RunRow) /\ Len(runs') <= MaxRuns /\ runs'[Len(runs')] = row
    BY <1>0, <2>1, <2>3 DEF RunsPart
  <2>6. refusals \subseteq {"correlation", "policy", "extension"} /\ (headers = "fit" => refusals \subseteq {"extension"})
    BY <2>1, <2>3, RefusalsAreSound
  <2>7. refused' = refusals
    BY <2>1
  <2> QED BY <2>2, <2>3, <2>4, <2>5, <2>6, <2>7 DEF RunsPart
<1> QED BY <1>1, <1>2

\* A POST to agent_runs.
LEMMA PostRunStep ==
  ASSUME RequestsInv, PostRun
  PROVE  RunsPart(runs', refused') /\ sdk' = "contract"
<1>0. RunsPart(runs, refused) /\ sdk = "contract"
  BY DEF RequestsInv, RequestsTypeOK, RunsPart
<1>1. CASE sdk' \in HostRefusals \cup {Problem(status) : status \in {503, 413, 403}} /\ UNCHANGED <<runs, refused>>
  BY <1>0, <1>1, ProblemsAreRead DEF HostRefusals
<1>2. ASSUME NEW by \in Callers, NEW needs \in Offered, NEW parent \in Parents \cup {NoItem}, NEW asked, NEW status,
             asked = [by |-> by, needs |-> needs, parent |-> parent],
             status = IF ParseStart(asked) THEN ValidateParent(asked) ELSE 400,
             status # 200 => sdk' = Problem(status) /\ UNCHANGED <<runs, refused>>,
             status = 200 => \E headers \in Headers, key \in 1..Len(runs) + 1, enabled \in BOOLEAN :
                               ReserveRun([by |-> by, needs |-> needs, parent |-> parent, headers |-> headers, key |-> key], enabled)
      PROVE  RunsPart(runs', refused') /\ sdk' = "contract"
  <2>1. CASE status # 200
    BY <1>0, <1>2, <2>1, ProblemsAreRead
  <2>2. CASE status = 200
    <3>1. ParseStart(asked) /\ ValidateParent(asked) = 200
      BY <1>2, <2>2
    <3>2. PICK headers \in Headers, key \in 1..Len(runs) + 1, enabled \in BOOLEAN :
            ReserveRun([by |-> by, needs |-> needs, parent |-> parent, headers |-> headers, key |-> key], enabled)
      BY <1>2, <2>2
    <3>3. PICK request : request = [by |-> by, needs |-> needs, parent |-> parent, headers |-> headers, key |-> key]
      OBVIOUS
    <3>4. ReserveRun(request, enabled)
      BY <3>2, <3>3
    <3> QED BY <1>2, <3>1, <3>3, <3>4, ReserveStep
  <2> QED BY <2>1, <2>2
<1>3. CASE \E by \in Callers, needs \in Offered, parent \in Parents \cup {NoItem} :
          LET asked == [by |-> by, needs |-> needs, parent |-> parent]
              status == IF ParseStart(asked) THEN ValidateParent(asked) ELSE 400 IN
          /\ status # 200 => sdk' = Problem(status) /\ UNCHANGED <<runs, refused>>
          /\ status = 200 =>
               \E headers \in Headers, key \in 1..Len(runs) + 1, enabled \in BOOLEAN :
                 ReserveRun([by |-> by, needs |-> needs, parent |-> parent, headers |-> headers, key |-> key], enabled)
  <2>1. PICK by \in Callers, needs \in Offered, parent \in Parents \cup {NoItem} :
          LET asked == [by |-> by, needs |-> needs, parent |-> parent]
              status == IF ParseStart(asked) THEN ValidateParent(asked) ELSE 400 IN
          /\ status # 200 => sdk' = Problem(status) /\ UNCHANGED <<runs, refused>>
          /\ status = 200 =>
               \E headers \in Headers, key \in 1..Len(runs) + 1, enabled \in BOOLEAN :
                 ReserveRun([by |-> by, needs |-> needs, parent |-> parent, headers |-> headers, key |-> key], enabled)
    BY <1>3
  <2>2. PICK asked : asked = [by |-> by, needs |-> needs, parent |-> parent]
    OBVIOUS
  <2>3. PICK status : status = IF ParseStart(asked) THEN ValidateParent(asked) ELSE 400
    OBVIOUS
  <2>4. status # 200 => sdk' = Problem(status) /\ UNCHANGED <<runs, refused>>
    BY <2>1, <2>2, <2>3
  <2>5. status = 200 =>
               \E headers \in Headers, key \in 1..Len(runs) + 1, enabled \in BOOLEAN :
                 ReserveRun([by |-> by, needs |-> needs, parent |-> parent, headers |-> headers, key |-> key], enabled)
    BY <2>1, <2>2, <2>3
  <2> QED BY <1>2, <2>1, <2>2, <2>3, <2>4, <2>5
<1> QED BY <1>1, <1>3 DEF PostRun

\* The requests about a run.
LEMMA HandleRunStep ==
  ASSUME RequestsInv, HandleRun
  PROVE  sdk' = "contract"
<1>0. sdk = "contract"
  BY DEF RequestsInv
<1>1. ASSUME NEW operation \in {"inspect", "cancel", "events"}, NEW cursor, NEW k PROVE RunAnswers(operation, k, cursor) \subseteq {sdk}
  <2>1. Problem(400) = sdk /\ Problem(404) = sdk /\ Problem(416) = sdk /\ Problem(502) = sdk
    BY ProblemsAreRead
  <2>2. PICK row : row = runs[k]
    OBVIOUS
  <2>3. PICK done : done = CASE operation = "inspect" -> Read(200, Snapshot(row), RequiredOfRun)
                             [] operation = "cancel" -> Read(202, Snapshot(row), RequiredOfRun)
                             [] OTHER -> Read(200, Snapshot(row) \cup Projected, RequiredOfRun \cup RequiredOfEvent)
    OBVIOUS
  <2>4. done = sdk
    BY <2>3, SnapshotIsRead
  <2> QED BY <2>1, <2>2, <2>3, <2>4 DEF RunAnswers
<1>2. HostRefusals \cup {Problem(404)} \subseteq {sdk}
  BY ProblemsAreRead DEF HostRefusals
<1>3. sdk' = sdk
  <2>1. PICK operation \in {"inspect", "cancel", "events"}, cursor \in {"in range", "ahead", "malformed"} :
          \/ sdk' \in HostRefusals \cup {Problem(404)}
          \/ \E k \in 1..MaxRuns : sdk' \in RunAnswers(operation, k, cursor)
    BY DEF HandleRun
  <2>2. ASSUME NEW k, sdk' \in RunAnswers(operation, k, cursor) PROVE sdk' = sdk
    <3>1. RunAnswers(operation, k, cursor) \subseteq {sdk}
      BY <1>1
    <3> QED BY <2>2, <3>1
  <2> QED BY <1>2, <2>1, <2>2
<1> QED BY <1>0, <1>3

\* Every request preserves the invariant.
LEMMA RequestsStep == RequestsInv /\ [RequestsNext]_requestsVars => RequestsInv'
<1> SUFFICES ASSUME RequestsInv, [RequestsNext]_requestsVars PROVE RequestsInv'
  OBVIOUS
<1>0. FollowUpPart(followUp) /\ RunsPart(runs, refused) /\ served \in RuntimeConfigs /\ sdk = "contract"
  BY DEF RequestsInv, RequestsTypeOK, FollowUpPart, RunsPart
<1>1. ASSUME FollowUpPart(followUp'), RunsPart(runs', refused'), served' \in RuntimeConfigs, sdk' = "contract"
      PROVE  RequestsInv'
  BY <1>1 DEF RequestsInv, RequestsTypeOK, FollowUpPart, RunsPart, Bytes
<1>2. CASE UNCHANGED requestsVars
  BY <1>0, <1>1, <1>2 DEF requestsVars
<1>3. CASE Republish
  BY <1>0, <1>1, <1>3 DEF Republish
<1>4. CASE PostFollowUp \/ HandleItem \/ DispatchRoute
  <2>1. UNCHANGED <<served, runs, refused>>
    BY <1>4 DEF PostFollowUp, HandleItem, DispatchRoute
  <2> QED BY <1>0, <1>1, <1>4, <2>1, PostFollowUpStep, HandleItemStep, DispatchStep
<1>5. CASE PostRun
  <2>1. UNCHANGED <<served, followUp>>
    BY <1>5 DEF PostRun
  <2> QED BY <1>0, <1>1, <1>5, <2>1, PostRunStep
<1>6. CASE HandleRun
  <2>1. UNCHANGED <<served, followUp, runs, refused>>
    BY <1>6 DEF HandleRun
  <2> QED BY <1>0, <1>1, <1>6, <2>1, HandleRunStep
<1> QED BY <1>2, <1>3, <1>4, <1>5, <1>6 DEF RequestsNext, FollowUpNext, RunNext

\* What one boundary admitted is sound for those behind it: a stored follow-up is refused
\* for its content only for its size, a run for its headers and never for its profile,
\* lineages lead to their root, and the SDK reads every answer.
THEOREM AdmissionsAreSound == RequestsSpec => []AdmittedIsSound
<1>1. RequestsInv => AdmittedIsSound
  <2> SUFFICES ASSUME RequestsInv PROVE AdmittedIsSound
    OBVIOUS
  <2> USE RequestsAssumption
  <2>1. followUp # NoItem =>
          /\ followUp.answered # 400
          /\ followUp.answered = 413 => Bytes(followUp, EnqueueEnvelope) + DeliverEnvelope - EnqueueEnvelope > BodyLimit
    <3>1. ASSUME followUp # NoItem
          PROVE  Bytes(followUp, EnqueueEnvelope) + DeliverEnvelope - EnqueueEnvelope = Bytes(followUp, DeliverEnvelope)
      <4>1. followUp.chars \in Nat /\ followUp.width \in Nat
        BY <3>1 DEF RequestsInv, RequestsTypeOK, FollowUp
      <4>2. PICK n \in Nat : n = followUp.chars * followUp.width
        BY <4>1
      <4> QED BY <4>2 DEF Bytes
    <3> QED BY <3>1 DEF RequestsInv
  <2>2. runs # <<>> => Last(runs) = runs[Len(runs)]
    BY DEF Last
  <2>3. \A k \in DOMAIN runs : runs[k].parent # 0 =>
          LET parent == runs[runs[k].parent] IN
          /\ runs[k].parent < k /\ runs[k].depth = parent.depth + 1 /\ runs[k].root = parent.root
    <3>1. DOMAIN runs \subseteq Nat
      BY DEF RequestsInv, RequestsTypeOK
    <3> QED BY <3>1 DEF RequestsInv, Descends
  <2> QED BY <2>1, <2>2, <2>3 DEF RequestsInv, AdmittedIsSound
<1> QED BY <1>1, RequestsStart, RequestsStep, PTL DEF RequestsSpec

-----------------------------------------------------------------------------
(* ThreadView: a thread's messages, from the composer to the session.      *)

\* The turns the session has received, those the mailbox has an item of, and those in a
\* queue of the page, of a view that is gone, of recovery, or in a request to the mailbox.
HeardTurns == {t \in Turns : \E i \in DOMAIN log : log[i] = Received(t)}
ItemTurns == {items[i].turn : i \in DOMAIN items}
CallTurns == {c.turn : c \in calls}
FrozenTurns == UNION {IdsIn(frozen[g]) : g \in Gens}
QueuedTurns == IdsIn(thread.queue) \cup IdsIn(recovery.queue) \cup CallTurns \cup FrozenTurns

\* The turn an edit types, and the one it left for the view that is mounted next.
EditedTurns == {view.editing} \ {NoTurn}
Resubmitted == IF thread.pending.state = "resubmitting" THEN {thread.pending.id} ELSE {}

\* A turn goes one way: it is edited, or sent, or queued for the mailbox.
OneWay ==
  /\ sending \cap (HeardTurns \cup ItemTurns \cup QueuedTurns) = {}
  /\ (EditedTurns \cup Resubmitted) \cap (sending \cup HeardTurns \cup ItemTurns \cup QueuedTurns) = {}
  /\ EditedTurns \cap Resubmitted = {}
  /\ QueuedTurns \cap HeardTurns \subseteq ItemTurns

\* A turn has one item, which says whether it was heard.
ItemsTell ==
  /\ \A i, j \in DOMAIN items : items[i].turn = items[j].turn => i = j
  /\ \A i \in DOMAIN items : items[i].turn \in HeardTurns => items[i].status = "committed"

\* While recovery runs the view waits for it, and nobody else has a pending turn.
RecoveryIsAlone ==
  /\ recovery.at = "off" => recovery = NoRecovery
  /\ recovery.at # "off" => view.mode = "recovering" /\ recovery.pending = thread.pending
  /\ view.mode = "recovering" => view.editing = NoTurn

\* The shape of the state.
Item == [turn: Turns, status: ItemStatus]
Thread == [queue: Seq(Queued), pending: Pending, events: Seq(Event), cursor: Nat,
           session: BOOLEAN]
ThreadShape ==
  /\ mailboxed \in BOOLEAN
  /\ log \in Seq(Event)
  /\ items \in Seq(Item)
  /\ thread \in Thread
  /\ thread.pending.state = "resubmitting" => thread.pending.id # NoTurn
  /\ view \in View
  /\ frozen \in [Gens -> Seq(Queued)]
  /\ calls \subseteq Call /\ IsFiniteSet(calls) /\ Cardinality(calls) <= MaxCalls
  /\ sending \subseteq Turns
  /\ recovery \in Recovery
  /\ RecoveryIsAlone

\* The inductive invariant of the thread: with a mailbox, who may still send a turn.
OnceInv == OneWay /\ ItemsTell /\ DeliveredOnce
ThreadInv == ThreadShape /\ (mailboxed => OnceInv)

\* Append adds one member.
LEMMA AppendAdds ==
  ASSUME NEW S, NEW g \in Seq(S), NEW t \in S
  PROVE  Append(g, t) \in Seq(S) /\ ToSet(Append(g, t)) = ToSet(g) \cup {t}
<1>1. /\ Len(g) \in Nat /\ DOMAIN g = 1..Len(g)
      /\ Append(g, t) \in Seq(S) /\ DOMAIN Append(g, t) = 1..(Len(g) + 1)
      /\ Append(g, t)[Len(g) + 1] = t /\ \A i \in 1..Len(g) : Append(g, t)[i] = g[i]
  OBVIOUS
<1>2. 1..(Len(g) + 1) = (1..Len(g)) \cup {Len(g) + 1}
  BY <1>1
<1> QED BY <1>1, <1>2 DEF ToSet

-----------------------------------------------------------------------------
(* Queues of turns.                                                        *)

\* A set of numbers that holds 0 and every successor up to k holds every number up to k.
LEMMA NumbersUpTo ==
  ASSUME NEW k \in Nat, NEW T, 0 \in T, \A n \in 0..k : (n \in T /\ n < k) => n + 1 \in T
  PROVE  \A n \in 0..k : n \in T
<1> SUFFICES ASSUME (0..k) \ T # {} PROVE FALSE
  OBVIOUS
<1>1. PICK n \in (0..k) \ T : \A m \in (0..k) \ T : n <= m
  <2>1. (0..k) \ T \in SUBSET Nat
    OBVIOUS
  <2>2. QED
    BY <2>1, LeastNumber
<1>2. n # 0 /\ n - 1 \in 0..k /\ n - 1 < k /\ n - 1 \notin (0..k) \ T
  BY <1>1
<1>3. QED
  BY <1>1, <1>2

\* One turn of the filter.
Passed(before, u, S) == IF u \in S THEN Append(before, u) ELSE before

\* The filter is what its recursive definition says.
LEMMA OnlyIsDefined ==
  ASSUME NEW q, NEW S, Len(q) \in Nat
  PROVE  \E f : /\ f = [n \in 0..Len(q) |-> IF n = 0 THEN <<>> ELSE Passed(f[n - 1], q[n], S)]
                /\ Only(q, S) = f[Len(q)]
<1> DEFINE Defines(f, m) == f = [n \in 0..m |-> IF n = 0 THEN <<>> ELSE Passed(f[n - 1], q[n], S)]
           T == {m \in 0..Len(q) : \E f : Defines(f, m)}
<1>1. 0 \in T
  <2> DEFINE f == [n \in 0..0 |-> <<>>]
  <2>1. \A n \in 0..0 : n = 0
    OBVIOUS
  <2>2. \E h : Defines(h, 0)
    <3>1. Defines(f, 0)
      BY <2>1
    <3>2. QED
      BY <3>1
  <2>3. 0 \in 0..Len(q)
    OBVIOUS
  <2> HIDE DEF Defines
  <2>4. QED
    BY <2>2, <2>3
<1>2. ASSUME NEW m \in 0..Len(q), m \in T, m < Len(q) PROVE m + 1 \in T
  <2>1. PICK f : Defines(f, m)
    BY <1>2
  <2> DEFINE g == [n \in 0..(m + 1) |-> IF n <= m THEN f[n] ELSE Passed(f[m], q[m + 1], S)]
  <2>2. ASSUME NEW n \in 0..(m + 1)
        PROVE  g[n] = IF n = 0 THEN <<>> ELSE Passed(g[n - 1], q[n], S)
    <3>1. CASE n = 0
      BY <2>1, <3>1
    <3>2. CASE n # 0 /\ n <= m
      BY <2>1, <3>2
    <3>3. CASE n = m + 1
      BY <3>3
    <3>4. QED
      BY <3>1, <3>2, <3>3
  <2>3. g = [n \in 0..(m + 1) |-> g[n]]
    OBVIOUS
  <2> HIDE DEF g
  <2>4. \E h : Defines(h, m + 1)
    BY <2>2, <2>3
  <2>5. m + 1 \in 0..Len(q)
    BY <1>2
  <2> HIDE DEF Defines
  <2>6. QED
    BY <2>4, <2>5
<1> HIDE DEF T
<1>3. \A m \in 0..Len(q) : m \in T
  BY <1>1, <1>2, NumbersUpTo
<1>4. \E f : Defines(f, Len(q))
  BY <1>3 DEF T
<1>5. PICK h : h = CHOOSE f : Defines(f, Len(q))
  OBVIOUS
<1>6. Defines(h, Len(q))
  BY <1>4, <1>5
<1>7. Only(q, S) = h[Len(q)]
  BY <1>5 DEF Only, Passed
<1>8. QED
  BY <1>6, <1>7

\* It lists the members of the queue that are in the set.
LEMMA OnlyKeeps ==
  ASSUME NEW E, NEW q \in Seq(E), NEW S
  PROVE  Only(q, S) \in Seq(E) /\ ToSet(Only(q, S)) = ToSet(q) \cap S
<1>1. Len(q) \in Nat /\ DOMAIN q = 1..Len(q) /\ \A i \in 1..Len(q) : q[i] \in E
  OBVIOUS
<1>2. PICK f : /\ f = [n \in 0..Len(q) |-> IF n = 0 THEN <<>> ELSE Passed(f[n - 1], q[n], S)]
               /\ Only(q, S) = f[Len(q)]
  BY <1>1, OnlyIsDefined
<1> DEFINE T == {n \in 0..Len(q) : f[n] \in Seq(E) /\ ToSet(f[n]) = {q[i] : i \in 1..n} \cap S}
<1>3. 0 \in T
  <2>1. f[0] = <<>> /\ 0 \in 0..Len(q)
    BY <1>1, <1>2
  <2>2. ToSet(<<>>) = {} /\ <<>> \in Seq(E)
    BY DEF ToSet
  <2>3. {q[i] : i \in 1..0} = {}
    OBVIOUS
  <2> QED BY <2>1, <2>2, <2>3
<1>4. ASSUME NEW n \in 0..Len(q), n \in T, n < Len(q) PROVE n + 1 \in T
  <2>1. f[n + 1] = Passed(f[n], q[n + 1], S) /\ n + 1 \in 0..Len(q) /\ n + 1 \in 1..Len(q)
    BY <1>1, <1>2, <1>4
  <2>2. {q[i] : i \in 1..(n + 1)} = {q[i] : i \in 1..n} \cup {q[n + 1]}
    OBVIOUS
  <2>3. PICK g \in Seq(E), u \in E : g = f[n] /\ u = q[n + 1]
    BY <1>1, <1>4, <2>1
  <2>4. ToSet(g) = {q[i] : i \in 1..n} \cap S
    BY <1>4, <2>3
  <2>5. CASE u \notin S
    <3>1. f[n + 1] = g
      BY <2>1, <2>3, <2>5 DEF Passed
    <3> QED BY <2>1, <2>2, <2>3, <2>4, <2>5, <3>1
  <2>6. CASE u \in S
    <3>1. f[n + 1] = Append(g, u)
      BY <2>1, <2>3, <2>6 DEF Passed
    <3>2. Append(g, u) \in Seq(E) /\ ToSet(Append(g, u)) = ToSet(g) \cup {u}
      BY AppendAdds
    <3> QED BY <2>1, <2>2, <2>3, <2>4, <2>6, <3>1, <3>2
  <2> QED BY <2>5, <2>6
<1> HIDE DEF T
<1>5. Len(q) \in T
  <2>1. \A n \in 0..Len(q) : n \in T
    BY <1>1, <1>3, <1>4, NumbersUpTo
  <2> QED BY <1>1, <2>1
<1>6. ToSet(q) = {q[i] : i \in 1..Len(q)}
  BY <1>1 DEF ToSet
<1> QED BY <1>2, <1>5, <1>6 DEF T

\* A queue with the turns of another one, or with fewer.
NoNew(q2, q) == q2 \in Seq(Queued) /\ IdsIn(q2) \subseteq IdsIn(q)

\* The ids of a queue, by place.
LEMMA IdsByPlace ==
  ASSUME NEW q \in Seq(Queued)
  PROVE  /\ IdsIn(q) = {q[i].id : i \in 1..Len(q)} /\ IdsIn(q) \subseteq Turns
         /\ DOMAIN q = 1..Len(q) /\ \A i \in 1..Len(q) : q[i] \in Queued
<1>1. DOMAIN q = 1..Len(q) /\ \A i \in 1..Len(q) : q[i] \in Queued
  OBVIOUS
<1> QED BY <1>1 DEF IdsIn, ToSet, Queued

\* A queue that is changed in place.
LEMMA ChangedInPlace ==
  ASSUME NEW q \in Seq(Queued), NEW q2, DOMAIN q2 = DOMAIN q, q2 = [i \in DOMAIN q |-> q2[i]],
         \A i \in DOMAIN q : q2[i] \in Queued /\ q2[i].id = q[i].id
  PROVE  NoNew(q2, q)
<1>1. q2 \in Seq(Queued) /\ Len(q2) = Len(q)
  OBVIOUS
<1>2. \A i \in 1..Len(q) : q2[i].id = q[i].id
  BY IdsByPlace
<1>3. IdsIn(q2) = {q2[i].id : i \in 1..Len(q)} /\ IdsIn(q) = {q[i].id : i \in 1..Len(q)}
  BY <1>1, IdsByPlace
<1> QED BY <1>1, <1>2, <1>3 DEF NoNew

\* A filtered queue.
LEMMA OnlyNoNew ==
  ASSUME NEW q \in Seq(Queued), NEW S
  PROVE  NoNew(Only(q, S), q) /\ \A u \in ToSet(Only(q, S)) : u \in S /\ u \in Queued
<1>1. Only(q, S) \in Seq(Queued) /\ ToSet(Only(q, S)) = ToSet(q) \cap S
  BY OnlyKeeps
<1>2. \A u \in ToSet(q) : u \in Queued
  BY IdsByPlace DEF ToSet
<1> QED BY <1>1, <1>2 DEF NoNew, IdsIn

\* A turn leaves.
LEMMA WithoutTurnNoNew ==
  ASSUME NEW q \in Seq(Queued), NEW t
  PROVE  NoNew(WithoutTurn(q, t), q)
BY OnlyNoNew DEF WithoutTurn

\* A turn has another state, or its item is known.
LEMMA WithStateNoNew ==
  ASSUME NEW q \in Seq(Queued), NEW t, NEW state \in {"queued", "delivery-failed", "admission-ambiguous"}
  PROVE  /\ NoNew(WithState(q, t, state), q)
         /\ NoNew(WithItem(q, t, state), q)
<1>1. \A i \in DOMAIN q : q[i] \in Queued
  BY IdsByPlace
<1>2. ASSUME NEW i \in DOMAIN q
      PROVE  /\ [q[i] EXCEPT !.state = state] \in Queued
             /\ [q[i] EXCEPT !.item = TRUE, !.state = state] \in Queued
             /\ [q[i] EXCEPT !.state = state].id = q[i].id
             /\ [q[i] EXCEPT !.item = TRUE, !.state = state].id = q[i].id
  BY <1>1 DEF Queued
<1>3. NoNew(WithState(q, t, state), q)
  <2> DEFINE q2 == WithState(q, t, state)
  <2>1. DOMAIN q2 = DOMAIN q /\ q2 = [i \in DOMAIN q |-> q2[i]]
    BY DEF WithState
  <2>2. \A i \in DOMAIN q : q2[i] \in Queued /\ q2[i].id = q[i].id
    BY <1>1, <1>2 DEF WithState
  <2> HIDE DEF q2
  <2>3. NoNew(q2, q)
    BY <2>1, <2>2, ChangedInPlace
  <2> QED BY <2>3 DEF q2
<1>4. NoNew(WithItem(q, t, state), q)
  <2> DEFINE q2 == WithItem(q, t, state)
  <2>1. DOMAIN q2 = DOMAIN q /\ q2 = [i \in DOMAIN q |-> q2[i]]
    BY DEF WithItem
  <2>2. \A i \in DOMAIN q : q2[i] \in Queued /\ q2[i].id = q[i].id
    BY <1>1, <1>2 DEF WithItem
  <2> HIDE DEF q2
  <2>3. NoNew(q2, q)
    BY <2>1, <2>2, ChangedInPlace
  <2> QED BY <2>3 DEF q2
<1> QED BY <1>3, <1>4

\* The receipts of a poll change states and remove what was cancelled.
LEMMA RefreshedNoNew ==
  ASSUME NEW q \in Seq(Queued), NEW seen
  PROVE  NoNew(Refreshed(q, seen), q)
<1> DEFINE state(u) == IF u.id \in seen THEN TurnState(StatusOf(u.id)) ELSE u.state
           S == {u \in ToSet(q) : state(u) # "cancelled"}
           kept == Only(q, S)
           q2 == [i \in DOMAIN kept |-> [kept[i] EXCEPT !.state = state(kept[i])]]
<1>1. NoNew(kept, q) /\ \A u \in ToSet(kept) : u \in S /\ u \in Queued
  BY OnlyNoNew
<1>2. \A x : TurnState(x) \in {"queued", "delivery-failed", "admission-ambiguous", "cancelled"}
  BY DEF TurnState
<1>3. \A u \in Queued : state(u) # "cancelled" => state(u) \in {"queued", "delivery-failed", "admission-ambiguous"}
  BY <1>2 DEF Queued
<1>4. Refreshed(q, seen) = q2
  BY DEF Refreshed
<1>5. kept \in Seq(Queued)
  BY <1>1 DEF NoNew
<1> HIDE DEF kept
<1>6. \A i \in DOMAIN kept : kept[i] \in Queued /\ state(kept[i]) \in {"queued", "delivery-failed", "admission-ambiguous"}
  BY <1>1, <1>3 DEF ToSet
<1> HIDE DEF state
<1>7. \A i \in DOMAIN kept : q2[i] \in Queued /\ q2[i].id = kept[i].id
  BY <1>6 DEF Queued
<1>8. DOMAIN q2 = DOMAIN kept /\ q2 = [i \in DOMAIN kept |-> q2[i]]
  OBVIOUS
<1> HIDE DEF q2
<1>9. NoNew(q2, kept)
  BY <1>5, <1>7, <1>8, ChangedInPlace
<1> QED BY <1>1, <1>4, <1>9 DEF NoNew

\* A receipt takes a turn away, or nothing.
LEMMA AfterReceiptNoNew ==
  ASSUME NEW q \in Seq(Queued), NEW e
  PROVE  NoNew(AfterReceipt(q, e), q)
BY WithoutTurnNoNew DEF AfterReceipt, NoNew

-----------------------------------------------------------------------------
(* What a step of the page may do.                                         *)

\* Nothing reaches the session or the mailbox, and no turn finds another way.
Shrinks ==
  /\ UNCHANGED <<mailboxed, log, items>>
  /\ sending' \subseteq sending /\ QueuedTurns' \subseteq QueuedTurns
  /\ EditedTurns' \subseteq EditedTurns /\ Resubmitted' \subseteq Resubmitted

\* Such a step keeps the ways of the turns.
LEMMA ShrinksKeeps ==
  ASSUME mailboxed => OnceInv, Shrinks
  PROVE  mailboxed' => OnceInv'
<1> SUFFICES ASSUME mailboxed PROVE OnceInv'
  BY DEF Shrinks
<1>1. HeardTurns' = HeardTurns /\ ItemTurns' = ItemTurns
  BY DEF Shrinks, HeardTurns, ItemTurns
<1>2. OneWay'
  BY <1>1 DEF OnceInv, Shrinks, OneWay
<1>3. ItemsTell'
  BY <1>1 DEF OnceInv, Shrinks, ItemsTell
<1>4. DeliveredOnce'
  BY DEF OnceInv, Shrinks, DeliveredOnce
<1> QED BY <1>2, <1>3, <1>4 DEF OnceInv

\* The members of QueuedTurns.
LEMMA QueuedParts ==
  ASSUME ThreadShape
  PROVE  /\ IdsIn(thread.queue) \subseteq QueuedTurns /\ IdsIn(recovery.queue) \subseteq QueuedTurns
         /\ CallTurns \subseteq QueuedTurns /\ \A g \in Gens : IdsIn(frozen[g]) \subseteq QueuedTurns
         /\ thread.queue \in Seq(Queued) /\ recovery.queue \in Seq(Queued)
BY DEF QueuedTurns, FrozenTurns, ThreadShape, Thread, Recovery

\* The queue as view g last saw it.
LEMMA QueueRefIsQueued ==
  ASSUME ThreadShape, NEW g \in Gens
  PROVE  QueueRef(g) \in Seq(Queued) /\ IdsIn(QueueRef(g)) \subseteq QueuedTurns
BY QueuedParts DEF QueueRef, ThreadShape

\* The queues of the views that are gone.
LEMMA FrozenKeeps ==
  ASSUME ThreadShape, NEW g, NEW q \in Seq(Queued), IdsIn(q) \subseteq QueuedTurns
  PROVE  /\ Frozen(g, q) \in [Gens -> Seq(Queued)]
         /\ \A h \in Gens : IdsIn(Frozen(g, q)[h]) \subseteq QueuedTurns
<1>1. <<>> \in Seq(Queued) /\ IdsIn(<<>>) = {}
  BY DEF IdsIn, ToSet
<1>2. frozen \in [Gens -> Seq(Queued)] /\ \A h \in Gens : IdsIn(frozen[h]) \subseteq QueuedTurns
  BY QueuedParts DEF ThreadShape
<1>3. PICK r \in Seq(Queued) : /\ IdsIn(r) \subseteq QueuedTurns
                               /\ Frozen(g, q) \in {frozen, [frozen EXCEPT ![g] = r]}
  BY <1>1 DEF Frozen
<1> QED BY <1>2, <1>3

\* Together they queue no other turn.
LEMMA QueuedShrinks ==
  ASSUME IdsIn(thread.queue)' \subseteq QueuedTurns, IdsIn(recovery.queue)' \subseteq QueuedTurns,
         CallTurns' \subseteq QueuedTurns, \A g \in Gens : IdsIn(frozen[g])' \subseteq QueuedTurns
  PROVE  QueuedTurns' \subseteq QueuedTurns
<1>1. FrozenTurns' \subseteq QueuedTurns
  BY DEF FrozenTurns
<1> QED BY <1>1 DEF QueuedTurns

\* A view writes its queue.
LEMMA QueueWritten ==
  ASSUME ThreadShape, NEW g, NEW q \in Seq(Queued), IdsIn(q) \subseteq QueuedTurns, WriteQueue(g, q),
         recovery' = recovery, CallTurns' \subseteq QueuedTurns
  PROVE  /\ thread' \in Thread /\ thread'.pending = thread.pending
         /\ frozen' \in [Gens -> Seq(Queued)] /\ QueuedTurns' \subseteq QueuedTurns
<1>1. thread' \in Thread /\ thread'.pending = thread.pending /\ thread'.queue = q
  BY DEF WriteQueue, ThreadShape, Thread
<1>2. /\ frozen' \in [Gens -> Seq(Queued)]
      /\ \A h \in Gens : IdsIn(frozen[h])' \subseteq QueuedTurns
  BY FrozenKeeps DEF WriteQueue
<1> QED BY <1>1, <1>2, QueuedParts, QueuedShrinks

\* Or leaves it.
LEMMA QueueLeft ==
  ASSUME ThreadShape, NEW g \in Gens, LeaveQueue(g),
         recovery' = recovery, CallTurns' \subseteq QueuedTurns
  PROVE  /\ thread' \in Thread /\ thread'.pending = thread.pending
         /\ frozen' \in [Gens -> Seq(Queued)] /\ QueuedTurns' \subseteq QueuedTurns
<1>1. frozen[g] \in Seq(Queued) /\ IdsIn(frozen[g]) \subseteq QueuedTurns
  BY QueuedParts DEF ThreadShape
<1>2. /\ frozen' \in [Gens -> Seq(Queued)]
      /\ \A h \in Gens : IdsIn(frozen[h])' \subseteq QueuedTurns
  BY <1>1, FrozenKeeps DEF LeaveQueue
<1>3. thread' = thread /\ thread \in Thread
  BY DEF LeaveQueue, ThreadShape
<1>4. IdsIn(thread.queue)' \subseteq QueuedTurns /\ IdsIn(recovery.queue)' \subseteq QueuedTurns
  BY <1>3, QueuedParts
<1> QED BY <1>2, <1>3, <1>4, QueuedShrinks

\* There are fewer calls than numbers for views, so one is free.
LEMMA NumberIsFree ==
  ASSUME ThreadShape
  PROVE  \E g \in Gens : \A c \in calls : c.gen # g
<1> USE ThreadViewAssumption
<1> DEFINE used == {c.gen : c \in calls}
<1>1. IsFiniteSet(calls) /\ Cardinality(calls) \in Nat /\ Cardinality(calls) <= MaxCalls
  BY FS_CardinalityType DEF ThreadShape
<1>2. IsFiniteSet(used) /\ Cardinality(used) <= Cardinality(calls) /\ Cardinality(used) \in Nat
  <2>1. [c \in calls |-> c.gen] \in Surjection(calls, used)
    BY DEF Surjection
  <2> HIDE DEF used
  <2> QED BY <1>1, <2>1, FS_Surjection, FS_CardinalityType
<1>3. IsFiniteSet(Gens) /\ Cardinality(Gens) = MaxCalls + 1
  BY FS_Interval DEF Gens
<1>4. SUFFICES ASSUME Gens \subseteq used PROVE FALSE
  OBVIOUS
<1>5. Cardinality(Gens) <= Cardinality(used)
  BY <1>2, <1>4, FS_Subset
<1> QED BY <1>1, <1>2, <1>3, <1>5

\* A view is replaced.
LEMMA Remounted ==
  ASSUME ThreadShape, NEW mode \in {"ready", "recovering"}, Remount(mode)
  PROVE  /\ view' \in View /\ view'.editing = NoTurn /\ view'.mode = mode /\ view'.agent = "ready"
         /\ frozen' \in [Gens -> Seq(Queued)]
         /\ \A g \in Gens : IdsIn(frozen[g])' \subseteq QueuedTurns
<1>1. (CHOOSE g \in Gens : \A c \in calls : c.gen # g) \in Gens
  BY NumberIsFree
<1>2. view.gen \in Gens
  BY DEF ThreadShape, View
<1>3. PICK next \in Gens : view' = NewView(mode, next)
  BY <1>1, <1>2 DEF Remount
<1>4. view' \in View /\ view'.editing = NoTurn /\ view'.mode = mode /\ view'.agent = "ready"
  BY <1>3 DEF NewView, View
<1>5. frozen \in [Gens -> Seq(Queued)] /\ \A h \in Gens : IdsIn(frozen[h]) \subseteq QueuedTurns
  BY QueuedParts DEF ThreadShape
<1>6. frozen' \in {frozen, [frozen EXCEPT ![view.gen] = thread.queue]}
  BY DEF Remount
<1> QED BY <1>4, <1>5, <1>6, QueuedParts

-----------------------------------------------------------------------------
(* The steps of the page.                                                  *)

\* A view is replaced while recovery stays.
LEMMA RemountShrinks ==
  ASSUME ThreadShape, NEW mode \in {"ready", "recovering"}, Remount(mode),
         UNCHANGED <<mailboxed, log, items, thread, calls, sending>>,
         recovery' = NoRecovery \/ (recovery' = recovery /\ mode = "recovering"),
         recovery' = recovery => recovery.at = "off" \/ view.mode = "recovering"
  PROVE  ThreadShape' /\ Shrinks
<1>1. /\ view' \in View /\ view'.editing = NoTurn /\ view'.mode = mode
      /\ frozen' \in [Gens -> Seq(Queued)]
      /\ \A g \in Gens : IdsIn(frozen[g])' \subseteq QueuedTurns
  BY Remounted
<1>2. NoRecovery \in Recovery /\ NoRecovery.queue = <<>> /\ IdsIn(<<>>) = {} /\ NoRecovery.at = "off"
  BY DEF NoRecovery, Recovery, NoPending, Pending, IdsIn, ToSet
<1>3. ThreadShape'
  BY <1>1, <1>2 DEF ThreadShape, RecoveryIsAlone
<1>4. CallTurns' = CallTurns
  BY DEF CallTurns
<1>5. IdsIn(thread.queue)' \subseteq QueuedTurns /\ IdsIn(recovery.queue)' \subseteq QueuedTurns
  BY <1>2, QueuedParts
<1>6. QueuedTurns' \subseteq QueuedTurns
  BY <1>1, <1>4, <1>5, QueuedParts, QueuedShrinks
<1> QED BY <1>1, <1>3, <1>6 DEF Shrinks, EditedTurns, Resubmitted

\* Recovery is asked for.
LEMMA RequestStep ==
  ASSUME ThreadShape, RequestRecovery
  PROVE  ThreadShape' /\ Shrinks
BY RemountShrinks DEF RequestRecovery, ThreadShape, RecoveryIsAlone

\* Recovery gives up.
LEMMA RecoveryFailsStep ==
  ASSUME ThreadShape, RecoveryFails
  PROVE  ThreadShape' /\ Shrinks
BY RemountShrinks DEF RecoveryFails, Step, NoRecovery

\* The page is loaded again.
LEMMA ReloadThreadStep ==
  ASSUME ThreadShape, Reload
  PROVE  ThreadShape' /\ Shrinks
<1>1. view' \in View /\ view'.editing = NoTurn
  BY ThreadViewAssumption DEF Reload, NewView, View, Gens
<1>2. NoRecovery \in Recovery /\ NoRecovery.queue = <<>> /\ NoRecovery.at = "off"
  BY DEF NoRecovery, Recovery, NoPending, Pending
<1>3. IdsIn(<<>>) = {} /\ <<>> \in Seq(Queued)
  BY DEF IdsIn, ToSet
<1>4. calls' = {} /\ IsFiniteSet(calls') /\ Cardinality(calls') = 0
  BY FS_EmptySet DEF Reload
<1>5. ThreadShape'
  BY <1>1, <1>2, <1>3, <1>4, ThreadViewAssumption DEF Reload, ThreadShape, RecoveryIsAlone, NoneFrozen
<1>6. /\ IdsIn(thread.queue)' \subseteq QueuedTurns /\ IdsIn(recovery.queue)' \subseteq QueuedTurns
      /\ CallTurns' \subseteq QueuedTurns /\ \A g \in Gens : IdsIn(frozen[g])' \subseteq QueuedTurns
  BY <1>2, <1>3, QueuedParts DEF Reload, NoneFrozen, CallTurns
<1>7. QueuedTurns' \subseteq QueuedTurns
  BY <1>6, QueuedShrinks
<1> QED BY <1>1, <1>5, <1>7 DEF Reload, Shrinks, EditedTurns, Resubmitted

\* Steps that change the view only.
LEMMA ViewStep ==
  ASSUME ThreadShape, UNCHANGED <<mailboxed, log, items, thread, frozen, calls, sending, recovery>>,
         view' \in View, view'.mode = view.mode, view'.editing \in {view.editing, NoTurn}
  PROVE  ThreadShape' /\ Shrinks
<1>1. ThreadShape'
  BY DEF ThreadShape, RecoveryIsAlone
<1>2. QueuedTurns' = QueuedTurns
  BY DEF QueuedTurns, CallTurns, FrozenTurns
<1> QED BY <1>1, <1>2 DEF Shrinks, EditedTurns, Resubmitted

\* The user's cancellation, its answer, an edit that fails, a stream that ends.
LEMMA ViewSteps ==
  ASSUME ThreadShape,
         RequestCancellation \/ NothingToCancel \/ EditFails \/ StreamEnds
  PROVE  ThreadShape' /\ Shrinks
<1>1. view \in View
  BY DEF ThreadShape
<1>2. view' \in View /\ view'.mode = view.mode /\ view'.editing \in {view.editing, NoTurn}
  BY <1>1 DEF RequestCancellation, NothingToCancel, EditFails, StreamEnds, View
<1>3. UNCHANGED <<mailboxed, log, items, thread, frozen, calls, sending, recovery>>
  BY DEF RequestCancellation, NothingToCancel, EditFails, StreamEnds
<1> QED BY <1>2, <1>3, ViewStep

\* A request to the mailbox is begun, for a turn of the queue.
LEMMA AddCallStep ==
  ASSUME ThreadShape, NEW kind \in {"enqueue", "cancel", "retry"},
         NEW t \in IdsIn(thread.queue), AddCall(kind, t)
  PROVE  ThreadShape' /\ Shrinks
<1> DEFINE c == [kind |-> kind, turn |-> t, gen |-> view.gen, result |-> "none"]
<1>1. t \in Turns /\ t \in QueuedTurns
  BY IdsByPlace, QueuedParts
<1>2. c \in Call /\ c.turn = t
  BY <1>1 DEF Call, ThreadShape, View
<1>3. calls' = calls \cup {c}
  BY DEF AddCall
<1> HIDE DEF c
<1>4. IsFiniteSet(calls') /\ Cardinality(calls') <= MaxCalls
  <2>1. Cardinality(calls) \in Nat /\ Cardinality(calls) < MaxCalls /\ IsFiniteSet(calls)
    BY FS_CardinalityType DEF ThreadShape, AddCall
  <2>2. IsFiniteSet(calls') /\ Cardinality(calls') <= Cardinality(calls) + 1
    <3>1. PICK C : C = calls /\ IsFiniteSet(C) /\ Cardinality(C) \in Nat
      BY <2>1
    <3>2. IsFiniteSet(C \cup {c}) /\ Cardinality(C \cup {c}) <= Cardinality(C) + 1
      BY <3>1, FS_AddElement
    <3> QED BY <1>3, <3>1, <3>2
  <2>3. Cardinality(calls') \in Nat
    BY <2>2, FS_CardinalityType
  <2> QED BY <2>1, <2>2, <2>3, ThreadViewAssumption
<1>5. ThreadShape'
  BY <1>2, <1>3, <1>4 DEF AddCall, ThreadShape, RecoveryIsAlone
<1>6. CallTurns' \subseteq QueuedTurns
  BY <1>1, <1>2, <1>3, QueuedParts DEF CallTurns
<1>7. QueuedTurns' \subseteq QueuedTurns
  BY <1>6, QueuedParts, QueuedShrinks DEF AddCall
<1> QED BY <1>5, <1>7 DEF AddCall, Shrinks, EditedTurns, Resubmitted

\* The page writes the queue, of its view or of one that is gone.
LEMMA WriteStep ==
  ASSUME ThreadShape, NEW g, NEW q \in Seq(Queued), IdsIn(q) \subseteq QueuedTurns, WriteQueue(g, q),
         calls' \subseteq calls,
         UNCHANGED <<mailboxed, log, items, view, sending, recovery>>
  PROVE  ThreadShape' /\ Shrinks
<1>1. CallTurns' \subseteq QueuedTurns
  BY QueuedParts DEF CallTurns
<1>2. /\ thread' \in Thread /\ thread'.pending = thread.pending
      /\ frozen' \in [Gens -> Seq(Queued)] /\ QueuedTurns' \subseteq QueuedTurns
  BY <1>1, QueueWritten
<1>3. calls' \subseteq Call /\ IsFiniteSet(calls') /\ Cardinality(calls') <= MaxCalls
  BY FS_Subset, FS_CardinalityType, ThreadViewAssumption DEF ThreadShape
<1>4. ThreadShape'
  BY <1>2, <1>3 DEF ThreadShape, RecoveryIsAlone
<1> QED BY <1>2, <1>4 DEF Shrinks, EditedTurns, Resubmitted

\* Retries, removals and polls.
LEMMA QueueSteps ==
  ASSUME ThreadShape,
         \/ PollQueue
         \/ \E u \in ToSet(thread.queue) : RetryTurn(u) \/ RemoveTurn(u)
  PROVE  ThreadShape' /\ Shrinks
<1>1. thread.queue \in Seq(Queued) /\ IdsIn(thread.queue) \subseteq QueuedTurns
  BY QueuedParts
<1>2. ASSUME NEW q, NoNew(q, thread.queue), WriteQueue(view.gen, q),
             UNCHANGED <<mailboxed, log, items, view, calls, sending, recovery>>
      PROVE  ThreadShape' /\ Shrinks
  BY <1>1, <1>2, WriteStep DEF NoNew
<1>3. CASE PollQueue
  BY <1>1, <1>2, <1>3, RefreshedNoNew DEF PollQueue
<1>4. ASSUME NEW u \in ToSet(thread.queue), RetryTurn(u)
      PROVE  ThreadShape' /\ Shrinks
  <2>1. u.id \in IdsIn(thread.queue)
    BY DEF IdsIn
  <2>2. CASE AddCall("retry", u.id)
    BY <2>1, <2>2, AddCallStep
  <2>3. CASE ~AddCall("retry", u.id)
    BY <1>1, <1>2, <1>4, <2>3, WithStateNoNew DEF RetryTurn
  <2> QED BY <2>2, <2>3
<1>5. ASSUME NEW u \in ToSet(thread.queue), RemoveTurn(u)
      PROVE  ThreadShape' /\ Shrinks
  <2>1. u.id \in IdsIn(thread.queue)
    BY DEF IdsIn
  <2>2. CASE AddCall("cancel", u.id)
    BY <2>1, <2>2, AddCallStep
  <2>3. CASE ~AddCall("cancel", u.id)
    BY <1>1, <1>2, <1>5, <2>3, WithoutTurnNoNew DEF RemoveTurn
  <2> QED BY <2>2, <2>3
<1> QED BY <1>3, <1>4, <1>5

\* The effect that enqueues.
LEMMA StartEnqueueStep ==
  ASSUME ThreadShape, StartEnqueue
  PROVE  ThreadShape' /\ Shrinks
<1>1. PICK S : /\ Only(thread.queue, S) # <<>>
               /\ AddCall("enqueue", Head(Only(thread.queue, S)).id)
  BY DEF StartEnqueue
<1>2. thread.queue \in Seq(Queued)
  BY QueuedParts
<1>3. PICK q \in Seq(Queued) : q = Only(thread.queue, S) /\ IdsIn(q) \subseteq IdsIn(thread.queue)
  BY <1>2, OnlyNoNew DEF NoNew
<1>4. Head(q).id \in IdsIn(q)
  <2>1. 1 \in 1..Len(q) /\ Head(q) = q[1]
    BY <1>1, <1>3
  <2> QED BY <2>1, IdsByPlace
<1> QED BY <1>1, <1>3, <1>4, AddCallStep

\* A request to the mailbox is answered.
LEMMA AnswerStep ==
  ASSUME ThreadShape, NEW c \in calls, CallAnswered(c) \/ CallFailed(c)
  PROVE  ThreadShape' /\ Shrinks
<1>1. c.gen \in Gens /\ calls' \subseteq calls
  BY DEF ThreadShape, Call, CallAnswered, CallFailed
<1>2. PICK q \in Seq(Queued) : q = QueueRef(c.gen) /\ IdsIn(q) \subseteq QueuedTurns
  BY <1>1, QueueRefIsQueued
<1>3. UNCHANGED <<mailboxed, log, items, view, sending, recovery>>
  BY DEF CallAnswered, CallFailed
<1>4. ASSUME NEW q2, NoNew(q2, q), WriteQueue(c.gen, q2) PROVE ThreadShape' /\ Shrinks
  BY <1>1, <1>2, <1>3, <1>4, WriteStep DEF NoNew
<1>5. ASSUME LeaveQueue(c.gen) PROVE ThreadShape' /\ Shrinks
  <2>1. CallTurns' \subseteq QueuedTurns
    BY <1>1, QueuedParts DEF CallTurns
  <2>2. /\ thread' = thread /\ frozen' \in [Gens -> Seq(Queued)] /\ QueuedTurns' \subseteq QueuedTurns
    BY <1>1, <1>3, <1>5, <2>1, QueueLeft DEF LeaveQueue
  <2>3. calls' \subseteq Call /\ IsFiniteSet(calls') /\ Cardinality(calls') <= MaxCalls
    BY <1>1, FS_Subset, FS_CardinalityType, ThreadViewAssumption DEF ThreadShape
  <2>4. ThreadShape'
    BY <1>3, <2>2, <2>3 DEF ThreadShape, RecoveryIsAlone
  <2> QED BY <1>3, <2>2, <2>4 DEF Shrinks, EditedTurns, Resubmitted
<1>6. CASE CallFailed(c)
  BY <1>2, <1>4, <1>5, <1>6, WithStateNoNew DEF CallFailed
<1>7. CASE CallAnswered(c)
  <2>1. TurnState(c.result) \in {"queued", "delivery-failed", "admission-ambiguous", "cancelled"}
    BY DEF TurnState
  <2> QED BY <1>2, <1>4, <1>5, <1>7, <2>1, WithoutTurnNoNew, WithStateNoNew DEF CallAnswered
<1> QED BY <1>6, <1>7

\* The thread is written by the view or by recovery: its pending turn goes, or is the one it
\* was, its queue shrinks.
LEMMA ThreadStep ==
  ASSUME ThreadShape, UNCHANGED <<mailboxed, log, items, frozen, calls>>,
         sending' \subseteq sending, thread' \in Thread, IdsIn(thread'.queue) \subseteq QueuedTurns,
         thread'.pending.state = "resubmitting" => thread'.pending = thread.pending,
         view' \in View, view'.editing = view.editing, view'.mode = view.mode,
         recovery' \in Recovery, IdsIn(recovery'.queue) \subseteq QueuedTurns,
         recovery'.at = "off" <=> recovery.at = "off",
         recovery.at = "off" => recovery' = recovery,
         recovery.at # "off" => recovery'.pending = thread'.pending
  PROVE  ThreadShape' /\ Shrinks
<1>1. ThreadShape'
  BY DEF ThreadShape, RecoveryIsAlone
<1>2. CallTurns' = CallTurns
  BY DEF CallTurns
<1>3. QueuedTurns' \subseteq QueuedTurns
  BY <1>2, QueuedParts, QueuedShrinks
<1> QED BY <1>1, <1>3 DEF Shrinks, EditedTurns, Resubmitted

\* An event of the log.
LEMMA LogEvent ==
  ASSUME ThreadShape, NEW n \in Nat, n < Len(log)
  PROVE  log[n + 1] \in Event
BY DEF ThreadShape

\* The live stream, and a send that fails.
LEMMA LiveSteps ==
  ASSUME ThreadShape, LiveEvent \/ SendFailed
  PROVE  ThreadShape' /\ Shrinks
<1>1. /\ thread \in Thread /\ view \in View /\ thread.queue \in Seq(Queued)
      /\ IdsIn(thread.queue) \subseteq QueuedTurns /\ recovery \in Recovery
      /\ IdsIn(recovery.queue) \subseteq QueuedTurns
  BY QueuedParts DEF ThreadShape
<1>2. recovery.at = "off"
  BY DEF ThreadShape, RecoveryIsAlone, LiveEvent, SendFailed
<1>3. NoPending \in Pending /\ NoPending.state = "none"
  BY DEF NoPending, Pending
<1>4. CASE LiveEvent
  <2>1. AtLog \in Event
    BY <1>1, <1>4, LogEvent DEF LiveEvent, AtLog, Unread, Thread
  <2>2. PICK q : /\ NoNew(q, thread.queue)
                 /\ thread' = [thread EXCEPT !.events = Append(@, AtLog), !.cursor = @ + 1, !.queue = q,
                                 !.pending = IF AtLog.type = "received" THEN NoPending ELSE @]
    <3>1. NoNew(thread.queue, thread.queue)
      BY <1>1 DEF NoNew
    <3> QED BY <1>1, <1>4, <3>1, WithoutTurnNoNew, AfterReceiptNoNew DEF LiveEvent
  <2>3. /\ thread' \in Thread /\ IdsIn(thread'.queue) \subseteq QueuedTurns
        /\ thread'.pending \in {NoPending, thread.pending}
    <3>1. Append(thread.events, AtLog) \in Seq(Event) /\ thread.cursor + 1 \in Nat
      BY <1>1, <2>1 DEF Thread
    <3>2. q \in Seq(Queued) /\ IdsIn(q) \subseteq QueuedTurns
      BY <1>1, <2>2 DEF NoNew
    <3>3. \A q2 \in Seq(Queued), p \in Pending, es \in Seq(Event), k \in Nat :
            [thread EXCEPT !.events = es, !.cursor = k, !.queue = q2, !.pending = p] \in Thread
      BY <1>1 DEF Thread
    <3>4. thread.pending \in Pending
      BY <1>1 DEF Thread
    <3>5. thread' \in Thread
      BY <1>3, <2>2, <3>1, <3>2, <3>3, <3>4
    <3> QED BY <1>1, <2>2, <3>2, <3>5 DEF Thread
  <2>4. view' \in View /\ view'.editing = view.editing /\ view'.mode = view.mode
    BY <1>1, <1>4 DEF LiveEvent, View
  <2>5. UNCHANGED <<mailboxed, log, items, frozen, calls, sending, recovery>>
    BY <1>4 DEF LiveEvent
  <2> QED BY <1>1, <1>2, <1>3, <2>3, <2>4, <2>5, ThreadStep
<1>5. CASE SendFailed
  <2>1. PICK q : NoNew(q, thread.queue) /\ thread'.queue = q /\ thread' \in Thread
                 /\ thread'.pending.state # "resubmitting"
    <3>1. NoNew(thread.queue, thread.queue)
      BY <1>1 DEF NoNew
    <3>2. NoNew(WithState(thread.queue, view.dispatching, "delivery-failed"), thread.queue)
      BY <1>1, WithStateNoNew
    <3>3. PICK q, p : /\ NoNew(q, thread.queue)
                      /\ p \in {NoPending, [thread.pending EXCEPT !.state = "delivery-failed"], thread.pending}
                      /\ thread' = [thread EXCEPT !.queue = q, !.pending = p]
      BY <1>5, <3>1, <3>2 DEF SendFailed
    <3>4. thread.pending.state = "submitting"
      BY <1>5 DEF SendFailed
    <3>5. p \in Pending /\ p.state # "resubmitting"
      BY <1>1, <1>3, <3>3, <3>4 DEF Thread, Pending
    <3> QED BY <1>1, <3>3, <3>5 DEF Thread, NoNew
  <2>2. view' \in View /\ view'.editing = view.editing /\ view'.mode = view.mode
    BY <1>1, <1>5 DEF SendFailed, View
  <2>3. UNCHANGED <<mailboxed, log, items, frozen, calls, recovery>> /\ sending' \subseteq sending
    BY <1>5 DEF SendFailed
  <2> QED BY <1>1, <1>2, <2>1, <2>2, <2>3, ThreadStep DEF NoNew
<1> QED BY <1>4, <1>5

\* Recovery begins.
LEMMA BeginRecoveryStep ==
  ASSUME ThreadShape, BeginRecovery
  PROVE  ThreadShape' /\ Shrinks
<1>1. /\ thread \in Thread /\ view \in View /\ recovery \in Recovery
      /\ IdsIn(thread.queue) \subseteq QueuedTurns
  BY QueuedParts DEF ThreadShape
<1>2. /\ recovery' = [NoRecovery EXCEPT !.at = "refreshing", !.queue = thread.queue,
                        !.pending = thread.pending, !.events = thread.events, !.cursor = thread.cursor]
      /\ recovery.at = "off" /\ view.mode = "recovering"
      /\ UNCHANGED <<mailboxed, log, items, thread, view, frozen, calls, sending>>
  BY DEF BeginRecovery, Step
<1>3. /\ recovery' \in Recovery /\ recovery'.at # "off" /\ recovery'.pending = thread.pending
      /\ recovery'.queue = thread.queue
  BY <1>1, <1>2 DEF Recovery, NoRecovery, Thread
<1>4. ThreadShape'
  BY <1>2, <1>3 DEF ThreadShape, RecoveryIsAlone
<1>5. QueuedTurns' \subseteq QueuedTurns
  BY <1>1, <1>2, <1>3, QueuedParts, QueuedShrinks DEF CallTurns
<1> QED BY <1>2, <1>4, <1>5 DEF Shrinks, EditedTurns, Resubmitted

\* Recovery writes the thread, or leaves it, and goes on.
LEMMA RecoveryStep ==
  ASSUME ThreadShape, recovery.at # "off", UNCHANGED <<mailboxed, log, items, view, frozen, calls, sending>>,
         thread' \in Thread, IdsIn(thread'.queue) \subseteq QueuedTurns,
         thread'.pending \in {NoPending, thread.pending},
         recovery' \in Recovery, IdsIn(recovery'.queue) \subseteq QueuedTurns,
         recovery'.at # "off", recovery'.pending = thread'.pending
  PROVE  ThreadShape' /\ Shrinks
<1>1. view \in View /\ NoPending.state = "none"
  BY DEF ThreadShape, NoPending
<1> QED BY <1>1, ThreadStep

\* A refresh begins, from the queue of the thread.
LEMMA RefreshStep ==
  ASSUME ThreadShape, recovery.at # "off", UNCHANGED <<mailboxed, log, items, view, frozen, calls, sending>>,
         thread' \in Thread, IdsIn(thread'.queue) \subseteq QueuedTurns,
         thread'.pending \in {NoPending, thread.pending},
         NEW r \in Recovery, r.pending = thread'.pending,
         NEW after \in {"loop", "boundary", "end"}, Refresh(r, after)
  PROVE  ThreadShape' /\ Shrinks
<1>1. thread'.queue \in Seq(Queued)
  BY DEF Thread
<1>2. /\ recovery' \in Recovery /\ recovery'.queue = thread'.queue
      /\ recovery'.at # "off" /\ recovery'.pending = thread'.pending
  BY <1>1 DEF Refresh, Step, Recovery
<1> QED BY <1>2, RecoveryStep

\* What recovery holds.
LEMMA RecoveryHolds ==
  ASSUME ThreadShape, recovery.at # "off"
  PROVE  /\ recovery \in Recovery /\ thread \in Thread /\ recovery.pending = thread.pending
         /\ recovery.queue \in Seq(Queued) /\ IdsIn(recovery.queue) \subseteq QueuedTurns
         /\ thread.queue \in Seq(Queued) /\ IdsIn(thread.queue) \subseteq QueuedTurns
         /\ recovery.events \in Seq(Event) /\ recovery.cursor \in Nat /\ recovery.pending \in Pending
BY QueuedParts DEF ThreadShape, RecoveryIsAlone, Recovery

\* Recovery ends with what it holds.
LEMMA SettleStep ==
  ASSUME ThreadShape, recovery.at # "off", UNCHANGED <<mailboxed, log, items, calls, sending>>,
         NEW r \in Recovery, r.pending = recovery.pending, IdsIn(r.queue) \subseteq QueuedTurns, Settle(r)
  PROVE  ThreadShape' /\ Shrinks
<1>1. /\ view' \in View /\ view'.editing = NoTurn /\ view'.mode = "ready"
      /\ frozen' \in [Gens -> Seq(Queued)]
      /\ \A g \in Gens : IdsIn(frozen[g])' \subseteq QueuedTurns
  BY Remounted DEF Settle
<1>2. /\ NoRecovery \in Recovery /\ NoRecovery.queue = <<>> /\ IdsIn(<<>>) = {} /\ NoRecovery.at = "off"
      /\ recovery' = NoRecovery
  BY DEF NoRecovery, Recovery, NoPending, Pending, IdsIn, ToSet, Settle, Step
<1>3. thread' \in Thread /\ thread'.pending = thread.pending /\ IdsIn(thread'.queue) \subseteq QueuedTurns
  BY RecoveryHolds DEF Settle, Recovery, Thread
<1>4. ThreadShape'
  BY <1>1, <1>2, <1>3 DEF ThreadShape, RecoveryIsAlone
<1>5. CallTurns' = CallTurns
  BY DEF CallTurns
<1>6. QueuedTurns' \subseteq QueuedTurns
  BY <1>1, <1>2, <1>3, <1>5, QueuedParts, QueuedShrinks
<1> QED BY <1>1, <1>3, <1>4, <1>6 DEF Shrinks, EditedTurns, Resubmitted

\* A refresh is answered.
LEMMA QueueRefreshedStep ==
  ASSUME ThreadShape, QueueRefreshed
  PROVE  ThreadShape' /\ Shrinks
<1>1. recovery.at # "off" /\ UNCHANGED <<mailboxed, log, items, calls, sending>>
  BY DEF QueueRefreshed
<1>2. PICK seen : LET r == [recovery EXCEPT !.queue = Refreshed(@, seen)] IN
        \/ Settle(r)
        \/ /\ thread' \in {thread, [thread EXCEPT !.queue = r.queue]}
           /\ \/ Step([r EXCEPT !.at = "reading", !.consumed = FALSE])
              \/ Refresh([r EXCEPT !.settled = BoundarySettles(r)], "end")
              \/ Refresh(r, "loop")
           /\ UNCHANGED <<view, frozen>>
  BY DEF QueueRefreshed
<1> DEFINE r == [recovery EXCEPT !.queue = Refreshed(@, seen)]
<1>3. NoNew(Refreshed(recovery.queue, seen), recovery.queue)
  BY <1>1, RecoveryHolds, RefreshedNoNew
<1>4. /\ r \in Recovery /\ r.pending = recovery.pending /\ IdsIn(r.queue) \subseteq QueuedTurns
      /\ r.queue \in Seq(Queued)
  BY <1>1, <1>3, RecoveryHolds DEF NoNew, Recovery
<1> HIDE DEF r
<1>5. CASE Settle(r)
  BY <1>1, <1>4, <1>5, SettleStep
<1>6. CASE /\ thread' \in {thread, [thread EXCEPT !.queue = r.queue]}
           /\ \/ Step([r EXCEPT !.at = "reading", !.consumed = FALSE])
              \/ Refresh([r EXCEPT !.settled = BoundarySettles(r)], "end")
              \/ Refresh(r, "loop")
           /\ UNCHANGED <<view, frozen>>
  <2>1. /\ thread' \in Thread /\ IdsIn(thread'.queue) \subseteq QueuedTurns
        /\ thread'.pending = thread.pending
    BY <1>1, <1>4, <1>6, RecoveryHolds DEF Thread
  <2>2. BoundarySettles(r) \in BOOLEAN
    BY DEF BoundarySettles
  <2>3. PICK b \in BOOLEAN : b = BoundarySettles(r)
    BY <2>2
  <2>4. [r EXCEPT !.settled = b] \in Recovery /\ [r EXCEPT !.settled = b].pending = thread'.pending
    BY <1>1, <1>4, <2>1, RecoveryHolds DEF Recovery
  <2>5. CASE Step([r EXCEPT !.at = "reading", !.consumed = FALSE])
    <3>1. /\ recovery' \in Recovery /\ recovery'.queue = r.queue /\ recovery'.at # "off"
          /\ recovery'.pending = thread'.pending
      BY <1>1, <1>4, <2>1, <2>5, RecoveryHolds DEF Step, Recovery
    <3> QED BY <1>1, <1>4, <1>6, <2>1, <3>1, RecoveryStep
  <2>6. CASE Refresh([r EXCEPT !.settled = b], "end")
    <3>1. PICK r2 \in Recovery : Refresh(r2, "end") /\ r2.pending = thread'.pending
      BY <2>4, <2>6
    <3> QED BY <1>1, <1>6, <2>1, <3>1, RefreshStep
  <2>7. CASE Refresh(r, "loop")
    BY <1>1, <1>4, <1>6, <2>1, <2>7, RecoveryHolds, RefreshStep
  <2> QED BY <1>6, <2>3, <2>5, <2>6, <2>7
<1> QED BY <1>2, <1>5, <1>6 DEF r

\* Recovery reads an event.
LEMMA RecoverEventStep ==
  ASSUME ThreadShape, RecoverEvent
  PROVE  ThreadShape' /\ Shrinks
<1> DEFINE e == log[recovery.cursor + 1]
<1>1. /\ recovery.at # "off" /\ recovery.cursor < Len(log)
      /\ UNCHANGED <<mailboxed, log, items, view, frozen, calls, sending>>
  BY DEF RecoverEvent
<1>2. e \in Event
  BY <1>1, RecoveryHolds, LogEvent
<1>3. NoPending \in Pending
  BY DEF NoPending, Pending
<1>4. PICK q, p, next :
        /\ NoNew(q, recovery.queue) /\ p \in {NoPending, recovery.pending}
        /\ next = [recovery EXCEPT !.cursor = @ + 1, !.events = Append(@, e), !.consumed = TRUE,
                     !.pending = p, !.queue = q]
        /\ thread' = [thread EXCEPT !.events = next.events, !.cursor = next.cursor,
                        !.pending = next.pending, !.queue = next.queue]
        /\ Refresh(next, "boundary") \/ Step(next)
  <2> DEFINE received == e.type = "received"
             p == IF received THEN NoPending ELSE recovery.pending
             q == IF received /\ recovery.pending = NoPending
                  THEN AfterReceipt(recovery.queue, e) ELSE recovery.queue
             next == [recovery EXCEPT !.cursor = @ + 1, !.events = Append(@, e), !.consumed = TRUE,
                        !.pending = p, !.queue = q]
  <2>1. NoNew(q, recovery.queue)
    BY <1>1, RecoveryHolds, AfterReceiptNoNew DEF NoNew
  <2>2. p \in {NoPending, recovery.pending}
    OBVIOUS
  <2>3. /\ thread' = [thread EXCEPT !.events = next.events, !.cursor = next.cursor,
                        !.pending = next.pending, !.queue = next.queue]
        /\ Refresh(next, "boundary") \/ Step(next)
    BY DEF RecoverEvent
  <2> HIDE DEF p, q
  <2> QED BY <2>1, <2>2, <2>3
<1> HIDE DEF e
<1>5. /\ q \in Seq(Queued) /\ IdsIn(q) \subseteq QueuedTurns /\ p \in Pending
      /\ p \in {NoPending, thread.pending}
  BY <1>1, <1>3, <1>4, RecoveryHolds DEF NoNew
<1>6. Append(recovery.events, e) \in Seq(Event) /\ recovery.cursor + 1 \in Nat
  BY <1>1, <1>2, RecoveryHolds
<1>7. /\ next \in Recovery /\ next.queue = q /\ next.pending = p /\ next.at = recovery.at
      /\ next.events \in Seq(Event) /\ next.cursor \in Nat
  BY <1>1, <1>4, <1>5, <1>6, RecoveryHolds DEF Recovery
<1>8. thread' \in Thread /\ thread'.queue = q /\ thread'.pending = p
  BY <1>1, <1>4, <1>5, <1>7, RecoveryHolds DEF Thread
<1>9. CASE Refresh(next, "boundary")
  BY <1>1, <1>5, <1>7, <1>8, <1>9, RefreshStep
<1>10. CASE Step(next)
  BY <1>1, <1>5, <1>7, <1>8, <1>10, RecoveryStep DEF Step
<1> QED BY <1>4, <1>9, <1>10

\* Recovery comes to the end of the log, or looks at its last event.
LEMMA TailSteps ==
  ASSUME ThreadShape, ReadEnds \/ TailRead
  PROVE  ThreadShape' /\ Shrinks
<1>1. recovery.at # "off" /\ UNCHANGED <<mailboxed, log, items, view, frozen, calls, sending>>
  BY DEF ReadEnds, TailRead
<1>2. recovery \in Recovery /\ thread \in Thread /\ recovery.pending = thread.pending
  BY <1>1, RecoveryHolds
<1>3. ASSUME thread' = thread, Refresh(recovery, "end") PROVE ThreadShape' /\ Shrinks
  BY <1>1, <1>2, <1>3, RecoveryHolds, RefreshStep
<1>4. CASE ReadEnds
  <2>1. CASE Step([recovery EXCEPT !.at = "tailing", !.checked = TRUE])
    <3>1. /\ recovery' \in Recovery /\ recovery'.queue = recovery.queue /\ recovery'.at # "off"
          /\ recovery'.pending = thread.pending
      BY <1>2, <2>1 DEF Step, Recovery
    <3>2. thread' = thread
      BY <1>4 DEF ReadEnds
    <3> QED BY <1>1, <1>2, <3>1, <3>2, RecoveryHolds, RecoveryStep
  <2> QED BY <1>3, <1>4, <2>1 DEF ReadEnds
<1>5. CASE TailRead
  <2>1. CASE IsBoundary(Last(log))
    <3> DEFINE next == [recovery EXCEPT !.events = Append(@, Last(log))]
    <3>1. Last(log) \in Event
      BY <1>5 DEF ThreadShape, TailRead, Last
    <3>2. thread' = [thread EXCEPT !.events = next.events] /\ Refresh(next, "boundary")
      BY <1>5, <2>1 DEF TailRead
    <3>3. Append(recovery.events, Last(log)) \in Seq(Event)
      BY <1>1, <3>1, RecoveryHolds
    <3>4. next \in Recovery /\ next.pending = thread.pending /\ next.events \in Seq(Event)
      BY <1>2, <3>3 DEF Recovery
    <3> HIDE DEF next
    <3>5. thread' \in Thread /\ thread'.queue = thread.queue /\ thread'.pending = thread.pending
      BY <1>2, <3>2, <3>4 DEF Thread
    <3> QED BY <1>1, <3>2, <3>4, <3>5, RecoveryHolds, RefreshStep
  <2> QED BY <1>3, <1>5, <2>1 DEF TailRead
<1> QED BY <1>4, <1>5

-----------------------------------------------------------------------------
(* The steps that lengthen the log, serve the mailbox, or begin a turn.    *)

\* The log grows by an event.
LEMMA LogGrows ==
  ASSUME ThreadShape, NEW e \in Event, log' = Append(log, e)
  PROVE  /\ log' \in Seq(Event)
         /\ DOMAIN log = 1..Len(log) /\ DOMAIN log' = 1..(Len(log) + 1) /\ Len(log) \in Nat
         /\ log'[Len(log) + 1] = e /\ \A i \in 1..Len(log) : log'[i] = log[i]
BY DEF ThreadShape

\* An event of Eve's own, which says nothing of a turn.
LEMMA OtherIsSilent ==
  ASSUME ThreadShape, NEW type \in {"waiting", "failed"}, log' = Append(log, Other(type)),
         mailboxed' = mailboxed
  PROVE  /\ log' \in Seq(Event) /\ HeardTurns' = HeardTurns
         /\ DeliveredOnce => DeliveredOnce'
<1>1. Other(type) \in Event /\ Other(type).type # "received" /\ \A t : Other(type) # Received(t)
  BY DEF Event, Other, Received
<1>2. /\ log' \in Seq(Event)
      /\ DOMAIN log = 1..Len(log) /\ DOMAIN log' = 1..(Len(log) + 1) /\ Len(log) \in Nat
      /\ log'[Len(log) + 1].type # "received" /\ \A i \in 1..Len(log) : log'[i] = log[i]
      /\ \A t : log'[Len(log) + 1] # Received(t)
  BY <1>1, LogGrows
<1>3. \A i \in 1..(Len(log) + 1) : i \in 1..Len(log) \/ i = Len(log) + 1
  BY <1>2
<1>4. HeardTurns' = HeardTurns
  BY <1>2, <1>3 DEF HeardTurns
<1>5. ASSUME DeliveredOnce PROVE DeliveredOnce'
  BY <1>2, <1>3, <1>5 DEF DeliveredOnce
<1> QED BY <1>2, <1>4, <1>5

\* A turn that was not heard is.
LEMMA TurnIsHeard ==
  ASSUME ThreadShape, NEW t \in Turns, log' = Append(log, Received(t)), mailboxed' = mailboxed
  PROVE  /\ log' \in Seq(Event) /\ HeardTurns' = HeardTurns \cup {t}
         /\ DeliveredOnce /\ t \notin HeardTurns => DeliveredOnce'
<1>1. Received(t) \in Event
  BY DEF Event
<1>2. /\ log' \in Seq(Event)
      /\ DOMAIN log = 1..Len(log) /\ DOMAIN log' = 1..(Len(log) + 1) /\ Len(log) \in Nat
      /\ log'[Len(log) + 1] = Received(t) /\ \A i \in 1..Len(log) : log'[i] = log[i]
  BY <1>1, LogGrows
<1>3. \A i \in 1..(Len(log) + 1) : i \in 1..Len(log) \/ i = Len(log) + 1
  BY <1>2
<1>4. HeardTurns' = HeardTurns \cup {t}
  <2>1. \A u : Received(u) = Received(t) => u = t
    BY DEF Received
  <2> QED BY <1>2, <1>3, <2>1 DEF HeardTurns
<1>5. ASSUME DeliveredOnce, t \notin HeardTurns PROVE DeliveredOnce'
  <2>1. \A i \in 1..Len(log) : log[i] # Received(t)
    BY <1>2, <1>5 DEF HeardTurns
  <2> QED BY <1>2, <1>3, <1>5, <2>1 DEF DeliveredOnce
<1> QED BY <1>2, <1>4, <1>5

\* The page as it was.
PageIsAsItWas == UNCHANGED <<mailboxed, thread, view, frozen, calls, sending, recovery>>

\* Its turns are where they were.
LEMMA PageKeeps ==
  ASSUME PageIsAsItWas
  PROVE  /\ QueuedTurns' = QueuedTurns /\ EditedTurns' = EditedTurns /\ Resubmitted' = Resubmitted
         /\ ThreadShape /\ log' \in Seq(Event) /\ items' \in Seq(Item) => ThreadShape'
<1>1. QueuedTurns' = QueuedTurns
  BY DEF PageIsAsItWas, QueuedTurns, CallTurns, FrozenTurns
<1> QED BY <1>1 DEF PageIsAsItWas, EditedTurns, Resubmitted, ThreadShape, RecoveryIsAlone

\* Eve ends its turn.
LEMMA EveEndsStep ==
  ASSUME ThreadInv, EveEnds
  PROVE  ThreadInv'
<1>1. PICK type \in {"waiting", "failed"} : log' = Append(log, Other(type))
  BY DEF EveEnds, Emit
<1>2. PageIsAsItWas /\ items' = items
  BY DEF EveEnds, PageIsAsItWas
<1>3. log' \in Seq(Event) /\ HeardTurns' = HeardTurns /\ (DeliveredOnce => DeliveredOnce')
  BY <1>1, <1>2, OtherIsSilent DEF ThreadInv, PageIsAsItWas
<1>4. ThreadShape'
  BY <1>2, <1>3, PageKeeps DEF ThreadInv, ThreadShape
<1>5. ItemTurns' = ItemTurns
  BY <1>2 DEF ItemTurns
<1>6. ASSUME mailboxed PROVE OnceInv'
  BY <1>2, <1>3, <1>5, <1>6, PageKeeps DEF ThreadInv, OnceInv, OneWay, ItemsTell, PageIsAsItWas
<1> QED BY <1>2, <1>4, <1>6 DEF ThreadInv, PageIsAsItWas

\* An item has another status.
LEMMA ItemChanges ==
  ASSUME ThreadShape, NEW i \in DOMAIN items, NEW s \in ItemStatus,
         items' = [items EXCEPT ![i].status = s]
  PROVE  /\ items' \in Seq(Item) /\ ItemTurns' = ItemTurns /\ DOMAIN items' = DOMAIN items
         /\ \A j \in DOMAIN items : items'[j].turn = items[j].turn
         /\ \A j \in DOMAIN items : items'[j].status = IF i = j THEN s ELSE items[j].status
<1>1. items \in Seq(Item) /\ \A j \in DOMAIN items : items[j] \in Item
  BY DEF ThreadShape
<1>2. [items[i] EXCEPT !.status = s] \in Item /\ [items[i] EXCEPT !.status = s].turn = items[i].turn
      /\ [items[i] EXCEPT !.status = s].status = s
  BY <1>1 DEF Item
<1>3. items' = [items EXCEPT ![i] = [items[i] EXCEPT !.status = s]]
  OBVIOUS
<1>4. PICK x \in Item : x.turn = items[i].turn /\ x.status = s /\ items' = [items EXCEPT ![i] = x]
  BY <1>2, <1>3
<1>5. items' \in Seq(Item) /\ DOMAIN items' = DOMAIN items
  BY <1>1, <1>4
<1>6. /\ \A j \in DOMAIN items : items'[j].turn = items[j].turn
      /\ \A j \in DOMAIN items : items'[j].status = IF i = j THEN s ELSE items[j].status
  BY <1>1, <1>4
<1>7. ItemTurns' = ItemTurns
  BY <1>5, <1>6 DEF ItemTurns
<1> QED BY <1>5, <1>6, <1>7

\* The head of the queue is one of its items.
LEMMA HeadIsOpen ==
  ASSUME ThreadShape, HeadIndex # 0
  PROVE  HeadIndex \in DOMAIN items /\ items[HeadIndex] \in Item
<1> DEFINE open == {i \in DOMAIN items : items[i].status \notin {"committed", "cancelled"}}
<1>1. DOMAIN items \subseteq Nat /\ \A i \in DOMAIN items : items[i] \in Item
  BY DEF ThreadShape
<1>2. open # {}
  BY DEF HeadIndex
<1>3. \E i \in open : \A j \in open : i <= j
  BY <1>1, <1>2, LeastNumber
<1>4. HeadIndex = CHOOSE i \in open : \A j \in open : i <= j
  BY <1>2 DEF HeadIndex
<1>5. HeadIndex \in open
  BY <1>3, <1>4
<1> QED BY <1>1, <1>5

\* The item that is committed is one whose turn was not heard.
LEMMA ItemIsCommitted ==
  ASSUME ThreadInv, PageIsAsItWas, NEW i \in DOMAIN items, items[i].status # "committed",
         log' = Append(log, Received(items[i].turn)),
         items' = [items EXCEPT ![i].status = "committed"]
  PROVE  ThreadInv'
<1>1. items[i] \in Item /\ items[i].turn \in Turns
  <2>1. items \in Seq(Item)
    BY DEF ThreadInv, ThreadShape
  <2>2. items[i] \in Item
    BY <2>1
  <2> QED BY <2>2 DEF Item
<1>2. PICK t \in Turns : t = items[i].turn
  BY <1>1
<1>3. /\ log' \in Seq(Event) /\ HeardTurns' = HeardTurns \cup {t}
      /\ DeliveredOnce /\ t \notin HeardTurns => DeliveredOnce'
  BY <1>2, TurnIsHeard DEF ThreadInv, PageIsAsItWas
<1>4. /\ items' \in Seq(Item) /\ ItemTurns' = ItemTurns /\ DOMAIN items' = DOMAIN items
      /\ \A j \in DOMAIN items : items'[j].turn = items[j].turn
      /\ \A j \in DOMAIN items : items'[j].status = IF i = j THEN "committed" ELSE items[j].status
  BY ItemChanges DEF ThreadInv, ItemStatus
<1>5. ThreadShape'
  BY <1>3, <1>4, PageKeeps DEF ThreadInv
<1>6. ASSUME mailboxed PROVE OnceInv'
  <2>1. OneWay /\ ItemsTell /\ DeliveredOnce
    BY <1>6 DEF ThreadInv, OnceInv
  <2>2. t \notin HeardTurns /\ t \in ItemTurns
    BY <1>2, <2>1 DEF ItemsTell, ItemTurns
  <2>3. OneWay'
    BY <1>3, <1>4, <2>1, <2>2, PageKeeps DEF OneWay, PageIsAsItWas
  <2>4. ItemsTell'
    <3>1. \A j, k \in DOMAIN items' : items'[j].turn = items'[k].turn => j = k
      BY <1>4, <2>1 DEF ItemsTell
    <3>2. ASSUME NEW j \in DOMAIN items', items'[j].turn \in HeardTurns'
          PROVE  items'[j].status = "committed"
      <4>1. CASE j = i
        BY <1>4, <4>1
      <4>2. CASE j # i
        <5>1. items[j].turn \in HeardTurns
          BY <1>2, <1>3, <1>4, <2>1, <3>2, <4>2 DEF ItemsTell
        <5> QED BY <1>4, <2>1, <4>2, <5>1 DEF ItemsTell
      <4> QED BY <4>1, <4>2
    <3> QED BY <3>1, <3>2 DEF ItemsTell
  <2> QED BY <1>3, <2>1, <2>2, <2>3, <2>4 DEF OnceInv
<1> QED BY <1>5, <1>6 DEF ThreadInv, PageIsAsItWas

\* The dispatcher sends the head, or is refused, or the hook commits what was in doubt.
LEMMA DeliverySteps ==
  ASSUME ThreadInv, MailboxDelivers \/ MailboxPromotes
  PROVE  ThreadInv'
<1>1. PageIsAsItWas
  BY DEF MailboxDelivers, MailboxPromotes, PageIsAsItWas
<1>2. PICK i : /\ i = HeadIndex /\ i # 0 /\ items[i].status # "committed"
               /\ \/ /\ log' = Append(log, Received(items[i].turn))
                     /\ items' = [items EXCEPT ![i].status = "committed"]
                  \/ /\ items' \in {[items EXCEPT ![i].status = s] : s \in {"failed", "submission-ambiguous"}}
                     /\ log' = log /\ items[i].status = "queued"
  BY DEF MailboxDelivers, MailboxPromotes, Emit
<1>3. i \in DOMAIN items
  BY <1>2, HeadIsOpen DEF ThreadInv
<1>4. CASE /\ log' = Append(log, Received(items[i].turn))
           /\ items' = [items EXCEPT ![i].status = "committed"]
  BY <1>1, <1>2, <1>3, <1>4, ItemIsCommitted
<1>5. CASE /\ items' \in {[items EXCEPT ![i].status = s] : s \in {"failed", "submission-ambiguous"}}
           /\ log' = log
  <2>1. PICK s \in {"failed", "submission-ambiguous"} : items' = [items EXCEPT ![i].status = s]
    BY <1>5
  <2>2. s \in ItemStatus
    BY DEF ItemStatus
  <2>3. /\ items' \in Seq(Item) /\ ItemTurns' = ItemTurns /\ DOMAIN items' = DOMAIN items
        /\ \A j \in DOMAIN items : items'[j].turn = items[j].turn
        /\ \A j \in DOMAIN items : items'[j].status = IF i = j THEN s ELSE items[j].status
    BY <1>3, <2>1, <2>2, ItemChanges DEF ThreadInv
  <2>4. ThreadShape'
    BY <1>1, <1>5, <2>3, PageKeeps DEF ThreadInv, ThreadShape
  <2>5. HeardTurns' = HeardTurns
    BY <1>5 DEF HeardTurns
  <2>6. ASSUME mailboxed PROVE OnceInv'
    <3>1. OneWay /\ ItemsTell /\ DeliveredOnce
      BY <2>6 DEF ThreadInv, OnceInv
    <3>2. items[i].turn \notin HeardTurns
      BY <1>2, <1>3, <3>1 DEF ItemsTell
    <3>3. ItemsTell'
      BY <1>3, <2>3, <2>5, <3>1, <3>2 DEF ItemsTell
    <3>4. OneWay'
      BY <1>1, <2>3, <2>5, <3>1, PageKeeps DEF OneWay, PageIsAsItWas
    <3>5. DeliveredOnce'
      BY <1>1, <1>5, <3>1 DEF DeliveredOnce, PageIsAsItWas
    <3> QED BY <3>3, <3>4, <3>5 DEF OnceInv
  <2> QED BY <1>1, <2>4, <2>6 DEF ThreadInv, PageIsAsItWas
<1> QED BY <1>2, <1>4, <1>5

\* Eve admits the turn that was sent.
LEMMA EveAdmitsStep ==
  ASSUME ThreadInv, NEW t \in Turns, EveAdmits(t)
  PROVE  ThreadInv'
<1>1. /\ t \in sending /\ log' = Append(log, Received(t)) /\ sending' = sending \ {t}
      /\ UNCHANGED <<mailboxed, items, view, frozen, calls, recovery>>
      /\ thread' = [thread EXCEPT !.session = TRUE]
  BY DEF EveAdmits, Emit
<1>2. /\ thread' \in Thread /\ thread'.pending = thread.pending /\ thread'.queue = thread.queue
  BY <1>1 DEF ThreadInv, ThreadShape, Thread
<1>3. /\ log' \in Seq(Event) /\ HeardTurns' = HeardTurns \cup {t}
      /\ DeliveredOnce /\ t \notin HeardTurns => DeliveredOnce'
  BY <1>1, TurnIsHeard DEF ThreadInv
<1>4. ThreadShape'
  BY <1>1, <1>2, <1>3 DEF ThreadInv, ThreadShape, RecoveryIsAlone
<1>5. /\ QueuedTurns' = QueuedTurns /\ EditedTurns' = EditedTurns /\ Resubmitted' = Resubmitted
      /\ ItemTurns' = ItemTurns
  BY <1>1, <1>2 DEF QueuedTurns, CallTurns, FrozenTurns, EditedTurns, Resubmitted, ItemTurns
<1>6. ASSUME mailboxed PROVE OnceInv'
  <2>1. OneWay /\ ItemsTell /\ DeliveredOnce
    BY <1>6 DEF ThreadInv, OnceInv
  <2>2. t \notin HeardTurns /\ t \notin ItemTurns /\ t \notin QueuedTurns
    BY <1>1, <2>1 DEF OneWay
  <2>3. OneWay'
    BY <1>1, <1>3, <1>5, <2>1, <2>2 DEF OneWay
  <2>4. ItemsTell'
    BY <1>1, <1>3, <2>1, <2>2 DEF ItemsTell, ItemTurns
  <2> QED BY <1>3, <2>1, <2>2, <2>3, <2>4 DEF OnceInv
<1> QED BY <1>1, <1>4, <1>6 DEF ThreadInv

\* What a served request does to the items of the session.
Served(items2, t) ==
  /\ items2 \in Seq(Item)
  /\ \A j \in 1..Len(items) : items2[j].turn = items[j].turn
  /\ \A j \in 1..Len(items) : items[j].status = "committed" => items2[j].status = "committed"
  /\ \/ Len(items2) = Len(items)
     \/ /\ Len(items2) = Len(items) + 1 /\ items2[Len(items) + 1].turn = t
        /\ t \notin ItemTurns

\* Every item of it is an old one, or the new one.
LEMMA ServedPlaces ==
  ASSUME ThreadShape, NEW t, NEW items2, Served(items2, t)
  PROVE  /\ DOMAIN items = 1..Len(items) /\ DOMAIN items2 = 1..Len(items2)
         /\ \A j \in 1..Len(items2) : \/ j \in 1..Len(items) /\ items2[j].turn = items[j].turn
                                      \/ /\ j = Len(items2) /\ j \notin 1..Len(items)
                                         /\ items2[j].turn = t /\ t \notin ItemTurns
         /\ \A j \in 1..Len(items) : /\ items[j].turn \in ItemTurns /\ j \in 1..Len(items2)
                                     /\ items2[j].turn = items[j].turn
<1>1. items \in Seq(Item) /\ items2 \in Seq(Item)
  BY DEF ThreadShape, Served
<1>2. PICK n \in Nat, m \in Nat : /\ n = Len(items) /\ m = Len(items2)
                                  /\ DOMAIN items = 1..n /\ DOMAIN items2 = 1..m
  BY <1>1
<1>3. \/ m = n
      \/ m = n + 1 /\ items2[m].turn = t /\ t \notin ItemTurns
  BY <1>2 DEF Served
<1>4. \A j \in 1..m : j \in 1..n \/ (j = m /\ m = n + 1 /\ j \notin 1..n)
  BY <1>3
<1>5. \A j \in 1..n : j \in 1..m
  BY <1>3
<1>6. \A j \in 1..n : items2[j].turn = items[j].turn
  BY <1>2 DEF Served
<1>7. \A j \in 1..n : items[j].turn \in ItemTurns
  BY <1>2 DEF ItemTurns
<1>8. \A j \in 1..m : j \in 1..n \/ (items2[m].turn = t /\ t \notin ItemTurns)
  BY <1>3, <1>4
<1> QED BY <1>2, <1>4, <1>5, <1>6, <1>7, <1>8

\* A request served: its turn may have an item from then on.
LEMMA ServedKeeps ==
  ASSUME ThreadInv, mailboxed, NEW t \in Turns, t \in QueuedTurns, Served(items', t),
         UNCHANGED <<mailboxed, log, thread, view, frozen, sending, recovery>>,
         QueuedTurns' \subseteq QueuedTurns
  PROVE  OnceInv'
<1>1. OneWay /\ ItemsTell /\ DeliveredOnce
  BY DEF ThreadInv, OnceInv
<1>2. DOMAIN items = 1..Len(items) /\ DOMAIN items' = 1..Len(items')
  BY ServedPlaces DEF ThreadInv
<1>3. \A j \in DOMAIN items' : \/ j \in DOMAIN items /\ items'[j].turn = items[j].turn
                               \/ /\ j = Len(items') /\ j \notin DOMAIN items
                                  /\ items'[j].turn = t /\ t \notin ItemTurns
  BY <1>2, ServedPlaces DEF ThreadInv
<1>4. \A j \in DOMAIN items : /\ items[j].turn \in ItemTurns /\ j \in DOMAIN items'
                              /\ items'[j].turn = items[j].turn
  BY <1>2, ServedPlaces DEF ThreadInv
<1>5. ItemTurns \subseteq ItemTurns' /\ ItemTurns' \subseteq ItemTurns \cup {t}
  BY <1>3, <1>4 DEF ItemTurns
<1>6. HeardTurns' = HeardTurns /\ EditedTurns' = EditedTurns /\ Resubmitted' = Resubmitted
  BY DEF HeardTurns, EditedTurns, Resubmitted
<1>7. OneWay'
  BY <1>1, <1>5, <1>6 DEF OneWay
<1>8. ItemsTell'
  <2>1. ASSUME NEW i \in DOMAIN items', NEW j \in DOMAIN items', items'[i].turn = items'[j].turn
        PROVE  i = j
    BY <1>1, <1>3, <1>4, <2>1 DEF ItemsTell
  <2>2. ASSUME NEW i \in DOMAIN items', items'[i].turn \in HeardTurns
        PROVE  items'[i].status = "committed"
    <3>1. t \in HeardTurns => t \in ItemTurns
      BY <1>1 DEF OneWay
    <3>2. i \in DOMAIN items /\ items[i].turn \in HeardTurns
      BY <1>3, <2>2, <3>1
    <3>3. items[i].status = "committed"
      BY <1>1, <3>2 DEF ItemsTell
    <3> QED BY <1>2, <3>2, <3>3 DEF Served
  <2> QED BY <1>6, <2>1, <2>2 DEF ItemsTell
<1>9. DeliveredOnce'
  BY <1>1 DEF DeliveredOnce
<1> QED BY <1>7, <1>8, <1>9 DEF OnceInv

\* An enqueue is recognised, or appends an item.
LEMMA EnqueueServes ==
  ASSUME ThreadShape, NEW t \in Turns
  PROVE  /\ Served(Enqueue(t), t)
         /\ \E i \in 1..Len(Enqueue(t)) : Enqueue(t)[i].turn = t
<1>1. items \in Seq(Item) /\ Len(items) \in Nat /\ DOMAIN items = 1..Len(items)
  BY DEF ThreadShape
<1>2. CASE \E x \in ToSet(items) : x.turn = t
  <2>1. Enqueue(t) = items
    BY <1>2 DEF Enqueue
  <2>2. \E i \in 1..Len(items) : items[i].turn = t
    BY <1>1, <1>2 DEF ToSet
  <2> QED BY <1>1, <2>1, <2>2 DEF Served
<1>3. CASE ~\E x \in ToSet(items) : x.turn = t
  <2> DEFINE x == [turn |-> t, status |-> "queued"]
  <2>1. Enqueue(t) = Append(items, x)
    BY <1>3 DEF Enqueue
  <2>2. x \in Item /\ x.turn = t
    BY DEF Item, ItemStatus
  <2>3. t \notin ItemTurns
    BY <1>1, <1>3 DEF ItemTurns, ToSet
  <2> HIDE DEF x
  <2>4. /\ Append(items, x) \in Seq(Item) /\ Len(Append(items, x)) = Len(items) + 1
        /\ Append(items, x)[Len(items) + 1] = x
        /\ \A j \in 1..Len(items) : Append(items, x)[j] = items[j]
    BY <1>1, <2>2
  <2>5. Served(Append(items, x), t)
    BY <2>2, <2>3, <2>4 DEF Served
  <2>6. Len(items) + 1 \in 1..(Len(items) + 1)
    BY <1>1
  <2> QED BY <2>1, <2>2, <2>4, <2>5, <2>6
<1> QED BY <1>2, <1>3

\* A cancel or a retry changes what is open, in place.
ChangedItems(t, before, status) ==
  [i \in DOMAIN items |-> IF items[i].turn = t /\ items[i].status \in before
                          THEN [items[i] EXCEPT !.status = status] ELSE items[i]]

\* It serves the request: no item is new, and what is committed stays so.
LEMMA ChangeServes ==
  ASSUME ThreadShape, NEW t \in Turns, NEW before, "committed" \notin before,
         NEW status \in ItemStatus
  PROVE  /\ Served(ChangedItems(t, before, status), t)
         /\ ChangedItems(t, before, status) # items =>
              \E i \in 1..Len(ChangedItems(t, before, status)) : ChangedItems(t, before, status)[i].turn = t
<1>1. items \in Seq(Item) /\ Len(items) \in Nat /\ DOMAIN items = 1..Len(items)
      /\ \A j \in DOMAIN items : items[j] \in Item
  BY DEF ThreadShape
<1>2. \A x \in Item : /\ [x EXCEPT !.status = status] \in Item
                      /\ [x EXCEPT !.status = status].turn = x.turn
  BY DEF Item
<1> DEFINE items2 == ChangedItems(t, before, status)
<1>3. items2 = [i \in DOMAIN items |-> items2[i]] /\ DOMAIN items2 = DOMAIN items
  BY DEF ChangedItems
<1>4. \A j \in DOMAIN items :
        /\ items2[j] \in Item /\ items2[j].turn = items[j].turn
        /\ items[j].status = "committed" => items2[j] = items[j]
        /\ items2[j] # items[j] => items[j].turn = t
  BY <1>1, <1>2 DEF ChangedItems
<1> HIDE DEF items2
<1>5. items2 \in Seq(Item) /\ Len(items2) = Len(items)
  BY <1>1, <1>3, <1>4
<1>6. Served(items2, t)
  <2>1. /\ \A j \in 1..Len(items) : items2[j].turn = items[j].turn
        /\ \A j \in 1..Len(items) : items[j].status = "committed" => items2[j].status = "committed"
    BY <1>1, <1>4
  <2> QED BY <1>5, <2>1 DEF Served
<1>7. ASSUME items2 # items PROVE \E i \in 1..Len(items2) : items2[i].turn = t
  <2>1. PICK j \in DOMAIN items : items2[j] # items[j]
    <3>1. items = [i \in DOMAIN items |-> items[i]]
      BY <1>1
    <3> QED BY <1>3, <1>7, <3>1
  <2> QED BY <1>1, <1>4, <1>5, <2>1
<1> QED BY <1>6, <1>7 DEF items2

\* The mailbox answers a request.
LEMMA ServeCallStep ==
  ASSUME ThreadInv, NEW c, ServeCall(c)
  PROVE  ThreadInv'
<1>1. /\ c \in calls /\ c \in Call /\ c.turn \in Turns
      /\ c.kind \in {"enqueue", "cancel", "retry"}
      /\ UNCHANGED <<mailboxed, log, thread, view, frozen, sending, recovery>>
  BY DEF ServeCall, ThreadInv, ThreadShape, Call
<1>3. PICK t \in Turns : t = c.turn
  BY <1>1
<1>4. /\ Served(items', t)
      /\ (c.kind # "enqueue" /\ items' = items) \/ \E i \in 1..Len(items') : items'[i].turn = t
  <2>1. CASE c.kind = "enqueue"
    <3>1. items' = Enqueue(t)
      BY <1>1, <1>3, <2>1 DEF ServeCall
    <3> QED BY <3>1, EnqueueServes DEF ThreadInv
  <2>2. CASE c.kind = "cancel"
    <3>1. items' = ChangedItems(t, {"queued", "failed"}, "cancelled")
      BY <1>3, <2>2 DEF ServeCall, ChangedItems
    <3> QED BY <2>2, <3>1, ChangeServes DEF ThreadInv, ItemStatus
  <2>3. CASE c.kind = "retry"
    <3>1. items' = ChangedItems(t, {"failed"}, "queued")
      BY <1>3, <2>3 DEF ServeCall, ChangedItems
    <3> QED BY <2>3, <3>1, ChangeServes DEF ThreadInv, ItemStatus
  <2> QED BY <1>1, <2>1, <2>2, <2>3
<1>5. items' \in Seq(Item)
  BY <1>4 DEF Served
<1>6. PICK result \in ItemStatus \cup {"none", "refused"} :
        calls' = (calls \ {c}) \cup {[c EXCEPT !.result = result]}
  <2> DEFINE after == CASE c.kind = "enqueue" -> Enqueue(c.turn)
                        [] c.kind = "cancel" -> ChangedItems(c.turn, {"queued", "failed"}, "cancelled")
                        [] OTHER -> ChangedItems(c.turn, {"failed"}, "queued")
             found == {y \in ToSet(after) : y.turn = c.turn}
             result == IF c.kind # "enqueue" /\ after = items THEN "refused"
                       ELSE (CHOOSE x \in found : TRUE).status
  <2>1. items' = after /\ calls' = (calls \ {c}) \cup {[c EXCEPT !.result = result]}
    BY Zenon DEF ServeCall, ChangedItems
  <2> HIDE DEF after
  <2>2. \A x \in ToSet(items') : x \in Item /\ x.status \in ItemStatus
    <3>1. \A i \in DOMAIN items' : items'[i] \in Item
      BY <1>5
    <3> QED BY <3>1 DEF ToSet, Item
  <2>3. CASE c.kind # "enqueue" /\ after = items
    BY <2>1, <2>3
  <2>4. CASE ~(c.kind # "enqueue" /\ after = items)
    <3>1. PICK i \in 1..Len(items') : items'[i].turn = t
      BY <1>4, <2>1, <2>4
    <3>2. items'[i] \in found
      BY <1>3, <1>5, <2>1, <3>1 DEF ToSet
    <3>3. (CHOOSE x \in found : TRUE) \in found
      BY <3>2
    <3>4. (CHOOSE x \in found : TRUE).status \in ItemStatus
      BY <2>1, <2>2, <3>3
    <3> QED BY <2>1, <2>4, <3>4
  <2> QED BY <2>3, <2>4
<1>7. PICK d \in Call : d.turn = t /\ calls' = (calls \ {c}) \cup {d}
  <2>1. [c EXCEPT !.result = result] \in Call /\ [c EXCEPT !.result = result].turn = c.turn
    BY <1>1, <1>6 DEF Call
  <2> QED BY <1>3, <1>6, <2>1
<1>8. calls' \subseteq Call /\ IsFiniteSet(calls') /\ Cardinality(calls') <= MaxCalls
  <2>1. IsFiniteSet(calls) /\ Cardinality(calls) \in Nat /\ Cardinality(calls) <= MaxCalls /\ calls \subseteq Call
    BY FS_CardinalityType DEF ThreadInv, ThreadShape
  <2>2. IsFiniteSet(calls \ {c}) /\ Cardinality(calls \ {c}) = Cardinality(calls) - 1
    BY <1>1, <2>1, FS_RemoveElement
  <2>3. PICK C : /\ C = calls \ {c} /\ IsFiniteSet(C) /\ Cardinality(C) \in Nat
                 /\ Cardinality(C) = Cardinality(calls) - 1
    BY <2>2, FS_CardinalityType
  <2>4. IsFiniteSet(C \cup {d}) /\ Cardinality(C \cup {d}) <= Cardinality(C) + 1
    BY <2>3, FS_AddElement
  <2>5. Cardinality(C \cup {d}) \in Nat
    BY <2>4, FS_CardinalityType
  <2> QED BY <1>7, <2>1, <2>3, <2>4, <2>5, ThreadViewAssumption
<1>9. ThreadShape'
  BY <1>1, <1>5, <1>8 DEF ThreadInv, ThreadShape, RecoveryIsAlone
<1>10. t \in QueuedTurns /\ QueuedTurns' \subseteq QueuedTurns
  BY <1>1, <1>3, <1>7 DEF QueuedTurns, CallTurns, FrozenTurns
<1>11. mailboxed => OnceInv'
  BY <1>1, <1>4, <1>10, ServedKeeps
<1> QED BY <1>1, <1>9, <1>11 DEF ThreadInv

\* A turn the page does not know has not begun.
LEMMA NewTurnIsNew ==
  ASSUME ThreadShape, NEW t \in Turns, t \in NewTurns
  PROVE  /\ t \notin sending /\ t \notin HeardTurns /\ t \notin ItemTurns /\ t \notin QueuedTurns
         /\ t \notin EditedTurns /\ t \notin Resubmitted
<1>1. t \notin Known
  <2>1. \E u \in Turns : u \notin Known
    BY DEF NewTurns
  <2>2. t = CHOOSE u \in Turns : u \notin Known
    BY DEF NewTurns
  <2> HIDE DEF Known
  <2> QED BY <2>1, <2>2
<1>2. t \notin HeardTurns /\ t \notin ItemTurns
  BY <1>1 DEF Known, HeardTurns, ItemTurns, Received, ToSet
<1>3. t \notin QueuedTurns
  <2>1. t \notin CallTurns
    BY <1>1 DEF Known, CallTurns
  <2>2. t \notin FrozenTurns
    BY <1>1 DEF Known, FrozenTurns
  <2>3. t \notin IdsIn(thread.queue) /\ t \notin IdsIn(recovery.queue)
    BY <1>1 DEF Known
  <2> QED BY <2>1, <2>2, <2>3 DEF QueuedTurns
<1> QED BY <1>1, <1>2, <1>3 DEF Known, EditedTurns, Resubmitted

\* The view is idle and no recovery runs when it sends.
LEMMA SendKeepsShape ==
  ASSUME ThreadShape, ~Busy, NEW t \in Turns, NEW d \in Turns \cup {NoTurn}, Send(t, d)
  PROVE  /\ ThreadShape' /\ sending' = sending \cup {t} /\ QueuedTurns' = QueuedTurns
         /\ EditedTurns' = EditedTurns /\ Resubmitted' = {}
         /\ UNCHANGED <<mailboxed, log, items>>
<1>1. /\ thread' = [thread EXCEPT !.pending = [id |-> t, state |-> "submitting"]]
      /\ sending' = sending \cup {t}
      /\ UNCHANGED <<mailboxed, log, items, frozen, calls, recovery>>
      /\ view' = [view EXCEPT !.agent = "busy", !.dispatching = d,
                              !.asked = FALSE, !.cancelling = FALSE]
  BY DEF Send
<1>2. [id |-> t, state |-> "submitting"] \in Pending
  BY DEF Pending
<1>3. thread' \in Thread /\ thread'.pending.state = "submitting" /\ thread'.queue = thread.queue
  BY <1>1, <1>2 DEF ThreadShape, Thread
<1>4. view' \in View /\ view'.editing = view.editing /\ view'.mode = view.mode
  BY <1>1 DEF ThreadShape, View
<1>5. recovery.at = "off"
  BY DEF Busy, ThreadShape, RecoveryIsAlone
<1>6. ThreadShape'
  BY <1>1, <1>3, <1>4, <1>5 DEF ThreadShape, RecoveryIsAlone
<1>7. QueuedTurns' = QueuedTurns
  BY <1>1, <1>3 DEF QueuedTurns, CallTurns, FrozenTurns
<1> QED BY <1>1, <1>3, <1>4, <1>6, <1>7 DEF EditedTurns, Resubmitted

\* A turn that is nowhere, or was left by an edit, is sent.
LEMMA SendStep ==
  ASSUME ThreadInv, ~Busy, NEW t \in Turns, NEW d \in Turns \cup {NoTurn}, Send(t, d),
         mailboxed => t \notin HeardTurns \cup ItemTurns \cup QueuedTurns \cup EditedTurns
  PROVE  ThreadInv'
<1>1. /\ ThreadShape' /\ sending' = sending \cup {t} /\ QueuedTurns' = QueuedTurns
      /\ EditedTurns' = EditedTurns /\ Resubmitted' = {}
      /\ UNCHANGED <<mailboxed, log, items>>
  BY SendKeepsShape DEF ThreadInv
<1>2. HeardTurns' = HeardTurns /\ ItemTurns' = ItemTurns
  BY <1>1 DEF HeardTurns, ItemTurns
<1>3. ASSUME mailboxed PROVE OnceInv'
  <2>1. OneWay /\ ItemsTell /\ DeliveredOnce
    BY <1>3 DEF ThreadInv, OnceInv
  <2>2. OneWay'
    BY <1>1, <1>2, <1>3, <2>1 DEF OneWay
  <2>3. ItemsTell' /\ DeliveredOnce'
    BY <1>1, <1>2, <2>1 DEF ItemsTell, DeliveredOnce
  <2> QED BY <2>2, <2>3 DEF OnceInv
<1> QED BY <1>1, <1>3 DEF ThreadInv

\* The user submits a message.
LEMMA SubmitStep ==
  ASSUME ThreadInv, NEW t \in Turns, Submit(t)
  PROVE  ThreadInv'
<1>1. /\ t \notin sending /\ t \notin HeardTurns /\ t \notin ItemTurns /\ t \notin QueuedTurns
      /\ t \notin EditedTurns /\ t \notin Resubmitted
  BY NewTurnIsNew DEF ThreadInv, Submit
<1>2. CASE ~Busy
  <2>1. Send(t, view.dispatching) /\ view.dispatching \in Turns \cup {NoTurn}
    BY <1>2 DEF Submit, ThreadInv, ThreadShape, View
  <2> QED BY <1>1, <1>2, <2>1, SendStep
<1>3. CASE Busy
  <2> DEFINE u == [id |-> t, item |-> FALSE, state |-> "queued"]
  <2>1. /\ thread' = [thread EXCEPT !.queue = Append(@, u)]
        /\ UNCHANGED <<mailboxed, log, items, view, frozen, calls, sending, recovery>>
    BY <1>3 DEF Submit
  <2>2. u \in Queued /\ u.id = t
    BY DEF Queued
  <2> HIDE DEF u
  <2>3. thread \in Thread /\ thread.queue \in Seq(Queued)
    BY DEF ThreadInv, ThreadShape, Thread
  <2>4. Append(thread.queue, u) \in Seq(Queued) /\ ToSet(Append(thread.queue, u)) = ToSet(thread.queue) \cup {u}
    BY <2>2, <2>3, AppendAdds
  <2>5. /\ thread' \in Thread /\ thread'.pending = thread.pending
        /\ thread'.queue = Append(thread.queue, u)
    BY <2>1, <2>3, <2>4 DEF Thread
  <2>6. IdsIn(thread'.queue) = IdsIn(thread.queue) \cup {t}
    BY <2>2, <2>4, <2>5 DEF IdsIn
  <2>7. ThreadShape'
    BY <2>1, <2>5 DEF ThreadInv, ThreadShape, RecoveryIsAlone
  <2>8. QueuedTurns' = QueuedTurns \cup {t}
    <3>1. CallTurns' = CallTurns /\ FrozenTurns' = FrozenTurns /\ recovery' = recovery
      BY <2>1 DEF CallTurns, FrozenTurns
    <3> QED BY <2>6, <3>1 DEF QueuedTurns
  <2>9. /\ HeardTurns' = HeardTurns /\ ItemTurns' = ItemTurns /\ EditedTurns' = EditedTurns
        /\ Resubmitted' = Resubmitted
    BY <2>1, <2>5 DEF HeardTurns, ItemTurns, EditedTurns, Resubmitted
  <2>10. ASSUME mailboxed PROVE OnceInv'
    <3>1. OneWay /\ ItemsTell /\ DeliveredOnce
      BY <2>10 DEF ThreadInv, OnceInv
    <3>2. OneWay'
      BY <1>1, <2>1, <2>8, <2>9, <3>1 DEF OneWay
    <3>3. ItemsTell' /\ DeliveredOnce'
      BY <2>1, <2>9, <3>1 DEF ItemsTell, DeliveredOnce
    <3> QED BY <3>2, <3>3 DEF OnceInv
  <2> QED BY <2>1, <2>7, <2>10 DEF ThreadInv
<1> QED BY <1>2, <1>3

\* A queued turn is sent by the page itself, where there is no mailbox.
LEMMA DispatchLocallyStep ==
  ASSUME ThreadInv, DispatchLocally
  PROVE  ThreadInv'
<1>1. PICK S : /\ ~mailboxed /\ ~Busy /\ Only(thread.queue, S) # <<>>
               /\ Send(Head(Only(thread.queue, S)).id, Head(Only(thread.queue, S)).id)
  BY DEF DispatchLocally
<1>2. thread.queue \in Seq(Queued)
  BY QueuedParts DEF ThreadInv
<1>3. PICK q \in Seq(Queued) : q = Only(thread.queue, S)
  BY <1>2, OnlyNoNew DEF NoNew
<1>4. Head(q).id \in Turns
  <2>1. 1 \in 1..Len(q) /\ Head(q) = q[1]
    BY <1>1, <1>3
  <2> QED BY <2>1, IdsByPlace DEF Queued
<1> QED BY <1>1, <1>3, <1>4, SendStep

\* The turn that an edit left is sent.
LEMMA ResubmitStep ==
  ASSUME ThreadInv, Resubmit
  PROVE  ThreadInv'
<1>1. /\ thread.pending.state = "resubmitting" /\ ~Busy /\ Send(thread.pending.id, view.dispatching)
      /\ view.dispatching \in Turns \cup {NoTurn} /\ thread.pending.id \in Turns
  BY DEF Resubmit, ThreadInv, ThreadShape, Thread, Pending, View
<1>2. thread.pending.id \in Resubmitted
  BY <1>1 DEF Resubmitted
<1>3. mailboxed => thread.pending.id \notin HeardTurns \cup ItemTurns \cup QueuedTurns \cup EditedTurns
  BY <1>2 DEF ThreadInv, OnceInv, OneWay
<1> QED BY <1>1, <1>3, SendStep

\* An edit begins with a turn that is nowhere.
LEMMA BeginEditStep ==
  ASSUME ThreadInv, NEW t \in Turns, BeginEdit(t)
  PROVE  ThreadInv'
<1>1. /\ t \notin sending /\ t \notin HeardTurns /\ t \notin ItemTurns /\ t \notin QueuedTurns
      /\ t \notin EditedTurns /\ t \notin Resubmitted
  BY NewTurnIsNew DEF ThreadInv, BeginEdit
<1>2. /\ ~Busy /\ view.editing = NoTurn /\ view' = [view EXCEPT !.editing = t]
      /\ UNCHANGED <<mailboxed, log, items, thread, frozen, calls, sending, recovery>>
  BY DEF BeginEdit
<1>3. view' \in View /\ view'.editing = t /\ view'.mode = "ready"
  BY <1>2 DEF ThreadInv, ThreadShape, View, Busy
<1>4. recovery.at = "off" /\ recovery = NoRecovery
  BY <1>2 DEF Busy, ThreadInv, ThreadShape, RecoveryIsAlone
<1>5. ThreadShape'
  BY <1>2, <1>3, <1>4 DEF ThreadInv, ThreadShape, RecoveryIsAlone
<1>6. /\ HeardTurns' = HeardTurns /\ ItemTurns' = ItemTurns /\ QueuedTurns' = QueuedTurns
      /\ Resubmitted' = Resubmitted /\ EditedTurns' \subseteq {t}
  BY <1>2, <1>3 DEF HeardTurns, ItemTurns, QueuedTurns, CallTurns, FrozenTurns, Resubmitted, EditedTurns
<1>7. ASSUME mailboxed PROVE OnceInv'
  <2>1. OneWay /\ ItemsTell /\ DeliveredOnce
    BY <1>7 DEF ThreadInv, OnceInv
  <2>2. OneWay'
    BY <1>1, <1>2, <1>6, <2>1 DEF OneWay
  <2>3. ItemsTell' /\ DeliveredOnce'
    BY <1>2, <1>6, <2>1 DEF ItemsTell, DeliveredOnce
  <2> QED BY <2>2, <2>3 DEF OnceInv
<1> QED BY <1>2, <1>5, <1>7 DEF ThreadInv

\* What an edit leaves of the events is a prefix of them.
LEMMA EventsLeft ==
  ASSUME NEW es \in Seq(Event)
  PROVE  EventsBeforeLastTurn(es) \in Seq(Event)
<1> DEFINE received == {i \in DOMAIN es : es[i].type = "received"}
           T == {Len(es) - i : i \in received}
<1>1. Len(es) \in Nat /\ DOMAIN es = 1..Len(es)
  OBVIOUS
<1>2. CASE received = {}
  BY <1>2 DEF EventsBeforeLastTurn
<1>3. CASE received # {}
  <2>1. T \in SUBSET Nat /\ T # {}
    BY <1>1, <1>3
  <2>2. PICK n \in T : \A m \in T : n <= m
    BY <2>1, LeastNumber
  <2>3. PICK i \in received : n = Len(es) - i
    BY <2>2
  <2>4. \A j \in received : Len(es) - j \in T
    OBVIOUS
  <2>5. ASSUME NEW j \in received PROVE j <= i
    <3>1. n <= Len(es) - j
      BY <2>2, <2>4
    <3>2. i \in 1..Len(es) /\ j \in 1..Len(es)
      BY <1>1
    <3> HIDE DEF received, T
    <3> QED BY <1>1, <2>3, <3>1, <3>2
  <2>6. PICK k : k = CHOOSE h \in received : \A j \in received : j <= h
    OBVIOUS
  <2>7. k \in received
    BY <2>5, <2>6
  <2>8. EventsBeforeLastTurn(es) = SubSeq(es, 1, k - 1)
    BY <1>3, <2>6 DEF EventsBeforeLastTurn
  <2>9. k \in 1..Len(es)
    BY <1>1, <2>7
  <2>10. SubSeq(es, 1, k - 1) \in Seq(Event)
    BY <1>1, <2>9
  <2> QED BY <2>8, <2>10
<1> QED BY <1>2, <1>3

\* The edit's boundary: the queue goes, and the edited turn is left for the next view.
LEMMA EndEditStep ==
  ASSUME ThreadInv, EndEdit
  PROVE  ThreadInv'
<1>1. /\ view.editing # NoTurn /\ log' = Append(log, Other("waiting")) /\ Remount(view.mode)
      /\ thread' = [thread EXCEPT !.events = EventsBeforeLastTurn(@), !.queue = <<>>,
           !.cursor = Len(log) + 1, !.pending = [id |-> view.editing, state |-> "resubmitting"]]
      /\ UNCHANGED <<mailboxed, items, calls, sending, recovery>>
  BY DEF EndEdit, Emit
<1>2. /\ view.editing \in Turns /\ view.mode = "ready" /\ recovery.at = "off"
      /\ thread \in Thread /\ thread.events \in Seq(Event) /\ Len(log) + 1 \in Nat
  BY <1>1 DEF ThreadInv, ThreadShape, RecoveryIsAlone, View, Thread
<1>3. /\ view' \in View /\ view'.editing = NoTurn /\ view'.mode = "ready"
      /\ frozen' \in [Gens -> Seq(Queued)]
      /\ \A g \in Gens : IdsIn(frozen[g])' \subseteq QueuedTurns
  BY <1>1, <1>2, Remounted DEF ThreadInv
<1>4. PICK es \in Seq(Event), p \in Pending :
        /\ es = EventsBeforeLastTurn(thread.events)
        /\ p = [id |-> view.editing, state |-> "resubmitting"]
  BY <1>2, EventsLeft DEF Pending
<1>5. <<>> \in Seq(Queued) /\ IdsIn(<<>>) = {}
  BY DEF IdsIn, ToSet
<1>6. thread' \in Thread /\ thread'.pending = p /\ thread'.queue = <<>>
  BY <1>1, <1>2, <1>4, <1>5 DEF Thread
<1>7. log' \in Seq(Event) /\ HeardTurns' = HeardTurns /\ (DeliveredOnce => DeliveredOnce')
  BY <1>1, OtherIsSilent DEF ThreadInv
<1>8. p.state = "resubmitting" /\ p.id = view.editing
  BY <1>4
<1>9. ThreadShape'
  BY <1>1, <1>2, <1>3, <1>6, <1>7, <1>8 DEF ThreadInv, ThreadShape, RecoveryIsAlone
<1>10. QueuedTurns' \subseteq QueuedTurns
  <2>1. CallTurns' \subseteq QueuedTurns /\ IdsIn(recovery.queue)' \subseteq QueuedTurns
    BY <1>1, QueuedParts DEF CallTurns, ThreadInv
  <2>2. IdsIn(thread.queue)' \subseteq QueuedTurns
    BY <1>5, <1>6
  <2> QED BY <1>3, <2>1, <2>2, QueuedShrinks
<1>11. EditedTurns' = {} /\ Resubmitted' = EditedTurns /\ ItemTurns' = ItemTurns
  BY <1>1, <1>3, <1>6, <1>8 DEF EditedTurns, Resubmitted, ItemTurns
<1>12. ASSUME mailboxed PROVE OnceInv'
  <2>1. OneWay /\ ItemsTell /\ DeliveredOnce
    BY <1>12 DEF ThreadInv, OnceInv
  <2>2. OneWay'
    BY <1>1, <1>7, <1>10, <1>11, <2>1 DEF OneWay
  <2>3. ItemsTell'
    BY <1>1, <1>7, <2>1 DEF ItemsTell
  <2> QED BY <1>7, <2>1, <2>2, <2>3 DEF OnceInv
<1> QED BY <1>1, <1>9, <1>12 DEF ThreadInv

-----------------------------------------------------------------------------
(* No message reaches the session twice.                                   *)

\* The first page.
LEMMA ThreadBegins ==
  ASSUME ThreadInit
  PROVE  ThreadInv
<1> USE ThreadViewAssumption DEF ThreadInit
<1>1. NoPending \in Pending /\ NoPending.state = "none" /\ <<>> \in Seq(Queued) /\ IdsIn(<<>>) = {}
  BY DEF NoPending, Pending, IdsIn, ToSet
<1>2. thread \in Thread /\ thread.pending = NoPending /\ thread.queue = <<>>
  BY <1>1 DEF Thread
<1>3. view \in View /\ view.mode = "ready" /\ view.editing = NoTurn
  BY DEF NewView, View, Gens
<1>4. recovery = NoRecovery /\ NoRecovery \in Recovery /\ NoRecovery.at = "off" /\ NoRecovery.queue = <<>>
  BY <1>1 DEF NoRecovery, Recovery
<1>5. frozen \in [Gens -> Seq(Queued)] /\ \A g \in Gens : frozen[g] = <<>>
  BY DEF NoneFrozen
<1>6. IsFiniteSet(calls) /\ Cardinality(calls) = 0
  BY FS_EmptySet
<1>7. ThreadShape
  BY <1>1, <1>2, <1>3, <1>4, <1>5, <1>6 DEF ThreadShape, RecoveryIsAlone
<1>8. HeardTurns = {} /\ ItemTurns = {} /\ CallTurns = {} /\ FrozenTurns = {} /\ QueuedTurns = {}
  BY <1>1, <1>2, <1>4, <1>5 DEF HeardTurns, ItemTurns, CallTurns, FrozenTurns, QueuedTurns
<1>9. EditedTurns = {} /\ Resubmitted = {}
  BY <1>1, <1>2, <1>3 DEF EditedTurns, Resubmitted
<1>10. OnceInv
  BY <1>8, <1>9 DEF OnceInv, OneWay, ItemsTell, DeliveredOnce
<1> QED BY <1>7, <1>10 DEF ThreadInv

\* Every step of the page, of Eve and of the mailbox keeps the invariant.
LEMMA ThreadSteps ==
  ASSUME ThreadInv, [ThreadNext]_threadVars
  PROVE  ThreadInv'
<1>1. ASSUME ThreadShape' /\ Shrinks PROVE ThreadInv'
  BY <1>1, ShrinksKeeps DEF ThreadInv
<1>2. ThreadShape
  BY DEF ThreadInv
<1>3. CASE EveEnds
  BY <1>3, EveEndsStep
<1>4. CASE MailboxDelivers \/ MailboxPromotes
  BY <1>4, DeliverySteps
<1>5. ASSUME NEW t \in Turns, EveAdmits(t) \/ Submit(t) \/ BeginEdit(t) PROVE ThreadInv'
  BY <1>5, EveAdmitsStep, SubmitStep, BeginEditStep
<1>6. ASSUME NEW c \in calls, ServeCall(c) \/ CallAnswered(c) \/ CallFailed(c) PROVE ThreadInv'
  BY <1>1, <1>2, <1>6, ServeCallStep, AnswerStep
<1>7. CASE PollQueue \/ \E u \in ToSet(thread.queue) : RetryTurn(u) \/ RemoveTurn(u)
  BY <1>1, <1>2, <1>7, QueueSteps
<1>8. CASE RequestCancellation \/ NothingToCancel \/ EditFails \/ StreamEnds
  BY <1>1, <1>2, <1>8, ViewSteps
<1>9. CASE EndEdit
  BY <1>9, EndEditStep
<1>10. CASE Reload
  BY <1>1, <1>2, <1>10, ReloadThreadStep
<1>11. CASE LiveEvent \/ SendFailed
  BY <1>1, <1>2, <1>11, LiveSteps
<1>12. CASE CancellationGrace \/ ProbeFindsProgress \/ StreamIsIncomplete \/ FollowServerQueue \/ RetryRecovery
  <2>1. RequestRecovery
    BY <1>12 DEF CancellationGrace, ProbeFindsProgress, StreamIsIncomplete, FollowServerQueue, RetryRecovery
  <2> QED BY <1>1, <1>2, <2>1, RequestStep
<1>13. CASE StartEnqueue
  BY <1>1, <1>2, <1>13, StartEnqueueStep
<1>14. CASE DispatchLocally \/ Resubmit
  BY <1>14, DispatchLocallyStep, ResubmitStep
<1>15. CASE BeginRecovery
  BY <1>1, <1>2, <1>15, BeginRecoveryStep
<1>16. CASE QueueRefreshed \/ RecoverEvent
  BY <1>1, <1>2, <1>16, QueueRefreshedStep, RecoverEventStep
<1>17. CASE ReadEnds \/ TailRead \/ RecoveryFails
  BY <1>1, <1>2, <1>17, TailSteps, RecoveryFailsStep
<1>18. CASE UNCHANGED threadVars
  <2>1. PageIsAsItWas /\ UNCHANGED <<log, items>>
    BY <1>18 DEF threadVars, PageIsAsItWas
  <2>2. ThreadShape'
    BY <2>1, PageKeeps DEF ThreadInv, ThreadShape
  <2>3. Shrinks
    BY <2>1, PageKeeps DEF Shrinks, PageIsAsItWas
  <2> QED BY <1>1, <2>2, <2>3
<1> QED BY <1>3, <1>4, <1>5, <1>6, <1>7, <1>8, <1>9, <1>10, <1>11, <1>12, <1>13, <1>14, <1>15, <1>16, <1>17, <1>18
     DEF ThreadNext

\* A host with a mailbox: no message the user typed reaches the Eve session twice, whatever is
\* retried, cancelled, edited, remounted, reloaded or answered late (agent-thread.tsx,
\* agent-workspace.tsx).
THEOREM MessagesAreDeliveredOnce == ThreadSpec => []DeliveredOnce
<1>1. ThreadInv => DeliveredOnce
  BY DEF ThreadInv, OnceInv, DeliveredOnce
<1> QED BY <1>1, ThreadBegins, ThreadSteps, PTL DEF ThreadSpec
=============================================================================
