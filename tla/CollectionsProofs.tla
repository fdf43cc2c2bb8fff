-------------------------- MODULE CollectionsProofs --------------------------
(***************************************************************************)
(* Two things about collections of threads, for every number of tabs,      *)
(* threads, changes and messages.                                          *)
(*                                                                         *)
(* Workspace: when every tab has come to rest, no request failed and no    *)
(* tab was closed, the row holds the last change of every thread, unless a *)
(* draft gets its first content while the timer runs that was armed when   *)
(* it was a draft.  SettledIsStored says nothing of tabs that have not     *)
(* come to rest, so it is not inductive.  CollectionInv says what such a   *)
(* tab keeps, what its saves have of it, and what a tab whose revision is  *)
(* the row's knows of the row; and that no save names what it regards as a *)
(* draft, without which a merge lists a thread twice and the older entry   *)
(* can win.                                                                *)
(*                                                                         *)
(* Embed: a collection of the service never holds a thread of another      *)
(* storage key.  CollectionsStayApart is not inductive: what a save writes *)
(* was taken from the mounted workspace or from one that was unmounted     *)
(* with its delay running.  Apart says that every such copy belongs to the *)
(* key it will be saved under.  The React key of the workspace is what     *)
(* keeps it: a workspace that is given another storage has the same        *)
(* storage key.                                                            *)
(***************************************************************************)
EXTENDS Embed, Workspace, FiniteSetTheorems, SequenceTheorems, NaturalsInduction, TLAPS

-----------------------------------------------------------------------------
(* Lists of threads.                                                       *)

\* A set of numbers that is not empty has a least one.
LEMMA LeastNumber ==
  ASSUME NEW T \in SUBSET Nat, T # {}
  PROVE  \E n \in T : \A m \in T : n <= m
<1> DEFINE R == {ss \in Nat \X Nat : ss[1] < ss[2]}
<1>1. IsWellFoundedOn(R, Nat)
  BY NatLessThanWellFounded DEF OpToRel
<1>2. \A x, y \in Nat : x < y => <<x, y>> \in R
  OBVIOUS
<1> HIDE DEF R
<1>3. PICK n \in T : \A m \in T : ~ (<<m, n>> \in R)
  BY <1>1, WFMin
<1>4. \A m \in T : ~ (m < n)
  BY <1>2, <1>3
<1>5. QED
  BY <1>4

\* A set of numbers that holds 0 and every successor up to k holds every number up to k.
LEMMA Induction ==
  ASSUME NEW k \in Nat, NEW T, 0 \in T, \A n \in 0..k : (n \in T /\ n < k) => n + 1 \in T
  PROVE  \A n \in 0..k : n \in T
<1> SUFFICES ASSUME (0..k) \ T # {} PROVE FALSE
  OBVIOUS
<1>1. PICK n \in (0..k) \ T : \A m \in (0..k) \ T : n <= m
  <2>1. (0..k) \ T \in SUBSET Nat
    OBVIOUS
  <2>2. QED
    BY <2>1, LeastNumber
<1>2. n # 0 /\ n - 1 \in 0..k /\ n - 1 < k /\ n - 1 \notin (0..k) \ T
  BY <1>1
<1>3. QED
  BY <1>1, <1>2

\* One turn of the filter.
Filtered(before, t, ids) == IF t.id \in ids THEN before ELSE Append(before, t)

\* The filter is what its recursive definition says.
LEMMA WithoutIsDefined ==
  ASSUME NEW c, NEW ids, Len(c) \in Nat
  PROVE  \E f : /\ f = [n \in 0..Len(c) |-> IF n = 0 THEN <<>> ELSE Filtered(f[n - 1], c[n], ids)]
                /\ Without(c, ids) = f[Len(c)]
<1> DEFINE Defines(f, m) == f = [n \in 0..m |-> IF n = 0 THEN <<>> ELSE Filtered(f[n - 1], c[n], ids)]
           T == {m \in 0..Len(c) : \E f : Defines(f, m)}
<1>1. 0 \in T
  <2> DEFINE f == [n \in 0..0 |-> <<>>]
  <2>1. \A n \in 0..0 : n = 0
    OBVIOUS
  <2>2. \E h : Defines(h, 0)
    <3>1. Defines(f, 0)
      BY <2>1
    <3>2. QED
      BY <3>1
  <2>3. 0 \in 0..Len(c)
    OBVIOUS
  <2> HIDE DEF Defines
  <2>4. QED
    BY <2>2, <2>3
<1>2. ASSUME NEW m \in 0..Len(c), m \in T, m < Len(c) PROVE m + 1 \in T
  <2>1. PICK f : Defines(f, m)
    BY <1>2
  <2> DEFINE g == [n \in 0..(m + 1) |-> IF n <= m THEN f[n] ELSE Filtered(f[m], c[m + 1], ids)]
  <2>2. ASSUME NEW n \in 0..(m + 1)
        PROVE  g[n] = IF n = 0 THEN <<>> ELSE Filtered(g[n - 1], c[n], ids)
    <3>1. CASE n = 0
      BY <2>1, <3>1
    <3>2. CASE n # 0 /\ n <= m
      BY <2>1, <3>2
    <3>3. CASE n = m + 1
      BY <3>3
    <3>4. QED
      BY <3>1, <3>2, <3>3
  <2>3. g = [n \in 0..(m + 1) |-> g[n]]
    OBVIOUS
  <2> HIDE DEF g
  <2>4. \E h : Defines(h, m + 1)
    BY <2>2, <2>3
  <2>5. m + 1 \in 0..Len(c)
    BY <1>2
  <2> HIDE DEF Defines
  <2>6. QED
    BY <2>4, <2>5
<1> HIDE DEF T
<1>3. \A m \in 0..Len(c) : m \in T
  BY <1>1, <1>2, Induction
<1>4. \E f : Defines(f, Len(c))
  BY <1>3 DEF T
<1>5. PICK h : h = CHOOSE f : Defines(f, Len(c))
  OBVIOUS
<1>6. Defines(h, Len(c))
  BY <1>4, <1>5
<1>7. Without(c, ids) = h[Len(c)]
  BY <1>5 DEF Without, Filtered
<1>8. QED
  BY <1>6, <1>7

\* The elements of a sequence with one more at its end, and of two in a row.
LEMMA ToSetAppend ==
  ASSUME NEW S, NEW g \in Seq(S), NEW t \in S
  PROVE  Append(g, t) \in Seq(S) /\ ToSet(Append(g, t)) = ToSet(g) \cup {t}
<1>1. /\ Len(g) \in Nat /\ DOMAIN g = 1..Len(g)
      /\ Append(g, t) \in Seq(S) /\ DOMAIN Append(g, t) = 1..(Len(g) + 1)
      /\ Append(g, t)[Len(g) + 1] = t /\ \A i \in 1..Len(g) : Append(g, t)[i] = g[i]
  OBVIOUS
<1>2. 1..(Len(g) + 1) = (1..Len(g)) \cup {Len(g) + 1}
  BY <1>1
<1> QED BY <1>1, <1>2 DEF ToSet

\* Two in a row have the elements of both.
LEMMA ToSetConcat ==
  ASSUME NEW S, NEW g \in Seq(S), NEW h \in Seq(S)
  PROVE  g \o h \in Seq(S) /\ ToSet(g \o h) = ToSet(g) \cup ToSet(h)
<1>1. /\ Len(g) \in Nat /\ DOMAIN g = 1..Len(g) /\ Len(h) \in Nat /\ DOMAIN h = 1..Len(h)
      /\ g \o h \in Seq(S) /\ DOMAIN (g \o h) = 1..(Len(g) + Len(h))
      /\ \A i \in 1..Len(g) : (g \o h)[i] = g[i]
  OBVIOUS
<1>2. \A i \in 1..(Len(g) + Len(h)) : i > Len(g) => (g \o h)[i] = h[i - Len(g)] /\ i - Len(g) \in 1..Len(h)
  BY <1>1
<1>3. \A j \in 1..Len(h) : (g \o h)[Len(g) + j] = h[j] /\ Len(g) + j \in 1..(Len(g) + Len(h))
  BY <1>1
<1>4. \A i \in 1..Len(g) : i \in 1..(Len(g) + Len(h))
  BY <1>1
<1>5. ASSUME NEW x \in ToSet(g \o h) PROVE x \in ToSet(g) \cup ToSet(h)
  <2>1. PICK i \in 1..(Len(g) + Len(h)) : x = (g \o h)[i]
    BY <1>1 DEF ToSet
  <2>2. CASE i <= Len(g)
    <3>1. i \in 1..Len(g)
      BY <1>1, <2>2
    <3> QED BY <1>1, <2>1, <3>1 DEF ToSet
  <2>3. CASE i > Len(g)
    BY <1>1, <1>2, <2>1, <2>3 DEF ToSet
  <2> QED BY <1>1, <2>2, <2>3
<1>6. ASSUME NEW x \in ToSet(g) \cup ToSet(h) PROVE x \in ToSet(g \o h)
  <2>1. CASE x \in ToSet(g)
    BY <1>1, <1>4, <2>1 DEF ToSet
  <2>2. CASE x \in ToSet(h)
    BY <1>1, <1>3, <2>2 DEF ToSet
  <2> QED BY <1>6, <2>1, <2>2
<1> QED BY <1>1, <1>5, <1>6

\* Filtering keeps exactly the threads of other ids.
LEMMA WithoutKeeps ==
  ASSUME NEW S, NEW c \in Seq(S), NEW ids
  PROVE  /\ Without(c, ids) \in Seq(S)
         /\ ToSet(Without(c, ids)) = {t \in ToSet(c) : t.id \notin ids}
<1>1. Len(c) \in Nat /\ DOMAIN c = 1..Len(c) /\ \A i \in 1..Len(c) : c[i] \in S
  OBVIOUS
<1>2. PICK f : /\ f = [n \in 0..Len(c) |-> IF n = 0 THEN <<>> ELSE Filtered(f[n - 1], c[n], ids)]
               /\ Without(c, ids) = f[Len(c)]
  BY <1>1, WithoutIsDefined
<1> DEFINE T == {n \in 0..Len(c) : f[n] \in Seq(S) /\ ToSet(f[n]) = {t \in {c[i] : i \in 1..n} : t.id \notin ids}}
<1>3. 0 \in T
  <2>1. f[0] = <<>> /\ 0 \in 0..Len(c)
    BY <1>1, <1>2
  <2>2. ToSet(<<>>) = {} /\ <<>> \in Seq(S)
    BY DEF ToSet
  <2>3. {c[i] : i \in 1..0} = {}
    OBVIOUS
  <2> QED BY <2>1, <2>2, <2>3
<1>4. ASSUME NEW n \in 0..Len(c), n \in T, n < Len(c) PROVE n + 1 \in T
  <2>1. f[n + 1] = Filtered(f[n], c[n + 1], ids) /\ n + 1 \in 0..Len(c) /\ n + 1 \in 1..Len(c)
    BY <1>1, <1>2, <1>4
  <2>2. {c[i] : i \in 1..(n + 1)} = {c[i] : i \in 1..n} \cup {c[n + 1]}
    OBVIOUS
  <2>3. PICK g \in Seq(S), t \in S : g = f[n] /\ t = c[n + 1]
    BY <1>1, <1>4, <2>1
  <2>4. ToSet(g) = {u \in {c[i] : i \in 1..n} : u.id \notin ids}
    BY <1>4, <2>3
  <2>5. CASE t.id \in ids
    <3>1. f[n + 1] = g
      BY <2>1, <2>3, <2>5 DEF Filtered
    <3> QED BY <2>1, <2>2, <2>3, <2>4, <2>5, <3>1
  <2>6. CASE t.id \notin ids
    <3>1. f[n + 1] = Append(g, t)
      BY <2>1, <2>3, <2>6 DEF Filtered
    <3>2. Append(g, t) \in Seq(S) /\ ToSet(Append(g, t)) = ToSet(g) \cup {t}
      BY ToSetAppend
    <3> QED BY <2>1, <2>2, <2>3, <2>4, <2>6, <3>1, <3>2
  <2> QED BY <2>5, <2>6
<1> HIDE DEF T
<1>5. Len(c) \in T
  <2>1. \A n \in 0..Len(c) : n \in T
    BY <1>1, <1>3, <1>4, Induction
  <2> QED BY <1>1, <2>1
<1>6. ToSet(c) = {c[i] : i \in 1..Len(c)}
  BY <1>1 DEF ToSet
<1> QED BY <1>2, <1>5, <1>6 DEF T

\* Every finite set of threads can be listed latest first.
LEMMA Sortable ==
  ASSUME NEW ts \in SUBSET Thread, IsFiniteSet(ts)
  PROVE  \E c \in [1..Cardinality(ts) -> ts] :
           ToSet(c) = ts /\ \A i, j \in DOMAIN c : i < j => c[i].at >= c[j].at
<1> DEFINE Listed(s) == \E c \in [1..Cardinality(s) -> s] :
             ToSet(c) = s /\ \A i, j \in DOMAIN c : i < j => c[i].at >= c[j].at
           Bad == {n \in Nat : \E s \in SUBSET Thread : IsFiniteSet(s) /\ Cardinality(s) = n /\ ~Listed(s)}
<1> SUFFICES ASSUME Bad # {} PROVE FALSE
  <2>1. ~Listed(ts) => Cardinality(ts) \in Bad
    BY FS_CardinalityType
  <2> HIDE DEF Bad
  <2> QED BY <2>1
<1>1. PICK n \in Bad : \A m \in Bad : n <= m
  BY LeastNumber
<1>2. PICK s \in SUBSET Thread : IsFiniteSet(s) /\ Cardinality(s) = n /\ ~Listed(s)
  OBVIOUS
<1>3. n \in Nat
  OBVIOUS
<1>4. CASE s = {}
  <2>1. Cardinality(s) = 0
    BY <1>4, FS_EmptySet
  <2> DEFINE c == [i \in 1..0 |-> 0]
  <2>2. c \in [1..0 -> s] /\ ToSet(c) = {} /\ DOMAIN c = {}
    BY DEF ToSet
  <2>3. Listed(s)
    BY <1>4, <2>1, <2>2
  <2> QED BY <1>2, <2>3
<1>5. CASE s # {}
  <2>1. PICK t \in s : \A u \in s : t.at <= u.at
    <3> DEFINE ats == {u.at : u \in s}
    <3>1. ats \in SUBSET Nat /\ ats # {}
      BY <1>5 DEF Thread
    <3>2. PICK m \in ats : \A k \in ats : m <= k
      BY <3>1, LeastNumber
    <3> QED BY <3>2
  <2>2. IsFiniteSet(s \ {t}) /\ Cardinality(s \ {t}) = n - 1 /\ n - 1 \in Nat
    <3>1. IsFiniteSet(s \ {t}) /\ Cardinality(s \ {t}) = n - 1
      BY <1>2, FS_RemoveElement
    <3> QED BY <1>3, <3>1, FS_CardinalityType
  <2>3. Listed(s \ {t})
    <3>1. n - 1 \notin Bad
      BY <1>1, <1>3
    <3>2. s \ {t} \in SUBSET Thread
      OBVIOUS
    <3> HIDE DEF Listed
    <3> QED BY <2>2, <3>1, <3>2
  <2>4. PICK c \in [1..(n - 1) -> s \ {t}] :
          ToSet(c) = s \ {t} /\ \A i, j \in DOMAIN c : i < j => c[i].at >= c[j].at
    BY <2>2, <2>3
  <2> DEFINE d == [i \in 1..n |-> IF i < n THEN c[i] ELSE t]
  <2>5. \A i \in 1..n : i < n => i \in 1..(n - 1) /\ d[i] = c[i] /\ d[i] \in s
    BY <1>3, <2>4
  <2>6. n \in 1..n /\ d[n] = t
    BY <1>3, <2>2
  <2>7. d \in [1..n -> s]
    BY <2>1, <2>5
  <2>8. ToSet(d) = s
    <3>1. \A u \in s : u = t \/ \E i \in 1..(n - 1) : u = c[i]
      BY <2>4 DEF ToSet
    <3>2. \A i \in 1..(n - 1) : i \in 1..n /\ i < n
      BY <1>3
    <3>3. \A u \in s : \E i \in 1..n : u = d[i]
      BY <2>5, <2>6, <3>1, <3>2
    <3>4. DOMAIN d = 1..n
      OBVIOUS
    <3> HIDE DEF d
    <3> QED BY <2>7, <3>3, <3>4 DEF ToSet
  <2>9. \A i, j \in 1..n : i < j => d[i].at >= d[j].at
    <3> SUFFICES ASSUME NEW i \in 1..n, NEW j \in 1..n, i < j PROVE d[i].at >= d[j].at
      OBVIOUS
    <3>1. i < n /\ d[i] = c[i] /\ d[i] \in s /\ i \in 1..(n - 1)
      BY <1>3, <2>5
    <3>2. CASE j = n
      <4>1. d[i].at \in Nat /\ t.at \in Nat
        BY <2>1, <3>1 DEF Thread
      <4>2. t.at <= d[i].at /\ d[j] = t
        BY <2>1, <2>6, <3>1, <3>2
      <4> HIDE DEF d
      <4> QED BY <4>1, <4>2
    <3>3. CASE j < n
      BY <2>4, <2>5, <3>1, <3>3
    <3> QED BY <1>3, <3>2, <3>3
  <2> HIDE DEF d
  <2>10. Listed(s)
    BY <1>2, <2>7, <2>8, <2>9
  <2> QED BY <1>2, <2>10
<1> QED BY <1>4, <1>5

\* Sorting lists exactly the threads it is given.
LEMMA SortedKeeps ==
  ASSUME NEW ts \in SUBSET Thread, IsFiniteSet(ts)
  PROVE  Sorted(ts) \in Collection /\ ToSet(Sorted(ts)) = ts
<1>1. Sorted(ts) \in [1..Cardinality(ts) -> ts] /\ ToSet(Sorted(ts)) = ts
  BY Sortable DEF Sorted
<1>2. Cardinality(ts) \in Nat
  BY FS_CardinalityType
<1>3. Sorted(ts) \in Seq(ts)
  BY <1>1, <1>2
<1> QED BY <1>1, <1>3 DEF Collection

\* A list of threads has finitely many threads.
LEMMA ListsAreFinite ==
  ASSUME NEW c \in Collection
  PROVE  ToSet(c) \in SUBSET Thread /\ IsFiniteSet(ToSet(c))
<1>1. Len(c) \in Nat /\ DOMAIN c = 1..Len(c) /\ \A i \in 1..Len(c) : c[i] \in Thread
  BY DEF Collection
<1>2. IsFiniteSet(1..Len(c))
  BY <1>1, FS_Interval
<1>3. c \in Surjection(1..Len(c), ToSet(c))
  BY <1>1 DEF Surjection, ToSet, Collection
<1>4. IsFiniteSet(ToSet(c))
  BY <1>2, <1>3, FS_Surjection
<1> QED BY <1>1, <1>4 DEF ToSet

Distinct(c) == \A s, t \in ToSet(c) : s.id = t.id => s = t

\* A Map over a list of distinct threads keeps them all.
LEMMA DistinctAreKept ==
  ASSUME NEW c \in Collection
  PROVE  ById(c) \subseteq ToSet(c) /\ (Distinct(c) => ById(c) = ToSet(c))
<1>1. Len(c) \in Nat /\ DOMAIN c = 1..Len(c) /\ \A i \in 1..Len(c) : c[i] \in Thread
  BY DEF Collection
<1>2. ById(c) \subseteq ToSet(c)
  BY DEF ById, ToSet
<1>3. ASSUME Distinct(c), NEW x \in ToSet(c) PROVE x \in ById(c)
  <2> DEFINE places == {n \in Nat : n < Len(c) /\ c[Len(c) - n].id = x.id}
  <2>1. PICK i \in 1..Len(c) : c[i] = x
    BY <1>1, <1>3 DEF ToSet
  <2>2. Len(c) - i \in places
    BY <1>1, <2>1
  <2>3. PICK n \in places : \A m \in places : n <= m
    BY <2>2, LeastNumber
  <2>4. Len(c) - n \in 1..Len(c) /\ c[Len(c) - n].id = x.id
    BY <1>1, <2>3
  <2>5. ASSUME NEW j \in 1..Len(c), c[j].id = c[Len(c) - n].id PROVE j <= Len(c) - n
    <3>1. Len(c) - j \in places
      BY <1>1, <2>4, <2>5
    <3> QED BY <1>1, <2>3, <3>1
  <2>6. c[Len(c) - n] \in ById(c)
    BY <1>1, <2>4, <2>5 DEF ById
  <2>7. c[Len(c) - n] = x
    BY <1>1, <1>3, <2>4 DEF Distinct, ToSet
  <2> QED BY <2>6, <2>7
<1> QED BY <1>2, <1>3

\* What a merge lists: of every thread one entry of the latest time.
LEMMA MergeKeeps ==
  ASSUME NEW p \in Collection, NEW f \in Collection
  PROVE  /\ MergeThreads(p, f) \in Collection
         /\ ToSet(MergeThreads(p, f)) =
              {t \in ToSet(p) \cup ById(f) : \A u \in ToSet(p) \cup ById(f) : u.id = t.id => u.at <= t.at}
<1> DEFINE both == ToSet(p) \cup ById(f)
           kept == {t \in both : \A u \in both : u.id = t.id => u.at <= t.at}
<1>1. both \in SUBSET Thread /\ IsFiniteSet(both)
  <2>1. ToSet(p) \cup ToSet(f) \in SUBSET Thread /\ IsFiniteSet(ToSet(p) \cup ToSet(f))
    BY ListsAreFinite, FS_Union
  <2>2. both \subseteq ToSet(p) \cup ToSet(f)
    BY DistinctAreKept
  <2> HIDE DEF both
  <2> QED BY <2>1, <2>2, FS_Subset
<1>2. kept \in SUBSET Thread /\ IsFiniteSet(kept)
  <2>1. kept \subseteq both
    OBVIOUS
  <2> HIDE DEF kept, both
  <2> QED BY <1>1, <2>1, FS_Subset
<1>3. MergeThreads(p, f) = Sorted(kept)
  BY DEF MergeThreads
<1> HIDE DEF kept
<1>4. MergeThreads(p, f) \in Collection /\ ToSet(MergeThreads(p, f)) = kept
  BY <1>2, <1>3, SortedKeeps
<1> QED BY <1>4 DEF kept

\* A merge names a thread once, nothing new, and keeps what no other entry is later than.
LEMMA MergeIsSound ==
  ASSUME NEW p \in Collection, NEW f \in Collection, NEW m, m = MergeThreads(p, f)
  PROVE  /\ m \in Collection /\ Distinct(m) /\ ToSet(m) \subseteq ToSet(p) \cup ToSet(f)
         /\ \A t \in ToSet(p) \cup ToSet(f) :
              /\ \A u \in ToSet(p) \cup ToSet(f) : u.id = t.id => u.at <= t.at
              /\ t \in ToSet(p) \/ Distinct(f)
              => t \in ToSet(m)
<1>1. /\ m \in Collection
      /\ ToSet(m) = {t \in ToSet(p) \cup ById(f) : \A u \in ToSet(p) \cup ById(f) : u.id = t.id => u.at <= t.at}
  BY MergeKeeps
<1>2. ById(f) \subseteq ToSet(f) /\ (Distinct(f) => ById(f) = ToSet(f))
  BY DistinctAreKept
<1>3. ToSet(p) \in SUBSET Thread /\ ToSet(f) \in SUBSET Thread
  BY ListsAreFinite
<1>4. Distinct(m)
  <2> SUFFICES ASSUME NEW s \in ToSet(m), NEW t \in ToSet(m), s.id = t.id PROVE s = t
    BY DEF Distinct
  <2>1. s \in Thread /\ t \in Thread /\ s.at <= t.at /\ t.at <= s.at
    BY <1>1, <1>2, <1>3
  <2>2. s.at \in Nat /\ t.at \in Nat
    BY <2>1 DEF Thread
  <2>3. s.at = t.at
    BY <2>1, <2>2
  <2> QED BY <2>1, <2>3 DEF Thread
<1> QED BY <1>1, <1>2, <1>4

\* What the page shows after a save that was merged: nothing new, and everything that no
\* other entry is later than.
LEMMA MergeVisibleIsSound ==
  ASSUME NEW c \in Collection, NEW p \in Collection, NEW closure, NEW m, m = MergeVisible(c, p, closure)
  PROVE  /\ m \in Collection /\ ToSet(m) \subseteq ToSet(c) \cup ToSet(p)
         /\ Distinct(c) /\ closure \cap IdsOf(p) = {} => Distinct(m)
         /\ \A t \in ToSet(c) \cup ToSet(p) :
              /\ \A u \in ToSet(c) \cup ToSet(p) : u.id = t.id => u.at <= t.at
              /\ t \in ToSet(c) \/ Distinct(p)
              => t \in ToSet(m)
<1>1. PICK own : own = Without(c, IdsOf(c) \ closure)
  OBVIOUS
<1>2. PICK rest : rest = Without(c, closure)
  OBVIOUS
<1>3. PICK merged : merged = MergeThreads(rest, p)
  OBVIOUS
<1>4. own \in Collection /\ ToSet(own) = {t \in ToSet(c) : t.id \in closure}
  <2>1. own \in Seq(Thread) /\ ToSet(own) = {t \in ToSet(c) : t.id \notin IdsOf(c) \ closure}
    BY <1>1, WithoutKeeps DEF Collection
  <2>2. \A t \in ToSet(c) : t.id \in IdsOf(c)
    BY DEF IdsOf
  <2> QED BY <2>1, <2>2 DEF Collection
<1>5. rest \in Collection /\ ToSet(rest) = {t \in ToSet(c) : t.id \notin closure}
  BY <1>2, WithoutKeeps DEF Collection
<1>6. /\ merged \in Collection /\ Distinct(merged) /\ ToSet(merged) \subseteq ToSet(rest) \cup ToSet(p)
      /\ \A t \in ToSet(rest) \cup ToSet(p) :
           /\ \A u \in ToSet(rest) \cup ToSet(p) : u.id = t.id => u.at <= t.at
           /\ t \in ToSet(rest) \/ Distinct(p)
           => t \in ToSet(merged)
  BY <1>3, <1>5, MergeIsSound
<1>7. m = own \o merged
  BY <1>1, <1>2, <1>3 DEF MergeVisible
<1>8. m \in Collection /\ ToSet(m) = ToSet(own) \cup ToSet(merged)
  BY <1>4, <1>6, <1>7, ToSetConcat DEF Collection
<1>9. ASSUME Distinct(c), closure \cap IdsOf(p) = {} PROVE Distinct(m)
  <2>1. \A t \in ToSet(merged) : t.id \notin closure
    BY <1>5, <1>6, <1>9 DEF IdsOf
  <2>2. \A t \in ToSet(own) : t.id \in closure /\ t \in ToSet(c)
    BY <1>4
  <2> QED BY <1>6, <1>8, <1>9, <2>1, <2>2 DEF Distinct
<1>10. ASSUME NEW t \in ToSet(c) \cup ToSet(p),
              \A u \in ToSet(c) \cup ToSet(p) : u.id = t.id => u.at <= t.at,
              t \in ToSet(c) \/ Distinct(p)
       PROVE  t \in ToSet(m)
  <2>1. CASE t \in ToSet(own)
    BY <1>8, <2>1
  <2>2. CASE t \notin ToSet(own)
    <3>1. t \in ToSet(rest) \cup ToSet(p) /\ (t \in ToSet(rest) \/ Distinct(p))
      BY <1>4, <1>5, <1>10, <2>2
    <3>2. \A u \in ToSet(rest) \cup ToSet(p) : u.id = t.id => u.at <= t.at
      BY <1>5, <1>10
    <3> QED BY <1>6, <1>8, <3>1, <3>2
  <2> QED BY <2>1, <2>2
<1>11. ToSet(m) \subseteq ToSet(c) \cup ToSet(p)
  BY <1>4, <1>5, <1>6, <1>8
<1> QED BY <1>8, <1>9, <1>10, <1>11

\* A new draft has an id that was never used.
LEMMA DraftsAreNew ==
  ASSUME used \subseteq ThreadIds
  PROVE  /\ NewIds \subseteq ThreadIds /\ NewIds \cap used = {}
         /\ Drafts \in Collection /\ Distinct(Drafts)
         /\ \A t \in ToSet(Drafts) : t.id \in NewIds /\ t.at = 0
<1>1. NewIds \subseteq ThreadIds /\ NewIds \cap used = {}
  BY DEF NewIds
<1>2. CASE NewIds = {}
  <2>1. Drafts = <<>> /\ ToSet(Drafts) = {}
    BY <1>2 DEF Drafts, ToSet
  <2>2. <<>> \in Collection
    BY DEF Collection
  <2> QED BY <1>1, <2>1, <2>2 DEF Distinct
<1>3. CASE NewIds # {}
  <2>1. PICK id \in NewIds : id = CHOOSE x \in NewIds : TRUE
    BY <1>3
  <2>2. PICK t \in Thread : t = [id |-> id, at |-> 0]
    <3>1. id \in ThreadIds /\ 0 \in 0..MaxTime
      BY <1>1, WorkspaceAssumption
    <3>2. [id |-> id, at |-> 0] \in Thread
      BY <3>1 DEF Thread
    <3> QED BY <3>2
  <2>3. Drafts = <<t>>
    BY <1>3, <2>1, <2>2 DEF Drafts
  <2>4. <<t>> \in Collection /\ ToSet(<<t>>) = {t}
    BY <2>2 DEF Collection, ToSet
  <2>5. t.id = id /\ t.at = 0
    BY <2>2
  <2>6. \A u \in ToSet(Drafts) : u = t
    BY <2>3, <2>4
  <2> QED BY <1>1, <2>1, <2>3, <2>4, <2>5, <2>6 DEF Distinct
<1> QED BY <1>2, <1>3

\* A thread that changes, in a list.
LEMMA ChangedList ==
  ASSUME NEW c \in Collection, NEW id \in ThreadIds, NEW at \in 0..MaxTime, NEW d,
         d = [i \in DOMAIN c |-> IF c[i].id = id THEN [c[i] EXCEPT !.at = at] ELSE c[i]]
  PROVE  /\ d \in Collection
         /\ ToSet(d) = {IF t.id = id THEN [id |-> id, at |-> at] ELSE t : t \in ToSet(c)}
<1>1. Len(c) \in Nat /\ DOMAIN c = 1..Len(c) /\ \A i \in 1..Len(c) : c[i] \in Thread
  BY DEF Collection
<1>2. \A t \in Thread : t.id = id => [t EXCEPT !.at = at] = [id |-> id, at |-> at]
  BY DEF Thread
<1>3. \A i \in 1..Len(c) : d[i] = IF c[i].id = id THEN [id |-> id, at |-> at] ELSE c[i]
  BY <1>1, <1>2
<1>4. [id |-> id, at |-> at] \in Thread
  BY DEF Thread
<1>5. d \in [1..Len(c) -> Thread]
  BY <1>1, <1>3, <1>4
<1>6. d \in Collection /\ DOMAIN d = 1..Len(c)
  BY <1>1, <1>5 DEF Collection
<1>7. ToSet(d) = {d[i] : i \in 1..Len(c)} /\ ToSet(c) = {c[i] : i \in 1..Len(c)}
  BY <1>1, <1>6 DEF ToSet
<1> QED BY <1>3, <1>6, <1>7

\* Two lists of checks in a row, all of which pass.
LEMMA AllPass ==
  ASSUME NEW S, \A e \in S : e[1] = TRUE, NEW g \in Seq(S), NEW h \in Seq(S)
  PROVE  FirstFailure(g \o h) = 200
<1>1. PICK checks \in Seq(S) : checks = g \o h
  BY ToSetConcat
<1>2. \A i \in DOMAIN checks : checks[i] \in S
  BY <1>1
<1>3. \A i \in DOMAIN checks : checks[i][1] = TRUE
  BY <1>2
<1>4. {i \in DOMAIN checks : ~checks[i][1]} = {}
  BY <1>3
<1> QED BY <1>1, <1>4 DEF FirstFailure

\* The route writes what a workspace sends with a revision.
LEMMA SentIsAccepted == ASSUME NEW r \in Nat PROVE HostPut(Sent, r) = 200
<1>1. PICK p \in BOOLEAN : p = (r # NoRevision)
  OBVIOUS
<1>2. p = TRUE
  <2>1. r # NoRevision
    BY DEF NoRevision
  <2> QED BY <1>1, <2>1
<1>a. PICK e1, e2, e3, e4, f1, f2 :
         /\ e1 = <<p, 428>> /\ e2 = <<TRUE, 413>> /\ e3 = <<TRUE, 413>> /\ e4 = <<TRUE, 500>>
         /\ f1 = <<TRUE, 401>> /\ f2 = <<TRUE, 503>>
  OBVIOUS
<1>b. /\ e1[1] = TRUE /\ e2[1] = TRUE /\ e3[1] = TRUE /\ e4[1] = TRUE
      /\ f1[1] = TRUE /\ f2[1] = TRUE
  BY <1>2, <1>a
<1>4. BodyChecks(Sent, r) = <<e1, e2, e3, e4>>
  <2>1. (Sent.bytes # "announced") = TRUE /\ (Sent.bytes # "above") = TRUE /\ AssertScope(Sent) = TRUE
    BY DEF Sent, AssertScope
  <2>2. BodyChecks(Sent, r) = << <<p, 428>>, <<TRUE, 413>>, <<TRUE, 413>>, <<TRUE, 500>> >>
    BY <1>1, <2>1, ZenonT(60) DEF BodyChecks
  <2> QED BY <1>a, <2>2, Zenon
<1>6. << <<Sent.token, 401>>, <<Sent.database, 503>> >> = <<f1, f2>>
  BY <1>a DEF Sent
<1> DEFINE S == {e1, e2, e3, e4, f1, f2}
<1>7. <<e1, e2, e3, e4>> \in Seq(S) /\ <<f1, f2>> \in Seq(S)
  OBVIOUS
<1>8. \A e \in S : e[1] = TRUE
  BY <1>b
<1> HIDE DEF S
<1>9. FirstFailure(<<f1, f2>> \o <<e1, e2, e3, e4>>) = 200
  BY <1>7, <1>8, AllPass
<1> QED BY <1>4, <1>6, <1>9 DEF HostPut
-----------------------------------------------------------------------------
(* The invariant.  It is stated tab by tab: w is a tab, row the stored row, *)
(* u the ids used, ch the times of the last changes and latest the threads  *)
(* as they were last changed.                                              *)

\* The last version of every thread that has content and that no user deleted.
Latest == {t \in Thread : t.id \in used \ retired /\ changed[t.id] > 0 /\ t.at = changed[t.id]}

\* The threads that a save of the latest render would send.
Kept(w) == {t \in ToSet(w.shown) : t.id \notin w.fresh}

\* The saves of a tab in their order: number 0 is the one that runs.
Saves(w) == IF w.job = NoJob THEN {} ELSE 0..Len(w.queue)
NextOf(w, i) == IF i = 0 THEN w.job.next ELSE w.queue[i].next
ClosureOf(w, i) == IF i = 0 THEN w.job.closure ELSE w.queue[i].closure
SavedIds(w, i) == IdsOf(NextOf(w, i)) \cup (IF i = 0 THEN IdsOf(w.job.candidate) ELSE {})

\* The drafts that the timer would close over.
Hidden(w) == IF w.armed THEN w.closure ELSE {}

\* What the tab regards as a draft, now or in a save, and what its lists name.
Secrets(w) == w.fresh \cup Hidden(w) \cup UNION {ClosureOf(w, i) : i \in Saves(w)}
Mentions(w) == IdsOf(w.shown) \cup UNION {SavedIds(w, i) : i \in Saves(w)}

\* A list that names a thread once and is not ahead of its last change.
Sound(c, u, ch) == c \in Collection /\ Distinct(c) /\ \A t \in ToSet(c) : t.id \in u /\ t.at <= ch[t.id]

ListsAreSound(w, u, ch) ==
  /\ Sound(w.shown, u, ch)
  /\ w.job # NoJob => Sound(w.job.candidate, u, ch)
  /\ \A i \in Saves(w) : Sound(NextOf(w, i), u, ch)

\* No save names what it, a later one or the tab regards as a draft.
SecretsAreUnsaved(w) ==
  /\ \A i \in Saves(w) : \A id \in SavedIds(w, i) :
       id \notin w.fresh \cup Hidden(w) /\ \A j \in Saves(w) : i <= j => id \notin ClosureOf(w, j)
  /\ \A t \in Kept(w) : t.id \notin Hidden(w)

\* The latest versions that a save was asked to send are still shown.
SavesAreKept(w, latest) == \A i \in Saves(w) : ToSet(NextOf(w, i)) \cap latest \subseteq Kept(w)

\* With no timer the last save has everything.
LastSaveHasAll(w) == ~w.armed /\ w.job # NoJob => Kept(w) \subseteq ToSet(NextOf(w, Len(w.queue)))

Core(w, u, ch, latest) ==
  /\ w.job = NoJob => w.queue = <<>>
  /\ w.job # NoJob /\ w.job.at = "loading" => w.job.attempt < 2
  /\ ListsAreSound(w, u, ch) /\ SecretsAreUnsaved(w) /\ Secrets(w) \subseteq u
  /\ SavesAreKept(w, latest)

\* A tab whose revision is the row's has the latest versions the row has, in the list it
\* saves or shown.
Knows(w, row, latest) ==
  /\ w.revision \in 0..row.revision
  /\ w.revision = row.revision =>
       /\ w.job # NoJob => w.job.at = "saving"
       /\ ToSet(row.threads) \cap latest \subseteq
            Kept(w) \cup (IF w.job = NoJob THEN {} ELSE ToSet(w.job.candidate))

\* If it will not save again, in the list it saves.
HasWhatIsStored(w, row, latest) ==
  /\ Knows(w, row, latest)
  /\ w.revision = row.revision /\ ~w.armed /\ w.job # NoJob /\ w.queue = <<>> =>
       ToSet(row.threads) \cap latest \subseteq ToSet(w.job.candidate)

TabInv(w, row, u, ch, latest) ==
  IF w.open = "closed" THEN w = ClosedTab
  ELSE Core(w, u, ch, latest) /\ LastSaveHasAll(w) /\ HasWhatIsStored(w, row, latest)

\* What one tab regards as a draft, no other tab nor the row names.
SecretsAreOwn ==
  \A b \in Tabs : /\ Secrets(tab[b]) \cap IdsOf(stored.threads) = {}
                  /\ \A c \in Tabs \ {b} : Secrets(tab[b]) \cap Mentions(tab[c]) = {}

RowIsSound == (stored.revision = 0 => stored.threads = <<>>) /\ Sound(stored.threads, used, changed)

ClockIsAhead == \A id \in ThreadIds : changed[id] <= time /\ (id \notin used => changed[id] = 0)

\* A tab that has not come to rest keeps the thread.
Carries(w, t) ==
  w.open = "open" /\ t \in Kept(w) /\ (w.armed \/ w.queue # <<>> \/ w.job # NoJob \/ w.issue)

CollectionTypes ==
  /\ stored.revision \in Nat /\ stored.threads \in Collection /\ tab \in [Tabs -> Tab]
  /\ used \subseteq ThreadIds /\ time \in 0..MaxTime /\ changed \in [ThreadIds -> 0..MaxTime]

CollectionInv ==
  /\ CollectionTypes /\ ClockIsAhead /\ RowIsSound /\ SecretsAreOwn
  /\ \A b \in Tabs : TabInv(tab[b], stored, used, changed, Latest)
  /\ \A t \in Latest : t \in ToSet(stored.threads) \/ \E b \in Tabs : Carries(tab[b], t)

Undisturbed == faults + closings = 0 /\ ~QuickFirst

WorkspaceInv == faults \in Nat /\ closings \in Nat /\ (Undisturbed => CollectionInv)

Entry == [next: Collection, closure: SUBSET ThreadIds]

\* The fields of a tab have their types.
LEMMA TabTypes ==
  ASSUME NEW w \in Tab
  PROVE  /\ w.open \in {"closed", "open"} /\ w.shown \in Collection /\ w.fresh \in SUBSET ThreadIds
         /\ w.deleting \in SUBSET ThreadIds /\ w.revision \in Nat \cup {NoRevision}
         /\ w.armed \in BOOLEAN /\ w.closure \in SUBSET ThreadIds /\ w.queue \in Seq(Entry)
         /\ w.job \in Job \cup {NoJob} /\ w.issue \in BOOLEAN
BY DEF Tab, Entry

\* A save that runs is not the absence of one, and its fields have their types.
LEMMA JobTypes ==
  ASSUME NEW job \in Job
  PROVE  /\ job # NoJob /\ job.next \in Collection /\ job.candidate \in Collection
         /\ job.closure \in SUBSET ThreadIds /\ job.attempt \in 0..2 /\ job.at \in {"saving", "loading"}
<1>1. /\ job.next \in Collection /\ job.candidate \in Collection
      /\ job.closure \in SUBSET ThreadIds /\ job.attempt \in 0..2 /\ job.at \in {"saving", "loading"}
  BY DEF Job
<1>2. NoJob.at = "none"
  BY DEF NoJob
<1> QED BY <1>1, <1>2

\* The saves that wait have their types.
LEMMA QueueTypes ==
  ASSUME NEW w \in Tab
  PROVE  /\ Len(w.queue) \in Nat /\ DOMAIN w.queue = 1..Len(w.queue)
         /\ \A i \in 1..Len(w.queue) : w.queue[i].next \in Collection /\ w.queue[i].closure \in SUBSET ThreadIds
<1>1. PICK q \in Seq(Entry) : q = w.queue
  BY TabTypes
<1>2. Len(q) \in Nat /\ DOMAIN q = 1..Len(q) /\ \A i \in 1..Len(q) : q[i] \in Entry
  OBVIOUS
<1> QED BY <1>1, <1>2 DEF Entry

\* A tab as it is after its rendering: the timer runs and closes over the drafts of now
\* unless it ran before.
LEMMA Rendering ==
  ASSUME NEW w \in Tab, w.open = "open", NEW v, v = Rendered(w),
         NEW row, NEW u, NEW ch, NEW latest, Core(w, u, ch, latest), Knows(w, row, latest)
  PROVE  /\ v \in Tab /\ v.open = "open" /\ TabInv(v, row, u, ch, latest)
         /\ Secrets(v) \subseteq Secrets(w) /\ Mentions(v) = Mentions(w)
         /\ \A t \in Kept(w) : Carries(v, t)
<1>1. /\ v.open = w.open /\ v.shown = w.shown /\ v.fresh = w.fresh /\ v.revision = w.revision
      /\ v.queue = w.queue /\ v.job = w.job /\ v.issue = w.issue /\ v.armed = TRUE
      /\ v.closure = IF w.armed THEN w.closure ELSE w.fresh
  BY DEF Rendered, Tab
<1>2. v \in Tab
  BY DEF Rendered, Tab
<1>3. Kept(v) = Kept(w) /\ Saves(v) = Saves(w) /\ Mentions(v) = Mentions(w)
  BY <1>1 DEF Kept, Saves, Mentions, SavedIds, NextOf
<1>4. \A i \in Saves(w) : NextOf(v, i) = NextOf(w, i) /\ ClosureOf(v, i) = ClosureOf(w, i) /\ SavedIds(v, i) = SavedIds(w, i)
  BY <1>1 DEF NextOf, ClosureOf, SavedIds
<1>5. Hidden(v) = IF w.armed THEN Hidden(w) ELSE w.fresh
  BY <1>1 DEF Hidden
<1>6. Secrets(v) \subseteq Secrets(w)
  BY <1>1, <1>3, <1>4, <1>5 DEF Secrets
<1>7. SecretsAreUnsaved(v)
  BY <1>1, <1>3, <1>4, <1>5 DEF SecretsAreUnsaved, Core, Kept
<1>8. ListsAreSound(v, u, ch) /\ SavesAreKept(v, latest)
  BY <1>1, <1>3, <1>4 DEF ListsAreSound, SavesAreKept, Core
<1>9. Core(v, u, ch, latest)
  BY <1>1, <1>6, <1>7, <1>8 DEF Core
<1>10. HasWhatIsStored(v, row, latest) /\ LastSaveHasAll(v)
  BY <1>1, <1>3 DEF HasWhatIsStored, Knows, LastSaveHasAll
<1>11. \A t \in Kept(w) : Carries(v, t)
  BY <1>1, <1>3 DEF Carries
<1> QED BY <1>1, <1>2, <1>3, <1>6, <1>9, <1>10, <1>11 DEF TabInv

\* The next save begins when none runs any more.
LEMMA Beginning ==
  ASSUME NEW w \in Tab, w.open = "open", w.job # NoJob, NEW x \in Tab, NEW v, v = Begun(x),
         x.open = w.open, x.shown = w.shown, x.fresh = w.fresh, x.armed = w.armed, x.closure = w.closure,
         x.queue = w.queue, x.job = NoJob,
         NEW u, NEW ch, NEW latest, Core(w, u, ch, latest), LastSaveHasAll(w)
  PROVE  /\ v \in Tab /\ v.open = "open" /\ v.revision = x.revision /\ v.shown = w.shown
         /\ v.fresh = w.fresh /\ v.armed = w.armed /\ v.closure = w.closure /\ v.issue = x.issue
         /\ Core(v, u, ch, latest) /\ LastSaveHasAll(v)
         /\ Secrets(v) \subseteq Secrets(w) /\ Mentions(v) \subseteq Mentions(w) /\ Kept(v) = Kept(w)
         /\ IF w.queue = <<>> THEN v.job = NoJob /\ v.queue = <<>>
            ELSE /\ v.job # NoJob /\ v.job.at = "saving" /\ v.job.candidate = v.job.next
                 /\ v.queue = Tail(w.queue)
                 /\ v.queue = <<>> => v.job.next = NextOf(w, Len(w.queue))
<1>1. CASE w.queue = <<>>
  <2>1. v = x
    BY <1>1 DEF Begun
  <2>2. Saves(v) = {} /\ Kept(v) = Kept(w) /\ Hidden(v) = Hidden(w)
    BY <2>1 DEF Saves, Kept, Hidden
  <2>3. Secrets(v) \subseteq Secrets(w) /\ Mentions(v) \subseteq Mentions(w)
    BY <2>1, <2>2 DEF Secrets, Mentions
  <2>4. SecretsAreUnsaved(v) /\ ListsAreSound(v, u, ch)
    BY <2>1, <2>2 DEF SecretsAreUnsaved, ListsAreSound, Core
  <2> QED BY <1>1, <2>1, <2>2, <2>3, <2>4 DEF Core, SavesAreKept, LastSaveHasAll
<1>2. CASE w.queue # <<>>
  <2>1. PICK q \in Seq(Entry) : q = w.queue
    BY TabTypes
  <2>2. PICK n \in Nat : n = Len(q)
    BY <2>1
  <2>3. PICK rest : rest = Tail(q)
    OBVIOUS
  <2>4. n > 0 /\ DOMAIN q = 1..n /\ \A i \in 1..n : q[i] \in Entry
    BY <1>2, <2>1, <2>2
  <2>5. rest \in Seq(Entry) /\ Len(rest) = n - 1 /\ \A i \in 1..(n - 1) : rest[i] = q[i + 1]
    BY <2>2, <2>3, <2>4
  <2>6. PICK job : job = [next |-> q[1].next, candidate |-> q[1].next, closure |-> q[1].closure,
                          attempt |-> 0, at |-> "saving"]
    OBVIOUS
  <2>7. job \in Job /\ job # NoJob
    <3>1. q[1] \in Entry
      BY <2>4
    <3>2. job \in Job
      BY <2>6, <3>1 DEF Job, Entry
    <3> QED BY <3>2, JobTypes
  <2>8. Head(q) = q[1]
    BY <2>4
  <2>9. v = [x EXCEPT !.queue = rest, !.job = job]
    BY <1>2, <2>1, <2>3, <2>6, <2>8 DEF Begun
  <2>10. v \in Tab
    <3>1. rest \in Seq([next: Collection, closure: SUBSET ThreadIds])
      BY <2>5 DEF Entry
    <3>2. job \in Job \cup {NoJob}
      BY <2>7
    <3> QED BY <2>9, <3>1, <3>2 DEF Tab
  <2>11. /\ v.open = "open" /\ v.shown = w.shown /\ v.fresh = w.fresh /\ v.armed = w.armed
         /\ v.closure = w.closure /\ v.revision = x.revision /\ v.issue = x.issue
         /\ v.queue = rest /\ v.job = job
    BY <2>9 DEF Tab
  <2>12. Kept(v) = Kept(w) /\ Hidden(v) = Hidden(w)
    BY <2>11 DEF Kept, Hidden
  <2>13. Saves(v) = 0..(n - 1) /\ Saves(w) = 0..n
    BY <2>1, <2>2, <2>5, <2>7, <2>11 DEF Saves
  <2>14. ASSUME NEW i \in 0..(n - 1)
         PROVE  /\ i + 1 \in 0..n /\ NextOf(v, i) = NextOf(w, i + 1) /\ ClosureOf(v, i) = ClosureOf(w, i + 1)
                /\ SavedIds(v, i) = SavedIds(w, i + 1)
    <3>1. i + 1 \in 0..n /\ i + 1 # 0
      BY <2>4
    <3>2. NextOf(w, i + 1) = q[i + 1].next /\ ClosureOf(w, i + 1) = q[i + 1].closure
      BY <2>1, <3>1 DEF NextOf, ClosureOf
    <3>3. CASE i = 0
      <4>1. NextOf(v, i) = q[1].next /\ ClosureOf(v, i) = q[1].closure /\ v.job.candidate = q[1].next
        BY <2>6, <2>11, <3>3 DEF NextOf, ClosureOf
      <4> QED BY <3>1, <3>2, <3>3, <4>1 DEF SavedIds
    <3>4. CASE i # 0
      <4>1. i \in 1..(n - 1)
        BY <2>4, <3>4
      <4>2. NextOf(v, i) = q[i + 1].next /\ ClosureOf(v, i) = q[i + 1].closure
        BY <2>5, <2>11, <3>4, <4>1 DEF NextOf, ClosureOf
      <4> QED BY <3>1, <3>2, <3>4, <4>2 DEF SavedIds
    <3> QED BY <3>3, <3>4
  <2>15. Secrets(v) \subseteq Secrets(w)
    BY <2>11, <2>12, <2>13, <2>14 DEF Secrets
  <2>16. Mentions(v) \subseteq Mentions(w)
    BY <2>11, <2>13, <2>14 DEF Mentions
  <2>17. SecretsAreUnsaved(v)
    <3>1. ASSUME NEW i \in 0..(n - 1), NEW id \in SavedIds(v, i)
          PROVE  id \notin w.fresh \cup Hidden(w)
      BY <2>13, <2>14, <3>1 DEF Core, SecretsAreUnsaved
    <3>2. ASSUME NEW i \in 0..(n - 1), NEW id \in SavedIds(v, i), NEW j \in 0..(n - 1), i <= j
          PROVE  id \notin ClosureOf(v, j)
      <4>1. i + 1 <= j + 1 /\ i + 1 \in 0..n /\ j + 1 \in 0..n
        BY <3>2, <2>4
      <4>2. id \notin ClosureOf(w, j + 1)
        BY <2>13, <2>14, <3>2, <4>1 DEF Core, SecretsAreUnsaved
      <4> QED BY <2>14, <4>2
    <3> QED BY <2>11, <2>12, <2>13, <3>1, <3>2 DEF Core, SecretsAreUnsaved
  <2>18. ListsAreSound(v, u, ch) /\ SavesAreKept(v, latest)
    <3>1. \A i \in Saves(v) : Sound(NextOf(v, i), u, ch) /\ ToSet(NextOf(v, i)) \cap latest \subseteq Kept(v)
      BY <2>12, <2>13, <2>14 DEF Core, ListsAreSound, SavesAreKept
    <3>2. v.job.candidate = NextOf(v, 0) /\ 0 \in Saves(v)
      BY <2>4, <2>6, <2>11, <2>13 DEF NextOf
    <3> QED BY <2>11, <3>1, <3>2 DEF Core, ListsAreSound, SavesAreKept
  <2>19. NextOf(v, n - 1) = NextOf(w, n)
    <3>1. n - 1 \in 0..(n - 1) /\ (n - 1) + 1 = n
      BY <2>4
    <3> QED BY <2>14, <3>1
  <2>20. LastSaveHasAll(v)
    BY <2>1, <2>2, <2>5, <2>11, <2>12, <2>19 DEF LastSaveHasAll
  <2>21. Core(v, u, ch, latest)
    BY <2>6, <2>7, <2>11, <2>15, <2>17, <2>18 DEF Core
  <2>22. v.queue = <<>> => v.job.next = NextOf(w, Len(w.queue))
    <3> HAVE v.queue = <<>>
    <3>1. n = 1 /\ n - 1 = 0
      BY <2>5, <2>11
    <3>2. NextOf(v, n - 1) = v.job.next
      BY <3>1 DEF NextOf
    <3>3. NextOf(w, n) = NextOf(w, Len(w.queue))
      BY <2>1, <2>2
    <3> QED BY <2>19, <3>2, <3>3
  <2> QED BY <1>2, <2>1, <2>3, <2>6, <2>7, <2>10, <2>11, <2>12, <2>15, <2>16, <2>20, <2>21, <2>22
<1> QED BY <1>1, <1>2

\* A list stays sound while ids are used and threads change.
LEMMA StaysSound ==
  ASSUME NEW c, NEW u \in SUBSET ThreadIds, NEW u2, NEW ch \in [ThreadIds -> Nat], NEW ch2 \in [ThreadIds -> Nat],
         Sound(c, u, ch), u \subseteq u2, \A id \in u : ch[id] <= ch2[id]
  PROVE  Sound(c, u2, ch2)
<1>1. ASSUME NEW t \in ToSet(c) PROVE t.id \in u2 /\ t.at <= ch2[t.id]
  <2>1. t \in Thread /\ t.id \in u /\ t.at <= ch[t.id] /\ ch[t.id] <= ch2[t.id]
    BY ListsAreFinite DEF Sound
  <2>2. t.at \in Nat /\ ch[t.id] \in Nat /\ ch2[t.id] \in Nat
    BY <2>1 DEF Thread
  <2> QED BY <2>1, <2>2
<1> QED BY <1>1 DEF Sound

\* A tab that does not move keeps its invariant when another tab or the row moves on.
LEMMA Bystander ==
  ASSUME NEW w \in Tab, NEW row, NEW row2, NEW u \in SUBSET ThreadIds, NEW u2,
         NEW ch \in [ThreadIds -> Nat], NEW ch2 \in [ThreadIds -> Nat], NEW latest, NEW latest2,
         TabInv(w, row, u, ch, latest), Sound(row.threads, u, ch), row.revision \in Nat,
         u \subseteq u2, \A id \in u : ch[id] <= ch2[id],
         \A t \in latest2 : t.id \in u /\ t.at <= ch[t.id] => t \in latest,
         row2 = row \/ row2.revision = row.revision + 1
  PROVE  TabInv(w, row2, u2, ch2, latest2)
<1>1. CASE w.open = "closed"
  BY <1>1 DEF TabInv
<1>2. CASE w.open # "closed"
  <2>1. Core(w, u, ch, latest) /\ LastSaveHasAll(w) /\ HasWhatIsStored(w, row, latest)
    BY <1>2 DEF TabInv
  <2>2. ASSUME NEW c, Sound(c, u, ch) PROVE Sound(c, u2, ch2) /\ ToSet(c) \cap latest2 \subseteq latest
    <3>1. Sound(c, u2, ch2)
      BY <2>2, StaysSound
    <3>2. \A t \in ToSet(c) : t.id \in u /\ t.at <= ch[t.id]
      BY <2>2 DEF Sound
    <3> QED BY <3>1, <3>2
  <2>3. ListsAreSound(w, u2, ch2)
    BY <2>1, <2>2 DEF Core, ListsAreSound
  <2>4. SavesAreKept(w, latest2)
    <3>1. ASSUME NEW i \in Saves(w) PROVE ToSet(NextOf(w, i)) \cap latest2 \subseteq Kept(w)
      <4>1. ToSet(NextOf(w, i)) \cap latest2 \subseteq latest
        BY <2>1, <2>2 DEF Core, ListsAreSound
      <4>2. ToSet(NextOf(w, i)) \cap latest \subseteq Kept(w)
        BY <2>1 DEF Core, SavesAreKept
      <4> QED BY <4>1, <4>2
    <3> QED BY <3>1 DEF SavesAreKept
  <2>5. Core(w, u2, ch2, latest2)
    BY <2>1, <2>3, <2>4 DEF Core
  <2>6. HasWhatIsStored(w, row2, latest2)
    <3>1. CASE row2 = row
      <4>1. ToSet(row.threads) \cap latest2 \subseteq latest
        BY <2>2
      <4> QED BY <2>1, <3>1, <4>1 DEF HasWhatIsStored, Knows
    <3>2. CASE row2.revision = row.revision + 1
      <4>1. w.revision \in 0..row.revision
        BY <2>1 DEF HasWhatIsStored, Knows
      <4>2. w.revision \in 0..row2.revision /\ w.revision # row2.revision
        BY <3>2, <4>1
      <4> QED BY <4>2 DEF HasWhatIsStored, Knows
    <3> QED BY <3>1, <3>2
  <2> QED BY <1>2, <2>1, <2>5, <2>6 DEF TabInv
<1> QED BY <1>1, <1>2

\* What a step of one tab must do for the invariant of all.
LEMMA TabMoves ==
  ASSUME CollectionInv, NEW b \in Tabs, NEW w \in Tab, w = tab[b], NEW v \in Tab, Update(b, v),
         stored'.revision \in Nat, stored'.threads \in Collection, used' \subseteq ThreadIds,
         time' \in 0..MaxTime, changed' \in [ThreadIds -> 0..MaxTime],
         ClockIsAhead', RowIsSound',
         used \subseteq used', \A id \in used : changed[id] <= changed'[id],
         \A t \in Latest' : t.id \in used /\ t.at <= changed[t.id] => t \in Latest,
         stored' = stored \/ stored'.revision = stored.revision + 1,
         TabInv(v, stored', used', changed', Latest'),
         Secrets(v) \subseteq Secrets(w) \cup (used' \ used),
         Mentions(v) \subseteq Mentions(w) \cup IdsOf(stored.threads) \cup (used' \ used),
         IdsOf(stored'.threads) \subseteq IdsOf(stored.threads) \cup Mentions(w),
         Secrets(v) \cap IdsOf(stored'.threads) = {},
         \A t \in Latest' : t \in Latest => (t \in ToSet(stored.threads) \/ Carries(w, t) => t \in ToSet(stored'.threads) \/ Carries(v, t)),
         \A t \in Latest' : t \notin Latest => t \in ToSet(stored'.threads) \/ Carries(v, t)
  PROVE  CollectionInv'
<1>1. tab \in [Tabs -> Tab] /\ tab' \in [Tabs -> Tab] /\ tab'[b] = v /\ \A c \in Tabs \ {b} : tab'[c] = tab[c]
  BY DEF CollectionInv, CollectionTypes, Update
<1>2. CollectionTypes'
  BY <1>1 DEF CollectionTypes
<1>3. /\ stored.revision \in Nat /\ used \in SUBSET ThreadIds /\ Sound(stored.threads, used, changed)
      /\ changed \in [ThreadIds -> 0..MaxTime]
  BY DEF CollectionInv, CollectionTypes, RowIsSound
<1>4. changed \in [ThreadIds -> Nat] /\ changed' \in [ThreadIds -> Nat]
  BY <1>3, WorkspaceAssumption
<1>5. ASSUME NEW c \in Tabs PROVE TabInv(tab[c], stored, used, changed, Latest)
  BY DEF CollectionInv
<1>6. ASSUME NEW c \in Tabs \ {b} PROVE TabInv(tab'[c], stored', used', changed', Latest')
  <2>1. PICK x \in Tab : x = tab[c]
    BY <1>1
  <2>a. PICK row, row2, u2, l, l2 : row = stored /\ row2 = stored' /\ u2 = used' /\ l = Latest /\ l2 = Latest'
    OBVIOUS
  <2>b. PICK u \in SUBSET ThreadIds : u = used
    BY <1>3
  <2>c. PICK ch \in [ThreadIds -> Nat] : ch = changed
    BY <1>4
  <2>d. PICK ch2 \in [ThreadIds -> Nat] : ch2 = changed'
    BY <1>4
  <2>2. /\ row = stored /\ row2 = stored' /\ ch = changed /\ ch2 = changed' /\ u = used /\ u2 = used'
        /\ l = Latest /\ l2 = Latest'
    BY <2>a, <2>b, <2>c, <2>d
  <2>3. TabInv(x, row, u, ch, l) /\ Sound(row.threads, u, ch) /\ row.revision \in Nat
    BY <1>3, <1>5, <2>1, <2>2
  <2>4. /\ u \subseteq u2 /\ \A id \in u : ch[id] <= ch2[id]
        /\ \A t \in l2 : t.id \in u /\ t.at <= ch[t.id] => t \in l
        /\ row2 = row \/ row2.revision = row.revision + 1
    BY <2>2
  <2>5. TabInv(x, row2, u2, ch2, l2)
    BY <2>3, <2>4, Bystander
  <2> QED BY <1>1, <2>1, <2>2, <2>5
<1>7. \A c \in Tabs : TabInv(tab'[c], stored', used', changed', Latest')
  BY <1>1, <1>6
<1>8. ASSUME NEW c \in Tabs PROVE Secrets(tab[c]) \subseteq used /\ Mentions(tab[c]) \subseteq used
  <2>1. PICK x \in Tab : x = tab[c]
    BY <1>1
  <2>2. CASE x.open = "closed"
    <3>1. x.shown = <<>> /\ x.fresh = {} /\ x.armed = FALSE /\ x.job = NoJob
      BY <1>5, <2>1, <2>2 DEF TabInv, ClosedTab
    <3>2. ToSet(<<>>) = {}
      BY DEF ToSet
    <3> QED BY <2>1, <3>1, <3>2 DEF Secrets, Mentions, Hidden, Saves, IdsOf
  <2>3. CASE x.open # "closed"
    <3>1. Core(x, used, changed, Latest)
      BY <1>5, <2>1, <2>3 DEF TabInv
    <3>2. \A k : Sound(k, used, changed) => IdsOf(k) \subseteq used
      BY DEF Sound, IdsOf
    <3>3. IdsOf(x.shown) \subseteq used
      BY <3>1, <3>2 DEF Core, ListsAreSound
    <3>4. ASSUME NEW i \in Saves(x) PROVE SavedIds(x, i) \subseteq used
      <4>1. IdsOf(NextOf(x, i)) \subseteq used /\ x.job # NoJob
        BY <3>1, <3>2 DEF Core, ListsAreSound, Saves
      <4>2. IdsOf(x.job.candidate) \subseteq used
        BY <3>1, <3>2, <4>1 DEF Core, ListsAreSound
      <4> QED BY <4>1, <4>2 DEF SavedIds
    <3> QED BY <2>1, <3>1, <3>3, <3>4 DEF Core, Mentions
  <2> QED BY <2>2, <2>3
<1>9. IdsOf(stored.threads) \subseteq used
  BY <1>3 DEF Sound, IdsOf
<1>10. SecretsAreOwn'
  <2>1. SecretsAreOwn
    BY DEF CollectionInv
  <2>2. ASSUME NEW c \in Tabs PROVE Secrets(tab'[c]) \cap IdsOf(stored'.threads) = {}
    <3>1. CASE c = b
      BY <1>1, <3>1
    <3>2. CASE c # b
      <4>1. Secrets(tab[c]) \cap IdsOf(stored.threads) = {} /\ Secrets(tab[c]) \cap Mentions(tab[b]) = {}
        BY <2>1, <3>2 DEF SecretsAreOwn
      <4> QED BY <1>1, <3>2, <4>1
    <3> QED BY <3>1, <3>2
  <2>3. ASSUME NEW c \in Tabs, NEW d \in Tabs \ {c} PROVE Secrets(tab'[c]) \cap Mentions(tab'[d]) = {}
    <3>1. Secrets(tab[c]) \cap Mentions(tab[d]) = {} /\ Secrets(tab[c]) \cap IdsOf(stored.threads) = {}
      BY <2>1 DEF SecretsAreOwn
    <3>2. CASE c = b
      <4>1. tab'[d] = tab[d] /\ Mentions(tab[d]) \subseteq used
        BY <1>1, <1>8, <3>2
      <4> QED BY <1>1, <3>1, <3>2, <4>1
    <3>3. CASE d = b
      <4>1. tab'[c] = tab[c] /\ Secrets(tab[c]) \subseteq used
        BY <1>1, <1>8, <3>3
      <4> QED BY <1>1, <3>1, <3>3, <4>1
    <3>4. CASE c # b /\ d # b
      BY <1>1, <3>1, <3>4
    <3> QED BY <3>2, <3>3, <3>4
  <2> QED BY <2>2, <2>3 DEF SecretsAreOwn
<1>11. ASSUME NEW t \in Latest' PROVE t \in ToSet(stored'.threads) \/ \E c \in Tabs : Carries(tab'[c], t)
  <2>1. CASE t \notin Latest
    BY <1>1, <2>1
  <2>2. CASE t \in Latest
    <3>1. CASE t \in ToSet(stored.threads)
      BY <1>1, <2>2, <3>1
    <3>2. CASE \E c \in Tabs : Carries(tab[c], t)
      <4>1. PICK c \in Tabs : Carries(tab[c], t)
        BY <3>2
      <4>2. CASE c = b
        BY <1>1, <2>2, <4>1, <4>2
      <4>3. CASE c # b
        BY <1>1, <4>1, <4>3
      <4> QED BY <4>2, <4>3
    <3> QED BY <2>2, <3>1, <3>2 DEF CollectionInv
  <2> QED BY <2>1, <2>2
<1> QED BY <1>2, <1>7, <1>10, <1>11 DEF CollectionInv

\* The steps of a tab that leave the row, the ids and the clock alone.
LEMMA TabMovesAlone ==
  ASSUME CollectionInv, NEW b \in Tabs, NEW w \in Tab, w = tab[b], NEW v \in Tab, Update(b, v),
         UNCHANGED <<stored, used, retired, time, changed>>,
         TabInv(v, stored, used, changed, Latest),
         Secrets(v) \subseteq Secrets(w), Mentions(v) \subseteq Mentions(w) \cup IdsOf(stored.threads),
         \A t \in Latest : Carries(w, t) => t \in ToSet(stored.threads) \/ Carries(v, t)
  PROVE  CollectionInv'
<1>1. Latest' = Latest
  BY DEF Latest
<1>2. /\ stored'.revision \in Nat /\ stored'.threads \in Collection /\ used' \subseteq ThreadIds
      /\ time' \in 0..MaxTime /\ changed' \in [ThreadIds -> 0..MaxTime]
      /\ ClockIsAhead' /\ RowIsSound'
  BY DEF CollectionInv, CollectionTypes, ClockIsAhead, RowIsSound
<1>3. \A id \in used : changed[id] <= changed'[id]
  BY DEF CollectionInv, CollectionTypes
<1>4. Secrets(v) \cap IdsOf(stored'.threads) = {}
  BY DEF CollectionInv, SecretsAreOwn
<1>5. TabInv(v, stored', used', changed', Latest')
  BY <1>1
<1>6. \A t \in Latest' : t \in Latest => (t \in ToSet(stored.threads) \/ Carries(w, t) => t \in ToSet(stored'.threads) \/ Carries(v, t))
  BY <1>1
<1> QED BY <1>1, <1>2, <1>3, <1>4, <1>5, <1>6, TabMoves

\* What a tab is deleting and whether it shows an alert matters to none of its lists.
LEMMA SameLists ==
  ASSUME NEW w \in Tab, NEW x \in Tab, x.open = w.open, x.shown = w.shown, x.fresh = w.fresh, x.armed = w.armed,
         x.closure = w.closure, x.revision = w.revision, x.queue = w.queue, x.job = w.job,
         NEW row, NEW u, NEW ch, NEW latest
  PROVE  /\ Kept(x) = Kept(w) /\ Secrets(x) = Secrets(w) /\ Mentions(x) = Mentions(w)
         /\ Core(w, u, ch, latest) => Core(x, u, ch, latest)
         /\ LastSaveHasAll(w) => LastSaveHasAll(x)
         /\ Knows(w, row, latest) => Knows(x, row, latest)
         /\ HasWhatIsStored(w, row, latest) => HasWhatIsStored(x, row, latest)
<1>1. Kept(x) = Kept(w) /\ Saves(x) = Saves(w) /\ Hidden(x) = Hidden(w)
  BY DEF Kept, Saves, Hidden
<1>2. \A i \in Saves(w) : NextOf(x, i) = NextOf(w, i) /\ ClosureOf(x, i) = ClosureOf(w, i) /\ SavedIds(x, i) = SavedIds(w, i)
  BY DEF NextOf, ClosureOf, SavedIds
<1>3. Secrets(x) = Secrets(w) /\ Mentions(x) = Mentions(w)
  BY <1>1, <1>2 DEF Secrets, Mentions
<1>4. SecretsAreUnsaved(w) => SecretsAreUnsaved(x)
  BY <1>1, <1>2 DEF SecretsAreUnsaved
<1>5. ListsAreSound(w, u, ch) => ListsAreSound(x, u, ch)
  BY <1>1, <1>2 DEF ListsAreSound
<1>6. SavesAreKept(w, latest) => SavesAreKept(x, latest)
  BY <1>1, <1>2 DEF SavesAreKept
<1>7. Core(w, u, ch, latest) => Core(x, u, ch, latest)
  BY <1>3, <1>4, <1>5, <1>6 DEF Core
<1>8. LastSaveHasAll(w) => LastSaveHasAll(x)
  BY <1>1 DEF LastSaveHasAll, NextOf
<1>9. Knows(w, row, latest) => Knows(x, row, latest)
  BY <1>1 DEF Knows
<1>10. HasWhatIsStored(w, row, latest) => HasWhatIsStored(x, row, latest)
  BY <1>9 DEF HasWhatIsStored
<1> QED BY <1>1, <1>3, <1>7, <1>8, <1>9, <1>10

\* The steps.  Beginning to delete a thread.
LEMMA BeginDeleteThreadKeeps ==
  ASSUME CollectionInv, NEW b \in Tabs, NEW id \in ThreadIds, BeginDeleteThread(b, id)
  PROVE  CollectionInv'
<1>1. PICK w \in Tab : w = tab[b]
  BY DEF CollectionInv, CollectionTypes
<1>2. PICK v : v = [w EXCEPT !.deleting = @ \cup {id}]
  OBVIOUS
<1>3. Update(b, v) /\ w.open = "open" /\ UNCHANGED <<stored, used, retired, time, changed>>
  BY <1>1, <1>2 DEF BeginDeleteThread
<1>4. v \in Tab
  BY <1>2 DEF Tab
<1>5. /\ v.open = w.open /\ v.shown = w.shown /\ v.fresh = w.fresh /\ v.armed = w.armed /\ v.closure = w.closure
      /\ v.revision = w.revision /\ v.queue = w.queue /\ v.job = w.job /\ v.issue = w.issue
  BY <1>2 DEF Tab
<1>6. PICK row, u, ch, latest : row = stored /\ u = used /\ ch = changed /\ latest = Latest
  OBVIOUS
<1>7. TabInv(w, row, u, ch, latest)
  BY <1>1, <1>6 DEF CollectionInv
<1>8. Core(w, u, ch, latest) /\ LastSaveHasAll(w) /\ HasWhatIsStored(w, row, latest)
  BY <1>3, <1>7 DEF TabInv
<1>9. /\ Kept(v) = Kept(w) /\ Secrets(v) = Secrets(w) /\ Mentions(v) = Mentions(w)
      /\ Core(v, u, ch, latest) /\ LastSaveHasAll(v) /\ HasWhatIsStored(v, row, latest)
  BY <1>4, <1>5, <1>8, SameLists
<1>10. TabInv(v, row, u, ch, latest)
  BY <1>3, <1>5, <1>9 DEF TabInv
<1>11. \A t : Carries(w, t) => Carries(v, t)
  BY <1>5, <1>9 DEF Carries
<1> QED BY <1>1, <1>3, <1>4, <1>6, <1>9, <1>10, <1>11, TabMovesAlone

\* The alert's Retry button.
LEMMA RetrySaveKeeps ==
  ASSUME CollectionInv, NEW b \in Tabs, RetrySave(b)
  PROVE  CollectionInv'
<1>1. PICK w \in Tab : w = tab[b]
  BY DEF CollectionInv, CollectionTypes
<1>2. PICK x : x = [w EXCEPT !.issue = FALSE]
  OBVIOUS
<1>3. PICK v : v = Rendered(x)
  OBVIOUS
<1>4. Update(b, v) /\ w.issue /\ UNCHANGED <<stored, used, retired, time, changed>>
  BY <1>1, <1>2, <1>3 DEF RetrySave
<1>5. x \in Tab
  BY <1>2 DEF Tab
<1>6. /\ x.open = w.open /\ x.shown = w.shown /\ x.fresh = w.fresh /\ x.armed = w.armed /\ x.closure = w.closure
      /\ x.revision = w.revision /\ x.queue = w.queue /\ x.job = w.job
  BY <1>2 DEF Tab
<1>7. PICK row, u, ch, latest : row = stored /\ u = used /\ ch = changed /\ latest = Latest
  OBVIOUS
<1>8. TabInv(w, row, u, ch, latest)
  BY <1>1, <1>7 DEF CollectionInv
<1>9. w.open = "open"
  BY <1>4, <1>8, TabTypes DEF TabInv, ClosedTab
<1>10. Core(w, u, ch, latest) /\ Knows(w, row, latest)
  BY <1>8, <1>9 DEF TabInv, HasWhatIsStored
<1>11. /\ Kept(x) = Kept(w) /\ Secrets(x) = Secrets(w) /\ Mentions(x) = Mentions(w)
       /\ Core(x, u, ch, latest) /\ Knows(x, row, latest)
  BY <1>5, <1>6, <1>10, SameLists
<1>12. /\ v \in Tab /\ TabInv(v, row, u, ch, latest) /\ Secrets(v) \subseteq Secrets(w)
       /\ Mentions(v) = Mentions(w) /\ \A t \in Kept(w) : Carries(v, t)
  BY <1>3, <1>5, <1>6, <1>9, <1>11, Rendering
<1>13. \A t : Carries(w, t) => Carries(v, t)
  BY <1>12 DEF Carries
<1> QED BY <1>1, <1>4, <1>7, <1>12, <1>13, TabMovesAlone

\* What a save of the latest render sends.
LEMMA PersistedIsKept ==
  ASSUME NEW w \in Tab, NEW u, NEW ch, Sound(w.shown, u, ch)
  PROVE  Sound(Persisted(w), u, ch) /\ ToSet(Persisted(w)) = Kept(w)
<1>1. PICK c \in Seq(Thread) : c = w.shown
  BY DEF Sound, Collection
<1>2. PICK d : d = Without(c, w.fresh)
  OBVIOUS
<1>3. d \in Seq(Thread) /\ ToSet(d) = {t \in ToSet(c) : t.id \notin w.fresh}
  BY <1>2, WithoutKeeps
<1>4. Persisted(w) = d
  BY <1>1, <1>2 DEF Persisted
<1>5. Sound(d, u, ch)
  BY <1>1, <1>3 DEF Sound, Distinct, Collection
<1> QED BY <1>1, <1>3, <1>4, <1>5 DEF Kept

\* The timer fires: the save it chains has everything the tab keeps, and what the timer
\* closed over is in no save before it.
LEMMA Firing ==
  ASSUME NEW w \in Tab, w.open = "open", w.armed, NEW e, e = [next |-> Persisted(w), closure |-> w.closure],
         NEW x, x = [w EXCEPT !.armed = FALSE, !.closure = {}, !.queue = Append(@, e)], NEW v, v = Begun(x),
         NEW row, NEW u, NEW ch, NEW latest, Core(w, u, ch, latest), HasWhatIsStored(w, row, latest)
  PROVE  /\ v \in Tab /\ v.open = "open" /\ TabInv(v, row, u, ch, latest)
         /\ Secrets(v) \subseteq Secrets(w) /\ Mentions(v) \subseteq Mentions(w)
         /\ \A t \in Kept(w) : Carries(v, t)
<1>1. Sound(Persisted(w), u, ch) /\ ToSet(Persisted(w)) = Kept(w)
  BY PersistedIsKept DEF Core, ListsAreSound
<1>2. e \in Entry
  <2>1. w.closure \in SUBSET ThreadIds /\ Persisted(w) \in Collection
    BY <1>1, TabTypes DEF Sound
  <2> QED BY <2>1 DEF Entry
<1>3. PICK q \in Seq(Entry) : q = w.queue
  BY TabTypes
<1>4. PICK n \in Nat : n = Len(q)
  BY <1>3
<1>5. PICK r : r = Append(q, e)
  OBVIOUS
<1>6. /\ r \in Seq(Entry) /\ Len(r) = n + 1 /\ r[n + 1] = e /\ r # <<>>
      /\ \A i \in 1..n : r[i] = q[i]
  BY <1>2, <1>3, <1>4, <1>5
<1>7. x = [w EXCEPT !.armed = FALSE, !.closure = {}, !.queue = r]
  BY <1>3, <1>5
<1>8. x \in Tab
  <2>1. r \in Seq([next: Collection, closure: SUBSET ThreadIds])
    BY <1>6 DEF Entry
  <2> QED BY <1>7, <2>1 DEF Tab
<1>9. /\ x.open = "open" /\ x.shown = w.shown /\ x.fresh = w.fresh /\ x.revision = w.revision /\ x.issue = w.issue
      /\ x.armed = FALSE /\ x.closure = {} /\ x.queue = r /\ x.job = w.job /\ x.deleting = w.deleting
  BY <1>7, <1>8 DEF Tab
<1>10. PICK m : m = IF w.job = NoJob THEN 0 ELSE n + 1
  OBVIOUS
<1>11. /\ v \in Tab /\ v.open = "open" /\ v.shown = w.shown /\ v.fresh = w.fresh /\ v.revision = w.revision
       /\ v.armed = FALSE /\ v.job # NoJob /\ Len(v.queue) = m
       /\ Saves(v) = Saves(w) \cup {m} /\ \A i \in Saves(w) : i < m
       /\ NextOf(v, m) = e.next /\ ClosureOf(v, m) = e.closure /\ SavedIds(v, m) = IdsOf(e.next)
       /\ \A i \in Saves(w) : NextOf(v, i) = NextOf(w, i) /\ ClosureOf(v, i) = ClosureOf(w, i) /\ SavedIds(v, i) = SavedIds(w, i)
       /\ IF w.job = NoJob THEN v.job.next = e.next /\ v.job.candidate = e.next /\ v.job.at = "saving" /\ v.queue = <<>>
          ELSE v.job = w.job /\ v.queue # <<>>
  <2>1. CASE w.job # NoJob
    <3>1. v = x
      BY <1>9, <2>1 DEF Begun
    <3>2. Saves(v) = 0..(n + 1) /\ Saves(w) = 0..n
      BY <1>3, <1>4, <1>6, <1>9, <2>1, <3>1 DEF Saves
    <3>3. Saves(v) = Saves(w) \cup {m} /\ \A i \in Saves(w) : i < m
      BY <1>10, <2>1, <3>2
    <3>a. m = n + 1 /\ m # 0 /\ v.queue[m] = e
      <4>1. m = n + 1
        BY <1>10, <2>1
      <4>2. v.queue = r
        BY <1>9, <3>1
      <4> QED BY <1>6, <4>1, <4>2
    <3>4. NextOf(v, m) = e.next /\ ClosureOf(v, m) = e.closure /\ SavedIds(v, m) = IdsOf(e.next)
      BY <3>a DEF NextOf, ClosureOf, SavedIds
    <3>5. ASSUME NEW i \in Saves(w)
          PROVE  NextOf(v, i) = NextOf(w, i) /\ ClosureOf(v, i) = ClosureOf(w, i)
      <4>1. i = 0 \/ i \in 1..n
        BY <3>2
      <4> QED BY <1>3, <1>6, <1>9, <3>1, <4>1 DEF NextOf, ClosureOf
    <3>6. \A i \in Saves(w) : SavedIds(v, i) = SavedIds(w, i)
      BY <1>9, <3>1, <3>5 DEF SavedIds
    <3> QED BY <1>6, <1>8, <1>9, <1>10, <2>1, <3>1, <3>3, <3>4, <3>5, <3>6
  <2>2. CASE w.job = NoJob
    <3>1. q = <<>> /\ n = 0 /\ m = 0
      BY <1>3, <1>4, <1>10, <2>2 DEF Core
    <3>2. PICK job : job = [next |-> e.next, candidate |-> e.next, closure |-> e.closure, attempt |-> 0, at |-> "saving"]
      OBVIOUS
    <3>3. job \in Job /\ job # NoJob
      <4>1. job \in Job
        BY <1>2, <3>2 DEF Job, Entry
      <4> QED BY <4>1, JobTypes
    <3>4. Tail(r) = <<>> /\ Head(r) = e
      <4>1. r = <<e>>
        BY <1>5, <3>1
      <4> QED BY <4>1
    <3>5. v = [x EXCEPT !.queue = <<>>, !.job = job]
      BY <1>6, <1>9, <2>2, <3>2, <3>4 DEF Begun
    <3>6. v \in Tab
      <4>1. job \in Job \cup {NoJob} /\ <<>> \in Seq([next: Collection, closure: SUBSET ThreadIds])
        BY <3>3
      <4> QED BY <1>8, <3>5, <4>1 DEF Tab
    <3>7. /\ v.open = "open" /\ v.shown = w.shown /\ v.fresh = w.fresh /\ v.revision = w.revision
          /\ v.armed = FALSE /\ v.job = job /\ v.queue = <<>>
      BY <1>8, <1>9, <3>5 DEF Tab
    <3>8. Saves(w) = {} /\ Saves(v) = {0} /\ Len(v.queue) = 0
      BY <2>2, <3>3, <3>7 DEF Saves
    <3>9. /\ NextOf(v, 0) = e.next /\ ClosureOf(v, 0) = e.closure /\ SavedIds(v, 0) = IdsOf(e.next)
          /\ job.candidate = e.next /\ job.next = e.next /\ job.at = "saving"
      BY <3>2, <3>7 DEF NextOf, ClosureOf, SavedIds
    <3> QED BY <2>2, <3>1, <3>3, <3>6, <3>7, <3>8, <3>9
  <2> QED BY <2>1, <2>2
<1>12. e.next = Persisted(w) /\ e.closure = w.closure /\ Hidden(w) = w.closure
  BY DEF Hidden
<1>13. Kept(v) = Kept(w) /\ Hidden(v) = {}
  BY <1>11 DEF Kept, Hidden
<1>14. IdsOf(e.next) = {t.id : t \in Kept(w)} /\ IdsOf(e.next) \subseteq IdsOf(w.shown)
  BY <1>1, <1>12 DEF IdsOf, Kept
<1>15. Secrets(v) \subseteq Secrets(w)
  BY <1>11, <1>12, <1>13 DEF Secrets
<1>16. Mentions(v) \subseteq Mentions(w)
  BY <1>11, <1>14 DEF Mentions
<1>17. SecretsAreUnsaved(v)
  <2>1. ASSUME NEW i \in Saves(w), NEW id \in SavedIds(v, i)
        PROVE  id \notin v.fresh \cup Hidden(v) /\ \A j \in Saves(v) : i <= j => id \notin ClosureOf(v, j)
    BY <1>11, <1>12, <1>13, <2>1 DEF Core, SecretsAreUnsaved
  <2>2. ASSUME NEW id \in SavedIds(v, m)
        PROVE  id \notin v.fresh \cup Hidden(v) /\ \A j \in Saves(v) : m <= j => id \notin ClosureOf(v, j)
    <3>1. id \notin w.fresh /\ id \notin Hidden(w)
      BY <1>11, <1>14 DEF Core, SecretsAreUnsaved, Kept
    <3>2. ASSUME NEW j \in Saves(w), m <= j PROVE FALSE
      <4>1. j \in Int /\ m \in Int /\ j < m
        BY <1>4, <1>10, <1>11, QueueTypes DEF Saves
      <4> QED BY <3>2, <4>1
    <3> QED BY <1>11, <1>12, <1>13, <3>1, <3>2
  <2>3. \A t \in Kept(v) : t.id \notin Hidden(v)
    BY <1>13
  <2> QED BY <1>11, <2>1, <2>2, <2>3 DEF SecretsAreUnsaved
<1>18. ListsAreSound(v, u, ch)
  <2>1. \A i \in Saves(v) : Sound(NextOf(v, i), u, ch)
    BY <1>1, <1>11, <1>12 DEF Core, ListsAreSound
  <2>2. Sound(v.job.candidate, u, ch)
    BY <1>1, <1>11, <1>12 DEF Core, ListsAreSound
  <2> QED BY <1>11, <2>1, <2>2 DEF Core, ListsAreSound
<1>19. SavesAreKept(v, latest)
  BY <1>1, <1>11, <1>12, <1>13 DEF Core, SavesAreKept
<1>20. Core(v, u, ch, latest)
  BY <1>11, <1>15, <1>17, <1>18, <1>19 DEF Core
<1>21. LastSaveHasAll(v)
  BY <1>1, <1>11, <1>12, <1>13 DEF LastSaveHasAll
<1>22. HasWhatIsStored(v, row, latest)
  BY <1>1, <1>11, <1>12, <1>13 DEF HasWhatIsStored, Knows
<1>23. \A t \in Kept(w) : Carries(v, t)
  BY <1>11, <1>13 DEF Carries
<1> QED BY <1>11, <1>15, <1>16, <1>20, <1>21, <1>22, <1>23 DEF TabInv

\* The timer fires.
LEMMA TimerFiresKeeps ==
  ASSUME CollectionInv, NEW b \in Tabs, TimerFires(b)
  PROVE  CollectionInv'
<1>1. PICK w \in Tab : w = tab[b]
  BY DEF CollectionInv, CollectionTypes
<1>2. PICK e : e = [next |-> Persisted(w), closure |-> w.closure]
  OBVIOUS
<1>3. PICK x : x = [w EXCEPT !.armed = FALSE, !.closure = {}, !.queue = Append(@, e)]
  OBVIOUS
<1>4. PICK v : v = Begun(x)
  OBVIOUS
<1>5. Update(b, v) /\ w.open = "open" /\ w.armed /\ UNCHANGED <<stored, used, retired, time, changed>>
  BY <1>1, <1>2, <1>3, <1>4 DEF TimerFires
<1>6. PICK row, u, ch, latest : row = stored /\ u = used /\ ch = changed /\ latest = Latest
  OBVIOUS
<1>7. TabInv(w, row, u, ch, latest)
  BY <1>1, <1>6 DEF CollectionInv
<1>8. Core(w, u, ch, latest) /\ HasWhatIsStored(w, row, latest)
  BY <1>5, <1>7 DEF TabInv
<1>9. /\ v \in Tab /\ TabInv(v, row, u, ch, latest) /\ Secrets(v) \subseteq Secrets(w)
      /\ Mentions(v) \subseteq Mentions(w) /\ \A t \in Kept(w) : Carries(v, t)
  BY <1>2, <1>3, <1>4, <1>5, <1>8, Firing
<1>10. \A t : Carries(w, t) => Carries(v, t)
  BY <1>9 DEF Carries
<1> QED BY <1>1, <1>5, <1>6, <1>9, <1>10, TabMovesAlone

\* The save that runs moves on: it may save more, of threads the tab does not regard as drafts.
SaveMovesOn(w, v, more) ==
  /\ w.job # NoJob /\ v.job # NoJob
  /\ v.open = w.open /\ v.shown = w.shown /\ v.fresh = w.fresh /\ v.armed = w.armed /\ v.closure = w.closure
  /\ v.queue = w.queue /\ v.job.next = w.job.next /\ v.job.closure = w.job.closure
  /\ v.job.at = "loading" => v.job.attempt < 2
  /\ IdsOf(v.job.candidate) \subseteq IdsOf(w.job.candidate) \cup more /\ more \cap Secrets(w) = {}

\* What is sound of the tab stays so.
LEMMA SaveMoves ==
  ASSUME NEW w \in Tab, NEW v \in Tab, NEW u, NEW ch, NEW latest, NEW more, SaveMovesOn(w, v, more),
         Sound(v.job.candidate, u, ch), Core(w, u, ch, latest), LastSaveHasAll(w)
  PROVE  /\ Core(v, u, ch, latest) /\ LastSaveHasAll(v) /\ Kept(v) = Kept(w)
         /\ Secrets(v) = Secrets(w) /\ Mentions(v) \subseteq Mentions(w) \cup more
<1>1. Kept(v) = Kept(w) /\ Saves(v) = Saves(w) /\ Hidden(v) = Hidden(w)
  BY DEF Kept, Saves, Hidden, SaveMovesOn
<1>2. \A i \in Saves(w) : NextOf(v, i) = NextOf(w, i) /\ ClosureOf(v, i) = ClosureOf(w, i)
  BY DEF NextOf, ClosureOf, SaveMovesOn
<1>3. \A i \in Saves(w) : SavedIds(v, i) \subseteq SavedIds(w, i) \cup more
  BY <1>2 DEF SavedIds, SaveMovesOn
<1>4. Secrets(v) = Secrets(w)
  BY <1>1, <1>2 DEF Secrets, SaveMovesOn
<1>5. Mentions(v) \subseteq Mentions(w) \cup more
  BY <1>1, <1>3 DEF Mentions, SaveMovesOn
<1>6. SecretsAreUnsaved(v)
  <2>1. ASSUME NEW i \in Saves(w), NEW id \in SavedIds(v, i)
        PROVE  id \notin w.fresh \cup Hidden(w) /\ \A j \in Saves(w) : i <= j => id \notin ClosureOf(w, j)
    <3>1. CASE id \in more
      <4>1. id \notin Secrets(w)
        BY <3>1 DEF SaveMovesOn
      <4> QED BY <4>1 DEF Secrets
    <3>2. CASE id \in SavedIds(w, i)
      BY <3>2 DEF Core, SecretsAreUnsaved
    <3> QED BY <1>3, <2>1, <3>1, <3>2
  <2> QED BY <1>1, <1>2, <2>1 DEF Core, SecretsAreUnsaved, SaveMovesOn
<1>7. ListsAreSound(v, u, ch) /\ SavesAreKept(v, latest)
  BY <1>1, <1>2 DEF Core, ListsAreSound, SavesAreKept, SaveMovesOn
<1>8. Core(v, u, ch, latest)
  BY <1>4, <1>6, <1>7 DEF Core, SaveMovesOn
<1>9. LastSaveHasAll(v)
  BY <1>1 DEF LastSaveHasAll, NextOf, SaveMovesOn
<1> QED BY <1>1, <1>4, <1>5, <1>8, <1>9

AreLatest(latest, ch) == \A t \in latest : t.at = ch[t.id]

\* What a sound list has of the latest versions, a merge with another sound list keeps.
LEMMA MergeKeepsTheLatest ==
  ASSUME NEW p, NEW f, NEW u \in SUBSET ThreadIds, NEW ch \in [ThreadIds -> Nat], NEW latest, NEW m, m = MergeThreads(p, f),
         Sound(p, u, ch), Sound(f, u, ch), AreLatest(latest, ch)
  PROVE  Sound(m, u, ch) /\ IdsOf(m) \subseteq IdsOf(p) \cup IdsOf(f) /\ (ToSet(p) \cup ToSet(f)) \cap latest \subseteq ToSet(m)
<1>1. p \in Collection /\ f \in Collection /\ Distinct(f)
  BY DEF Sound
<1>2. /\ m \in Collection /\ Distinct(m) /\ ToSet(m) \subseteq ToSet(p) \cup ToSet(f)
      /\ \A t \in ToSet(p) \cup ToSet(f) :
           (\A x \in ToSet(p) \cup ToSet(f) : x.id = t.id => x.at <= t.at) => t \in ToSet(m)
  BY <1>1, MergeIsSound
<1>3. \A x \in ToSet(p) \cup ToSet(f) : x.id \in u /\ x.at <= ch[x.id]
  BY DEF Sound
<1>4. ASSUME NEW t \in (ToSet(p) \cup ToSet(f)) \cap latest PROVE t \in ToSet(m)
  <2>1. \A x \in ToSet(p) \cup ToSet(f) : x.id = t.id => x.at <= t.at
    BY <1>3 DEF AreLatest
  <2> QED BY <1>2, <2>1
<1>5. IdsOf(m) \subseteq IdsOf(p) \cup IdsOf(f)
  BY <1>2 DEF IdsOf
<1>6. Sound(m, u, ch)
  BY <1>2, <1>3 DEF Sound
<1> QED BY <1>4, <1>5, <1>6

\* The loaded row is merged into what is saved next.
MergedInto(w, v, row) ==
  /\ w.open = "open" /\ w.job # NoJob /\ w.job.at = "loading"
  /\ v.open = w.open /\ v.shown = w.shown /\ v.fresh = w.fresh /\ v.armed = w.armed /\ v.closure = w.closure
  /\ v.queue = w.queue /\ v.revision = row.revision /\ v.job # NoJob
  /\ v.job.next = w.job.next /\ v.job.closure = w.job.closure /\ v.job.at = "saving"
  /\ v.job.candidate = MergeThreads(w.job.candidate, row.threads)

\* A save that has merged the loaded row into what it saves has everything the row has.
LEMMA Merging ==
  ASSUME NEW w \in Tab, NEW v \in Tab, NEW row, NEW u \in SUBSET ThreadIds, NEW ch \in [ThreadIds -> Nat], NEW latest,
         MergedInto(w, v, row), Core(w, u, ch, latest), LastSaveHasAll(w),
         row.revision \in Nat, Sound(row.threads, u, ch), AreLatest(latest, ch), Secrets(w) \cap IdsOf(row.threads) = {}
  PROVE  /\ TabInv(v, row, u, ch, latest) /\ Secrets(v) = Secrets(w)
         /\ Mentions(v) \subseteq Mentions(w) \cup IdsOf(row.threads)
         /\ \A t \in Kept(w) : Carries(v, t)
<1>1. PICK m, more : m = MergeThreads(w.job.candidate, row.threads) /\ more = IdsOf(row.threads)
  OBVIOUS
<1>2. Sound(w.job.candidate, u, ch)
  BY DEF Core, ListsAreSound, MergedInto
<1>3. Sound(m, u, ch) /\ IdsOf(m) \subseteq IdsOf(w.job.candidate) \cup more /\ ToSet(row.threads) \cap latest \subseteq ToSet(m)
  <2>1. PICK p, f : p = w.job.candidate /\ f = row.threads
    OBVIOUS
  <2>2. Sound(p, u, ch) /\ Sound(f, u, ch) /\ m = MergeThreads(p, f)
    BY <1>1, <1>2, <2>1
  <2>3. Sound(m, u, ch) /\ IdsOf(m) \subseteq IdsOf(p) \cup IdsOf(f) /\ (ToSet(p) \cup ToSet(f)) \cap latest \subseteq ToSet(m)
    BY <2>2, MergeKeepsTheLatest
  <2> QED BY <1>1, <2>1, <2>3
<1>4. SaveMovesOn(w, v, more)
  BY <1>1, <1>3 DEF SaveMovesOn, MergedInto
<1>5. /\ Core(v, u, ch, latest) /\ LastSaveHasAll(v) /\ Kept(v) = Kept(w)
      /\ Secrets(v) = Secrets(w) /\ Mentions(v) \subseteq Mentions(w) \cup IdsOf(row.threads)
  <2>1. Sound(v.job.candidate, u, ch)
    BY <1>1, <1>3 DEF MergedInto
  <2> QED BY <1>1, <1>4, <2>1, SaveMoves
<1>6. HasWhatIsStored(v, row, latest)
  <2>1. v.revision = row.revision /\ v.job # NoJob /\ v.job.at = "saving" /\ v.job.candidate = m
    BY <1>1 DEF MergedInto
  <2>2. row.revision \in 0..row.revision
    OBVIOUS
  <2>3. Knows(v, row, latest)
    BY <1>3, <2>1, <2>2 DEF Knows
  <2> QED BY <1>3, <2>1, <2>3 DEF HasWhatIsStored
<1>7. v.open = "open" /\ \A t \in Kept(w) : Carries(v, t)
  BY <1>5 DEF Carries, MergedInto
<1> QED BY <1>5, <1>6, <1>7 DEF TabInv

\* What the proofs of the steps start from.
LEMMA TabAndRow ==
  ASSUME CollectionInv, NEW b \in Tabs
  PROVE  /\ tab[b] \in Tab /\ TabInv(tab[b], stored, used, changed, Latest)
         /\ used \in SUBSET ThreadIds /\ changed \in [ThreadIds -> Nat] /\ changed \in [ThreadIds -> 0..MaxTime]
         /\ stored.revision \in Nat /\ Sound(stored.threads, used, changed)
         /\ \A t \in Latest : t \in Thread /\ t.at = changed[t.id] /\ t.id \in used
         /\ Secrets(tab[b]) \cap IdsOf(stored.threads) = {}
<1>1. changed \in [ThreadIds -> 0..MaxTime] /\ changed \in [ThreadIds -> Nat]
  BY WorkspaceAssumption DEF CollectionInv, CollectionTypes
<1>2. \A t \in Latest : t \in Thread /\ t.at = changed[t.id] /\ t.id \in used
  BY DEF Latest
<1> QED BY <1>1, <1>2 DEF CollectionInv, CollectionTypes, RowIsSound, SecretsAreOwn

\* What a load answers is the row.
LEMMA GetCollectionIsTheRow ==
  ASSUME RowIsSound
  PROVE  GetCollection.revision = stored.revision /\ GetCollection.threads = stored.threads
BY DEF RowIsSound, GetCollection

\* A load after a conflict.
LEMMA ReloadedKeeps ==
  ASSUME CollectionInv, NEW b \in Tabs, Reloaded(b)
  PROVE  CollectionInv'
<1>1. PICK w \in Tab : w = tab[b]
  BY TabAndRow
<1>a. PICK row, latest : row = stored /\ latest = Latest
  OBVIOUS
<1>b. PICK u \in SUBSET ThreadIds : u = used
  BY TabAndRow
<1>c. PICK ch \in [ThreadIds -> Nat] : ch = changed
  BY TabAndRow
<1>2. PICK m, attempt, revision :
        /\ m = MergeThreads(w.job.candidate, GetCollection.threads)
        /\ attempt = w.job.attempt + 1 /\ revision = GetCollection.revision
  OBVIOUS
<1>3. PICK job : job = [w.job EXCEPT !.candidate = m, !.attempt = attempt, !.at = "saving"]
  OBVIOUS
<1>d. PICK v : v = [w EXCEPT !.revision = revision, !.job = job]
  OBVIOUS
<1>e. m = MergeThreads(w.job.candidate, row.threads) /\ revision = row.revision
  <2>1. GetCollection.revision = row.revision /\ GetCollection.threads = row.threads
    BY <1>a, GetCollectionIsTheRow DEF CollectionInv
  <2> QED BY <1>2, <2>1
<1>4. Update(b, v) /\ w.job # NoJob /\ w.job.at = "loading" /\ UNCHANGED <<stored, used, retired, time, changed>>
  BY <1>1, <1>2, <1>3, <1>d DEF Reloaded
<1>5. /\ TabInv(w, row, u, ch, latest) /\ row.revision \in Nat /\ Sound(row.threads, u, ch)
      /\ AreLatest(latest, ch) /\ Secrets(w) \cap IdsOf(row.threads) = {}
  BY <1>1, <1>a, <1>b, <1>c, TabAndRow DEF AreLatest
<1>6. w.open = "open"
  BY <1>4, <1>5, TabTypes DEF TabInv, ClosedTab
<1>7. Core(w, u, ch, latest) /\ LastSaveHasAll(w)
  BY <1>5, <1>6 DEF TabInv
<1>f. w.job \in Job /\ attempt \in 0..2 /\ m \in Collection
  <2>1. w.job \in Job /\ w.job.attempt < 2
    BY <1>4, <1>7, TabTypes DEF Core
  <2>2. Sound(w.job.candidate, u, ch)
    BY <1>4, <1>7 DEF Core, ListsAreSound
  <2>3. m \in Collection
    BY <1>5, <1>e, <2>2, MergeIsSound DEF Sound
  <2> QED BY <1>2, <2>1, <2>3, JobTypes
<1>g. job \in Job /\ job.next = w.job.next /\ job.closure = w.job.closure /\ job.at = "saving" /\ job.candidate = m
  BY <1>3, <1>f DEF Job
<1>h. v \in Tab
  <2>1. job \in Job \cup {NoJob} /\ revision \in Nat \cup {NoRevision}
    BY <1>5, <1>e, <1>g
  <2> QED BY <1>d, <2>1 DEF Tab
<1>i. MergedInto(w, v, row)
  <2>1. /\ v.open = w.open /\ v.shown = w.shown /\ v.fresh = w.fresh /\ v.armed = w.armed /\ v.closure = w.closure
        /\ v.queue = w.queue /\ v.job = job /\ v.revision = revision
    BY <1>d DEF Tab
  <2> QED BY <1>4, <1>6, <1>e, <1>g, <2>1, JobTypes DEF MergedInto
<1>8. /\ v \in Tab /\ TabInv(v, row, u, ch, latest) /\ Secrets(v) = Secrets(w)
      /\ Mentions(v) \subseteq Mentions(w) \cup IdsOf(row.threads)
      /\ \A t \in Kept(w) : Carries(v, t)
  BY <1>5, <1>7, <1>h, <1>i, Merging
<1>9. \A t : Carries(w, t) => Carries(v, t)
  BY <1>8 DEF Carries
<1> QED BY <1>1, <1>a, <1>b, <1>c, <1>4, <1>8, <1>9, TabMovesAlone

\* Ids are used and threads change, but what was not the latest version stays so.
Later(u, ch, latest, u2, ch2, latest2) ==
  /\ u \subseteq u2 /\ \A id \in u : ch[id] <= ch2[id]
  /\ \A t \in latest2 : t.id \in u /\ t.at <= ch[t.id] => t \in latest

\* A tab that shows other threads, and may have other drafts; more are ids used just now.
ShowsOther(w, v, more, latest2) ==
  /\ v.open = w.open /\ v.revision = w.revision /\ v.armed = w.armed /\ v.closure = w.closure
  /\ v.queue = w.queue /\ v.job = w.job
  /\ v.fresh \subseteq w.fresh \cup more
  /\ \A t \in Kept(v) : t.id \notin Hidden(w)
  /\ Kept(w) \cap latest2 \subseteq Kept(v)

RedrawnLater(w, v, row, more, u, u2, ch, ch2, latest, latest2) ==
  /\ Core(w, u, ch, latest) /\ Knows(w, row, latest) /\ Sound(row.threads, u, ch)
  /\ Later(u, ch, latest, u2, ch2, latest2) /\ ShowsOther(w, v, more, latest2)
  /\ more \subseteq u2 \ u /\ Sound(v.shown, u2, ch2)

\* What is sound of a tab stays so when it shows other threads.
LEMMA ShowingOthers ==
  ASSUME NEW w \in Tab, NEW v \in Tab, NEW row, NEW more, NEW u \in SUBSET ThreadIds, NEW u2,
         NEW ch \in [ThreadIds -> Nat], NEW ch2 \in [ThreadIds -> Nat], NEW latest, NEW latest2,
         RedrawnLater(w, v, row, more, u, u2, ch, ch2, latest, latest2)
  PROVE  /\ Core(v, u2, ch2, latest2) /\ Knows(v, row, latest2)
         /\ Secrets(v) \subseteq Secrets(w) \cup more /\ Mentions(v) \subseteq Mentions(w) \cup IdsOf(v.shown)
<1>0. /\ Core(w, u, ch, latest) /\ Knows(w, row, latest) /\ Sound(row.threads, u, ch)
      /\ Later(u, ch, latest, u2, ch2, latest2) /\ ShowsOther(w, v, more, latest2)
      /\ more \subseteq u2 \ u /\ Sound(v.shown, u2, ch2)
  BY DEF RedrawnLater
<1>1. Saves(v) = Saves(w) /\ Hidden(v) = Hidden(w) /\ v.job = w.job
  BY <1>0 DEF Saves, Hidden, ShowsOther
<1>2. \A i \in Saves(w) : NextOf(v, i) = NextOf(w, i) /\ ClosureOf(v, i) = ClosureOf(w, i) /\ SavedIds(v, i) = SavedIds(w, i)
  BY <1>0 DEF NextOf, ClosureOf, SavedIds, ShowsOther
<1>3. Secrets(v) \subseteq Secrets(w) \cup more
  BY <1>0, <1>1, <1>2 DEF Secrets, ShowsOther
<1>4. Mentions(v) \subseteq Mentions(w) \cup IdsOf(v.shown)
  BY <1>0, <1>1, <1>2 DEF Mentions
<1>5. ASSUME NEW c, Sound(c, u, ch) PROVE Sound(c, u2, ch2) /\ ToSet(c) \cap latest2 \subseteq latest /\ IdsOf(c) \subseteq u
  <2>1. Sound(c, u2, ch2)
    BY <1>0, <1>5, StaysSound DEF Later
  <2>2. \A t \in ToSet(c) : t.id \in u /\ t.at <= ch[t.id]
    BY <1>0, <1>5 DEF Sound
  <2> QED BY <1>0, <2>1, <2>2 DEF Later, IdsOf
<1>6. ASSUME NEW i \in Saves(w) PROVE SavedIds(w, i) \subseteq u
  <2>1. Sound(NextOf(w, i), u, ch) /\ Sound(w.job.candidate, u, ch)
    BY <1>0 DEF Core, ListsAreSound, Saves
  <2> QED BY <1>0, <1>5, <2>1 DEF SavedIds
<1>7. SecretsAreUnsaved(v)
  <2>1. ASSUME NEW i \in Saves(w), NEW id \in SavedIds(w, i)
        PROVE  id \notin v.fresh \cup Hidden(w) /\ \A j \in Saves(w) : i <= j => id \notin ClosureOf(w, j)
    <3>1. id \notin more
      BY <1>0, <1>6, <2>1
    <3> QED BY <1>0, <3>1 DEF Core, SecretsAreUnsaved, ShowsOther
  <2> QED BY <1>0, <1>1, <1>2, <2>1 DEF SecretsAreUnsaved, ShowsOther
<1>8. ListsAreSound(v, u2, ch2)
  BY <1>0, <1>1, <1>2, <1>5 DEF Core, ListsAreSound
<1>9. SavesAreKept(v, latest2)
  <2>1. ASSUME NEW i \in Saves(w) PROVE ToSet(NextOf(w, i)) \cap latest2 \subseteq Kept(v)
    <3>1. ToSet(NextOf(w, i)) \cap latest2 \subseteq latest
      BY <1>0, <1>5 DEF Core, ListsAreSound
    <3>2. ToSet(NextOf(w, i)) \cap latest \subseteq Kept(w)
      BY <1>0 DEF Core, SavesAreKept
    <3> QED BY <1>0, <3>1, <3>2 DEF ShowsOther
  <2> QED BY <1>0, <1>1, <1>2, <2>1 DEF SavesAreKept
<1>10. Core(v, u2, ch2, latest2)
  <2>1. Secrets(v) \subseteq u2
    BY <1>0, <1>3 DEF Core, Later
  <2> QED BY <1>0, <1>1, <1>7, <1>8, <1>9, <2>1 DEF Core, ShowsOther
<1>11. Knows(v, row, latest2)
  <2>1. ToSet(row.threads) \cap latest2 \subseteq latest
    BY <1>0, <1>5
  <2> QED BY <1>0, <1>1, <2>1 DEF Knows, ShowsOther
<1> QED BY <1>3, <1>4, <1>10, <1>11

\* A save that was stored, and what the tab is then.
Stored(w, x, y, row, row2) ==
  /\ w.open = "open" /\ w.job # NoJob /\ w.revision = row.revision
  /\ row2.revision = row.revision + 1 /\ row2.threads = w.job.candidate
  /\ x.open = w.open /\ x.shown = w.shown /\ x.fresh = w.fresh /\ x.armed = w.armed /\ x.closure = w.closure
  /\ x.queue = w.queue /\ x.job = NoJob /\ x.revision = row2.revision /\ y = Begun(x)

\* What was saved beyond what the tab asked for is shown.
Result(w, y) ==
  IF w.job.candidate = w.job.next THEN y
  ELSE Rendered([y EXCEPT !.shown = MergeVisible(w.shown, w.job.candidate, w.job.closure)])

StoredAs(w, x, y, v, row, row2, u, ch, latest) ==
  /\ Stored(w, x, y, row, row2) /\ row.revision \in Nat
  /\ TabInv(w, row, u, ch, latest) /\ AreLatest(latest, ch) /\ v = Result(w, y)

\* After a save that was stored the tab is sound, and what was stored or carried before
\* is stored or carried now.
LEMMA Finishing ==
  ASSUME NEW w \in Tab, NEW x \in Tab, NEW y, NEW row, NEW row2, NEW u \in SUBSET ThreadIds,
         NEW ch \in [ThreadIds -> Nat], NEW latest, NEW v, StoredAs(w, x, y, v, row, row2, u, ch, latest)
  PROVE  /\ v \in Tab /\ TabInv(v, row2, u, ch, latest)
         /\ Secrets(v) \subseteq Secrets(w) /\ Mentions(v) \subseteq Mentions(w)
         /\ Secrets(v) \cap IdsOf(row2.threads) = {} /\ IdsOf(row2.threads) \subseteq Mentions(w)
         /\ \A t \in latest : t \in ToSet(row.threads) \/ Carries(w, t) => t \in ToSet(row2.threads) \/ Carries(v, t)
         /\ Sound(row2.threads, u, ch)
<1>0. /\ Stored(w, x, y, row, row2) /\ row.revision \in Nat
      /\ TabInv(w, row, u, ch, latest) /\ AreLatest(latest, ch) /\ v = Result(w, y)
  BY DEF StoredAs
<1>1. w.open = "open" /\ w.job # NoJob /\ row2.threads = w.job.candidate
  BY <1>0 DEF Stored
<1>2. Core(w, u, ch, latest) /\ LastSaveHasAll(w) /\ HasWhatIsStored(w, row, latest)
  BY <1>0, <1>1 DEF TabInv
<1>3. PICK c, n : c = w.job.candidate /\ n = w.job.next
  OBVIOUS
<1>4. 0 \in Saves(w) /\ SavedIds(w, 0) = IdsOf(n) \cup IdsOf(c) /\ NextOf(w, 0) = n /\ ClosureOf(w, 0) = w.job.closure
  BY <1>1, <1>3, QueueTypes DEF Saves, SavedIds, NextOf, ClosureOf
<1>5. IdsOf(c) \cap Secrets(w) = {} /\ IdsOf(c) \subseteq Mentions(w)
  <2>1. \A id \in IdsOf(c) : id \notin w.fresh \cup Hidden(w) /\ \A j \in Saves(w) : 0 <= j => id \notin ClosureOf(w, j)
    BY <1>2, <1>4 DEF Core, SecretsAreUnsaved
  <2>2. \A j \in Saves(w) : 0 <= j
    BY QueueTypes DEF Saves
  <2>3. IdsOf(c) \cap Secrets(w) = {}
    BY <2>1, <2>2 DEF Secrets
  <2> QED BY <1>4, <2>3 DEF Mentions
<1>6. Sound(c, u, ch) /\ Sound(w.shown, u, ch)
  BY <1>1, <1>2, <1>3 DEF Core, ListsAreSound
<1>7. /\ y \in Tab /\ y.open = "open" /\ y.revision = row2.revision /\ y.shown = w.shown
      /\ y.fresh = w.fresh /\ y.armed = w.armed /\ y.closure = w.closure
      /\ Core(y, u, ch, latest) /\ LastSaveHasAll(y)
      /\ Secrets(y) \subseteq Secrets(w) /\ Mentions(y) \subseteq Mentions(w) /\ Kept(y) = Kept(w)
      /\ IF w.queue = <<>> THEN y.job = NoJob /\ y.queue = <<>>
         ELSE /\ y.job # NoJob /\ y.job.at = "saving" /\ y.job.candidate = y.job.next
              /\ y.queue = Tail(w.queue)
              /\ y.queue = <<>> => y.job.next = NextOf(w, Len(w.queue))
  <2>1. /\ x.open = w.open /\ x.shown = w.shown /\ x.fresh = w.fresh /\ x.armed = w.armed /\ x.closure = w.closure
        /\ x.queue = w.queue /\ x.job = NoJob /\ x.revision = row2.revision /\ y = Begun(x)
    BY <1>0 DEF Stored
  <2> QED BY <1>1, <1>2, <2>1, Beginning
<1>8. row2.revision \in 0..row2.revision
  BY <1>0 DEF Stored
<1>a. PICK shown : shown = MergeVisible(w.shown, w.job.candidate, w.job.closure)
  OBVIOUS
<1>b. PICK z : z = [y EXCEPT !.shown = shown]
  OBVIOUS
<1>9. CASE c = n
  <2>1. v = y
    BY <1>0, <1>3, <1>9 DEF Result
  <2>2. ToSet(c) \cap latest \subseteq Kept(w)
    BY <1>2, <1>4, <1>9 DEF Core, SavesAreKept
  <2>3. Knows(y, row2, latest)
    BY <1>1, <1>3, <1>7, <1>8, <2>2 DEF Knows
  <2>4. ASSUME ~y.armed, y.job # NoJob, y.queue = <<>> PROVE Kept(w) \subseteq ToSet(y.job.candidate)
    BY <1>1, <1>2, <1>7, <2>4 DEF LastSaveHasAll
  <2>5. HasWhatIsStored(y, row2, latest)
    BY <1>1, <1>3, <2>2, <2>3, <2>4 DEF HasWhatIsStored
  <2>6. ASSUME NEW t \in latest, t \in ToSet(row.threads) \/ Carries(w, t), t \notin ToSet(c) PROVE Carries(y, t)
    <3>1. t \in Kept(w) /\ (w.armed \/ w.queue # <<>>)
      <4>1. CASE t \in ToSet(row.threads)
        <5>1. w.revision = row.revision
          BY <1>0 DEF Stored
        <5>2. t \in Kept(w)
          BY <1>1, <1>2, <1>3, <2>6, <4>1, <5>1 DEF HasWhatIsStored, Knows
        <5>3. w.armed \/ w.queue # <<>>
          BY <1>1, <1>2, <1>3, <2>6, <4>1, <5>1 DEF HasWhatIsStored
        <5> QED BY <5>2, <5>3
      <4>2. CASE Carries(w, t)
        <5>1. t \in Kept(w)
          BY <4>2 DEF Carries
        <5>2. ASSUME ~w.armed, w.queue = <<>> PROVE FALSE
          <6>1. Len(w.queue) = 0
            BY <5>2
          <6>2. Kept(w) \subseteq ToSet(n)
            BY <1>1, <1>2, <1>4, <5>2, <6>1 DEF LastSaveHasAll
          <6> QED BY <1>9, <2>6, <5>1, <6>2
        <5> QED BY <5>1, <5>2
      <4> QED BY <2>6, <4>1, <4>2
    <3> QED BY <1>7, <3>1 DEF Carries
  <2>7. TabInv(y, row2, u, ch, latest)
    BY <1>7, <2>5 DEF TabInv
  <2> QED BY <1>1, <1>3, <1>5, <1>6, <1>7, <2>1, <2>6, <2>7
<1>10. CASE c # n
  <2>1. v = Rendered(z)
    BY <1>0, <1>3, <1>a, <1>b, <1>10 DEF Result
  <2>2. w.shown \in Collection /\ c \in Collection /\ Distinct(w.shown) /\ Distinct(c)
    BY <1>6 DEF Sound
  <2>3. w.job.closure \cap IdsOf(c) = {}
    BY <1>4, <1>5 DEF Secrets
  <2>4. /\ shown \in Collection /\ ToSet(shown) \subseteq ToSet(w.shown) \cup ToSet(c) /\ Distinct(shown)
        /\ \A t \in ToSet(w.shown) \cup ToSet(c) :
             (\A k \in ToSet(w.shown) \cup ToSet(c) : k.id = t.id => k.at <= t.at) => t \in ToSet(shown)
    <3>1. PICK a, closure : a = w.shown /\ closure = w.job.closure
      OBVIOUS
    <3>2. shown = MergeVisible(a, c, closure) /\ a \in Collection /\ Distinct(a) /\ closure \cap IdsOf(c) = {}
      BY <1>3, <1>a, <2>2, <2>3, <3>1
    <3> QED BY <2>2, <3>1, <3>2, MergeVisibleIsSound
  <2>5. \A k \in ToSet(w.shown) \cup ToSet(c) : k.id \in u /\ k.at <= ch[k.id]
    BY <1>6 DEF Sound
  <2>6. (ToSet(w.shown) \cup ToSet(c)) \cap latest \subseteq ToSet(shown)
    BY <1>0, <2>4, <2>5 DEF AreLatest
  <2>7. Sound(shown, u, ch)
    BY <2>4, <2>5 DEF Sound
  <2>8. /\ z \in Tab /\ z.shown = shown /\ z.open = y.open /\ z.revision = y.revision /\ z.fresh = y.fresh
        /\ z.armed = y.armed /\ z.closure = y.closure /\ z.queue = y.queue /\ z.job = y.job
    BY <1>7, <1>b, <2>4 DEF Tab
  <2>9. Kept(w) \cap latest \subseteq Kept(z)
    BY <1>7, <2>6, <2>8 DEF Kept
  <2>10. ToSet(c) \cap latest \subseteq Kept(z)
    <3>1. \A t \in ToSet(c) : t.id \notin w.fresh
      BY <1>5 DEF Secrets, IdsOf
    <3> QED BY <1>7, <2>6, <2>8, <3>1 DEF Kept
  <2>11. \A t \in Kept(z) : t.id \notin Hidden(y)
    <3>1. Hidden(y) = Hidden(w)
      BY <1>7 DEF Hidden
    <3>2. ASSUME NEW t \in Kept(z) PROVE t.id \notin Hidden(w)
      <4>1. t \in ToSet(w.shown) \cup ToSet(c) /\ t.id \notin w.fresh
        BY <1>7, <2>4, <2>8 DEF Kept
      <4>2. CASE t \in ToSet(c)
        BY <1>5, <4>2 DEF Secrets, IdsOf
      <4>3. CASE t \in ToSet(w.shown)
        BY <1>2, <4>1, <4>3 DEF Kept, Core, SecretsAreUnsaved
      <4> QED BY <4>1, <4>2, <4>3
    <3> QED BY <3>1, <3>2
  <2>12. PICK none, bare : none = {} /\ bare = [revision |-> row2.revision, threads |-> <<>>]
    OBVIOUS
  <2>13. Knows(y, bare, latest) /\ Sound(bare.threads, u, ch) /\ bare.revision = row2.revision
    <3>1. bare.threads = <<>> /\ bare.revision = row2.revision /\ ToSet(<<>>) = {} /\ <<>> \in Collection
      BY <2>12 DEF ToSet, Collection
    <3>2. Knows(y, bare, latest)
      BY <1>7, <1>8, <3>1 DEF Knows
    <3> QED BY <3>1, <3>2 DEF Sound, Distinct
  <2>14. Later(u, ch, latest, u, ch, latest) /\ ShowsOther(y, z, none, latest)
    BY <1>7, <2>8, <2>9, <2>11, <2>12 DEF Later, ShowsOther
  <2>15. /\ Core(z, u, ch, latest) /\ Knows(z, bare, latest)
         /\ Secrets(z) \subseteq Secrets(y) \cup none /\ Mentions(z) \subseteq Mentions(y) \cup IdsOf(z.shown)
    <3>1. none \subseteq u \ u /\ Sound(z.shown, u, ch)
      BY <2>7, <2>8, <2>12
    <3>2. RedrawnLater(y, z, bare, none, u, u, ch, ch, latest, latest)
      BY <1>7, <2>13, <2>14, <3>1 DEF RedrawnLater
    <3>3. y \in Tab /\ z \in Tab
      BY <1>7, <2>8
    <3> QED BY <3>2, <3>3, ShowingOthers
  <2>16. Knows(z, row2, latest)
    BY <1>1, <1>3, <2>10, <2>13, <2>15 DEF Knows
  <2>17. /\ v \in Tab /\ TabInv(v, row2, u, ch, latest) /\ Secrets(v) \subseteq Secrets(z) /\ Mentions(v) = Mentions(z)
         /\ \A t \in Kept(z) : Carries(v, t)
    BY <1>7, <2>1, <2>8, <2>15, <2>16, Rendering
  <2>18. IdsOf(z.shown) \subseteq Mentions(w)
    <3>1. IdsOf(w.shown) \subseteq Mentions(w)
      BY DEF Mentions
    <3>2. IdsOf(z.shown) \subseteq IdsOf(w.shown) \cup IdsOf(c)
      BY <2>4, <2>8 DEF IdsOf
    <3> QED BY <1>5, <3>1, <3>2
  <2>19. ASSUME NEW t \in latest, t \in ToSet(row.threads) \/ Carries(w, t), t \notin ToSet(c) PROVE Carries(v, t)
    <3>1. t \in Kept(w)
      <4>1. w.revision = row.revision
        BY <1>0 DEF Stored
      <4> QED BY <1>1, <1>2, <1>3, <2>19, <4>1 DEF HasWhatIsStored, Knows, Carries
    <3> QED BY <2>9, <2>17, <3>1
  <2> QED BY <1>1, <1>3, <1>5, <1>6, <1>7, <2>12, <2>15, <2>17, <2>18, <2>19
<1> QED BY <1>9, <1>10

\* A save is stored, or meets a conflict, the third of which ends it with an alert.
LEMMA SaveAnsweredKeeps ==
  ASSUME CollectionInv, NEW b \in Tabs, SaveAnswered(b)
  PROVE  CollectionInv'
<1>1. PICK w \in Tab : w = tab[b]
  BY TabAndRow
<1>2. PICK row, latest : row = stored /\ latest = Latest
  OBVIOUS
<1>3. PICK u \in SUBSET ThreadIds : u = used
  BY TabAndRow
<1>4. PICK ch \in [ThreadIds -> Nat] : ch = changed
  BY TabAndRow
<1>5. /\ TabInv(w, row, u, ch, latest) /\ row.revision \in Nat /\ Sound(row.threads, u, ch)
      /\ AreLatest(latest, ch) /\ Secrets(w) \cap IdsOf(row.threads) = {}
  BY <1>1, <1>2, <1>3, <1>4, TabAndRow DEF AreLatest
<1>6. w.job # NoJob /\ w.job.at = "saving" /\ w.revision # NoRevision
  BY <1>1 DEF SaveAnswered
<1>7. w.open = "open"
  BY <1>5, <1>6, TabTypes DEF TabInv, ClosedTab
<1>8. Core(w, u, ch, latest) /\ LastSaveHasAll(w) /\ HasWhatIsStored(w, row, latest)
  BY <1>5, <1>7 DEF TabInv
<1>9. w.revision \in Nat
  BY <1>5, <1>8 DEF HasWhatIsStored, Knows
<1>10. UNCHANGED <<used, retired, time, changed>> /\ IF row.revision = w.revision
         THEN stored' = [revision |-> w.revision + 1, threads |-> w.job.candidate]
         ELSE stored' = row
  <2>1. HostPut(Sent, w.revision) = 200
    BY <1>9, SentIsAccepted
  <2>2. Write(w.revision, w.job.candidate) /\ UNCHANGED <<used, retired, time, changed>>
    BY <1>1, <2>1 DEF SaveAnswered, PutCollection
  <2> QED BY <1>2, <2>2 DEF Write
<1>11. CASE row.revision = w.revision
  <2>1. PICK row2 : row2 = [revision |-> row.revision + 1, threads |-> w.job.candidate]
    OBVIOUS
  <2>2. stored' = row2 /\ row2.revision = row.revision + 1 /\ row2.threads = w.job.candidate
    BY <1>10, <1>11, <2>1
  <2>3. PICK x : x = [w EXCEPT !.revision = stored'.revision, !.job = NoJob, !.issue = FALSE]
    OBVIOUS
  <2>4. PICK y : y = Begun(x)
    OBVIOUS
  <2>7. PICK v : v = Result(w, y)
    OBVIOUS
  <2>8. Update(b, v)
    <3>1. stored'.revision # stored.revision
      BY <1>2, <1>5, <2>2
    <3>2. Update(b, Saved(w, stored'.revision))
      BY <1>1, <3>1 DEF SaveAnswered
    <3>3. Saved(w, stored'.revision) = v
      BY <2>3, <2>4, <2>7 DEF Saved, Result
    <3> QED BY <3>2, <3>3
  <2>9. x \in Tab /\ Stored(w, x, y, row, row2)
    <3>1. stored'.revision \in Nat
      BY <1>5, <2>2
    <3>2. x \in Tab
      BY <2>3, <3>1 DEF Tab
    <3>3. /\ x.open = w.open /\ x.shown = w.shown /\ x.fresh = w.fresh /\ x.armed = w.armed /\ x.closure = w.closure
          /\ x.queue = w.queue /\ x.job = NoJob /\ x.revision = stored'.revision
      BY <2>3 DEF Tab
    <3> QED BY <1>6, <1>7, <1>11, <2>2, <2>4, <3>2, <3>3 DEF Stored
  <2>10. /\ v \in Tab /\ TabInv(v, row2, u, ch, latest)
         /\ Secrets(v) \subseteq Secrets(w) /\ Mentions(v) \subseteq Mentions(w)
         /\ Secrets(v) \cap IdsOf(row2.threads) = {} /\ IdsOf(row2.threads) \subseteq Mentions(w)
         /\ \A t \in latest : t \in ToSet(row.threads) \/ Carries(w, t) => t \in ToSet(row2.threads) \/ Carries(v, t)
         /\ Sound(row2.threads, u, ch)
    <3>1. StoredAs(w, x, y, v, row, row2, u, ch, latest) /\ x \in Tab
      BY <1>5, <2>7, <2>9 DEF StoredAs
    <3> QED BY <3>1, Finishing
  <2>11. Latest' = Latest
    BY <1>10 DEF Latest
  <2>12. /\ stored'.revision \in Nat /\ stored'.threads \in Collection /\ used' \subseteq ThreadIds
         /\ time' \in 0..MaxTime /\ changed' \in [ThreadIds -> 0..MaxTime] /\ ClockIsAhead'
    BY <1>5, <1>10, <2>2, <2>10 DEF CollectionInv, CollectionTypes, ClockIsAhead, Sound
  <2>13. RowIsSound'
    <3>1. stored'.revision # 0
      BY <1>5, <2>2
    <3> QED BY <1>3, <1>4, <1>10, <2>2, <2>10, <3>1 DEF RowIsSound
  <2>14. \A id \in used : changed[id] <= changed'[id]
    BY <1>10, TabAndRow
  <2>15. TabInv(v, stored', used', changed', Latest')
    BY <1>2, <1>3, <1>4, <1>10, <2>2, <2>10, <2>11
  <2>16. \A t \in Latest' : t \in Latest => (t \in ToSet(stored.threads) \/ Carries(w, t) => t \in ToSet(stored'.threads) \/ Carries(v, t))
    BY <1>2, <2>2, <2>10, <2>11
  <2> QED BY <1>1, <1>2, <1>10, <2>2, <2>8, <2>10, <2>11, <2>12, <2>13, <2>14, <2>15, <2>16, TabMoves
<1>12. CASE row.revision # w.revision
  <2>1. stored' = stored
    BY <1>2, <1>10, <1>12
  <2>2. CASE w.job.attempt < 2
    <3>1. PICK job : job = [w.job EXCEPT !.at = "loading"]
      OBVIOUS
    <3>2. PICK v : v = [w EXCEPT !.job = job]
      OBVIOUS
    <3>3. Update(b, v)
      BY <1>1, <2>1, <2>2, <3>1, <3>2 DEF SaveAnswered
    <3>4. w.job \in Job
      BY <1>6, TabTypes
    <3>5. /\ job \in Job /\ job.next = w.job.next /\ job.candidate = w.job.candidate
          /\ job.closure = w.job.closure /\ job.attempt = w.job.attempt
      BY <3>1, <3>4 DEF Job
    <3>6. v \in Tab
      <4>1. job \in Job \cup {NoJob}
        BY <3>5
      <4> QED BY <3>2, <4>1 DEF Tab
    <3>7. /\ v.open = w.open /\ v.shown = w.shown /\ v.fresh = w.fresh /\ v.armed = w.armed /\ v.closure = w.closure
          /\ v.queue = w.queue /\ v.job = job /\ v.revision = w.revision
      BY <3>2 DEF Tab
    <3>8. PICK none : none = {}
      OBVIOUS
    <3>9. SaveMovesOn(w, v, none) /\ v.job # NoJob
      <4>1. job # NoJob
        BY <3>5, JobTypes
      <4> QED BY <1>6, <2>2, <3>5, <3>7, <3>8, <4>1 DEF SaveMovesOn
    <3>10. Sound(v.job.candidate, u, ch)
      BY <1>6, <1>8, <3>5, <3>7 DEF Core, ListsAreSound
    <3>11. /\ Core(v, u, ch, latest) /\ LastSaveHasAll(v) /\ Kept(v) = Kept(w)
           /\ Secrets(v) = Secrets(w) /\ Mentions(v) \subseteq Mentions(w) \cup none
      BY <1>8, <3>6, <3>9, <3>10, SaveMoves
    <3>12. HasWhatIsStored(v, row, latest)
      BY <1>8, <1>12, <3>7 DEF HasWhatIsStored, Knows
    <3>13. TabInv(v, row, u, ch, latest)
      BY <1>7, <3>7, <3>11, <3>12 DEF TabInv
    <3>14. \A t : Carries(w, t) => Carries(v, t)
      BY <3>7, <3>9, <3>11 DEF Carries
    <3> QED BY <1>1, <1>2, <1>3, <1>4, <1>10, <2>1, <3>3, <3>6, <3>8, <3>11, <3>13, <3>14, TabMovesAlone
  <2>3. CASE ~(w.job.attempt < 2)
    <3>1. PICK x : x = [w EXCEPT !.job = NoJob, !.issue = TRUE]
      OBVIOUS
    <3>2. PICK v : v = Begun(x)
      OBVIOUS
    <3>3. Update(b, v)
      BY <1>1, <2>1, <2>3, <3>1, <3>2 DEF SaveAnswered, Failed
    <3>4. x \in Tab
      BY <3>1 DEF Tab
    <3>5. /\ x.open = w.open /\ x.shown = w.shown /\ x.fresh = w.fresh /\ x.armed = w.armed /\ x.closure = w.closure
          /\ x.queue = w.queue /\ x.job = NoJob /\ x.revision = w.revision /\ x.issue = TRUE
      BY <3>1 DEF Tab
    <3>6. /\ v \in Tab /\ v.open = "open" /\ v.revision = x.revision /\ v.issue = x.issue
          /\ Core(v, u, ch, latest) /\ LastSaveHasAll(v)
          /\ Secrets(v) \subseteq Secrets(w) /\ Mentions(v) \subseteq Mentions(w) /\ Kept(v) = Kept(w)
      BY <1>6, <1>7, <1>8, <3>2, <3>4, <3>5, Beginning
    <3>7. HasWhatIsStored(v, row, latest)
      BY <1>8, <1>12, <3>5, <3>6 DEF HasWhatIsStored, Knows
    <3>8. TabInv(v, row, u, ch, latest)
      BY <3>6, <3>7 DEF TabInv
    <3>9. \A t : Carries(w, t) => Carries(v, t)
      BY <3>5, <3>6 DEF Carries
    <3> QED BY <1>1, <1>2, <1>3, <1>4, <1>10, <2>1, <3>3, <3>6, <3>8, <3>9, TabMovesAlone
  <2> QED BY <2>2, <2>3
<1> QED BY <1>11, <1>12

\* A thread has another last change, or there are new drafts.
LEMMA LatestOfMore ==
  ASSUME CollectionInv, used' = used \cup NewIds \/ used' = used, changed' = changed, retired \subseteq retired'
  PROVE  Latest' = {t \in Latest : t.id \notin retired'}
<1>1. \A id \in NewIds : id \in ThreadIds /\ id \notin used
  BY DraftsAreNew DEF CollectionInv, CollectionTypes
<1>2. \A id \in NewIds : changed[id] = 0
  BY <1>1 DEF CollectionInv, ClockIsAhead
<1>3. \A id \in used' \ used : changed[id] = 0
  BY <1>2
<1> QED BY <1>3 DEF Latest

\* New drafts in front of a sound list.
LEMMA DraftsInFront ==
  ASSUME CollectionInv, NEW c, Sound(c, used, changed), NEW d, d = Drafts \o c
  PROVE  /\ Sound(d, used \cup NewIds, changed) /\ ToSet(d) = ToSet(Drafts) \cup ToSet(c)
         /\ {t \in ToSet(d) : t.id \notin NewIds} = ToSet(c)
         /\ IdsOf(d) \subseteq IdsOf(c) \cup NewIds
<1>1. /\ NewIds \subseteq ThreadIds /\ NewIds \cap used = {}
      /\ Drafts \in Collection /\ Distinct(Drafts)
      /\ \A t \in ToSet(Drafts) : t.id \in NewIds /\ t.at = 0
  BY DraftsAreNew DEF CollectionInv, CollectionTypes
<1>2. c \in Collection /\ Distinct(c) /\ \A t \in ToSet(c) : t.id \in used /\ t.at <= changed[t.id]
  BY DEF Sound
<1>3. d \in Collection /\ ToSet(d) = ToSet(Drafts) \cup ToSet(c)
  <2>1. PICK e, g : e = Drafts /\ g = c
    OBVIOUS
  <2>2. e \in Seq(Thread) /\ g \in Seq(Thread)
    BY <1>1, <1>2, <2>1 DEF Collection
  <2>3. e \o g \in Seq(Thread) /\ ToSet(e \o g) = ToSet(e) \cup ToSet(g)
    BY <2>2, ToSetConcat
  <2> QED BY <2>1, <2>3 DEF Collection
<1>4. \A id \in ThreadIds : 0 <= changed[id]
  BY DEF CollectionInv, CollectionTypes
<1>5. ASSUME NEW t \in ToSet(d) PROVE t.id \in used \cup NewIds /\ t.at <= changed[t.id]
  BY <1>1, <1>2, <1>3, <1>4, <1>5
<1>6. Distinct(d)
  <2> SUFFICES ASSUME NEW s \in ToSet(d), NEW t \in ToSet(d), s.id = t.id PROVE s = t
    BY DEF Distinct
  <2> QED BY <1>1, <1>2, <1>3 DEF Distinct
<1>7. Sound(d, used \cup NewIds, changed)
  BY <1>3, <1>5, <1>6 DEF Sound
<1>8. {t \in ToSet(d) : t.id \notin NewIds} = ToSet(c)
  BY <1>1, <1>2, <1>3
<1>9. IdsOf(d) \subseteq IdsOf(c) \cup NewIds
  BY <1>1, <1>3 DEF IdsOf
<1> QED BY <1>3, <1>7, <1>8, <1>9

\* A tab shows other threads and renders them.
RedrawnAs(w, x, v, row, more, u, u2, ch, ch2, latest, latest2) ==
  /\ w.open = "open" /\ v = Rendered(x) /\ TabInv(w, row, u, ch, latest) /\ Sound(row.threads, u, ch)
  /\ Later(u, ch, latest, u2, ch2, latest2) /\ ShowsOther(w, x, more, latest2)
  /\ more \subseteq u2 \ u /\ Sound(x.shown, u2, ch2)

\* What is sound of the tab then, and what it still carries.
LEMMA Redrawing ==
  ASSUME NEW w \in Tab, NEW x \in Tab, NEW v, NEW row, NEW more, NEW u \in SUBSET ThreadIds, NEW u2,
         NEW ch \in [ThreadIds -> Nat], NEW ch2 \in [ThreadIds -> Nat], NEW latest, NEW latest2,
         RedrawnAs(w, x, v, row, more, u, u2, ch, ch2, latest, latest2)
  PROVE  /\ v \in Tab /\ TabInv(v, row, u2, ch2, latest2)
         /\ Secrets(v) \subseteq Secrets(w) \cup more /\ Mentions(v) \subseteq Mentions(w) \cup IdsOf(x.shown)
         /\ \A t \in Kept(x) : Carries(v, t)
<1>1. Core(w, u, ch, latest) /\ Knows(w, row, latest)
  BY DEF TabInv, HasWhatIsStored, RedrawnAs
<1>2. RedrawnLater(w, x, row, more, u, u2, ch, ch2, latest, latest2)
  BY <1>1 DEF RedrawnLater, RedrawnAs
<1>3. /\ Core(x, u2, ch2, latest2) /\ Knows(x, row, latest2)
      /\ Secrets(x) \subseteq Secrets(w) \cup more /\ Mentions(x) \subseteq Mentions(w) \cup IdsOf(x.shown)
  BY <1>2, ShowingOthers
<1>4. x.open = "open" /\ v = Rendered(x)
  BY DEF ShowsOther, RedrawnAs
<1>5. /\ v \in Tab /\ TabInv(v, row, u2, ch2, latest2) /\ Secrets(v) \subseteq Secrets(x) /\ Mentions(v) = Mentions(x)
      /\ \A t \in Kept(x) : Carries(v, t)
  BY <1>3, <1>4, Rendering
<1> QED BY <1>3, <1>5

\* The same as a step of the workspace that leaves the row alone.
LEMMA TabIsRedrawn ==
  ASSUME CollectionInv, NEW b \in Tabs, NEW w \in Tab, w = tab[b], w.open = "open", NEW x \in Tab, NEW v, v = Rendered(x),
         Update(b, v), stored' = stored, used \subseteq used', used' \subseteq ThreadIds,
         time' \in 0..MaxTime, changed' \in [ThreadIds -> 0..MaxTime], ClockIsAhead',
         Later(used, changed, Latest, used', changed', Latest'),
         ShowsOther(w, x, used' \ used, Latest'), Sound(x.shown, used', changed'),
         IdsOf(x.shown) \subseteq IdsOf(w.shown) \cup (used' \ used),
         \A t \in Latest' : t \notin Latest => t \in Kept(x)
  PROVE  CollectionInv'
<1>1. PICK row, more, u2, latest, latest2 :
        row = stored /\ more = used' \ used /\ u2 = used' /\ latest = Latest /\ latest2 = Latest'
  OBVIOUS
<1>2. PICK u \in SUBSET ThreadIds : u = used
  BY TabAndRow
<1>3. PICK ch \in [ThreadIds -> Nat] : ch = changed
  BY TabAndRow
<1>4. PICK ch2 \in [ThreadIds -> Nat] : ch2 = changed'
  BY WorkspaceAssumption
<1>5. TabInv(w, row, u, ch, latest) /\ Sound(row.threads, u, ch) /\ row.revision \in Nat
  BY <1>1, <1>2, <1>3, TabAndRow
<1>6. RedrawnAs(w, x, v, row, more, u, u2, ch, ch2, latest, latest2)
  BY <1>1, <1>2, <1>3, <1>4, <1>5 DEF RedrawnAs
<1>7. /\ v \in Tab /\ TabInv(v, row, u2, ch2, latest2)
      /\ Secrets(v) \subseteq Secrets(w) \cup more /\ Mentions(v) \subseteq Mentions(w) \cup IdsOf(x.shown)
      /\ \A t \in Kept(x) : Carries(v, t)
  BY <1>6, Redrawing
<1>8. Secrets(v) \cap IdsOf(stored'.threads) = {}
  <2>1. IdsOf(row.threads) \subseteq u
    BY <1>5 DEF Sound, IdsOf
  <2>2. Secrets(w) \cap IdsOf(row.threads) = {}
    BY <1>1, TabAndRow
  <2> QED BY <1>1, <1>2, <1>7, <2>1, <2>2
<1>9. Mentions(v) \subseteq Mentions(w) \cup (used' \ used)
  <2>1. IdsOf(w.shown) \subseteq Mentions(w)
    BY DEF Mentions
  <2> QED BY <1>7, <2>1
<1>10. RowIsSound'
  <2>1. Sound(row.threads, u2, ch2)
    BY <1>1, <1>2, <1>3, <1>4, <1>5, StaysSound DEF Later
  <2> QED BY <1>1, <1>4, <2>1 DEF CollectionInv, RowIsSound
<1>11. \A t \in Latest' : t \in Latest => (t \in ToSet(stored.threads) \/ Carries(w, t) => t \in ToSet(stored'.threads) \/ Carries(v, t))
  BY <1>7 DEF Carries, ShowsOther
<1>12. \A t \in Latest' : t \notin Latest => t \in ToSet(stored'.threads) \/ Carries(v, t)
  BY <1>7
<1>13. stored'.revision \in Nat /\ stored'.threads \in Collection
  BY DEF CollectionInv, CollectionTypes
<1>14. /\ \A id \in used : changed[id] <= changed'[id]
       /\ \A t \in Latest' : t.id \in used /\ t.at <= changed[t.id] => t \in Latest
  BY DEF Later
<1>15. TabInv(v, stored', used', changed', Latest')
  BY <1>1, <1>4, <1>7
<1> QED BY <1>1, <1>7, <1>8, <1>9, <1>10, <1>11, <1>12, <1>13, <1>14, <1>15, TabMoves

\* A thread changes: its earlier versions are the latest no longer.  Here the draft must not
\* be one that the running timer closed over.
LEMMA ChangeThreadKeeps ==
  ASSUME ~QuickFirst, CollectionInv, NEW b \in Tabs, NEW id \in ThreadIds, ChangeThread(b, id)
  PROVE  CollectionInv'
<1>1. PICK w \in Tab : w = tab[b]
  BY TabAndRow
<1>2. PICK at : at = time + 1
  OBVIOUS
<1>3. PICK c : c = w.shown
  OBVIOUS
<1>4. PICK shown : shown = [i \in DOMAIN c |-> IF c[i].id = id THEN [c[i] EXCEPT !.at = at] ELSE c[i]]
  OBVIOUS
<1>5. PICK x : x = [w EXCEPT !.fresh = @ \ {id}, !.shown = shown]
  OBVIOUS
<1>6. PICK v : v = Rendered(x)
  OBVIOUS
<1>7. /\ w.open = "open" /\ id \in IdsOf(c) /\ id \notin w.fresh \cap w.closure /\ time < MaxTime /\ time' = at
      /\ changed' = [changed EXCEPT ![id] = at] /\ UNCHANGED <<stored, used, retired>>
      /\ Update(b, v)
  BY <1>1, <1>2, <1>3, <1>4, <1>5, <1>6 DEF ChangeThread
<1>8. /\ TabInv(w, stored, used, changed, Latest) /\ changed \in [ThreadIds -> 0..MaxTime]
      /\ Sound(stored.threads, used, changed) /\ used \subseteq ThreadIds
  BY <1>1, TabAndRow
<1>9. Core(w, used, changed, Latest) /\ Sound(c, used, changed)
  BY <1>3, <1>7, <1>8 DEF TabInv, Core, ListsAreSound
<1>10. at \in 0..MaxTime /\ \A i \in ThreadIds : changed[i] < at
  <2>1. time \in 0..MaxTime /\ \A i \in ThreadIds : changed[i] <= time
    BY DEF CollectionInv, CollectionTypes, ClockIsAhead
  <2> QED BY <1>2, <1>7, <1>8, <2>1, WorkspaceAssumption
<1>11. /\ changed' \in [ThreadIds -> 0..MaxTime] /\ changed'[id] = at
       /\ \A i \in ThreadIds : i # id => changed'[i] = changed[i]
  BY <1>7, <1>8, <1>10
<1>12. shown \in Collection /\ ToSet(shown) = {IF t.id = id THEN [id |-> id, at |-> at] ELSE t : t \in ToSet(c)}
  BY <1>4, <1>9, <1>10, ChangedList DEF Sound
<1>13. /\ x \in Tab /\ x.open = w.open /\ x.shown = shown /\ x.fresh = w.fresh \ {id} /\ x.revision = w.revision
       /\ x.armed = w.armed /\ x.closure = w.closure /\ x.queue = w.queue /\ x.job = w.job
  BY <1>5, <1>12 DEF Tab
<1>14. PICK n : n = [id |-> id, at |-> at]
  OBVIOUS
<1>15. n.id = id /\ n.at = at /\ n \in ToSet(shown) /\ \A t \in ToSet(shown) : t = n \/ (t \in ToSet(c) /\ t.id # id)
  <2>1. PICK t \in ToSet(c) : t.id = id
    BY <1>7 DEF IdsOf
  <2> QED BY <1>12, <1>14, <2>1
<1>16. \A t \in ToSet(c) : t.id # id => t \in ToSet(shown)
  BY <1>12
<1>17. id \in used /\ \A t \in ToSet(c) : t.id \in used /\ t.at <= changed[t.id] /\ t \in Thread
  BY <1>7, <1>9, ListsAreFinite DEF Sound, IdsOf
<1>18. Sound(shown, used, changed')
  <2>1. \A t \in ToSet(shown) : t.id \in used /\ t.at <= changed'[t.id]
    BY <1>8, <1>10, <1>11, <1>15, <1>17
  <2>2. Distinct(shown)
    <3> SUFFICES ASSUME NEW s \in ToSet(shown), NEW t \in ToSet(shown), s.id = t.id PROVE s = t
      BY DEF Distinct
    <3> QED BY <1>9, <1>15 DEF Sound, Distinct
  <2> QED BY <1>12, <2>1, <2>2 DEF Sound
<1>19. ASSUME NEW t \in Latest', t.id # id PROVE t \in Latest
  BY <1>7, <1>11, <1>19 DEF Latest
<1>20. ASSUME NEW t \in Latest', t.id = id PROVE t = n
  BY <1>11, <1>14, <1>20 DEF Latest, Thread
<1>21. Later(used, changed, Latest, used', changed', Latest')
  <2>1. ASSUME NEW t \in Latest', t.at <= changed[t.id] PROVE t \in Latest
    <3>1. t.id # id
      <4> SUFFICES ASSUME t.id = id PROVE FALSE
        OBVIOUS
      <4>1. t.at = at /\ changed[id] < at /\ changed[id] \in Int /\ at \in Int
        BY <1>8, <1>10, <1>15, <1>20
      <4> QED BY <2>1, <4>1
    <3> QED BY <1>19, <3>1
  <2>2. \A i \in used : changed[i] <= changed'[i]
    <3> SUFFICES ASSUME NEW i \in used PROVE changed[i] <= changed'[i]
      OBVIOUS
    <3>1. i \in ThreadIds /\ changed[i] \in Int /\ at \in Int /\ changed[i] < at
      BY <1>8, <1>10
    <3> QED BY <1>11, <3>1
  <2> QED BY <1>7, <2>1, <2>2 DEF Later
<1>22. ShowsOther(w, x, used' \ used, Latest')
  <2>1. ASSUME NEW t \in Kept(x) PROVE t.id \notin Hidden(w)
    <3>1. t \in ToSet(shown) /\ (t.id # id => t.id \notin w.fresh)
      BY <1>13, <2>1 DEF Kept
    <3>2. CASE t.id # id
      <4>1. t \in Kept(w)
        BY <1>3, <1>15, <3>1, <3>2 DEF Kept
      <4> QED BY <1>9, <4>1 DEF Core, SecretsAreUnsaved
    <3>3. CASE t.id = id /\ id \in w.fresh
      BY <1>7, <3>3 DEF Hidden
    <3>4. CASE t.id = id /\ id \notin w.fresh
      <4>1. PICK s \in ToSet(c) : s.id = id
        BY <1>7 DEF IdsOf
      <4>2. s \in Kept(w)
        BY <1>3, <3>4, <4>1 DEF Kept
      <4> QED BY <1>9, <3>4, <4>1, <4>2 DEF Core, SecretsAreUnsaved
    <3> QED BY <3>2, <3>3, <3>4
  <2>2. ASSUME NEW t \in Kept(w) \cap Latest' PROVE t \in Kept(x)
    <3>1. t \in ToSet(c) /\ t.id \notin w.fresh /\ t \in Latest'
      BY <1>3 DEF Kept
    <3>2. CASE t.id # id
      BY <1>13, <1>16, <3>1, <3>2 DEF Kept
    <3>3. CASE t.id = id
      BY <1>13, <1>15, <1>20, <3>1, <3>3 DEF Kept
    <3> QED BY <3>2, <3>3
  <2> QED BY <1>13, <2>1, <2>2 DEF ShowsOther
<1>23. ClockIsAhead'
  <2> SUFFICES ASSUME NEW i \in ThreadIds PROVE changed'[i] <= at /\ (i \notin used => changed'[i] = 0)
    BY <1>7 DEF ClockIsAhead
  <2>1. changed[i] \in Int /\ at \in Int /\ changed[i] < at /\ (i \notin used => changed[i] = 0)
    BY <1>8, <1>10 DEF CollectionInv, ClockIsAhead
  <2> QED BY <1>11, <1>17, <2>1
<1>24. IdsOf(x.shown) \subseteq IdsOf(w.shown) \cup (used' \ used)
  BY <1>3, <1>7, <1>13, <1>15 DEF IdsOf
<1>25. \A t \in Latest' : t \notin Latest => t \in Kept(x)
  BY <1>13, <1>15, <1>19, <1>20 DEF Kept
<1>26. stored' = stored /\ used \subseteq used' /\ used' \subseteq ThreadIds /\ time' \in 0..MaxTime /\ Sound(x.shown, used', changed')
  BY <1>7, <1>8, <1>10, <1>13, <1>18
<1> QED BY <1>1, <1>6, <1>7, <1>11, <1>13, <1>21, <1>22, <1>23, <1>24, <1>25, <1>26, TabIsRedrawn

\* The steps that leave the clock alone and may make new drafts.
LEMMA RedrawnByDrafts ==
  ASSUME CollectionInv, NEW b \in Tabs, NEW w \in Tab, w = tab[b], w.open = "open", NEW x \in Tab, NEW v, v = Rendered(x),
         Update(b, v), UNCHANGED <<stored, time, changed>>, used' = used \cup NewIds \/ used' = used, retired \subseteq retired',
         ShowsOther(w, x, used' \ used, Latest'), Sound(x.shown, used', changed),
         IdsOf(x.shown) \subseteq IdsOf(w.shown) \cup (used' \ used)
  PROVE  CollectionInv'
<1>1. Latest' = {t \in Latest : t.id \notin retired'}
  BY LatestOfMore
<1>2. changed \in [ThreadIds -> 0..MaxTime] /\ used \subseteq ThreadIds /\ time \in 0..MaxTime /\ NewIds \subseteq ThreadIds
  BY DraftsAreNew DEF CollectionInv, CollectionTypes
<1>3. Later(used, changed, Latest, used', changed', Latest')
  <2>1. \A id \in used : changed[id] <= changed'[id]
    BY <1>2
  <2> QED BY <1>1, <2>1 DEF Later
<1>4. ClockIsAhead'
  BY DEF CollectionInv, ClockIsAhead
<1>5. stored' = stored /\ used \subseteq used' /\ used' \subseteq ThreadIds /\ time' \in 0..MaxTime /\ changed' \in [ThreadIds -> 0..MaxTime]
  BY <1>2
<1>6. Sound(x.shown, used', changed') /\ \A t \in Latest' : t \notin Latest => t \in Kept(x)
  BY <1>1
<1> QED BY <1>3, <1>4, <1>5, <1>6, TabIsRedrawn

\* A new draft.
LEMMA CreateThreadKeeps ==
  ASSUME CollectionInv, NEW b \in Tabs, CreateThread(b)
  PROVE  CollectionInv'
<1>1. PICK w \in Tab : w = tab[b]
  BY TabAndRow
<1>2. PICK shown, fresh : shown = Drafts \o w.shown /\ fresh = NewIds
  OBVIOUS
<1>3. PICK x : x = [w EXCEPT !.fresh = fresh, !.shown = shown]
  OBVIOUS
<1>4. PICK v : v = Rendered(x)
  OBVIOUS
<1>5. /\ w.open = "open" /\ w.fresh = {} /\ used' = used \cup NewIds /\ Update(b, v)
      /\ UNCHANGED <<stored, retired, time, changed>>
  BY <1>1, <1>2, <1>3, <1>4 DEF CreateThread
<1>6. Core(w, used, changed, Latest) /\ Sound(w.shown, used, changed)
  BY <1>1, <1>5, TabAndRow DEF TabInv, Core, ListsAreSound
<1>7. NewIds \subseteq ThreadIds /\ used' \ used = NewIds
  BY <1>5, DraftsAreNew DEF CollectionInv, CollectionTypes
<1>8. /\ Sound(shown, used', changed) /\ {t \in ToSet(shown) : t.id \notin NewIds} = ToSet(w.shown)
      /\ IdsOf(shown) \subseteq IdsOf(w.shown) \cup NewIds
  BY <1>2, <1>5, <1>6, DraftsInFront
<1>9. /\ x \in Tab /\ x.open = w.open /\ x.shown = shown /\ x.fresh = NewIds /\ x.revision = w.revision
      /\ x.armed = w.armed /\ x.closure = w.closure /\ x.queue = w.queue /\ x.job = w.job
  <2>1. shown \in Collection
    BY <1>8 DEF Sound
  <2> QED BY <1>2, <1>3, <1>7, <2>1 DEF Tab
<1>10. Kept(x) = Kept(w)
  BY <1>5, <1>8, <1>9 DEF Kept
<1>11. ShowsOther(w, x, used' \ used, Latest')
  BY <1>6, <1>7, <1>9, <1>10 DEF ShowsOther, Core, SecretsAreUnsaved
<1>12. Sound(x.shown, used', changed) /\ IdsOf(x.shown) \subseteq IdsOf(w.shown) \cup (used' \ used)
  BY <1>7, <1>8, <1>9
<1> QED BY <1>1, <1>4, <1>5, <1>9, <1>11, <1>12, RedrawnByDrafts

\* A thread is deleted.
LEMMA EndDeleteThreadKeeps ==
  ASSUME CollectionInv, NEW b \in Tabs, NEW id \in ThreadIds, EndDeleteThread(b, id)
  PROVE  CollectionInv'
<1>1. PICK w \in Tab : w = tab[b]
  BY TabAndRow
<1>2. PICK rest : rest = Without(w.shown, {id})
  OBVIOUS
<1>3. w.open = "open" /\ retired' = retired \cup {id} /\ UNCHANGED <<stored, time, changed>>
  BY <1>1 DEF EndDeleteThread
<1>4. Core(w, used, changed, Latest) /\ Sound(w.shown, used, changed)
  BY <1>1, <1>3, TabAndRow DEF TabInv, Core, ListsAreSound
<1>5. rest \in Collection /\ ToSet(rest) = {t \in ToSet(w.shown) : t.id # id}
  <2>1. w.shown \in Seq(Thread)
    BY TabTypes DEF Collection
  <2> QED BY <1>2, <2>1, WithoutKeeps DEF Collection
<1>6. \A t \in Latest' : t.id # id
  BY <1>3 DEF Latest
<1>7. CASE rest # <<>>
  <2>1. PICK x : x = [w EXCEPT !.deleting = @ \ {id}, !.fresh = @ \ {id}, !.shown = rest]
    OBVIOUS
  <2>2. PICK v : v = Rendered(x)
    OBVIOUS
  <2>3. used' = used /\ Update(b, v)
    BY <1>1, <1>2, <1>7, <2>1, <2>2 DEF EndDeleteThread
  <2>4. /\ x \in Tab /\ x.open = w.open /\ x.shown = rest /\ x.fresh = w.fresh \ {id} /\ x.revision = w.revision
        /\ x.armed = w.armed /\ x.closure = w.closure /\ x.queue = w.queue /\ x.job = w.job
    BY <1>5, <2>1 DEF Tab
  <2>5. Kept(x) = {t \in Kept(w) : t.id # id}
    BY <1>5, <2>4 DEF Kept
  <2>6. ShowsOther(w, x, used' \ used, Latest')
    BY <1>4, <1>6, <2>4, <2>5 DEF ShowsOther, Core, SecretsAreUnsaved
  <2>7. Sound(rest, used, changed)
    BY <1>4, <1>5 DEF Sound, Distinct
  <2>8. IdsOf(x.shown) \subseteq IdsOf(w.shown) \cup (used' \ used)
    BY <1>5, <2>4 DEF IdsOf
  <2> QED BY <1>1, <1>3, <2>2, <2>3, <2>4, <2>6, <2>7, <2>8, RedrawnByDrafts
<1>8. CASE rest = <<>>
  <2>0. PICK shown, fresh : shown = Drafts /\ fresh = NewIds
    OBVIOUS
  <2>1. PICK x : x = [w EXCEPT !.deleting = @ \ {id}, !.fresh = fresh, !.shown = shown]
    OBVIOUS
  <2>2. PICK v : v = Rendered(x)
    OBVIOUS
  <2>3. used' = used \cup NewIds /\ Update(b, v)
    BY <1>1, <1>2, <1>8, <2>0, <2>1, <2>2 DEF EndDeleteThread
  <2>4. /\ NewIds \subseteq ThreadIds /\ used' \ used = NewIds /\ shown \in Collection /\ Distinct(shown)
        /\ \A t \in ToSet(shown) : t.id \in NewIds /\ t.at = 0
    BY <2>0, <2>3, DraftsAreNew DEF CollectionInv, CollectionTypes
  <2>5. /\ x \in Tab /\ x.open = w.open /\ x.shown = shown /\ x.fresh = NewIds /\ x.revision = w.revision
        /\ x.armed = w.armed /\ x.closure = w.closure /\ x.queue = w.queue /\ x.job = w.job
    BY <2>0, <2>1, <2>4 DEF Tab
  <2>6. Kept(x) = {}
    BY <2>4, <2>5 DEF Kept
  <2>7. \A t \in Kept(w) : t.id = id
    <3>1. ToSet(<<>>) = {}
      BY DEF ToSet
    <3> QED BY <1>5, <1>8, <3>1 DEF Kept
  <2>8. ShowsOther(w, x, used' \ used, Latest')
    BY <1>6, <2>4, <2>5, <2>6, <2>7 DEF ShowsOther
  <2>9. Sound(x.shown, used', changed)
    <3>1. \A i \in ThreadIds : 0 <= changed[i]
      BY DEF CollectionInv, CollectionTypes
    <3> QED BY <2>3, <2>4, <2>5, <3>1 DEF Sound
  <2>10. IdsOf(x.shown) \subseteq IdsOf(w.shown) \cup (used' \ used)
    BY <2>4, <2>5 DEF IdsOf
  <2> QED BY <1>1, <1>3, <2>2, <2>3, <2>5, <2>8, <2>9, <2>10, RedrawnByDrafts
<1> QED BY <1>7, <1>8

\* A tab is opened: it shows what is stored.
LEMMA LoadedKeeps ==
  ASSUME CollectionInv, NEW b \in Tabs, Loaded(b)
  PROVE  CollectionInv'
<1>1. PICK w \in Tab : w = tab[b]
  BY TabAndRow
<1>2. PICK shown, fresh, revision : shown = Drafts \o GetCollection.threads /\ fresh = NewIds /\ revision = GetCollection.revision
  OBVIOUS
<1>3. PICK x : x = [w EXCEPT !.open = "open", !.revision = revision, !.fresh = fresh, !.shown = shown]
  OBVIOUS
<1>4. PICK v : v = Rendered(x)
  OBVIOUS
<1>5. /\ w.open = "closed" /\ used' = used \cup NewIds /\ Update(b, v)
      /\ UNCHANGED <<stored, retired, time, changed>>
  BY <1>1, <1>2, <1>3, <1>4 DEF Loaded
<1>6. PICK row, more, u2, latest, latest2, ch :
        row = stored /\ more = NewIds /\ u2 = used' /\ latest = Latest /\ latest2 = Latest' /\ ch = changed
  OBVIOUS
<1>7. revision = row.revision /\ shown = Drafts \o row.threads
  BY <1>2, <1>6, GetCollectionIsTheRow DEF CollectionInv
<1>8. /\ row.revision \in Nat /\ Sound(row.threads, used, ch) /\ Secrets(w) \cap IdsOf(row.threads) = {}
      /\ used \subseteq ThreadIds /\ w = ClosedTab
  BY <1>1, <1>5, <1>6, TabAndRow DEF TabInv
<1>9. /\ more \subseteq ThreadIds /\ more \cap used = {} /\ used' \ used = more
  BY <1>5, <1>6, <1>8, DraftsAreNew
<1>10. /\ Sound(shown, u2, ch) /\ {t \in ToSet(shown) : t.id \notin more} = ToSet(row.threads)
       /\ IdsOf(shown) \subseteq IdsOf(row.threads) \cup more
  BY <1>5, <1>6, <1>7, <1>8, DraftsInFront
<1>11. /\ x \in Tab /\ x.open = "open" /\ x.shown = shown /\ x.fresh = more /\ x.revision = row.revision
       /\ x.armed = FALSE /\ x.queue = <<>> /\ x.job = NoJob
  <2>1. shown \in Collection
    BY <1>10 DEF Sound
  <2>2. w.armed = FALSE /\ w.queue = <<>> /\ w.job = NoJob
    BY <1>8 DEF ClosedTab
  <2> QED BY <1>2, <1>3, <1>6, <1>7, <1>8, <1>9, <2>1, <2>2 DEF Tab
<1>12. Saves(x) = {} /\ Hidden(x) = {} /\ Kept(x) = ToSet(row.threads)
  BY <1>10, <1>11 DEF Saves, Hidden, Kept
<1>13. Secrets(x) = more /\ Mentions(x) \subseteq IdsOf(row.threads) \cup more
  BY <1>10, <1>11, <1>12 DEF Secrets, Mentions
<1>14. Core(x, u2, ch, latest2)
  <2>1. Secrets(x) \subseteq u2
    BY <1>5, <1>6, <1>13
  <2> QED BY <1>10, <1>11, <1>12, <2>1 DEF Core, ListsAreSound, SecretsAreUnsaved, SavesAreKept
<1>15. Knows(x, row, latest2)
  BY <1>8, <1>11, <1>12 DEF Knows
<1>16. /\ v \in Tab /\ TabInv(v, row, u2, ch, latest2) /\ Secrets(v) \subseteq Secrets(x) /\ Mentions(v) = Mentions(x)
       /\ \A t \in Kept(x) : Carries(v, t)
  BY <1>4, <1>11, <1>14, <1>15, Rendering
<1>17. Latest' = {t \in Latest : t.id \notin retired'}
  BY <1>5, LatestOfMore
<1>18. \A t : ~Carries(w, t)
  BY <1>5 DEF Carries
<1>19. Secrets(v) \cap IdsOf(stored'.threads) = {}
  <2>1. IdsOf(row.threads) \subseteq used
    BY <1>8 DEF Sound, IdsOf
  <2> QED BY <1>5, <1>6, <1>9, <1>13, <1>16, <2>1
<1>20. /\ stored'.revision \in Nat /\ stored'.threads \in Collection /\ used' \subseteq ThreadIds
       /\ time' \in 0..MaxTime /\ changed' \in [ThreadIds -> 0..MaxTime]
  BY <1>5, <1>6, <1>9 DEF CollectionInv, CollectionTypes
<1>21. ClockIsAhead' /\ RowIsSound'
  <2>1. ClockIsAhead'
    BY <1>5 DEF CollectionInv, ClockIsAhead
  <2>2. Sound(row.threads, u2, ch)
    BY <1>5, <1>6, <1>8 DEF Sound
  <2> QED BY <1>5, <1>6, <2>1, <2>2 DEF CollectionInv, RowIsSound
<1>22. \A id \in used : changed[id] <= changed'[id]
  BY <1>5, TabAndRow
<1>23. TabInv(v, stored', used', changed', Latest')
  BY <1>5, <1>6, <1>16
<1>24. /\ used \subseteq used' /\ stored' = stored /\ Secrets(v) \subseteq Secrets(w) \cup (used' \ used)
       /\ Mentions(v) \subseteq Mentions(w) \cup IdsOf(stored.threads) \cup (used' \ used)
       /\ IdsOf(stored'.threads) \subseteq IdsOf(stored.threads) \cup Mentions(w)
  BY <1>5, <1>6, <1>9, <1>13, <1>16
<1>25. /\ \A t \in Latest' : t.id \in used /\ t.at <= changed[t.id] => t \in Latest
       /\ \A t \in Latest' : t \in Latest => (t \in ToSet(stored.threads) \/ Carries(w, t) => t \in ToSet(stored'.threads) \/ Carries(v, t))
       /\ \A t \in Latest' : t \notin Latest => t \in ToSet(stored'.threads) \/ Carries(v, t)
  BY <1>5, <1>17, <1>18
<1> QED BY <1>1, <1>5, <1>16, <1>19, <1>20, <1>21, <1>22, <1>23, <1>24, <1>25, TabMoves

-----------------------------------------------------------------------------
(* The invariant of the specification.                                     *)

\* The invariant holds at first.
LEMMA WorkspaceStarts == WorkspaceInit => WorkspaceInv
<1> SUFFICES ASSUME WorkspaceInit PROVE WorkspaceInv
  OBVIOUS
<1>1. /\ stored.revision = 0 /\ stored.threads = <<>> /\ tab = [b \in Tabs |-> ClosedTab] /\ used = {} /\ time = 0
      /\ changed = [id \in ThreadIds |-> 0] /\ faults = 0 /\ closings = 0
  BY DEF WorkspaceInit
<1>2. ToSet(<<>>) = {} /\ <<>> \in Collection
  BY DEF ToSet, Collection
<1>3. ClosedTab \in Tab
  BY <1>2 DEF ClosedTab, Tab, NoRevision
<1>4. CollectionTypes
  BY <1>1, <1>2, <1>3, WorkspaceAssumption DEF CollectionTypes
<1>5. ClockIsAhead /\ RowIsSound
  BY <1>1, <1>2 DEF ClockIsAhead, RowIsSound, Sound, Distinct
<1>6. Secrets(ClosedTab) = {}
  BY DEF Secrets, Saves, Hidden, ClosedTab
<1>7. SecretsAreOwn
  BY <1>1, <1>6 DEF SecretsAreOwn
<1>8. \A b \in Tabs : TabInv(tab[b], stored, used, changed, Latest)
  BY <1>1 DEF TabInv, ClosedTab
<1>9. Latest = {}
  BY <1>1 DEF Latest
<1> QED BY <1>1, <1>4, <1>5, <1>7, <1>8, <1>9 DEF WorkspaceInv, CollectionInv

\* A save without a revision is not begun while no load has failed.
LEMMA RevisionsAreKnown ==
  ASSUME CollectionInv, NEW b \in Tabs, tab[b].job # NoJob
  PROVE  tab[b].revision # NoRevision
<1>1. PICK w \in Tab : w = tab[b]
  BY TabAndRow
<1>2. TabInv(w, stored, used, changed, Latest) /\ stored.revision \in Nat
  BY <1>1, TabAndRow
<1>3. w.open # "closed"
  BY <1>1, <1>2 DEF TabInv, ClosedTab
<1>4. w.revision \in 0..stored.revision
  BY <1>2, <1>3 DEF TabInv, HasWhatIsStored, Knows
<1> QED BY <1>1, <1>2, <1>4 DEF NoRevision

\* Every step keeps the invariant: the steps that fail and the closings end what it says.
LEMMA WorkspaceSteps == WorkspaceInv /\ [WorkspaceNext]_workspaceVars => WorkspaceInv'
<1> SUFFICES ASSUME WorkspaceInv, [WorkspaceNext]_workspaceVars PROVE WorkspaceInv'
  OBVIOUS
<1>1. faults \in Nat /\ closings \in Nat /\ (Undisturbed => CollectionInv)
  BY DEF WorkspaceInv
<1>2. ASSUME faults' \in Nat, closings' \in Nat, faults <= faults', closings <= closings', Undisturbed' => (Undisturbed /\ CollectionInv => CollectionInv')
      PROVE  WorkspaceInv'
  <2>1. ASSUME Undisturbed' PROVE Undisturbed
    <3>1. faults' + closings' = 0 /\ ~QuickFirst
      BY <2>1 DEF Undisturbed
    <3>2. \A f, c, g, d \in Nat : f <= g /\ c <= d /\ g + d = 0 => f + c = 0
      OBVIOUS
    <3>3. faults + closings = 0
      BY <1>1, <1>2, <3>1, <3>2
    <3> QED BY <3>1, <3>3 DEF Undisturbed
  <2> QED BY <1>1, <1>2, <2>1 DEF WorkspaceInv
<1>3. CASE UNCHANGED workspaceVars
  <2>1. /\ CollectionInv => CollectionInv'
        /\ faults' = faults /\ closings' = closings
    BY <1>3 DEF workspaceVars, CollectionInv, CollectionTypes, ClockIsAhead, RowIsSound, SecretsAreOwn, Latest
  <2> QED BY <1>1, <1>2, <2>1
<1>4. CASE WorkspaceNext
  <2>1. PICK b \in Tabs :
          \/ Loaded(b) \/ LoadFailed(b) \/ CreateThread(b)
          \/ SaveProgress(b) \/ SaveFailed(b) \/ ReloadFailed(b) \/ RetrySave(b) \/ CloseTab(b)
          \/ \E id \in ThreadIds : \/ ChangeThread(b, id) \/ BeginDeleteThread(b, id)
                                   \/ EndDeleteThread(b, id) \/ DeleteThreadFailed(b, id)
    BY <1>4 DEF WorkspaceNext
  <2>2. ASSUME UNCHANGED <<faults, closings>>, ~QuickFirst => (CollectionInv => CollectionInv') PROVE WorkspaceInv'
    <3>1. Undisturbed' => ~QuickFirst
      BY DEF Undisturbed
    <3> QED BY <1>1, <1>2, <2>2, <3>1
  <2>4. CASE Loaded(b)
    <3>1. UNCHANGED <<faults, closings>>
      BY <2>4 DEF Loaded
    <3> QED BY <2>2, <2>4, <3>1, LoadedKeeps
  <2>5. CASE CreateThread(b)
    <3>1. UNCHANGED <<faults, closings>>
      BY <2>5 DEF CreateThread
    <3> QED BY <2>2, <2>5, <3>1, CreateThreadKeeps
  <2>6. CASE TimerFires(b)
    <3>1. UNCHANGED <<faults, closings>>
      BY <2>6 DEF TimerFires
    <3> QED BY <2>2, <2>6, <3>1, TimerFiresKeeps
  <2>7. CASE SaveAnswered(b)
    <3>1. UNCHANGED <<faults, closings>>
      BY <2>7 DEF SaveAnswered
    <3> QED BY <2>2, <2>7, <3>1, SaveAnsweredKeeps
  <2>8. CASE Reloaded(b)
    <3>1. UNCHANGED <<faults, closings>>
      BY <2>8 DEF Reloaded
    <3> QED BY <2>2, <2>8, <3>1, ReloadedKeeps
  <2>9. CASE RetrySave(b)
    <3>1. UNCHANGED <<faults, closings>>
      BY <2>9 DEF RetrySave
    <3> QED BY <2>2, <2>9, <3>1, RetrySaveKeeps
  <2>10. ASSUME NEW id \in ThreadIds, ChangeThread(b, id) PROVE WorkspaceInv'
    <3>1. UNCHANGED <<faults, closings>>
      BY <2>10 DEF ChangeThread
    <3> QED BY <2>2, <2>10, <3>1, ChangeThreadKeeps
  <2>11. ASSUME NEW id \in ThreadIds, BeginDeleteThread(b, id) PROVE WorkspaceInv'
    <3>1. UNCHANGED <<faults, closings>>
      BY <2>11 DEF BeginDeleteThread
    <3> QED BY <2>2, <2>11, <3>1, BeginDeleteThreadKeeps
  <2>12. ASSUME NEW id \in ThreadIds, EndDeleteThread(b, id) PROVE WorkspaceInv'
    <3>1. UNCHANGED <<faults, closings>>
      BY <2>12 DEF EndDeleteThread
    <3> QED BY <2>2, <2>12, <3>1, EndDeleteThreadKeeps
  <2>13. ASSUME \/ faults' = faults + 1 /\ closings' = closings
                \/ faults' = faults /\ closings' = closings + 1
         PROVE  WorkspaceInv'
    <3>1. ~Undisturbed'
      BY <1>1, <2>13 DEF Undisturbed
    <3> QED BY <1>1, <1>2, <2>13, <3>1
  <2>14. CASE LoadFailed(b) \/ ReloadFailed(b) \/ \E id \in ThreadIds : DeleteThreadFailed(b, id)
    BY <2>13, <2>14 DEF LoadFailed, ReloadFailed, DeleteThreadFailed
  <2>15. CASE CloseTab(b)
    BY <2>13, <2>15 DEF CloseTab
  <2>16. CASE SaveFailed(b)
    <3>1. tab[b].job # NoJob /\ closings' = closings
      BY <2>16 DEF SaveFailed
    <3>2. CASE tab[b].revision = NoRevision
      <4>1. ~CollectionInv /\ faults' = faults
        BY <2>16, <3>1, <3>2, RevisionsAreKnown DEF SaveFailed
      <4> QED BY <1>1, <1>2, <3>1, <4>1
    <3>3. CASE tab[b].revision # NoRevision
      <4>1. faults' = faults + 1
        BY <2>16, <3>3 DEF SaveFailed
      <4> QED BY <2>13, <3>1, <4>1
    <3> QED BY <3>2, <3>3
  <2> QED
    BY <2>1, <2>4, <2>5, <2>6, <2>7, <2>8, <2>9, <2>10, <2>11, <2>12, <2>14, <2>15, <2>16 DEF SaveProgress
<1> QED BY <1>3, <1>4

\* What the invariant says of tabs that have come to rest.
LEMMA NothingIsLost == ~QuickFirst /\ WorkspaceInv => SettledIsStored
<1> SUFFICES ASSUME ~QuickFirst, WorkspaceInv, AllSettled, faults + closings = 0 PROVE StoredIsLatest
  BY DEF SettledIsStored
<1>1. CollectionInv
  BY DEF WorkspaceInv, Undisturbed
<1>2. \A b \in Tabs : \A t : ~Carries(tab[b], t)
  BY DEF AllSettled, Settled, Carries
<1>3. Latest \subseteq ToSet(stored.threads)
  BY <1>1, <1>2 DEF CollectionInv
<1>4. ASSUME NEW id \in used \ retired, changed[id] > 0
      PROVE  \E t \in ToSet(stored.threads) : t.id = id /\ t.at = changed[id]
  <2>1. PICK t : t = [id |-> id, at |-> changed[id]]
    OBVIOUS
  <2>2. id \in ThreadIds /\ changed[id] \in 0..MaxTime
    BY <1>1 DEF CollectionInv, CollectionTypes
  <2>3. t \in Thread /\ t.id = id /\ t.at = changed[id]
    BY <2>1, <2>2 DEF Thread
  <2>4. t \in Latest
    BY <1>4, <2>3 DEF Latest
  <2> QED BY <1>3, <2>3, <2>4
<1> QED BY <1>4 DEF StoredIsLatest

\* SettledIsStored, that a workspace whose tabs have all come to rest has lost nothing, for
\* every number of tabs, threads and changes, when no draft gets its first content while the
\* timer that was armed when it was a draft still runs.
THEOREM RestingCollectionsAreStored ==
  ASSUME ~QuickFirst
  PROVE  WorkspaceSpec => []SettledIsStored
<1>1. WorkspaceInit => WorkspaceInv
  BY WorkspaceStarts
<1>2. WorkspaceInv /\ [WorkspaceNext]_workspaceVars => WorkspaceInv'
  BY WorkspaceSteps
<1>3. WorkspaceInv => SettledIsStored
  BY NothingIsLost
<1> QED BY <1>1, <1>2, <1>3, PTL DEF WorkspaceSpec

-----------------------------------------------------------------------------
(* The embedded page.                                                      *)


Of(key, threads) == \A t \in threads : t[1] = key

Message == [origin: Origins, kind: Kinds, hint: Hints, c: Configuration, number: 1..MaxConfigures]

TypeInv == EmbedTypeOK /\ toFrame \in Seq(Message)

\* The workspace on the page: its identity carries its key, its timer runs for its key.
MountedApart ==
  mounted # Unset =>
    /\ Of(mounted.key, mounted.threads)
    /\ Len(mounted.identity) = 2 /\ mounted.identity[1] = mounted.key
    /\ mounted.timer \in {mounted.key, Unset}

DelayedApart == \A d \in delayed : Of(d.key, d.threads)

Apart == TypeInv /\ MountedApart /\ DelayedApart /\ CollectionsStayApart

Workspaces == [key: StorageKeys, identity: Seq(StorageKeys \cup Profiles), loading: BOOLEAN,
               hydrated: BOOLEAN, threads: SUBSET Threads, timer: StorageKeys \cup {Unset}]

LEMMA EmbedStarts == EmbedInit => Apart
BY EmbedAssumption
   DEF EmbedInit, Apart, TypeInv, EmbedTypeOK, MountedApart, DelayedApart, CollectionsStayApart, Of,
       Origins, Configuration, Posted

\* A message received: the workspace of the same identity keeps its threads, which
\* are of its key; the one that is replaced leaves its pending collection behind.
LEMMA ReceiveApart ==
  ASSUME Apart, Receive
  PROVE  Apart'
<1> DEFINE m == Head(toFrame)
<1>0. m \in Message /\ toFrame' \in Seq(Message) /\ UNCHANGED <<storedUnder, embedTime, sentTo>>
  BY DEF Apart, TypeInv, Receive
<1>a. \A i \in DOMAIN toFrame' : toFrame'[i].origin \in Origins /\ toFrame'[i].number \in 1..MaxConfigures
  <2>1. \A i \in DOMAIN toFrame' : toFrame'[i] \in Message
    BY <1>0
  <2>2. QED  BY <2>1 DEF Message
<1>1. CollectionsStayApart'
  BY <1>0 DEF Apart, CollectionsStayApart
<1>2. CASE UNCHANGED <<frame, mounted, delayed>> /\ toHost' \subseteq Posted
  BY <1>0, <1>a, <1>1, <1>2 DEF Apart, TypeInv, EmbedTypeOK, MountedApart, DelayedApart
<1>3. CASE /\ frame' = [frame EXCEPT !.token = m.number, !.configuration = m.c]
           /\ Mount(m.c) /\ Unmount(m.c) /\ toHost' \subseteq Posted
  <2> DEFINE c == m.c
  <2>1. c \in Configuration /\ m.number \in 1..MaxConfigures
    BY <1>0 DEF Message
  <2>2. WorkspaceIdentity(c) \in Seq(StorageKeys \cup Profiles) /\ Len(WorkspaceIdentity(c)) = 2
        /\ WorkspaceIdentity(c)[1] = c.key
    BY <2>1 DEF WorkspaceIdentity, Configuration
  <2>3. mounted # Unset => mounted \in Workspaces
    BY DEF Apart, TypeInv, EmbedTypeOK, Workspaces
  <2>4. mounted' \in Workspaces
    BY <1>3, <2>1, <2>2, <2>3 DEF Mount, Workspaces, Configuration
  <2>5. MountedApart'
    <3>1. CASE mounted # Unset /\ mounted.identity = WorkspaceIdentity(c)
      BY <1>3, <3>1, <2>2 DEF Mount, Apart, MountedApart, Of
    <3>2. CASE ~(mounted # Unset /\ mounted.identity = WorkspaceIdentity(c))
      BY <1>3, <3>2, <2>2 DEF Mount, MountedApart, Of
    <3>3. QED  BY <3>1, <3>2
  <2>6. DelayedApart' /\ \A d \in delayed' : d.key \in StorageKeys /\ d.threads \subseteq Threads
    <3>1. CASE delayed' = delayed
      BY <3>1 DEF Apart, DelayedApart, TypeInv, EmbedTypeOK
    <3>2. CASE mounted # Unset /\ mounted.timer # Unset
               /\ delayed' = delayed \cup {[key |-> mounted.timer, threads |-> mounted.threads]}
      BY <3>2, <2>3 DEF Apart, DelayedApart, MountedApart, TypeInv, EmbedTypeOK, Workspaces, Of
    <3>3. QED  BY <1>3, <3>1, <3>2 DEF Unmount
  <2>7. frame' \in [parent: Origins \cup {Unset}, listening: BOOLEAN, token: 0..MaxConfigures,
                    configuration: Configuration \cup {Unset}]
    <3>1. m.number \in 0..MaxConfigures
      BY <2>1, EmbedAssumption
    <3> HIDE DEF m
    <3>2. QED  BY <1>3, <2>1, <3>1 DEF Apart, TypeInv, EmbedTypeOK
  <2>8. QED
    BY <1>0, <1>1, <1>3, <2>4, <2>5, <2>6, <2>7, <1>a
       DEF Apart, TypeInv, EmbedTypeOK, Workspaces
<1>4. toHost' = toHost \/ toHost' = toHost \cup {Refusal(m)}
  BY DEF Receive
<1>5. toHost' \subseteq Posted
  BY <1>4 DEF Refusal, Posted, Apart, TypeInv, EmbedTypeOK
<1>6. QED
  BY <1>2, <1>3, <1>5 DEF Receive

\* What the page shows becomes what its timer will save: it is of its key.
LEMMA ShowsApart ==
  ASSUME Apart, mounted # Unset, NEW threads \in SUBSET Threads, Of(mounted.key, threads),
         NEW loading \in BOOLEAN, Shows(threads, loading),
         UNCHANGED <<frame, toFrame, delayed, storedUnder, embedTime, sentTo>>,
         toHost' \subseteq Posted
  PROVE  Apart'
<1>1. mounted \in Workspaces
  BY DEF Apart, TypeInv, EmbedTypeOK, Workspaces
<1>2. /\ mounted' \in Workspaces /\ mounted'.key = mounted.key /\ mounted'.threads = threads
      /\ mounted'.identity = mounted.identity /\ mounted'.timer \in {mounted.timer, mounted.key}
  BY <1>1 DEF Shows, Workspaces
<1>3. MountedApart'
  BY <1>2 DEF Apart, MountedApart, Of
<1>4. QED
  BY <1>2, <1>3 DEF Apart, TypeInv, EmbedTypeOK, DelayedApart, CollectionsStayApart, Workspaces

\* A save that is due writes a copy of its own key.
LEMMA SaveApart ==
  ASSUME Apart, SaveIsDue
  PROVE  Apart'
<1>1. mounted # Unset => mounted \in Workspaces
  BY DEF Apart, TypeInv, EmbedTypeOK, Workspaces
<1>2. UNCHANGED <<frame, toFrame, toHost, embedTime, sentTo>>
  BY DEF SaveIsDue
<1>3. CASE /\ mounted # Unset /\ mounted.timer # Unset /\ UNCHANGED delayed
           /\ storedUnder' = [storedUnder EXCEPT ![mounted.timer] = mounted.threads]
           /\ mounted' = [mounted EXCEPT !.timer = Unset]
  <2>1. mounted.timer = mounted.key /\ mounted.key \in StorageKeys
    BY <1>1, <1>3 DEF Apart, MountedApart, Workspaces
  <2>2. CollectionsStayApart' /\ storedUnder' \in [StorageKeys -> SUBSET Threads]
    BY <1>1, <1>3, <2>1
       DEF Apart, MountedApart, CollectionsStayApart, Of, TypeInv, EmbedTypeOK, Workspaces
  <2>3. mounted' \in Workspaces /\ MountedApart'
    BY <1>1, <1>3 DEF Apart, MountedApart, Workspaces, Of
  <2>4. QED
    BY <1>2, <1>3, <2>2, <2>3 DEF Apart, TypeInv, EmbedTypeOK, DelayedApart, Workspaces
<1>4. ASSUME NEW d \in delayed, storedUnder' = [storedUnder EXCEPT ![d.key] = d.threads],
             delayed' = delayed \ {d}, UNCHANGED mounted
      PROVE  Apart'
  <2>1. CollectionsStayApart' /\ storedUnder' \in [StorageKeys -> SUBSET Threads]
    BY <1>4 DEF Apart, DelayedApart, CollectionsStayApart, Of, TypeInv, EmbedTypeOK
  <2>2. QED
    BY <1>2, <1>4, <2>1 DEF Apart, TypeInv, EmbedTypeOK, DelayedApart, MountedApart
<1>5. QED
  BY <1>3, <1>4 DEF SaveIsDue

\* Every step keeps every copy with its key.
LEMMA EmbedKeepsApart == Apart /\ [EmbedNext]_embedVars => Apart'
<1> SUFFICES ASSUME Apart, [EmbedNext]_embedVars PROVE Apart'
  OBVIOUS
<1> USE DEF Apart
<1>1. mounted # Unset => mounted \in Workspaces
  BY DEF TypeInv, EmbedTypeOK, Workspaces
<1>2. ASSUME NEW origin \in Origins, NEW kind \in Kinds, NEW hint \in Hints, NEW c \in Configuration,
             PostConfigure(origin, kind, hint, c)
      PROVE  Apart'
  <2> DEFINE message == [origin |-> origin, kind |-> kind, hint |-> hint, c |-> c, number |-> sentTo + 1]
  <2>1. message \in Message /\ sentTo' \in 0..MaxConfigures
    BY <1>2, EmbedAssumption DEF PostConfigure, TypeInv, EmbedTypeOK, Message
  <2> HIDE DEF message
  <2>2. toFrame' \in Seq(Message)
    BY <1>2, <2>1 DEF PostConfigure, TypeInv, message
  <2>3. \A i \in DOMAIN toFrame' : toFrame'[i].origin \in Origins /\ toFrame'[i].number \in 1..MaxConfigures
    <3>1. \A i \in DOMAIN toFrame' : toFrame'[i] \in Message
      BY <2>2
    <3>2. QED  BY <3>1 DEF Message
  <2>4. QED
    BY <1>2, <2>1, <2>2, <2>3
       DEF PostConfigure, TypeInv, EmbedTypeOK, MountedApart, DelayedApart, CollectionsStayApart
<1>3. CASE Listen
  <2>1. frame' \in [parent: Origins \cup {Unset}, listening: BOOLEAN, token: 0..MaxConfigures,
                    configuration: Configuration \cup {Unset}]
    BY <1>3 DEF Listen, TypeInv, EmbedTypeOK
  <2>2. QED
    BY <1>3, <2>1
       DEF Listen, TypeInv, EmbedTypeOK, MountedApart, DelayedApart, CollectionsStayApart, Posted
<1>4. CASE Receive
  BY <1>4, ReceiveApart
<1>5. CASE EmbedLoaded
  <2>1. /\ storedUnder[mounted.key] \in SUBSET Threads
        /\ Of(mounted.key, storedUnder[mounted.key])
    BY <1>1, <1>5 DEF EmbedLoaded, TypeInv, EmbedTypeOK, CollectionsStayApart, Of, Workspaces
  <2>2. QED
    BY <1>5, <2>1, ShowsApart DEF EmbedLoaded, TypeInv, EmbedTypeOK
<1>6. CASE EditThread
  <2>1. PICK n \in 1..MaxMade : Shows(mounted.threads \cup {<<mounted.key, n>>}, mounted.loading)
    BY <1>6 DEF EditThread
  <2>2. /\ mounted.threads \cup {<<mounted.key, n>>} \in SUBSET Threads
        /\ Of(mounted.key, mounted.threads \cup {<<mounted.key, n>>}) /\ mounted.loading \in BOOLEAN
    BY <1>1, <1>6 DEF EditThread, MountedApart, Of, Workspaces, Threads
  <2>3. toHost' \subseteq Posted
    BY <1>6 DEF EditThread, TypeInv, EmbedTypeOK, Posted
  <2>4. QED
    BY <1>6, <2>1, <2>2, <2>3, ShowsApart DEF EditThread
<1>7. CASE CapabilityCompletes
  BY <1>7 DEF CapabilityCompletes, TypeInv, EmbedTypeOK, MountedApart, DelayedApart,
              CollectionsStayApart, Posted
<1>8. CASE DeleteEmbedded
  <2>1. PICK t \in mounted.threads : Shows(mounted.threads \ {t}, mounted.loading)
    BY <1>8 DEF DeleteEmbedded
  <2>2. /\ mounted.threads \ {t} \in SUBSET Threads
        /\ Of(mounted.key, mounted.threads \ {t}) /\ mounted.loading \in BOOLEAN
    BY <1>1, <1>8 DEF DeleteEmbedded, MountedApart, Of, Workspaces
  <2>3. QED
    BY <1>8, <2>1, <2>2, ShowsApart DEF DeleteEmbedded, TypeInv, EmbedTypeOK
<1>9. CASE SaveIsDue
  BY <1>9, SaveApart
<1>10. CASE EmbedTimePasses
  BY <1>10, EmbedAssumption
     DEF EmbedTimePasses, TypeInv, EmbedTypeOK, MountedApart, DelayedApart, CollectionsStayApart
<1>11. CASE UNCHANGED embedVars
  BY <1>11 DEF embedVars, TypeInv, EmbedTypeOK, MountedApart, DelayedApart, CollectionsStayApart
<1>12. QED
  BY <1>2, <1>3, <1>4, <1>5, <1>6, <1>7, <1>8, <1>9, <1>10, <1>11 DEF EmbedNext

\* However often the Host configures the frame, with whatever loads and delayed saves
\* on their way, no collection holds a thread of another storage key.
THEOREM CollectionsAreApart == EmbedSpec => []CollectionsStayApart
<1>1. Apart => CollectionsStayApart
  BY DEF Apart
<1>2. QED
  BY <1>1, EmbedStarts, EmbedKeepsApart, PTL DEF EmbedSpec
=============================================================================
