-------------------------- MODULE CorpusRebuildProofs --------------------------
(* Machine-checked proofs about the benchmark corpus, for any number of libraries, *)
(* rebuilds and videos: whatever overlaps, a corpus never shrinks; as long as      *)
(* rebuilds do not overlap, a library follows its documents and a reader gets the  *)
(* newest one.                                                                     *)
EXTENDS CorpusRebuild, FiniteSetTheorems, FunctionTheorems, WellFoundedInduction, TLAPS

--------------------------------------------------------------------------------
(* The invariants. *)

\* A rebuild that is at one library.
Busy == Working \ {"next"}

JobType ==
  [pc: Working \cup {"none", "scheduled", "done"}, server: BOOLEAN, rotate: BOOLEAN, keys: Seq(Libraries),
   refresh: BOOLEAN, known: Seq(Documents), pending: Seq(Listed), fresh: Seq(Documents), version: Nat]

ReaderType ==
  [pc: {"idle", "load", "query"}, keys: Seq(Libraries), cache: Library \cup {None},
   got: [Libraries -> Library \cup {None}]]

\* Documents of library k, each of a video of its own.
Sound(s, k) ==
  /\ s \in Seq(Documents)
  /\ Videos(s) \subseteq Range(Channel[k]) /\ Cardinality(Videos(s)) = Len(s)

\* What a rebuild carries: a snapshot of the documents and usable new ones, never more
\* than are missing.
JobSound(j) ==
  /\ job[j].pc \in Busy => job[j].keys # <<>>
  /\ job[j].pc = "rotating" => job[j].refresh
  /\ job[j].pc \in Busy \ {"reading"} =>
       /\ Sound(job[j].known, Key(j))
       /\ job[j].pending \in Seq(Range(Channel[Key(j)]))
       /\ Videos(job[j].fresh) \subseteq Range(Channel[Key(j)]) /\ Usable(job[j].fresh) = Videos(job[j].fresh)
       /\ Len(job[j].fresh) <= Missing(j, job[j].known)
       /\ job[j].refresh => Len(job[j].known) >= MinDocs

Typed ==
  /\ docs \in [Libraries -> Seq(Documents)] /\ \A k \in Libraries : Sound(docs[k], k)
  /\ rows \in [Libraries -> Seq(Library)] /\ cache \in [Libraries -> Library \cup {None}]
  /\ building \in BOOLEAN /\ calm \in BOOLEAN /\ active \in Library \cup {None}
  /\ job \in [Jobs -> JobType] /\ \A j \in Jobs : JobSound(j)
  /\ reader \in ReaderType /\ (reader.pc = "query" => reader.keys # <<>>)

\* In a calm corpus one rebuild is at work.
Alone == calm => \A i, j \in AtWork : i = j

\* How the documents of a library stand to what its rebuild has read.
Follows(j) ==
  /\ job[j].pc \in {"videos", "synthesis", "rotating"} /\ job[j].refresh => docs[Key(j)] = job[j].known
  /\ job[j].pc \in Busy \ {"reading"} /\ ~job[j].refresh => docs[Key(j)] = job[j].known \o job[j].fresh
  /\ job[j].pc \in {"numbering", "inserting"} => Usable(docs[Key(j)]) = Content(j)

Following == calm => \A j \in AtWork : Follows(j)

\* What documents there were at first bounds what they become.
Grown(d, k) == Broken(docs[k]) \subseteq Broken(d[k]) /\ Len(docs[k]) <= Bound(d[k])
Bounded     == \E d \in InitDocs : calm => \A k \in Libraries : Grown(d, k)

\* The rows of a library have rising versions, and what is cached is among them.
Rising(s)  == \A m, n \in DOMAIN s : m < n => s[m].version < s[n].version
Shelved(j) ==
  /\ job[j].pc = "inserting" => \A r \in Range(rows[Key(j)]) : r.version < job[j].version
  /\ job[j].pc = "caching" => Made(j) \in Range(rows[Key(j)])
Stored ==
  \A k \in Libraries : Rising(rows[k]) /\ (cache[k] # None => cache[k] \in Range(rows[k]))
ReadStored ==
  reader.pc = "query" /\ reader.cache # None => reader.cache \in Range(rows[Head(reader.keys)])
Shelf == calm => Stored /\ ReadStored /\ \A j \in AtWork : Shelved(j)

--------------------------------------------------------------------------------
(* Sequences of documents and the videos they are of. *)

LEMMA CountUpTo ==
  ASSUME NEW n \in Nat
  PROVE  IsFiniteSet(1..n) /\ Cardinality(1..n) = n
<1>1. 1 \in Int /\ n \in Int
  OBVIOUS
<1>2. IsFiniteSet(1..n) /\ Cardinality(1..n) = IF 1 > n THEN 0 ELSE n - 1 + 1
  BY <1>1, FS_Interval
<1>3. QED
  BY <1>2

\* The n-th of the positions S.
Place(S, n) == CHOOSE i \in S : Cardinality({j \in S : j <= i}) = n

LEMMA PlacesAreOnto ==
  ASSUME NEW m \in Nat, NEW S \in SUBSET (1..m)
  PROVE  /\ IsFiniteSet(S) /\ Cardinality(S) \in Nat
         /\ \A n \in 1..Cardinality(S) : Place(S, n) \in S
         /\ \A n, o \in 1..Cardinality(S) : Place(S, n) = Place(S, o) => n = o
         /\ \A i \in S : \E n \in 1..Cardinality(S) : Place(S, n) = i
<1> DEFINE Upto(i) == {j \in S : j <= i}
           c       == Cardinality(S)
           rank    == [i \in S |-> Cardinality(Upto(i))]
<1>1. IsFiniteSet(S) /\ c \in Nat
  BY CountUpTo, FS_Subset, FS_CardinalityType
<1>2. \A i \in S : IsFiniteSet(Upto(i)) /\ Cardinality(Upto(i)) \in Nat /\ Cardinality(Upto(i)) <= c
  <2>1. \A i \in S : Upto(i) \in SUBSET S
    OBVIOUS
  <2> HIDE DEF Upto
  <2>2. QED
    BY <1>1, <2>1, FS_Subset, FS_CardinalityType
<1>3. \A i \in S : Cardinality(Upto(i)) # 0
  <2>1. \A i \in S : Upto(i) # {}
    OBVIOUS
  <2> HIDE DEF Upto
  <2>2. QED
    BY <1>2, <2>1, FS_EmptySet
<1>4. rank \in [S -> 1..c]
  BY <1>1, <1>2, <1>3
<1>5. \A i, j \in S : rank[i] = rank[j] => i = j
  <2> SUFFICES ASSUME NEW i \in S, NEW j \in S, rank[i] = rank[j] PROVE i = j
    OBVIOUS
  <2>1. Upto(i) \in SUBSET Upto(j) \/ Upto(j) \in SUBSET Upto(i)
    <3>1. \A x \in S : x \in Int
      OBVIOUS
    <3>2. i <= j \/ j <= i
      BY <3>1
    <3>3. \A x \in S : (x <= i /\ i <= j => x <= j) /\ (x <= j /\ j <= i => x <= i)
      BY <3>1
    <3>4. QED
      BY <3>2, <3>3
  <2>2. i \in Upto(i) /\ j \in Upto(j)
    OBVIOUS
  <2>3. Upto(i) = Upto(j)
    <3>1. Cardinality(Upto(i)) = Cardinality(Upto(j))
      OBVIOUS
    <3> HIDE DEF Upto
    <3>2. QED
      BY <1>2, <2>1, <3>1, FS_Subset
  <2>4. i <= j /\ j <= i
    BY <2>2, <2>3
  <2>5. QED
    BY <2>4
<1>6. rank \in Injection(S, 1..c)
  BY <1>4, <1>5 DEF Injection, IsInjective
<1>7. rank \in Surjection(S, 1..c)
  <2>1. IsFiniteSet(1..c) /\ Cardinality(1..c) = Cardinality(S)
    BY <1>1, CountUpTo
  <2> HIDE DEF rank, c
  <2>2. QED
    BY <1>6, <2>1, FS_Injection
<1>8. \A n \in 1..c : \E i \in S : rank[i] = n
  BY <1>7 DEF Surjection
<1>9. \A n \in 1..c : Place(S, n) \in S /\ rank[Place(S, n)] = n
  BY <1>8 DEF Place
<1>10. \A i \in S : rank[i] \in 1..c /\ Place(S, rank[i]) = i
  BY <1>4, <1>5, <1>9
<1> HIDE DEF rank
<1>11. QED
  BY <1>1, <1>9, <1>10

LEMMA ThoseOfSet ==
  ASSUME NEW D, NEW s \in Seq(D), NEW S \in SUBSET (DOMAIN s)
  PROVE  /\ Those(s, S) \in Seq(D) /\ Len(Those(s, S)) = Cardinality(S) /\ Cardinality(S) \in Nat
         /\ DOMAIN Those(s, S) = 1..Cardinality(S)
         /\ \A n \in 1..Cardinality(S) : Place(S, n) \in S /\ Those(s, S)[n] = s[Place(S, n)]
<1> DEFINE c == Cardinality(S)
<1>1. Len(s) \in Nat /\ DOMAIN s = 1..Len(s) /\ \A i \in DOMAIN s : s[i] \in D
  OBVIOUS
<1>2. c \in Nat /\ \A n \in 1..c : Place(S, n) \in S
  BY <1>1, PlacesAreOnto
<1>3. Those(s, S) = [n \in 1..c |-> s[Place(S, n)]]
  BY DEF Those, Place
<1>4. \A n \in 1..c : s[Place(S, n)] \in D
  BY <1>1, <1>2
<1> HIDE DEF c
<1>5. Those(s, S) \in [1..c -> D]
  BY <1>3, <1>4
<1>6. Those(s, S) \in Seq(D) /\ Len(Those(s, S)) = c /\ DOMAIN Those(s, S) = 1..c
  BY <1>2, <1>5
<1>7. QED
  BY <1>2, <1>3, <1>6 DEF c

LEMMA Records ==
  ASSUME NEW s \in Seq(Documents)
  PROVE  /\ Len(s) \in Nat /\ DOMAIN s = 1..Len(s)
         /\ \A i \in DOMAIN s : s[i] \in Documents /\ s[i].video \in Listed /\ s[i].usable \in BOOLEAN
         /\ IsFiniteSet(Videos(s)) /\ Videos(s) \subseteq Listed /\ Usable(s) \subseteq Videos(s)
<1>1. Len(s) \in Nat /\ DOMAIN s = 1..Len(s) /\ \A i \in DOMAIN s : s[i] \in Documents
  OBVIOUS
<1>2. \A d \in Documents : d.video \in Listed /\ d.usable \in BOOLEAN
  BY DEF Documents
<1>3. Videos(s) \subseteq Listed /\ Usable(s) \subseteq Videos(s)
  BY <1>1, <1>2 DEF Videos, Usable
<1> DEFINE video == [i \in 1..Len(s) |-> s[i].video]
<1>4. video \in Surjection(1..Len(s), Videos(s))
  BY <1>1 DEF Surjection, Videos
<1>5. IsFiniteSet(Videos(s))
  <2> HIDE DEF video
  <2>1. QED
    BY <1>1, <1>4, CountUpTo, FS_Surjection
<1>6. QED
  BY <1>1, <1>2, <1>3, <1>5

\* No two documents of a video, counted or compared.
LEMMA OnceEach ==
  ASSUME NEW s \in Seq(Documents)
  PROVE  Cardinality(Videos(s)) = Len(s) <=> \A i, j \in DOMAIN s : s[i].video = s[j].video => i = j
<1> DEFINE n     == Len(s)
           video == [i \in 1..n |-> s[i].video]
           set   == Videos(s)
<1>1. n \in Nat /\ DOMAIN s = 1..n /\ IsFiniteSet(1..n) /\ Cardinality(1..n) = n
  BY Records, CountUpTo
<1>2. video \in Surjection(1..n, set)
  BY <1>1 DEF Surjection, Videos
<1>3. video \in Injection(1..n, set) <=> \A i, j \in DOMAIN s : s[i].video = s[j].video => i = j
  BY <1>1, <1>2 DEF Injection, Surjection, IsInjective
<1>4. Cardinality(set) = Cardinality(1..n) <=> video \in Injection(1..n, set)
  <2> HIDE DEF video, n, set
  <2>1. QED
    BY <1>1, <1>2, FS_Surjection
<1>5. QED
  BY <1>1, <1>3, <1>4

LEMMA AtMostEach ==
  ASSUME NEW s \in Seq(Documents)
  PROVE  Cardinality(Videos(s)) <= Len(s) /\ Cardinality(Videos(s)) \in Nat
<1> DEFINE n     == Len(s)
           video == [i \in 1..n |-> s[i].video]
           set   == Videos(s)
<1>1. n \in Nat /\ DOMAIN s = 1..n /\ IsFiniteSet(1..n) /\ Cardinality(1..n) = n
  BY Records, CountUpTo
<1>2. video \in Surjection(1..n, set)
  BY <1>1 DEF Surjection, Videos
<1>3. Cardinality(set) <= Cardinality(1..n) /\ IsFiniteSet(set)
  <2> HIDE DEF video, n, set
  <2>1. QED
    BY <1>1, <1>2, FS_Surjection
<1>4. QED
  BY <1>1, <1>3, FS_CardinalityType

LEMMA Appended ==
  ASSUME NEW s \in Seq(Documents), NEW d \in Documents
  PROVE  /\ Append(s, d) \in Seq(Documents) /\ Len(Append(s, d)) = Len(s) + 1
         /\ Videos(Append(s, d)) = Videos(s) \cup {d.video}
         /\ d.usable => Usable(Append(s, d)) = Usable(s) \cup {d.video}
<1> DEFINE n == Len(s)
           t == Append(s, d)
<1>1. /\ n \in Nat /\ DOMAIN s = 1..n /\ DOMAIN t = 1..(n + 1) /\ 1..(n + 1) = (1..n) \cup {n + 1}
      /\ t \in Seq(Documents) /\ Len(t) = n + 1
  OBVIOUS
<1>2. t[n + 1] = d /\ \A i \in 1..n : t[i] = s[i]
  OBVIOUS
<1> HIDE DEF n, t
<1>3. Videos(t) = Videos(s) \cup {d.video}
  BY <1>1, <1>2 DEF Videos
<1>4. d.usable => Usable(t) = Usable(s) \cup {d.video}
  BY <1>1, <1>2 DEF Usable
<1>5. QED
  BY <1>1, <1>3, <1>4 DEF n, t

LEMMA Joined ==
  ASSUME NEW s \in Seq(Documents), NEW t \in Seq(Documents)
  PROVE  /\ s \o t \in Seq(Documents) /\ Len(s \o t) = Len(s) + Len(t)
         /\ Videos(s \o t) = Videos(s) \cup Videos(t)
         /\ Usable(s \o t) = Usable(s) \cup Usable(t)
<1> DEFINE m == Len(s)
           n == Len(t)
           u == s \o t
<1>1. /\ m \in Nat /\ DOMAIN s = 1..m /\ n \in Nat /\ DOMAIN t = 1..n
      /\ DOMAIN u = 1..(m + n) /\ u \in Seq(Documents) /\ Len(u) = m + n
  OBVIOUS
<1>2. (\A i \in 1..m : i \in 1..(m + n) /\ u[i] = s[i]) /\ (\A i \in 1..n : m + i \in 1..(m + n) /\ u[m + i] = t[i])
  OBVIOUS
<1>3. \A i \in 1..(m + n) : i \in 1..m \/ \E j \in 1..n : i = m + j
  <2> SUFFICES ASSUME NEW i \in 1..(m + n), i \notin 1..m PROVE \E j \in 1..n : i = m + j
    OBVIOUS
  <2>1. i - m \in 1..n /\ i = m + (i - m)
    BY <1>1
  <2>2. QED
    BY <2>1
<1> HIDE DEF u, m, n
<1>4. \A i \in DOMAIN u : (\E j \in DOMAIN s : u[i] = s[j]) \/ \E j \in DOMAIN t : u[i] = t[j]
  <2> SUFFICES ASSUME NEW i \in DOMAIN u PROVE (\E j \in DOMAIN s : u[i] = s[j]) \/ \E j \in DOMAIN t : u[i] = t[j]
    OBVIOUS
  <2>1. CASE i \in 1..m
    <3>1. i \in DOMAIN s /\ u[i] = s[i]
      BY <1>1, <1>2, <2>1
    <3>2. QED
      BY <3>1
  <2>2. CASE i \notin 1..m
    <3>1. PICK j \in 1..n : i = m + j
      BY <1>1, <1>3, <2>2
    <3>2. j \in DOMAIN t /\ u[i] = t[j]
      BY <1>1, <1>2, <3>1
    <3>3. QED
      BY <3>2
  <2>3. QED
    BY <2>1, <2>2
<1>5. \A j \in DOMAIN s : j \in DOMAIN u /\ u[j] = s[j]
  BY <1>1, <1>2
<1>6. \A j \in DOMAIN t : m + j \in DOMAIN u /\ u[m + j] = t[j]
  BY <1>1, <1>2
<1>7. Videos(u) = Videos(s) \cup Videos(t)
  <2>1. Videos(u) \subseteq Videos(s) \cup Videos(t)
    BY <1>4 DEF Videos
  <2>2. Videos(s) \subseteq Videos(u)
    BY <1>5 DEF Videos
  <2>3. Videos(t) \subseteq Videos(u)
    BY <1>6 DEF Videos
  <2>4. QED
    BY <2>1, <2>2, <2>3
<1>8. Usable(u) = Usable(s) \cup Usable(t)
  <2>1. Usable(u) \subseteq Usable(s) \cup Usable(t)
    <3> SUFFICES ASSUME NEW i \in DOMAIN u, u[i].usable PROVE u[i].video \in Usable(s) \cup Usable(t)
      BY DEF Usable
    <3>1. CASE \E j \in DOMAIN s : u[i] = s[j]
      BY <3>1 DEF Usable
    <3>2. CASE \E j \in DOMAIN t : u[i] = t[j]
      BY <3>2 DEF Usable
    <3>3. QED
      BY <1>4, <3>1, <3>2
  <2>2. Usable(s) \subseteq Usable(u)
    BY <1>5 DEF Usable
  <2>3. Usable(t) \subseteq Usable(u)
    BY <1>6 DEF Usable
  <2>4. QED
    BY <2>1, <2>2, <2>3
<1>9. QED
  BY <1>1, <1>7, <1>8 DEF m, n, u

LEMMA KeptDocuments ==
  ASSUME NEW s \in Seq(Documents), NEW gone, Cardinality(Videos(s)) = Len(s)
  PROVE  /\ Kept(s, gone) \in Seq(Documents) /\ Cardinality(Videos(Kept(s, gone))) = Len(Kept(s, gone))
         /\ Videos(Kept(s, gone)) = Videos(s) \ gone /\ Usable(Kept(s, gone)) = Usable(s) \ gone
<1> DEFINE S == {i \in DOMAIN s : s[i].video \notin gone}
           c == Cardinality(S)
           t == Those(s, S)
<1>1. Kept(s, gone) = t
  BY DEF Kept
<1>2. S \in SUBSET (DOMAIN s) /\ DOMAIN s = 1..Len(s) /\ Len(s) \in Nat
  OBVIOUS
<1>3. \A i \in DOMAIN s : i \in S <=> s[i].video \notin gone
  OBVIOUS
<1> HIDE DEF S
<1>4. /\ t \in Seq(Documents) /\ Len(t) = c /\ DOMAIN t = 1..c
      /\ \A n \in 1..c : Place(S, n) \in S /\ t[n] = s[Place(S, n)]
  BY <1>2, ThoseOfSet
<1>5. /\ \A n, o \in 1..c : Place(S, n) = Place(S, o) => n = o
      /\ \A i \in S : \E n \in 1..c : Place(S, n) = i
  BY <1>2, PlacesAreOnto
<1> HIDE DEF c, t
<1>6. \A n \in DOMAIN t : t[n] = s[Place(S, n)] /\ Place(S, n) \in DOMAIN s /\ s[Place(S, n)].video \notin gone
  BY <1>2, <1>3, <1>4
<1>7. \A i \in DOMAIN s : s[i].video \notin gone => \E n \in DOMAIN t : t[n] = s[i]
  BY <1>3, <1>4, <1>5
<1>8. Cardinality(Videos(t)) = Len(t)
  <2>1. \A i, j \in DOMAIN s : s[i].video = s[j].video => i = j
    BY OnceEach
  <2>2. \A n, o \in DOMAIN t : t[n].video = t[o].video => n = o
    BY <1>4, <1>5, <1>6, <2>1
  <2>3. QED
    BY <1>4, <2>2, OnceEach
<1>9. Videos(t) = Videos(s) \ gone
  <2>1. Videos(t) \subseteq Videos(s) \ gone
    BY <1>6 DEF Videos
  <2>2. Videos(s) \ gone \subseteq Videos(t)
    BY <1>7 DEF Videos
  <2>3. QED
    BY <2>1, <2>2
<1>10. Usable(t) = Usable(s) \ gone
  <2>1. Usable(t) \subseteq Usable(s) \ gone
    BY <1>6 DEF Usable
  <2>2. Usable(s) \ gone \subseteq Usable(t)
    <3> SUFFICES ASSUME NEW i \in DOMAIN s, s[i].usable, s[i].video \notin gone PROVE s[i].video \in Usable(t)
      BY DEF Usable
    <3>1. PICK n \in DOMAIN t : t[n] = s[i]
      BY <1>7
    <3>2. QED
      BY <3>1 DEF Usable
  <2>3. QED
    BY <2>1, <2>2
<1>11. QED
  BY <1>1, <1>4, <1>8, <1>9, <1>10

\* The oldest m documents and the others.
LEMMA Parted ==
  ASSUME NEW s \in Seq(Documents), NEW m \in Nat, m <= Len(s), Cardinality(Videos(s)) = Len(s)
  PROVE  LET old == SubSeq(s, 1, m)
             new == SubSeq(s, m + 1, Len(s))
         IN  /\ old \in Seq(Documents) /\ Videos(old) \subseteq Videos(s) /\ Cardinality(Videos(old)) = m
             /\ new \in Seq(Documents) /\ Videos(new) \subseteq Videos(s)
             /\ Usable(new) = Usable(s) \ Videos(old)
<1> DEFINE old == SubSeq(s, 1, m)
           new == SubSeq(s, m + 1, Len(s))
           n   == Len(s)
<1>1. n \in Nat /\ DOMAIN s = 1..n
  OBVIOUS
<1>2. /\ old \in Seq(Documents) /\ Len(old) = m /\ DOMAIN old = 1..m
      /\ \A i \in 1..m : i \in 1..n /\ old[i] = s[i]
  OBVIOUS
<1>3. new \in Seq(Documents) /\ Len(new) = n - m /\ DOMAIN new = 1..(n - m)
  OBVIOUS
<1>4. \A i \in 1..(n - m) : m + i \in 1..n /\ m + i \notin 1..m /\ new[i] = s[m + i]
  OBVIOUS
<1>5. \A i \in 1..n : i \in 1..m \/ \E j \in 1..(n - m) : i = m + j
  <2> SUFFICES ASSUME NEW i \in 1..n, i \notin 1..m PROVE \E j \in 1..(n - m) : i = m + j
    OBVIOUS
  <2>1. i - m \in 1..(n - m) /\ i = m + (i - m)
    BY <1>1
  <2>2. QED
    BY <2>1
<1>6. \A i, j \in DOMAIN s : s[i].video = s[j].video => i = j
  BY OnceEach
<1> HIDE DEF old, new, n
<1>7. Videos(old) \subseteq Videos(s)
  BY <1>1, <1>2 DEF Videos
<1>8. Videos(new) \subseteq Videos(s)
  BY <1>1, <1>3, <1>4 DEF Videos
<1>9. Cardinality(Videos(old)) = m
  <2>1. \A i, j \in DOMAIN old : old[i].video = old[j].video => i = j
    BY <1>1, <1>2, <1>6
  <2>2. QED
    BY <1>2, <2>1, OnceEach
<1>10. Usable(new) = Usable(s) \ Videos(old)
  <2>1. Usable(new) \subseteq Usable(s)
    BY <1>1, <1>3, <1>4 DEF Usable
  <2>2. Usable(new) \cap Videos(old) = {}
    <3> SUFFICES ASSUME NEW i \in DOMAIN new, NEW j \in DOMAIN old, new[i].video = old[j].video PROVE FALSE
      BY DEF Usable, Videos
    <3>1. m + i \in DOMAIN s /\ j \in DOMAIN s /\ s[m + i].video = s[j].video /\ m + i \notin 1..m /\ j \in 1..m
      BY <1>1, <1>2, <1>3, <1>4
    <3>2. m + i = j
      BY <1>6, <3>1
    <3>3. QED
      BY <3>1, <3>2
  <2>3. Usable(s) \ Videos(old) \subseteq Usable(new)
    <3> SUFFICES ASSUME NEW i \in DOMAIN s, s[i].usable, s[i].video \notin Videos(old) PROVE s[i].video \in Usable(new)
      BY DEF Usable
    <3>1. i \notin 1..m
      BY <1>2 DEF Videos
    <3>2. PICK j \in 1..(n - m) : i = m + j
      BY <1>1, <1>5, <3>1
    <3>3. j \in DOMAIN new /\ new[j] = s[i]
      BY <1>3, <1>4, <3>2
    <3>4. QED
      BY <3>3 DEF Usable
  <2>4. QED
    BY <2>1, <2>2, <2>3
<1>11. QED
  BY <1>2, <1>3, <1>7, <1>8, <1>9, <1>10 DEF old, new, n

\* The fresh documents replace gone in s, the oldest of the documents known.
Replaces(s, known, fresh, gone) ==
  /\ s \in Seq(Documents) /\ known \in Seq(Documents) /\ fresh \in Seq(Documents)
  /\ Cardinality(Videos(s)) = Len(s) /\ Cardinality(Videos(known)) = Len(known)
  /\ Cardinality(Videos(fresh)) = Len(fresh) /\ Len(fresh) <= Len(known)
  /\ gone = Videos(SubSeq(known, 1, Len(fresh))) /\ gone \subseteq Videos(s)
  /\ Videos(fresh) \cap Videos(s) = {} /\ Usable(fresh) = Videos(fresh)

\* A rotation keeps as many documents, each of a video of its own.
LEMMA Rotated ==
  ASSUME NEW s, NEW known, NEW fresh, NEW gone, Replaces(s, known, fresh, gone)
  PROVE  LET t == Kept(s, gone) \o fresh
         IN  /\ t \in Seq(Documents) /\ Len(t) = Len(s) /\ Cardinality(Videos(t)) = Len(t)
             /\ Videos(t) = (Videos(s) \ gone) \cup Videos(fresh)
             /\ Usable(t) = (Usable(s) \ gone) \cup Videos(fresh)
<1> DEFINE kept == Kept(s, gone)
           t    == kept \o fresh
<1> USE DEF Replaces
<1>1. Len(fresh) \in Nat /\ Len(s) \in Nat
  OBVIOUS
<1>2. Cardinality(gone) = Len(fresh)
  BY <1>1, Parted
<1>3. /\ kept \in Seq(Documents) /\ Cardinality(Videos(kept)) = Len(kept)
      /\ Videos(kept) = Videos(s) \ gone /\ Usable(kept) = Usable(s) \ gone
  BY KeptDocuments
<1> HIDE DEF kept
<1>4. /\ t \in Seq(Documents) /\ Len(t) = Len(kept) + Len(fresh)
      /\ Videos(t) = Videos(kept) \cup Videos(fresh) /\ Usable(t) = Usable(kept) \cup Usable(fresh)
  BY <1>3, Joined
<1> HIDE DEF t
<1>5. IsFiniteSet(Videos(s)) /\ IsFiniteSet(Videos(kept)) /\ IsFiniteSet(Videos(fresh))
  BY <1>3, Records
<1>6. Videos(s) \cap gone = gone
  OBVIOUS
<1>7. Cardinality(Videos(kept)) = Len(s) - Len(fresh)
  <2>1. Cardinality(Videos(s) \ gone) = Cardinality(Videos(s)) - Cardinality(Videos(s) \cap gone)
    BY <1>5, FS_Difference
  <2>2. QED
    BY <1>2, <1>3, <1>6, <2>1
<1>8. Videos(kept) \cap Videos(fresh) = {}
  BY <1>3
<1>9. Cardinality(Videos(t)) = Cardinality(Videos(kept)) + Cardinality(Videos(fresh))
  <2>1. Cardinality(Videos(kept) \cap Videos(fresh)) = 0
    BY <1>8, FS_EmptySet
  <2>2. Cardinality(Videos(kept)) \in Nat /\ Cardinality(Videos(fresh)) \in Nat
    BY <1>5, FS_CardinalityType
  <2>3. Cardinality(Videos(kept) \cup Videos(fresh))
          = Cardinality(Videos(kept)) + Cardinality(Videos(fresh)) - Cardinality(Videos(kept) \cap Videos(fresh))
    BY <1>5, FS_Union
  <2>4. QED
    BY <1>4, <2>1, <2>2, <2>3
<1>10. Len(t) = Len(s) /\ Cardinality(Videos(t)) = Len(t)
  BY <1>1, <1>3, <1>4, <1>7, <1>9
<1>11. QED
  BY <1>3, <1>4, <1>10 DEF t, kept

\* A video that is not among them extends documents that are sound, and what is found
\* stays within the channel.
LEMMA Extended ==
  ASSUME NEW k \in Libraries, NEW s, Sound(s, k), NEW d \in Documents, d.video \notin Videos(s),
         d.video \in Range(Channel[k]), d.usable
  PROVE  /\ Sound(Append(s, d), k) /\ Len(Append(s, d)) = Len(s) + 1
         /\ Videos(Append(s, d)) = Videos(s) \cup {d.video} /\ Usable(Append(s, d)) = Usable(s) \cup {d.video}
<1>1. s \in Seq(Documents) /\ Cardinality(Videos(s)) = Len(s) /\ Videos(s) \subseteq Range(Channel[k])
  BY DEF Sound
<1>2. /\ Append(s, d) \in Seq(Documents) /\ Len(Append(s, d)) = Len(s) + 1
      /\ Videos(Append(s, d)) = Videos(s) \cup {d.video} /\ Usable(Append(s, d)) = Usable(s) \cup {d.video}
  BY <1>1, Appended
<1>3. Cardinality(Videos(s) \cup {d.video}) = Cardinality(Videos(s)) + 1
  BY <1>1, Records, FS_AddElement
<1>4. QED
  BY <1>1, <1>2, <1>3 DEF Sound

LEMMA RefreshIsPart ==
  ASSUME NEW n \in Nat, n >= MinDocs
  PROVE  RefreshCount(n) \in Nat /\ RefreshCount(n) <= n
<1>1. Fraction \in 0..100 /\ MinDocs \in Nat \ {0}
  BY CorpusAssumption
<1>2. n >= 1
  BY <1>1
<1> DEFINE p == n * Fraction
<1>3. p \in Nat /\ p <= n * 100
  BY <1>1
<1> HIDE DEF p
<1>4. p \div 100 \in Nat /\ p \div 100 <= n
  BY <1>3
<1>5. QED
  BY <1>2, <1>4 DEF RefreshCount, p

--------------------------------------------------------------------------------
(* The parts of the state. *)

LEMMA ListedVideos ==
  ASSUME NEW k \in Libraries
  PROVE  /\ Channel[k] \in Seq(Range(Channel[k])) /\ Popular[k] \in Seq(Range(Channel[k]))
         /\ Range(Channel[k]) \subseteq Listed
  BY ListingAssumption DEF Listed

LEMMA JobTyped ==
  ASSUME Typed, NEW j \in Jobs
  PROVE  /\ job[j] \in JobType /\ JobSound(j)
         /\ job[j].pc \in Working \cup {"none", "scheduled", "done"} /\ job[j].server \in BOOLEAN
         /\ job[j].rotate \in BOOLEAN /\ job[j].refresh \in BOOLEAN /\ job[j].keys \in Seq(Libraries)
         /\ job[j].known \in Seq(Documents) /\ job[j].fresh \in Seq(Documents)
         /\ job[j].pending \in Seq(Listed) /\ job[j].version \in Nat
         /\ job[j].keys # <<>> =>
              /\ Key(j) \in Libraries /\ Tail(job[j].keys) \in Seq(Libraries)
              /\ docs[Key(j)] \in Seq(Documents) /\ Sound(docs[Key(j)], Key(j))
<1>1. job[j] \in JobType /\ JobSound(j) /\ docs \in [Libraries -> Seq(Documents)] /\ \A k \in Libraries : Sound(docs[k], k)
  BY DEF Typed
<1>2. /\ job[j].pc \in Working \cup {"none", "scheduled", "done"} /\ job[j].server \in BOOLEAN
      /\ job[j].rotate \in BOOLEAN /\ job[j].refresh \in BOOLEAN /\ job[j].keys \in Seq(Libraries)
      /\ job[j].known \in Seq(Documents) /\ job[j].fresh \in Seq(Documents)
      /\ job[j].pending \in Seq(Listed) /\ job[j].version \in Nat
  BY <1>1 DEF JobType
<1>3. job[j].keys # <<>> => Key(j) \in Libraries /\ Tail(job[j].keys) \in Seq(Libraries)
  BY <1>2 DEF Key
<1>4. QED
  BY <1>1, <1>2, <1>3

LEMMA IdleTyped ==
  /\ \A p \in Working \cup {"none", "scheduled", "done"} : [Idle EXCEPT !.pc = p] \in JobType
  /\ Idle \in JobType /\ NoReader \in ReaderType /\ NoReader.pc = "idle"
<1>1. Idle \in JobType /\ \A p \in Working \cup {"none", "scheduled", "done"} : [Idle EXCEPT !.pc = p] \in JobType
  <2>1. <<>> \in Seq(Libraries) /\ <<>> \in Seq(Documents) /\ <<>> \in Seq(Listed) /\ 0 \in Nat
    OBVIOUS
  <2>2. QED
    BY <2>1 DEF Idle, JobType
<1>2. NoReader \in ReaderType /\ NoReader.pc = "idle"
  BY DEF NoReader, ReaderType
<1>3. QED
  BY <1>1, <1>2

LEMMA MissingIsCount ==
  ASSUME NEW j \in Jobs, job[j].refresh \in BOOLEAN, NEW known \in Seq(Documents),
         job[j].refresh => Len(known) >= MinDocs
  PROVE  /\ Missing(j, known) \in Nat
         /\ job[j].refresh => Missing(j, known) <= Len(known)
         /\ Cardinality(Usable(known)) \in Nat
<1>1. Len(known) \in Nat /\ IsFiniteSet(Videos(known)) /\ Usable(known) \in SUBSET Videos(known)
  BY Records
<1>2. Cardinality(Usable(known)) \in Nat
  BY <1>1, FS_Subset, FS_CardinalityType
<1>3. CASE job[j].refresh
  BY <1>1, <1>2, <1>3, RefreshIsPart DEF Missing
<1>4. CASE ~job[j].refresh
  BY <1>2, <1>4, CorpusAssumption DEF Missing
<1>5. QED
  BY <1>3, <1>4

\* One rebuild goes on.
LEMMA Changed ==
  ASSUME Typed, NEW j \in Jobs, NEW new \in JobType, job' = [job EXCEPT ![j] = new]
  PROVE  /\ job' \in [Jobs -> JobType] /\ job'[j] = new /\ \A i \in Jobs \ {j} : job'[i] = job[i]
         /\ \A i \in Jobs \ {j} : JobSound(i)'
<1>1. job \in [Jobs -> JobType] /\ \A i \in Jobs : JobSound(i)
  BY DEF Typed
<1>2. job' \in [Jobs -> JobType] /\ job'[j] = new /\ \A i \in Jobs \ {j} : job'[i] = job[i]
  BY <1>1
<1>3. ASSUME NEW i \in Jobs, job'[i] = job[i] PROVE JobSound(i)'
  BY <1>1, <1>3 DEF JobSound, Key, Missing
<1>4. QED
  BY <1>2, <1>3

\* A rebuild that is not at a library carries nothing.
LEMMA TypedByJob ==
  ASSUME Typed, NEW j \in Jobs, NEW new \in JobType, job' = [job EXCEPT ![j] = new],
         JobSound(j)' \/ new.pc \notin Busy,
         docs' \in [Libraries -> Seq(Documents)], \A k \in Libraries : Sound(docs'[k], k),
         rows' \in [Libraries -> Seq(Library)], cache' \in [Libraries -> Library \cup {None}],
         building' \in BOOLEAN, calm' \in BOOLEAN, UNCHANGED <<reader, active>>
  PROVE  Typed'
<1>1. /\ job' \in [Jobs -> JobType] /\ job'[j] = new
      /\ \A i \in Jobs \ {j} : JobSound(i)'
  BY Changed
<1>2. JobSound(j)'
  <2>1. CASE new.pc \notin Busy
    BY <1>1, <2>1 DEF JobSound, Busy, Working
  <2>2. QED
    BY <2>1
<1>3. \A k \in Libraries : Sound(docs[k], k)'
  BY DEF Sound, Videos
<1>4. (active \in Library \cup {None})' /\ (reader \in ReaderType /\ (reader.pc = "query" => reader.keys # <<>>))'
  BY DEF Typed, ReaderType, Library
<1>5. (\A k \in Libraries : Sound(docs[k], k))'
  BY <1>3
<1>6. (\A i \in Jobs : JobSound(i))'
  BY <1>1, <1>2
<1>7. QED
  BY <1>1, <1>4, <1>5, <1>6 DEF Typed

\* The same, when what it carries stays.
LEMMA CarriesOn ==
  ASSUME Typed, NEW j \in Jobs, job[j].pc \in Busy \ {"reading"}, NEW p \in Busy, NEW v,
         p = "rotating" => job[j].refresh,
         job'[j] = [job[j] EXCEPT !.pc = p, !.version = v]
  PROVE  JobSound(j)'
<1>1. job[j] \in JobType /\ JobSound(j)
  BY JobTyped
<1>2. /\ job'[j].pc = p /\ job'[j].keys = job[j].keys /\ job'[j].known = job[j].known /\ job'[j].fresh = job[j].fresh
      /\ job'[j].pending = job[j].pending /\ job'[j].refresh = job[j].refresh
  BY <1>1 DEF JobType
<1>3. QED
  BY <1>1, <1>2 DEF JobSound, Key, Missing, Busy

--------------------------------------------------------------------------------
(* The types. *)

LEMMA InitTyped == Init => Typed
<1> SUFFICES ASSUME Init PROVE Typed
  OBVIOUS
<1>1. docs \in [Libraries -> Seq(Documents)] /\ \A k \in Libraries : Sound(docs[k], k)
  BY InitAssumption DEF Init, Sound
<1>2. /\ rows \in [Libraries -> Seq(Library)] /\ cache \in [Libraries -> Library \cup {None}]
      /\ building \in BOOLEAN /\ calm \in BOOLEAN /\ active \in Library \cup {None}
  <2>1. <<>> \in Seq(Library)
    OBVIOUS
  <2>2. QED
    BY <2>1 DEF Init
<1>3. job \in [Jobs -> JobType] /\ reader \in ReaderType /\ reader.pc = "idle"
  BY IdleTyped DEF Init
<1>4. \A j \in Jobs : JobSound(j)
  BY DEF Init, Idle, JobSound, Busy, Working
<1>5. QED
  BY <1>1, <1>2, <1>3, <1>4 DEF Typed

LEMMA EndTyped ==
  ASSUME Typed, NEW j \in Jobs, End(j), UNCHANGED <<docs, rows, cache, reader, active, calm>>
  PROVE  Typed'
<1> DEFINE new == [Idle EXCEPT !.pc = "done"]
<1>1. new \in JobType /\ new.pc \notin Busy
  BY IdleTyped DEF Idle, Busy, Working
<1>2. job' = [job EXCEPT ![j] = new] /\ building' \in BOOLEAN
  BY DEF End, Typed
<1>3. /\ docs \in [Libraries -> Seq(Documents)] /\ \A k \in Libraries : Sound(docs[k], k)
      /\ rows \in [Libraries -> Seq(Library)] /\ cache \in [Libraries -> Library \cup {None}] /\ calm \in BOOLEAN
  BY DEF Typed
<1> HIDE DEF new
<1>4. QED
  BY <1>1, <1>2, <1>3, TypedByJob

\* A rebuild finds the videos it lacks.
LEMMA FoundTyped ==
  ASSUME Typed, NEW j \in Jobs, job[j].pc = "reading", NEW refresh \in BOOLEAN,
         NEW videos \in Seq(Range(Channel[Key(j)])), Found(j, refresh, videos),
         refresh => Len(docs[Key(j)]) >= MinDocs, UNCHANGED <<docs, rows, cache, reader, active, calm>>
  PROVE  Typed'
<1> DEFINE known   == docs[Key(j)]
           S       == {i \in DOMAIN videos : videos[i] \notin Videos(known)}
           pending == Those(videos, S)
           new     == [job[j] EXCEPT !.pc = "videos", !.refresh = refresh, !.known = known, !.fresh = <<>>,
                                     !.pending = pending]
<1>1. job[j].keys # <<>> /\ job[j] \in JobType
  BY JobTyped DEF JobSound, Busy, Working
<1>2. Key(j) \in Libraries /\ known \in Seq(Documents) /\ Sound(known, Key(j))
  BY <1>1, JobTyped
<1>3. pending \in Seq(Range(Channel[Key(j)]))
  <2>1. S \in SUBSET (DOMAIN videos)
    OBVIOUS
  <2> HIDE DEF S
  <2>2. QED
    BY <2>1, ThoseOfSet
<1> HIDE DEF S
<1>4. job' = [job EXCEPT ![j] = new] /\ building' = building
  BY DEF Found, Become, S
<1>5. new \in JobType
  <2>1. pending \in Seq(Listed)
    <3>1. Range(Channel[Key(j)]) \subseteq Listed
      BY <1>2, ListedVideos
    <3> HIDE DEF pending
    <3>2. QED
      BY <1>3, <3>1
  <2>2. <<>> \in Seq(Documents) /\ "videos" \in Working
    BY DEF Working
  <2> HIDE DEF pending, known
  <2>3. QED
    BY <1>1, <1>2, <2>1, <2>2 DEF JobType
<1>6. /\ new.pc = "videos" /\ new.keys = job[j].keys /\ new.known = known /\ new.fresh = <<>>
      /\ new.pending = pending /\ new.refresh = refresh
  BY <1>1 DEF JobType
<1>7. job'[j] = new
  <2> HIDE DEF new
  <2>1. QED
    BY <1>4, <1>5, Changed
<1> HIDE DEF new
<1>8. JobSound(j)'
  <2>1. Videos(<<>>) = {} /\ Usable(<<>>) = {} /\ Len(<<>>) = 0
    BY DEF Videos, Usable
  <2>2. Key(j)' = Key(j)
    BY <1>6, <1>7 DEF Key
  <2>3. (Len(job[j].fresh) <= Missing(j, job[j].known))'
    <3>1. Cardinality(Usable(known)) \in Nat
      BY <1>2, Records, FS_Subset, FS_CardinalityType
    <3>2. Len(known) \in Nat /\ (refresh => RefreshCount(Len(known)) \in Nat)
      BY <1>2, RefreshIsPart
    <3> DEFINE needed == IF refresh THEN RefreshCount(Len(known))
                         ELSE IF Cardinality(Usable(known)) >= MaxDocs THEN 0 ELSE MaxDocs - Cardinality(Usable(known))
    <3>3. needed \in Nat /\ 0 <= needed
      BY <3>1, <3>2, CorpusAssumption
    <3>4. job'[j].refresh = refresh /\ job'[j].known = known /\ job'[j].fresh = <<>>
      BY <1>6, <1>7
    <3> HIDE DEF known
    <3>5. Missing(j, job[j].known)' = needed
      BY <3>4 DEF Missing, RefreshCount, Usable
    <3> HIDE DEF needed
    <3>6. QED
      BY <3>3, <3>4, <3>5, <2>1
  <2>4. Sound(job[j].known, Key(j))'
    <3> HIDE DEF known
    <3>1. QED
      BY <1>2, <1>6, <1>7, <2>2 DEF Sound, Videos
  <2>5. (job[j].pending \in Seq(Range(Channel[Key(j)])))'
    <3> HIDE DEF known, pending
    <3>1. QED
      BY <1>3, <1>6, <1>7, <2>2
  <2>6. (Videos(job[j].fresh) \subseteq Range(Channel[Key(j)]) /\ Usable(job[j].fresh) = Videos(job[j].fresh))'
    BY <1>6, <1>7, <2>1 DEF Videos, Usable
  <2>7. (job[j].keys # <<>> /\ (job[j].refresh => Len(job[j].known) >= MinDocs))'
    BY <1>1, <1>6, <1>7
  <2>8. job'[j].pc = "videos"
    BY <1>6, <1>7
  <2>9. QED
    BY <2>3, <2>4, <2>5, <2>6, <2>7, <2>8 DEF JobSound
<1>9. /\ docs' \in [Libraries -> Seq(Documents)] /\ \A k \in Libraries : Sound(docs'[k], k)
      /\ rows' \in [Libraries -> Seq(Library)] /\ cache' \in [Libraries -> Library \cup {None}]
      /\ calm' \in BOOLEAN /\ building' \in BOOLEAN
  BY <1>4 DEF Typed
<1>10. QED
  BY <1>4, <1>5, <1>8, <1>9, TypedByJob

LEMMA VideoWanted ==
  ASSUME Typed, NEW j \in Jobs, Wants(j)
  PROVE  /\ job[j].keys # <<>> /\ Key(j) \in Libraries
         /\ Document(j) \in Documents /\ Document(j).usable /\ Document(j).video = Head(job[j].pending)
         /\ Document(j).video \in Range(Channel[Key(j)])
         /\ Tail(job[j].pending) \in Seq(Range(Channel[Key(j)])) /\ Tail(job[j].pending) \in Seq(Listed)
<1>1. JobSound(j) /\ job[j].pc = "videos" /\ job[j].pending # <<>> /\ job[j].pending \in Seq(Listed)
  BY JobTyped DEF Wants, At
<1>2. job[j].keys # <<>> /\ job[j].pending \in Seq(Range(Channel[Key(j)]))
  BY <1>1 DEF JobSound, Busy, Working
<1>3. Key(j) \in Libraries
  BY <1>2, JobTyped
<1>4. /\ Head(job[j].pending) \in Range(Channel[Key(j)]) /\ Head(job[j].pending) \in Listed
      /\ Tail(job[j].pending) \in Seq(Range(Channel[Key(j)])) /\ Tail(job[j].pending) \in Seq(Listed)
  <2>1. ASSUME NEW S, NEW s \in Seq(S), s # <<>> PROVE Head(s) \in S /\ Tail(s) \in Seq(S)
    BY <2>1
  <2>2. QED
    BY <1>1, <1>2, <2>1
<1>5. QED
  BY <1>2, <1>3, <1>4 DEF Document, Documents

LEMMA VideoTyped ==
  ASSUME Typed, NEW j \in Jobs, Wants(j), Become(j, Skip(j)) \/ Become(j, Keep(j)),
         docs' \in [Libraries -> Seq(Documents)], \A k \in Libraries : Sound(docs'[k], k),
         UNCHANGED <<rows, cache, reader, active, calm>>
  PROVE  Typed'
<1>1. job[j] \in JobType /\ JobSound(j) /\ job[j].pc = "videos" /\ job[j].refresh \in BOOLEAN
  BY JobTyped DEF Wants, At
<1>2. /\ job[j].keys # <<>> /\ Sound(job[j].known, Key(j)) /\ job[j].pending \in Seq(Range(Channel[Key(j)]))
      /\ Videos(job[j].fresh) \subseteq Range(Channel[Key(j)]) /\ Usable(job[j].fresh) = Videos(job[j].fresh)
      /\ job[j].refresh => Len(job[j].known) >= MinDocs
  BY <1>1 DEF JobSound, Busy, Working
<1>3. /\ Document(j) \in Documents /\ Document(j).usable /\ Document(j).video \in Range(Channel[Key(j)])
      /\ Tail(job[j].pending) \in Seq(Range(Channel[Key(j)])) /\ Tail(job[j].pending) \in Seq(Listed)
  BY VideoWanted
<1>4. job[j].known \in Seq(Documents) /\ job[j].fresh \in Seq(Documents) /\ Len(job[j].fresh) < Missing(j, job[j].known)
  BY JobTyped DEF Wants
<1>5. Missing(j, job[j].known) \in Nat
  BY <1>1, <1>2, <1>4, MissingIsCount
<1> DEFINE longer == Append(job[j].fresh, Document(j))
<1>6. /\ longer \in Seq(Documents) /\ Len(longer) = Len(job[j].fresh) + 1
      /\ Videos(longer) = Videos(job[j].fresh) \cup {Document(j).video}
      /\ Usable(longer) = Usable(job[j].fresh) \cup {Document(j).video}
  BY <1>3, <1>4, Appended
<1> HIDE DEF longer
<1>7. PICK fresh \in Seq(Documents) :
        /\ job' = [job EXCEPT ![j] = [job[j] EXCEPT !.pending = Tail(@), !.fresh = fresh]]
        /\ Len(fresh) <= Missing(j, job[j].known)
        /\ Videos(fresh) \subseteq Range(Channel[Key(j)]) /\ Usable(fresh) = Videos(fresh)
  <2>1. CASE Become(j, Skip(j))
    <3>1. Skip(j) = [job[j] EXCEPT !.pending = Tail(@), !.fresh = job[j].fresh]
      BY <1>1 DEF Skip, JobType
    <3>2. Len(job[j].fresh) <= Missing(j, job[j].known)
      BY <1>4, <1>5
    <3>3. QED
      BY <1>2, <1>4, <2>1, <3>1, <3>2 DEF Become
  <2>2. CASE Become(j, Keep(j))
    <3>1. Keep(j) = [job[j] EXCEPT !.pending = Tail(@), !.fresh = longer]
      BY <1>1 DEF Keep, Skip, JobType, longer
    <3>2. Len(longer) <= Missing(j, job[j].known)
      BY <1>4, <1>5, <1>6
    <3>3. Videos(longer) \subseteq Range(Channel[Key(j)]) /\ Usable(longer) = Videos(longer)
      BY <1>2, <1>3, <1>6
    <3>4. QED
      BY <1>6, <2>2, <3>1, <3>2, <3>3 DEF Become
  <2>3. QED
    BY <2>1, <2>2
<1> DEFINE new == [job[j] EXCEPT !.pending = Tail(@), !.fresh = fresh]
<1>8. new \in JobType
  BY <1>1, <1>3 DEF JobType
<1>9. /\ new.pc = "videos" /\ new.keys = job[j].keys /\ new.known = job[j].known /\ new.fresh = fresh
      /\ new.pending = Tail(job[j].pending) /\ new.refresh = job[j].refresh
  BY <1>1 DEF JobType
<1> HIDE DEF new
<1>10. job' = [job EXCEPT ![j] = new]
  BY <1>7 DEF new
<1>11. job'[j] = new
  BY <1>8, <1>10, Changed
<1>12. JobSound(j)'
  <2>1. Key(j)' = Key(j) /\ Missing(j, job[j].known)' = Missing(j, job[j].known)
    BY <1>9, <1>11 DEF Key, Missing
  <2>2. QED
    BY <1>2, <1>3, <1>7, <1>9, <1>11, <2>1 DEF JobSound
<1>13. /\ rows' \in [Libraries -> Seq(Library)] /\ cache' \in [Libraries -> Library \cup {None}]
       /\ building' \in BOOLEAN /\ calm' \in BOOLEAN
  BY DEF Typed, Become
<1>14. QED
  BY <1>8, <1>10, <1>12, <1>13, TypedByJob

LEMMA BuildTyped ==
  ASSUME Typed, NEW j \in Jobs, BuildVideo(j)
  PROVE  Typed'
<1>1. Wants(j) /\ UNCHANGED <<rows, cache, reader, active, calm>>
  BY DEF BuildVideo
<1>2. docs \in [Libraries -> Seq(Documents)] /\ \A k \in Libraries : Sound(docs[k], k)
  BY DEF Typed
<1>3. CASE Become(j, Skip(j)) /\ UNCHANGED docs
  BY <1>1, <1>2, <1>3, VideoTyped
<1>4. CASE End(j) /\ UNCHANGED docs
  BY <1>1, <1>4, EndTyped
<1>5. CASE /\ Head(job[j].pending) \notin Known
           /\ Become(j, Keep(j)) /\ docs' = [docs EXCEPT ![Key(j)] = Append(@, Document(j))]
  <2>1. /\ Key(j) \in Libraries /\ Document(j) \in Documents /\ Document(j).usable
        /\ Document(j).video = Head(job[j].pending) /\ Document(j).video \in Range(Channel[Key(j)])
    BY <1>1, VideoWanted
  <2>2. Document(j).video \notin Videos(docs[Key(j)])
    BY <1>5, <2>1 DEF Known
  <2>3. Sound(Append(docs[Key(j)], Document(j)), Key(j))
    BY <1>2, <2>1, <2>2, Extended
  <2>4. docs' \in [Libraries -> Seq(Documents)] /\ \A k \in Libraries : Sound(docs'[k], k)
    <3>1. Append(docs[Key(j)], Document(j)) \in Seq(Documents)
      BY <2>3 DEF Sound
    <3>2. QED
      BY <1>2, <1>5, <2>1, <2>3, <3>1
  <2>5. QED
    BY <1>1, <1>5, <2>4, VideoTyped
<1>6. QED
  BY <1>3, <1>4, <1>5 DEF BuildVideo

LEMMA RotationSound ==
  ASSUME Typed, NEW j \in Jobs, job[j].pc = "rotating",
         Replaced(j) \subseteq Videos(docs[Key(j)]), Videos(job[j].fresh) \cap Known = {},
         Cardinality(Videos(job[j].fresh)) = Len(job[j].fresh)
  PROVE  LET t == Kept(docs[Key(j)], Replaced(j)) \o job[j].fresh
         IN  /\ Key(j) \in Libraries /\ Sound(t, Key(j)) /\ Len(t) = Len(docs[Key(j)])
             /\ Videos(t) = (Videos(docs[Key(j)]) \ Replaced(j)) \cup Videos(job[j].fresh)
             /\ Usable(t) = (Usable(docs[Key(j)]) \ Replaced(j)) \cup Videos(job[j].fresh)
<1> DEFINE known == job[j].known
           fresh == job[j].fresh
           k     == Key(j)
           t     == Kept(docs[k], Replaced(j)) \o fresh
<1>1. known \in Seq(Documents) /\ fresh \in Seq(Documents) /\ job[j].refresh \in BOOLEAN /\ JobSound(j)
  BY JobTyped
<1>2. /\ job[j].keys # <<>> /\ Sound(known, k) /\ job[j].refresh
      /\ Videos(fresh) \subseteq Range(Channel[k]) /\ Usable(fresh) = Videos(fresh)
      /\ Len(fresh) <= Missing(j, known) /\ Len(known) >= MinDocs
  BY <1>1 DEF JobSound, Busy, Working
<1>3. k \in Libraries /\ docs[k] \in Seq(Documents) /\ Sound(docs[k], k)
  BY <1>2, JobTyped
<1>4. Len(fresh) <= Len(known)
  <2>1. Missing(j, known) \in Nat /\ Missing(j, known) <= Len(known)
    BY <1>1, <1>2, MissingIsCount
  <2>2. Len(fresh) \in Nat /\ Len(known) \in Nat
    BY <1>1
  <2>3. QED
    BY <1>2, <2>1, <2>2
<1>5. Videos(fresh) \cap Videos(docs[k]) = {}
  BY <1>3 DEF Known
<1>6. Cardinality(Videos(docs[k])) = Len(docs[k]) /\ Cardinality(Videos(known)) = Len(known) /\ Videos(docs[k]) \subseteq Range(Channel[k])
  BY <1>2, <1>3 DEF Sound
<1>7. Replaced(j) = Videos(SubSeq(known, 1, Len(fresh)))
  BY DEF Replaced
<1> HIDE DEF known, fresh, k
<1>8. /\ t \in Seq(Documents) /\ Len(t) = Len(docs[k]) /\ Cardinality(Videos(t)) = Len(t)
      /\ Videos(t) = (Videos(docs[k]) \ Replaced(j)) \cup Videos(fresh)
      /\ Usable(t) = (Usable(docs[k]) \ Replaced(j)) \cup Videos(fresh)
  <2>1. Cardinality(Videos(fresh)) = Len(fresh) /\ Replaced(j) \subseteq Videos(docs[k])
    BY DEF fresh, k
  <2> DEFINE s    == docs[k]
             gone == Replaced(j)
  <2>2. Replaces(s, known, fresh, gone)
    BY <1>1, <1>2, <1>3, <1>4, <1>5, <1>6, <1>7, <2>1 DEF Replaces
  <2> HIDE DEF s, gone
  <2>3. /\ Kept(s, gone) \o fresh \in Seq(Documents) /\ Len(Kept(s, gone) \o fresh) = Len(s)
        /\ Cardinality(Videos(Kept(s, gone) \o fresh)) = Len(Kept(s, gone) \o fresh)
        /\ Videos(Kept(s, gone) \o fresh) = (Videos(s) \ gone) \cup Videos(fresh)
        /\ Usable(Kept(s, gone) \o fresh) = (Usable(s) \ gone) \cup Videos(fresh)
    BY <2>2, Rotated
  <2>4. QED
    BY <2>3 DEF s, gone
<1> HIDE DEF t
<1>9. Sound(t, k)
  BY <1>2, <1>6, <1>8 DEF Sound
<1>10. QED
  BY <1>3, <1>8, <1>9 DEF t, k, fresh

LEMMA GoesOnTyped ==
  ASSUME Typed, NEW j \in Jobs, job[j].pc \in Busy \ {"reading"}, NEW p \in Busy, NEW v \in Nat,
         p = "rotating" => job[j].refresh, Become(j, [job[j] EXCEPT !.pc = p, !.version = v]),
         docs' \in [Libraries -> Seq(Documents)], \A k \in Libraries : Sound(docs'[k], k),
         rows' \in [Libraries -> Seq(Library)], UNCHANGED <<cache, reader, active, calm>>
  PROVE  Typed'
<1> DEFINE new == [job[j] EXCEPT !.pc = p, !.version = v]
<1>1. new \in JobType
  <2>1. job[j] \in JobType /\ p \in Working
    BY JobTyped DEF Busy
  <2>2. QED
    BY <2>1 DEF JobType
<1>2. job' = [job EXCEPT ![j] = new] /\ building' = building
  BY DEF Become
<1> HIDE DEF new
<1>3. job'[j] = new
  BY <1>1, <1>2, Changed
<1>4. JobSound(j)'
  BY <1>3, CarriesOn DEF new
<1>5. cache' \in [Libraries -> Library \cup {None}] /\ building' \in BOOLEAN /\ calm' \in BOOLEAN
  BY <1>2 DEF Typed
<1>6. QED
  BY <1>1, <1>2, <1>4, <1>5, TypedByJob

LEMMA RotateTyped ==
  ASSUME Typed, NEW j \in Jobs, Rotate(j)
  PROVE  Typed'
<1>1. job[j].pc = "rotating" /\ UNCHANGED <<rows, cache, reader, active, calm>>
  BY DEF Rotate, At
<1>2. docs \in [Libraries -> Seq(Documents)] /\ (\A l \in Libraries : Sound(docs[l], l)) /\ rows \in [Libraries -> Seq(Library)]
  BY DEF Typed
<1>3. CASE End(j) /\ UNCHANGED docs
  BY <1>1, <1>3, EndTyped
<1>4. CASE /\ Replaced(j) \subseteq Videos(docs[Key(j)]) /\ Videos(job[j].fresh) \cap Known = {}
           /\ Cardinality(Videos(job[j].fresh)) = Len(job[j].fresh)
           /\ docs' = [docs EXCEPT ![Key(j)] = Kept(@, Replaced(j)) \o job[j].fresh]
           /\ Become(j, [job[j] EXCEPT !.pc = "numbering"])
  <2> DEFINE t == Kept(docs[Key(j)], Replaced(j)) \o job[j].fresh
  <2>1. Key(j) \in Libraries /\ Sound(t, Key(j))
    BY <1>1, <1>4, RotationSound
  <2>2. docs' = [docs EXCEPT ![Key(j)] = t]
    BY <1>4
  <2> HIDE DEF t
  <2>3. docs' \in [Libraries -> Seq(Documents)] /\ \A k \in Libraries : Sound(docs'[k], k)
    <3>1. t \in Seq(Documents)
      BY <2>1 DEF Sound
    <3>2. QED
      BY <1>2, <2>1, <2>2, <3>1
  <2>4. [job[j] EXCEPT !.pc = "numbering"] = [job[j] EXCEPT !.pc = "numbering", !.version = job[j].version]
    BY JobTyped DEF JobType
  <2>5. job[j].version \in Nat /\ job[j].pc \in Busy \ {"reading"} /\ "numbering" \in Busy
    BY <1>1, JobTyped DEF Busy, Working
  <2>6. Become(j, [job[j] EXCEPT !.pc = "numbering", !.version = job[j].version])
    BY <1>4, <2>4
  <2>7. rows' \in [Libraries -> Seq(Library)] /\ UNCHANGED <<cache, reader, active, calm>>
    BY <1>1, <1>2
  <2>8. QED
    BY <1>1, <2>3, <2>5, <2>6, <2>7, GoesOnTyped
<1>5. QED
  BY <1>3, <1>4 DEF Rotate

\* What a library is made from are videos that are listed.
LEMMA MadeIsLibrary ==
  ASSUME Typed, NEW j \in Jobs
  PROVE  Made(j) \in Library /\ Made(j).version = job[j].version
<1>1. job[j].known \in Seq(Documents) /\ job[j].fresh \in Seq(Documents) /\ job[j].version \in Nat
  BY JobTyped
<1> DEFINE rest == SubSeq(job[j].known, Len(job[j].fresh) + 1, Len(job[j].known))
           kept == IF job[j].refresh THEN rest ELSE job[j].known
<1>2. rest \in Seq(Documents)
  <2>1. \A s \in Seq(Documents) : \A m \in Nat : SubSeq(s, m + 1, Len(s)) \in Seq(Documents)
    OBVIOUS
  <2>2. QED
    BY <1>1, <2>1
<1> HIDE DEF rest
<1>3. kept \in Seq(Documents)
  BY <1>1, <1>2
<1> HIDE DEF kept
<1>4. Usable(kept) \subseteq Listed /\ Videos(job[j].fresh) \subseteq Listed
  BY <1>1, <1>3, Records
<1>5. Content(j) = Usable(kept) \cup Videos(job[j].fresh)
  BY DEF Content, kept, rest
<1>6. QED
  BY <1>1, <1>4, <1>5 DEF Made, Library

LEMMA ListTyped ==
  ASSUME Typed, NEW k \in Libraries
  PROVE  /\ rows[k] \in Seq(Library) /\ \A i \in DOMAIN rows[k] : rows[k][i] \in Library
         /\ Newest(k) \subseteq Library /\ \A r \in Newest(k) : r.version \in Nat
<1>1. rows[k] \in Seq(Library)
  BY DEF Typed
<1>2. \A i \in DOMAIN rows[k] : rows[k][i] \in Library
  BY <1>1
<1>3. Newest(k) \subseteq Library
  BY <1>2 DEF Newest, Range
<1>4. \A r \in Library : r.version \in Nat
  BY DEF Library
<1>5. QED
  BY <1>1, <1>2, <1>3, <1>4

LEMMA VideosReadTyped ==
  ASSUME Typed, NEW j \in Jobs, VideosRead(j) \/ Synthesise(j) \/ GetNextVersion(j) \/ InsertRow(j)
  PROVE  Typed'
<1>1. /\ docs \in [Libraries -> Seq(Documents)] /\ \A k \in Libraries : Sound(docs[k], k)
      /\ rows \in [Libraries -> Seq(Library)]
  BY DEF Typed
<1>2. /\ job[j] \in JobType /\ job[j].version \in Nat /\ JobSound(j)
      /\ [job[j] EXCEPT !.pc = "synthesis"] = [job[j] EXCEPT !.pc = "synthesis", !.version = job[j].version]
      /\ [job[j] EXCEPT !.pc = "rotating"] = [job[j] EXCEPT !.pc = "rotating", !.version = job[j].version]
      /\ [job[j] EXCEPT !.pc = "numbering"] = [job[j] EXCEPT !.pc = "numbering", !.version = job[j].version]
      /\ [job[j] EXCEPT !.pc = "caching"] = [job[j] EXCEPT !.pc = "caching", !.version = job[j].version]
  BY JobTyped DEF JobType
<1>3. {"synthesis", "rotating", "numbering", "inserting", "caching"} \subseteq Busy
  BY DEF Busy, Working
<1>4. job[j].pc \in Busy \ {"reading"}
  BY DEF VideosRead, Synthesise, GetNextVersion, InsertRow, At, Busy, Working
<1>5. job[j].keys # <<>> /\ Key(j) \in Libraries
  BY <1>2, <1>4, JobTyped DEF JobSound
<1>6. CASE VideosRead(j)
  <2>1. CASE End(j)
    BY <1>6, <2>1, EndTyped DEF VideosRead
  <2>2. CASE Become(j, [job[j] EXCEPT !.pc = "synthesis"])
    <3>1. Become(j, [job[j] EXCEPT !.pc = "synthesis", !.version = job[j].version])
      BY <1>2, <2>2
    <3>2. UNCHANGED <<docs, rows, cache, reader, active, calm>>
      BY <1>6 DEF VideosRead
    <3>3. QED
      BY <1>1, <1>2, <1>3, <1>4, <3>1, <3>2, GoesOnTyped
  <2>3. QED
    BY <1>6, <2>1, <2>2 DEF VideosRead
<1>7. CASE Synthesise(j)
  <2>1. PICK p \in {"rotating", "numbering"} : /\ p = "rotating" => job[j].refresh
                                               /\ Become(j, [job[j] EXCEPT !.pc = p])
    BY <1>7 DEF Synthesise
  <2>2. Become(j, [job[j] EXCEPT !.pc = p, !.version = job[j].version])
    BY <1>2, <2>1
  <2>3. UNCHANGED <<docs, rows, cache, reader, active, calm>>
    BY <1>7 DEF Synthesise
  <2>4. QED
    BY <1>1, <1>2, <1>3, <1>4, <2>1, <2>2, <2>3, GoesOnTyped
<1>8. CASE GetNextVersion(j)
  <2>1. PICK last \in {r.version : r \in Newest(Key(j))} \cup {0} :
          Become(j, [job[j] EXCEPT !.pc = "inserting", !.version = last + 1])
    BY <1>8 DEF GetNextVersion
  <2>2. last + 1 \in Nat
    BY <1>5, <2>1, ListTyped
  <2>3. UNCHANGED <<docs, rows, cache, reader, active, calm>>
    BY <1>8 DEF GetNextVersion
  <2>4. QED
    BY <1>1, <1>3, <1>4, <2>1, <2>2, <2>3, GoesOnTyped
<1>9. CASE InsertRow(j)
  <2>1. Become(j, [job[j] EXCEPT !.pc = "caching", !.version = job[j].version])
    BY <1>2, <1>9 DEF InsertRow
  <2>2. UNCHANGED <<docs, cache, reader, active, calm>> /\ rows' = [rows EXCEPT ![Key(j)] = Append(@, Made(j))]
    BY <1>9 DEF InsertRow
  <2>3. Append(rows[Key(j)], Made(j)) \in Seq(Library)
    <3>1. Made(j) \in Library /\ rows[Key(j)] \in Seq(Library)
      BY <1>5, MadeIsLibrary, ListTyped
    <3>2. QED
      BY <3>1
  <2>4. rows' \in [Libraries -> Seq(Library)]
    BY <1>1, <1>5, <2>2, <2>3
  <2>5. QED
    BY <1>1, <1>2, <1>3, <1>4, <2>1, <2>2, <2>4, GoesOnTyped
<1>10. QED
  BY <1>6, <1>7, <1>8, <1>9

\* Between two libraries.
LEMMA BetweenTyped ==
  ASSUME Typed, NEW j \in Jobs, Start(j) \/ Decide(j) \/ WriteCache(j)
  PROVE  Typed'
<1>1. /\ docs \in [Libraries -> Seq(Documents)] /\ (\A k \in Libraries : Sound(docs[k], k))
      /\ rows \in [Libraries -> Seq(Library)] /\ cache \in [Libraries -> Library \cup {None}]
      /\ building \in BOOLEAN /\ calm \in BOOLEAN
  BY DEF Typed
<1>2. /\ job[j] \in JobType /\ JobSound(j) /\ job[j].keys \in Seq(Libraries) /\ job[j].server \in BOOLEAN
      /\ job[j].rotate \in BOOLEAN
  BY JobTyped
<1>3. "next" \in Working /\ "next" \notin Busy /\ "reading" \in Working
  BY DEF Working, Busy
<1>4. CASE Start(j)
  <2> DEFINE new == [job[j] EXCEPT !.pc = "next"]
  <2>1. new \in JobType /\ new.pc = "next"
    BY <1>2, <1>3 DEF JobType
  <2>2. job' = [job EXCEPT ![j] = new]
    BY <1>4 DEF Start
  <2>3. building' \in BOOLEAN /\ calm' \in BOOLEAN /\ UNCHANGED <<docs, rows, cache, reader, active>>
    BY <1>4 DEF Start
  <2> HIDE DEF new
  <2>4. QED
    BY <1>1, <1>3, <2>1, <2>2, <2>3, TypedByJob
<1>5. CASE Decide(j)
  <2> DEFINE refresh == job[j].rotate /\ Cardinality(Usable(docs[Key(j)])) >= MaxDocs
             new     == [job[j] EXCEPT !.pc = "reading", !.refresh = refresh]
  <2>1. refresh \in BOOLEAN
    BY <1>2
  <2>2. job' = [job EXCEPT ![j] = new] /\ building' = building
    BY <1>5 DEF Decide, Become
  <2> HIDE DEF refresh
  <2>3. new \in JobType /\ new.pc = "reading" /\ new.keys = job[j].keys
    BY <1>2, <1>3, <2>1 DEF JobType
  <2> HIDE DEF new
  <2>4. job'[j] = new
    BY <2>2, <2>3, Changed
  <2>5. job[j].keys # <<>> /\ UNCHANGED <<docs, rows, cache, reader, active, calm>>
    BY <1>5 DEF Decide
  <2>6. JobSound(j)'
    BY <2>3, <2>4, <2>5 DEF JobSound
  <2>7. QED
    BY <1>1, <2>2, <2>3, <2>5, <2>6, TypedByJob
<1>6. CASE WriteCache(j)
  <2> DEFINE new == [job[j] EXCEPT !.pc = "next", !.keys = Tail(@)]
  <2>1. job[j].keys # <<>>
    BY <1>2, <1>6 DEF WriteCache, At, JobSound, Busy, Working
  <2>2. new \in JobType /\ new.pc = "next"
    <3>1. Tail(job[j].keys) \in Seq(Libraries)
      BY <2>1, JobTyped
    <3>2. QED
      BY <1>2, <1>3, <3>1 DEF JobType
  <2>3. job' = [job EXCEPT ![j] = new] /\ building' = building /\ UNCHANGED <<docs, rows, reader, active, calm>>
    BY <1>6 DEF WriteCache, Become
  <2>4. cache' \in [Libraries -> Library \cup {None}]
    <3>1. Made(j) \in Library
      BY MadeIsLibrary
    <3>2. cache' = [cache EXCEPT ![Key(j)] = Made(j)] \/ cache' = cache
      BY <1>6 DEF WriteCache
    <3>3. QED
      BY <1>1, <3>1, <3>2
  <2> HIDE DEF new
  <2>5. QED
    BY <1>1, <1>3, <2>2, <2>3, <2>4, TypedByJob
<1>7. QED
  BY <1>4, <1>5, <1>6

LEMMA ReadTyped ==
  ASSUME Typed, NEW j \in Jobs, ReadToRefresh(j) \/ ReadToBuild(j)
  PROVE  Typed'
<1>1. job[j].pc = "reading" /\ JobSound(j) /\ job[j].refresh \in BOOLEAN
  BY JobTyped DEF ReadToRefresh, ReadToBuild, At
<1>2. job[j].keys # <<>>
  BY <1>1 DEF JobSound, Busy, Working
<1>3. Key(j) \in Libraries
  BY <1>2, JobTyped
<1>4. UNCHANGED <<docs, rows, cache, reader, active, calm>>
  BY DEF ReadToRefresh, ReadToBuild
<1>5. Channel[Key(j)] \in Seq(Range(Channel[Key(j)])) /\ Popular[Key(j)] \in Seq(Range(Channel[Key(j)]))
  BY <1>3, ListedVideos
<1>6. CASE ReadToRefresh(j)
  <2>1. Found(j, TRUE, Channel[Key(j)]) /\ Len(docs[Key(j)]) >= MinDocs
    BY <1>6 DEF ReadToRefresh, RefreshesNow
  <2>2. QED
    BY <1>1, <1>4, <1>5, <2>1, FoundTyped
<1>7. CASE ReadToBuild(j)
  <2>1. PICK videos \in {<<>>, Popular[Key(j)]} : Found(j, FALSE, videos)
    BY <1>7 DEF ReadToBuild
  <2>2. <<>> \in Seq(Range(Channel[Key(j)]))
    OBVIOUS
  <2>3. videos \in Seq(Range(Channel[Key(j)]))
    BY <1>5, <2>1, <2>2
  <2>4. QED
    BY <1>1, <1>4, <2>1, <2>3, FoundTyped
<1>8. QED
  BY <1>6, <1>7

LEMMA JobStepTyped ==
  ASSUME Typed, NEW j \in Jobs, JobStep(j)
  PROVE  Typed'
<1>1. CASE Start(j) \/ Decide(j) \/ WriteCache(j)
  BY <1>1, BetweenTyped
<1>2. CASE Finish(j) \/ Stop(j)
  BY <1>2, EndTyped DEF Finish, Stop
<1>3. CASE ReadToRefresh(j) \/ ReadToBuild(j)
  BY <1>3, ReadTyped
<1>4. CASE RefreshVideo(j)
  <2>1. docs' \in [Libraries -> Seq(Documents)] /\ \A k \in Libraries : Sound(docs'[k], k)
    BY <1>4 DEF RefreshVideo, Typed
  <2>2. QED
    BY <1>4, <2>1, VideoTyped DEF RefreshVideo
<1>5. CASE BuildVideo(j)
  BY <1>5, BuildTyped
<1>6. CASE VideosRead(j) \/ Synthesise(j) \/ GetNextVersion(j) \/ InsertRow(j)
  BY <1>6, VideosReadTyped
<1>7. CASE Rotate(j)
  BY <1>7, RotateTyped
<1>8. QED
  BY <1>1, <1>2, <1>3, <1>4, <1>5, <1>6, <1>7 DEF JobStep

LEMMA ScheduleTyped ==
  ASSUME Typed, NEW server \in BOOLEAN, NEW rotate \in BOOLEAN, NEW keys \in Seq(Libraries),
         Schedule(server, rotate, keys)
  PROVE  Typed'
<1> DEFINE new == [Idle EXCEPT !.pc = "scheduled", !.server = server, !.rotate = rotate, !.keys = keys]
<1>1. PICK j \in Jobs : job' = [job EXCEPT ![j] = new]
  BY DEF Schedule
<1>2. new \in JobType /\ new.pc = "scheduled"
  BY IdleTyped DEF JobType
<1>3. new.pc \notin Busy
  BY <1>2 DEF Busy, Working
<1> HIDE DEF new
<1>4. /\ docs' \in [Libraries -> Seq(Documents)] /\ (\A k \in Libraries : Sound(docs'[k], k))
      /\ rows' \in [Libraries -> Seq(Library)] /\ cache' \in [Libraries -> Library \cup {None}]
      /\ building' \in BOOLEAN /\ calm' \in BOOLEAN /\ UNCHANGED <<reader, active>>
  BY DEF Schedule, Typed
<1>5. QED
  BY <1>1, <1>2, <1>3, <1>4, TypedByJob

\* What the reader and a restart leave alone.
LEMMA TypedByReader ==
  ASSUME Typed, UNCHANGED <<docs, rows, calm>>, building' \in BOOLEAN,
         job' \in [Jobs -> JobType], \A j \in Jobs : job'[j] = job[j] \/ job'[j].pc \notin Busy,
         cache' \in [Libraries -> Library \cup {None}], active' \in Library \cup {None},
         reader' \in ReaderType, reader'.pc = "query" => reader'.keys # <<>>
  PROVE  Typed'
<1>1. (docs \in [Libraries -> Seq(Documents)])' /\ (\A k \in Libraries : Sound(docs[k], k))'
  BY DEF Typed, Sound, Videos
<1>2. (rows \in [Libraries -> Seq(Library)])' /\ (calm \in BOOLEAN)'
  BY DEF Typed, Library
<1>3. (\A j \in Jobs : JobSound(j))'
  <2>1. ASSUME NEW j \in Jobs, job'[j] = job[j] PROVE JobSound(j)'
    <3>1. JobSound(j)
      BY DEF Typed
    <3>2. QED
      BY <2>1, <3>1 DEF JobSound, Key, Missing
  <2>2. ASSUME NEW j \in Jobs, job'[j].pc \notin Busy PROVE JobSound(j)'
    BY <2>2 DEF JobSound, Busy, Working
  <2>3. QED
    BY <2>1, <2>2
<1>4. (cache \in [Libraries -> Library \cup {None}])' /\ (active \in Library \cup {None})' /\ (building \in BOOLEAN)'
  OBVIOUS
<1>5. (reader \in ReaderType /\ (reader.pc = "query" => reader.keys # <<>>))' /\ (job \in [Jobs -> JobType])'
  OBVIOUS
<1>6. QED
  BY <1>1, <1>2, <1>3, <1>4, <1>5 DEF Typed

Smaller == {ss \in Nat \X Nat : ss[1] < ss[2]}

LEMMA LeastVersion ==
  ASSUME NEW T \in SUBSET Nat, T # {}
  PROVE  \E n \in T : \A m \in T : n <= m
<1>1. IsWellFoundedOn(Smaller, Nat)
  BY NatLessThanWellFounded DEF OpToRel, Smaller
<1>2. PICK n \in T : \A m \in T : <<m, n>> \notin Smaller
  BY <1>1, WFMin
<1>3. ASSUME NEW m \in T PROVE n <= m
  <2>1. <<m, n>> \in Nat \X Nat /\ <<m, n>> \notin Smaller
    BY <1>2
  <2>2. ~(m < n)
    BY <2>1 DEF Smaller
  <2>3. QED
    BY <2>2
<1>4. QED
  BY <1>3

\* Of the first elements of a sequence one has the greatest number: a least counterexample
\* would have a predecessor.
LEMMA GreatestOf ==
  ASSUME NEW n \in Nat \ {0}, NEW f \in [1..n -> Nat]
  PROVE  \E i \in 1..n : \A j \in 1..n : f[j] <= f[i]
<1> DEFINE Greatest(m) == \E i \in 1..m : \A j \in 1..m : f[j] <= f[i]
           T           == {m \in 1..n : ~Greatest(m)}
<1> SUFFICES ASSUME ~Greatest(n) PROVE FALSE
  OBVIOUS
<1>0. T # {}
  <2>1. n \in 1..n
    OBVIOUS
  <2>2. QED
    BY <2>1
<1>1. PICK m \in T : \A l \in T : m <= l
  <2>1. T \in SUBSET Nat
    OBVIOUS
  <2> HIDE DEF T
  <2>2. QED
    BY <1>0, <2>1, LeastVersion
<1>2. m \in 1..n /\ ~Greatest(m)
  BY <1>1
<1>3. m # 1
  <2>1. Greatest(1)
    OBVIOUS
  <2>2. QED
    BY <1>2, <2>1
<1> DEFINE l == m - 1
<1>4. l \in 1..n /\ l \notin T /\ m = l + 1
  <2>1. l \in 1..n /\ m = l + 1 /\ ~(m <= l)
    BY <1>2, <1>3
  <2>2. QED
    BY <1>1, <2>1
<1>5. PICK i \in 1..l : \A j \in 1..l : f[j] <= f[i]
  BY <1>4
<1> HIDE DEF l, T
<1>6. /\ 1..m = (1..l) \cup {m} /\ m \in 1..m /\ i \in 1..m
      /\ \A j \in 1..m : f[j] \in Nat
  <2>1. ASSUME NEW x \in Nat PROVE 1..(x + 1) = (1..x) \cup {x + 1} /\ x + 1 \in 1..(x + 1)
    <3>1. x + 1 \in 1..(x + 1) /\ \A y \in 1..x : y \in 1..(x + 1)
      OBVIOUS
    <3>2. \A y \in 1..(x + 1) : y \in 1..x \/ y = x + 1
      OBVIOUS
    <3>3. QED
      BY <3>1, <3>2
  <2>2. l \in Nat /\ l >= 1 /\ \A j \in 1..m : j \in 1..n
    BY <1>2, <1>4
  <2>3. 1..m = (1..l) \cup {m} /\ m \in 1..m
    BY <1>4, <2>1, <2>2
  <2>4. QED
    BY <1>5, <2>2, <2>3
<1>7. CASE f[m] <= f[i]
  <2>1. \A j \in 1..m : f[j] <= f[i]
    BY <1>5, <1>6, <1>7
  <2>2. QED
    BY <1>2, <1>6, <2>1
<1>8. CASE f[i] <= f[m]
  <2>1. \A x, y, z \in Nat : x <= y /\ y <= z => x <= z
    OBVIOUS
  <2>2. f[m] <= f[m]
    <3>1. \A x \in Nat : x <= x
      OBVIOUS
    <3>2. QED
      BY <1>6, <3>1
  <2>3. ASSUME NEW j \in 1..l PROVE f[j] <= f[m]
    <3>1. f[j] \in Nat /\ f[i] \in Nat /\ f[m] \in Nat /\ f[j] <= f[i]
      BY <1>5, <1>6
    <3>2. QED
      BY <1>8, <2>1, <3>1
  <2>4. \A j \in 1..m : f[j] <= f[m]
    BY <1>6, <2>2, <2>3
  <2>5. QED
    BY <1>2, <1>6, <2>4
<1>9. QED
  <2>1. f[i] \in Nat /\ f[m] \in Nat
    BY <1>6
  <2>2. \A x, y \in Nat : x <= y \/ y <= x
    OBVIOUS
  <2>3. f[i] <= f[m] \/ f[m] <= f[i]
    BY <2>1, <2>2
  <2>4. QED
    BY <1>7, <1>8, <2>3

LEMMA CombinedIsLibrary ==
  ASSUME NEW got \in [Libraries -> Library \cup {None}]
  PROVE  Combined(got) \in Library \cup {None}
<1> DEFINE versions == {got[k].version : k \in Libraries}
           videos   == UNION {got[k].videos : k \in Libraries}
           v        == CHOOSE x \in versions : \A k \in Libraries : got[k].version <= x
<1>1. CASE \A k \in Libraries : got[k] # None /\ Cardinality(got[k].videos) >= MinDocs
  <2>1. \A k \in Libraries : got[k] \in Library
    BY <1>1
  <2>2. \A k \in Libraries : got[k].version \in Nat /\ got[k].videos \subseteq Listed
    BY <2>1 DEF Library
  <2>3. versions \subseteq Nat /\ videos \subseteq Listed
    BY <2>2
  <2>4. \E x \in versions : \A k \in Libraries : got[k].version <= x
    <3> DEFINE n == Len(Keys)
               f == [i \in 1..n |-> got[Keys[i]].version]
    <3>1. n \in Nat \ {0} /\ DOMAIN Keys = 1..n
      BY ListingAssumption
    <3>2. (\A i \in 1..n : Keys[i] \in Libraries) /\ \A k \in Libraries : \E i \in 1..n : Keys[i] = k
      BY <3>1 DEF Libraries, Range
    <3>3. f \in [1..n -> Nat]
      BY <2>2, <3>2
    <3>4. PICK i \in 1..n : \A j \in 1..n : f[j] <= f[i]
      <4> HIDE DEF f, n
      <4>1. QED
        BY <3>1, <3>3, GreatestOf
    <3>5. \A k \in Libraries : got[k].version <= got[Keys[i]].version
      BY <3>2, <3>4
    <3>6. QED
      BY <3>2, <3>5
  <2>5. v \in Nat
    BY <2>3, <2>4
  <2>6. Combined(got) = [version |-> v, videos |-> videos]
    BY <1>1 DEF Combined
  <2> HIDE DEF v, videos
  <2>7. QED
    BY <2>3, <2>5, <2>6 DEF Library
<1>2. CASE ~(\A k \in Libraries : got[k] # None /\ Cardinality(got[k].videos) >= MinDocs)
  BY <1>2 DEF Combined
<1>3. QED
  BY <1>1, <1>2

LEMMA ReaderTyped ==
  ASSUME Typed, StartLoad \/ ReadCache \/ QueryRow \/ Combine
  PROVE  Typed'
<1>1. /\ docs \in [Libraries -> Seq(Documents)] /\ rows \in [Libraries -> Seq(Library)]
      /\ cache \in [Libraries -> Library \cup {None}] /\ active \in Library \cup {None}
      /\ building \in BOOLEAN /\ job \in [Jobs -> JobType]
      /\ reader \in ReaderType /\ (reader.pc = "query" => reader.keys # <<>>)
  BY DEF Typed
<1>2. /\ reader.keys \in Seq(Libraries) /\ reader.cache \in Library \cup {None}
      /\ reader.got \in [Libraries -> Library \cup {None}]
  BY <1>1 DEF ReaderType
<1>3. reader.keys # <<>> => Head(reader.keys) \in Libraries /\ Tail(reader.keys) \in Seq(Libraries)
  BY <1>2
<1>4. UNCHANGED <<docs, rows, calm, building, job>>
  BY DEF StartLoad, ReadCache, QueryRow, Combine
<1>5. CASE StartLoad
  <2>1. reader' = [reader EXCEPT !.pc = "load", !.keys = Keys] /\ active' = None /\ cache' = cache
    BY <1>5 DEF StartLoad
  <2>2. reader' \in ReaderType /\ reader'.pc = "load"
    BY <1>1, <2>1, ListingAssumption DEF ReaderType
  <2>3. QED
    BY <1>1, <1>4, <2>1, <2>2, TypedByReader
<1>6. CASE ReadCache
  <2>1. /\ reader.keys # <<>> /\ UNCHANGED <<cache, active>>
        /\ \E found \in {cache[Head(reader.keys)], None} : reader' = [reader EXCEPT !.pc = "query", !.cache = found]
    BY <1>6 DEF ReadCache
  <2>2. PICK found \in {cache[Head(reader.keys)], None} : reader' = [reader EXCEPT !.pc = "query", !.cache = found]
    BY <2>1
  <2>3. found \in Library \cup {None}
    BY <1>1, <1>3, <2>1
  <2>4. reader' \in ReaderType /\ reader'.keys = reader.keys
    BY <1>1, <2>2, <2>3 DEF ReaderType
  <2>5. QED
    BY <1>1, <1>4, <2>1, <2>4, TypedByReader
<1>7. CASE QueryRow
  <2> DEFINE k == Head(reader.keys)
  <2>1. /\ reader.pc = "query" /\ active' = active
        /\ \E row \in IF rows[k] = <<>> THEN {None} ELSE Newest(k) :
             /\ reader' = [reader EXCEPT !.pc = "load", !.keys = Tail(@), !.cache = None,
                                         !.got[k] = Chosen(reader.cache, row)]
             /\ cache' = IF reader.cache = None /\ row # None THEN [cache EXCEPT ![k] = row] ELSE cache
    BY <1>7 DEF QueryRow
  <2>2. PICK row \in IF rows[k] = <<>> THEN {None} ELSE Newest(k) :
             /\ reader' = [reader EXCEPT !.pc = "load", !.keys = Tail(@), !.cache = None,
                                         !.got[k] = Chosen(reader.cache, row)]
             /\ cache' = IF reader.cache = None /\ row # None THEN [cache EXCEPT ![k] = row] ELSE cache
    BY <2>1
  <2>3. k \in Libraries /\ Tail(reader.keys) \in Seq(Libraries)
    BY <1>1, <1>3, <2>1
  <2> HIDE DEF k
  <2>4. row \in Library \cup {None}
    BY <2>2, <2>3, ListTyped
  <2>5. Chosen(reader.cache, row) \in Library \cup {None}
    BY <1>2, <2>4 DEF Chosen
  <2>6. reader' \in ReaderType /\ reader'.pc = "load"
    <3>1. reader' = [reader EXCEPT !.pc = "load", !.keys = Tail(reader.keys), !.cache = None,
                                   !.got = [reader.got EXCEPT ![k] = Chosen(reader.cache, row)]]
      BY <1>1, <2>2 DEF ReaderType
    <3>2. [reader.got EXCEPT ![k] = Chosen(reader.cache, row)] \in [Libraries -> Library \cup {None}]
      BY <1>2, <2>5
    <3>3. QED
      BY <1>1, <2>3, <3>1, <3>2 DEF ReaderType
  <2>7. cache' \in [Libraries -> Library \cup {None}]
    BY <1>1, <2>2, <2>3, <2>4
  <2>8. QED
    BY <1>1, <1>4, <2>1, <2>6, <2>7, TypedByReader
<1>8. CASE Combine
  <2>1. active' = Combined(reader.got) /\ reader' = NoReader /\ cache' = cache
    BY <1>8 DEF Combine
  <2>2. active' \in Library \cup {None}
    BY <1>2, <2>1, CombinedIsLibrary
  <2>3. QED
    BY <1>1, <1>4, <2>1, <2>2, IdleTyped, TypedByReader
<1>9. QED
  BY <1>5, <1>6, <1>7, <1>8

LEMMA RestartTyped ==
  ASSUME Typed, Restart
  PROVE  Typed'
<1>1. job \in [Jobs -> JobType] /\ cache \in [Libraries -> Library \cup {None}]
  BY DEF Typed
<1>2. [Idle EXCEPT !.pc = "done"] \in JobType /\ [Idle EXCEPT !.pc = "done"].pc = "done" /\ "done" \notin Busy
  BY IdleTyped DEF Idle, Busy, Working
<1>3. /\ job' = [j \in Jobs |-> IF job[j].server THEN [Idle EXCEPT !.pc = "done"] ELSE job[j]]
      /\ building' = FALSE /\ cache' \in {cache, [k \in Libraries |-> None]}
      /\ reader' = NoReader /\ active' = None /\ UNCHANGED <<docs, rows, calm>>
  BY DEF Restart
<1>4. job' \in [Jobs -> JobType] /\ \A j \in Jobs : job'[j] = job[j] \/ job'[j].pc \notin Busy
  BY <1>1, <1>2, <1>3
<1>5. cache' \in [Libraries -> Library \cup {None}]
  BY <1>1, <1>3
<1>6. QED
  BY <1>3, <1>4, <1>5, IdleTyped, TypedByReader

LEMMA TypedStep == Typed /\ [Next]_vars => Typed'
<1> SUFFICES ASSUME Typed, [Next]_vars PROVE Typed'
  OBVIOUS
<1>1. CASE \E keys \in Requests : RequestRebuild(keys) \/ RunScript(keys)
  BY <1>1, ScheduleTyped, ListingAssumption DEF RequestRebuild, RunScript
<1>2. CASE SeedIfEmpty
  BY <1>2, ScheduleTyped, ListingAssumption DEF SeedIfEmpty
<1>3. CASE \E j \in Jobs : JobStep(j)
  BY <1>3, JobStepTyped
<1>4. CASE StartLoad \/ ReadCache \/ QueryRow \/ Combine
  BY <1>4, ReaderTyped
<1>5. CASE Restart
  BY <1>5, RestartTyped
<1>6. CASE UNCHANGED vars
  <2>1. UNCHANGED <<docs, rows, calm>> /\ UNCHANGED <<building, job, cache, active, reader>>
    BY <1>6 DEF vars
  <2>2. /\ job \in [Jobs -> JobType] /\ cache \in [Libraries -> Library \cup {None}] /\ building \in BOOLEAN
        /\ active \in Library \cup {None} /\ reader \in ReaderType /\ (reader.pc = "query" => reader.keys # <<>>)
    BY DEF Typed
  <2>3. QED
    BY <2>1, <2>2, TypedByReader
<1>7. QED
  BY <1>1, <1>2, <1>3, <1>4, <1>5, <1>6 DEF Next

--------------------------------------------------------------------------------
(* At most one rebuild is at work in a calm corpus. *)

LEMMA StepOf ==
  ASSUME Typed, NEW j \in Jobs, JobStep(j)
  PROVE  /\ \A i \in Jobs \ {j} : job'[i] = job[i]
         /\ Start(j) \/ (job[j].pc \in Working /\ calm' = calm)
<1>1. job \in [Jobs -> JobType]
  BY DEF Typed
<1>2. (\E new : job' = [job EXCEPT ![j] = new]) => \A i \in Jobs \ {j} : job'[i] = job[i]
  BY <1>1
<1>3. \A new : Become(j, new) => job' = [job EXCEPT ![j] = new]
  BY DEF Become
<1>4. End(j) => \E new : job' = [job EXCEPT ![j] = new]
  BY DEF End
<1>5. CASE Start(j)
  <2>1. job' = [job EXCEPT ![j] = [job[j] EXCEPT !.pc = "next"]]
    BY <1>5 DEF Start
  <2>2. QED
    BY <1>2, <1>5, <2>1
<1>6. CASE Decide(j) \/ Synthesise(j) \/ InsertRow(j) \/ WriteCache(j) \/ GetNextVersion(j)
  <2>1. job[j].pc \in Working /\ calm' = calm
    BY <1>6 DEF Decide, Synthesise, InsertRow, WriteCache, GetNextVersion, At, Working
  <2>2. \E new : job' = [job EXCEPT ![j] = new]
    BY <1>3, <1>6 DEF Decide, Synthesise, InsertRow, WriteCache, GetNextVersion
  <2>3. QED
    BY <1>2, <2>1, <2>2
<1>7. CASE ReadToRefresh(j) \/ ReadToBuild(j)
  <2>1. job[j].pc \in Working /\ calm' = calm
    BY <1>7 DEF ReadToRefresh, ReadToBuild, At, Working
  <2>2. \E new : job' = [job EXCEPT ![j] = new]
    BY <1>3, <1>7 DEF ReadToRefresh, ReadToBuild, Found
  <2>3. QED
    BY <1>2, <2>1, <2>2
<1>8. CASE RefreshVideo(j) \/ BuildVideo(j) \/ VideosRead(j) \/ Rotate(j) \/ Finish(j) \/ Stop(j)
  <2>1. job[j].pc \in Working /\ calm' = calm
    BY <1>8 DEF RefreshVideo, BuildVideo, VideosRead, Rotate, Finish, Stop, Wants, At, Working
  <2>2. \E new : job' = [job EXCEPT ![j] = new]
    BY <1>3, <1>4, <1>8 DEF RefreshVideo, BuildVideo, VideosRead, Rotate, Finish, Stop
  <2>3. QED
    BY <1>2, <2>1, <2>2
<1>9. QED
  BY <1>5, <1>6, <1>7, <1>8 DEF JobStep

\* While the corpus stays calm, the rebuild that makes a step is the one at work.
LEMMA Sole ==
  ASSUME Typed, Alone, NEW j \in Jobs, JobStep(j), calm'
  PROVE  /\ calm /\ AtWork' \subseteq {j} /\ (Start(j) \/ j \in AtWork)
         /\ Start(j) => AtWork = {}
<1>1. /\ \A i \in Jobs \ {j} : job'[i] = job[i]
      /\ Start(j) \/ (job[j].pc \in Working /\ calm' = calm)
  BY StepOf
<1>2. AtWork' \subseteq AtWork \cup {j}
  BY <1>1 DEF AtWork
<1>3. CASE Start(j)
  <2>1. calm /\ AtWork = {}
    BY <1>3 DEF Start
  <2>2. QED
    BY <1>2, <1>3, <2>1
<1>4. CASE job[j].pc \in Working /\ calm' = calm /\ ~Start(j)
  <2>1. j \in AtWork /\ calm
    BY <1>4 DEF AtWork
  <2>2. \A i \in AtWork : i = j
    BY <2>1 DEF Alone
  <2>3. QED
    BY <1>2, <1>4, <2>1, <2>2
<1>5. QED
  BY <1>1, <1>3, <1>4

\* The steps that are none of a rebuild at work.
LEMMA Others ==
  ASSUME Typed, ~\E j \in Jobs : JobStep(j), [Next]_vars
  PROVE  /\ UNCHANGED <<docs, rows, calm>>
         /\ \A j \in Jobs : job'[j] = job[j] \/ job'[j].pc \in {"scheduled", "done"}
<1>0. job \in [Jobs -> JobType]
  BY DEF Typed
<1>1. ASSUME NEW server, NEW rotate, NEW keys, Schedule(server, rotate, keys)
      PROVE  /\ UNCHANGED <<docs, rows, calm, cache, reader>>
             /\ \A j \in Jobs : job'[j] = job[j] \/ job'[j].pc = "scheduled"
  <2> DEFINE new == [Idle EXCEPT !.pc = "scheduled", !.server = server, !.rotate = rotate, !.keys = keys]
  <2>1. PICK i \in Jobs : job' = [job EXCEPT ![i] = new]
    BY <1>1 DEF Schedule
  <2>2. new.pc = "scheduled"
    BY DEF Idle
  <2> HIDE DEF new
  <2>3. \A j \in Jobs : job'[j] = IF j = i THEN new ELSE job[j]
    BY <1>0, <2>1
  <2>4. UNCHANGED <<docs, rows, calm, cache, reader>>
    BY <1>1 DEF Schedule
  <2>5. QED
    BY <2>2, <2>3, <2>4
<1>2. CASE \E keys \in Requests : RequestRebuild(keys) \/ RunScript(keys)
  BY <1>1, <1>2 DEF RequestRebuild, RunScript
<1>3. CASE SeedIfEmpty
  BY <1>1, <1>3 DEF SeedIfEmpty
<1>4. CASE StartLoad \/ ReadCache \/ QueryRow \/ Combine \/ UNCHANGED vars
  BY <1>4 DEF StartLoad, ReadCache, QueryRow, Combine, vars
<1>5. CASE Restart
  BY <1>5 DEF Restart, Idle
<1>6. QED
  BY <1>2, <1>3, <1>4, <1>5 DEF Next

LEMMA OthersAtWork ==
  ASSUME Typed, ~\E j \in Jobs : JobStep(j), [Next]_vars
  PROVE  AtWork' \subseteq AtWork /\ \A j \in AtWork' : j \in Jobs /\ job'[j] = job[j]
<1>1. \A j \in Jobs : job'[j] = job[j] \/ job'[j].pc \in {"scheduled", "done"}
  BY Others
<1>2. \A p \in {"scheduled", "done"} : p \notin Working
  BY DEF Working
<1>3. QED
  BY <1>1, <1>2 DEF AtWork

LEMMA AloneStep == Typed /\ Alone /\ [Next]_vars => Alone'
<1> SUFFICES ASSUME Typed, Alone, [Next]_vars, calm' PROVE (\A i, j \in AtWork : i = j)'
  BY DEF Alone
<1>1. ASSUME NEW j \in Jobs, JobStep(j) PROVE (\A i, k \in AtWork : i = k)'
  <2>1. AtWork' \subseteq {j}
    BY <1>1, Sole
  <2>2. QED
    BY <2>1
<1>2. CASE ~\E j \in Jobs : JobStep(j)
  <2>1. AtWork' \subseteq AtWork /\ calm
    BY <1>2, Others, OthersAtWork
  <2>2. QED
    BY <2>1 DEF Alone
<1>3. QED
  BY <1>1, <1>2

--------------------------------------------------------------------------------
(* The documents follow what the rebuild at work has read. *)

\* Where a rebuild and its documents stay as they are, so does how they stand.
Carried(j) == <<job[j].keys, job[j].known, job[j].fresh, job[j].refresh>>

LEMMA FollowsOn ==
  ASSUME NEW j \in Jobs, Follows(j), UNCHANGED docs, UNCHANGED Carried(j),
         \/ job'[j].pc \in {"synthesis", "rotating"} /\ job[j].pc \in {"videos", "synthesis"}
         \/ job'[j].pc \in {"inserting", "caching"} /\ job[j].pc \in {"numbering", "inserting"}
  PROVE  Follows(j)'
<1>1. /\ job'[j].keys = job[j].keys /\ job'[j].known = job[j].known
      /\ job'[j].fresh = job[j].fresh /\ job'[j].refresh = job[j].refresh
  BY DEF Carried
<1>2. Key(j)' = Key(j) /\ Content(j)' = Content(j)
  BY <1>1 DEF Key, Content
<1>3. Usable(docs[Key(j)])' = Usable(docs[Key(j)])
  BY <1>2 DEF Usable
<1>4. QED
  BY <1>1, <1>2, <1>3 DEF Follows, Busy, Working

\* The library of a build is made from all the documents.
LEMMA BuiltContent ==
  ASSUME Typed, NEW j \in Jobs, Follows(j), job[j].pc = "synthesis", ~job[j].refresh
  PROVE  Usable(docs[Key(j)]) = Content(j)
<1>1. docs[Key(j)] = job[j].known \o job[j].fresh
  BY DEF Follows, Busy, Working
<1>2. job[j].known \in Seq(Documents) /\ job[j].fresh \in Seq(Documents) /\ JobSound(j)
  BY JobTyped
<1>3. Usable(job[j].fresh) = Videos(job[j].fresh)
  BY <1>2 DEF JobSound, Busy, Working
<1>4. Usable(job[j].known \o job[j].fresh) = Usable(job[j].known) \cup Usable(job[j].fresh)
  BY <1>2, Joined
<1>5. QED
  BY <1>1, <1>3, <1>4 DEF Content

\* The library of a rotation is made from the documents after it.
LEMMA RotatedContent ==
  ASSUME Typed, NEW j \in Jobs, Follows(j), job[j].pc = "rotating"
  PROVE  Content(j) = (Usable(docs[Key(j)]) \ Replaced(j)) \cup Videos(job[j].fresh)
<1> DEFINE known == job[j].known
           fresh == job[j].fresh
<1>1. known \in Seq(Documents) /\ fresh \in Seq(Documents) /\ JobSound(j) /\ job[j].refresh \in BOOLEAN
  BY JobTyped
<1>2. job[j].refresh /\ Sound(known, Key(j)) /\ Len(fresh) <= Missing(j, known) /\ Len(known) >= MinDocs
  BY <1>1 DEF JobSound, Busy, Working
<1>3. docs[Key(j)] = known
  BY <1>2 DEF Follows
<1>4. Len(fresh) \in Nat /\ Len(fresh) <= Len(known) /\ Cardinality(Videos(known)) = Len(known)
  <2>1. Missing(j, known) \in Nat /\ Missing(j, known) <= Len(known)
    BY <1>1, <1>2, MissingIsCount
  <2>2. Len(fresh) \in Nat /\ Len(known) \in Nat /\ Cardinality(Videos(known)) = Len(known)
    BY <1>1, <1>2 DEF Sound
  <2>3. QED
    BY <1>2, <2>1, <2>2
<1>5. Usable(SubSeq(known, Len(fresh) + 1, Len(known))) = Usable(known) \ Videos(SubSeq(known, 1, Len(fresh)))
  <2> HIDE DEF known, fresh
  <2>1. QED
    BY <1>1, <1>4, Parted
<1>6. QED
  BY <1>2, <1>3, <1>5 DEF Content, Replaced

LEMMA ReadFollows ==
  ASSUME Typed, NEW j \in Jobs, ReadToRefresh(j) \/ ReadToBuild(j)
  PROVE  Follows(j)'
<1>1. job[j].pc = "reading" /\ JobSound(j) /\ job[j] \in JobType
  BY JobTyped DEF ReadToRefresh, ReadToBuild, At
<1>2. job[j].keys # <<>>
  BY <1>1 DEF JobSound, Busy, Working
<1>3. docs[Key(j)] \in Seq(Documents)
  BY <1>2, JobTyped
<1>4. docs[Key(j)] \o <<>> = docs[Key(j)]
  BY <1>3
<1>5. UNCHANGED docs /\ \E refresh, videos : Found(j, refresh, videos)
  BY DEF ReadToRefresh, ReadToBuild
<1>6. PICK refresh, videos : Found(j, refresh, videos)
  BY <1>5
<1> DEFINE known   == docs[Key(j)]
           pending == Those(videos, {i \in DOMAIN videos : videos[i] \notin Videos(known)})
<1>7. job' = [job EXCEPT ![j] = [job[j] EXCEPT !.pc = "videos", !.refresh = refresh, !.known = known,
                                              !.fresh = <<>>, !.pending = pending]]
  BY <1>6 DEF Found, Become
<1> HIDE DEF pending, known
<1>8. /\ job'[j].pc = "videos" /\ job'[j].keys = job[j].keys /\ job'[j].known = known
      /\ job'[j].fresh = <<>> /\ job'[j].refresh = refresh
  <2>1. job \in [Jobs -> JobType]
    BY DEF Typed
  <2>2. QED
    BY <1>1, <1>7, <2>1 DEF JobType
<1>9. docs'[Key(j)'] = docs[Key(j)]
  BY <1>5, <1>8 DEF Key
<1>10. QED
  BY <1>4, <1>8, <1>9 DEF Follows, known, Busy, Working

TakesVideo(j) ==
  \/ (Become(j, Skip(j)) \/ (job[j].refresh /\ Become(j, Keep(j)))) /\ UNCHANGED docs
  \/ ~job[j].refresh /\ Become(j, Keep(j)) /\ docs' = [docs EXCEPT ![Key(j)] = Append(@, Document(j))]

LEMMA VideoFollows ==
  ASSUME Typed, NEW j \in Jobs, Wants(j), Follows(j), TakesVideo(j)
  PROVE  Follows(j)'
<1>1. job[j].pc = "videos" /\ job[j] \in JobType /\ job \in [Jobs -> JobType] /\ docs \in [Libraries -> Seq(Documents)]
  BY JobTyped DEF Wants, At, Typed
<1>2. /\ job[j].known \in Seq(Documents) /\ job[j].fresh \in Seq(Documents) /\ job[j].refresh \in BOOLEAN
      /\ Document(j) \in Documents /\ Key(j) \in Libraries
  BY JobTyped, VideoWanted
<1>3. /\ job[j].refresh => docs[Key(j)] = job[j].known
      /\ ~job[j].refresh => docs[Key(j)] = job[j].known \o job[j].fresh
  BY <1>1 DEF Follows, Busy, Working
<1>4. ASSUME Become(j, Skip(j)) \/ Become(j, Keep(j))
      PROVE  /\ job'[j].pc = "videos" /\ job'[j].keys = job[j].keys /\ job'[j].known = job[j].known
             /\ job'[j].refresh = job[j].refresh /\ Key(j)' = Key(j)
             /\ Become(j, Skip(j)) => job'[j].fresh = job[j].fresh
             /\ Become(j, Keep(j)) => job'[j].fresh = Append(job[j].fresh, Document(j))
  <2>1. ASSUME Become(j, Skip(j)) PROVE job'[j] = [job[j] EXCEPT !.pending = Tail(@)]
    BY <1>1, <2>1 DEF Become, Skip
  <2>2. ASSUME Become(j, Keep(j)) PROVE job'[j] = [job[j] EXCEPT !.pending = Tail(@), !.fresh = Append(@, Document(j))]
    BY <1>1, <2>2 DEF Become, Keep, Skip, JobType
  <2>3. /\ job'[j].pc = "videos" /\ job'[j].keys = job[j].keys /\ job'[j].known = job[j].known
        /\ job'[j].refresh = job[j].refresh
        /\ Become(j, Skip(j)) => job'[j].fresh = job[j].fresh
        /\ Become(j, Keep(j)) => job'[j].fresh = Append(job[j].fresh, Document(j))
    BY <1>1, <1>4, <2>1, <2>2 DEF JobType
  <2>4. QED
    BY <2>3 DEF Key
<1>5. CASE Become(j, Skip(j)) /\ UNCHANGED docs
  BY <1>3, <1>4, <1>5 DEF Follows, Busy, Working
<1>6. CASE job[j].refresh /\ Become(j, Keep(j)) /\ UNCHANGED docs
  BY <1>3, <1>4, <1>6 DEF Follows, Busy, Working
<1>7. CASE ~job[j].refresh /\ Become(j, Keep(j)) /\ docs' = [docs EXCEPT ![Key(j)] = Append(@, Document(j))]
  <2>1. docs'[Key(j)] = Append(job[j].known \o job[j].fresh, Document(j))
    BY <1>1, <1>2, <1>3, <1>7
  <2>2. Append(job[j].known \o job[j].fresh, Document(j)) = job[j].known \o Append(job[j].fresh, Document(j))
    <3>1. \A s, t \in Seq(Documents) : \A d \in Documents : Append(s \o t, d) = s \o Append(t, d)
      OBVIOUS
    <3>2. QED
      BY <1>2, <3>1
  <2>3. QED
    BY <1>4, <1>7, <2>1, <2>2 DEF Follows, Busy, Working
<1>8. QED
  BY <1>5, <1>6, <1>7 DEF TakesVideo

LEMMA RotateFollows ==
  ASSUME Typed, NEW j \in Jobs, Follows(j), Rotate(j), j \in AtWork'
  PROVE  Follows(j)'
<1>1. job[j].pc = "rotating" /\ job[j] \in JobType /\ job \in [Jobs -> JobType] /\ docs \in [Libraries -> Seq(Documents)]
  BY JobTyped DEF Rotate, At, Typed
<1>2. job[j].refresh
  BY <1>1, JobTyped DEF JobSound
<1>3. ~End(j)
  <2>1. End(j) => job'[j].pc = "done"
    BY <1>1 DEF End, Idle
  <2>2. job'[j].pc # "done"
    BY DEF AtWork, Working
  <2>3. QED
    BY <2>1, <2>2
<1>4. /\ Replaced(j) \subseteq Videos(docs[Key(j)]) /\ Videos(job[j].fresh) \cap Known = {}
      /\ Cardinality(Videos(job[j].fresh)) = Len(job[j].fresh)
      /\ docs' = [docs EXCEPT ![Key(j)] = Kept(@, Replaced(j)) \o job[j].fresh]
      /\ job' = [job EXCEPT ![j] = [job[j] EXCEPT !.pc = "numbering"]]
  BY <1>3 DEF Rotate, Become
<1> DEFINE t == Kept(docs[Key(j)], Replaced(j)) \o job[j].fresh
<1>5. Key(j) \in Libraries /\ Usable(t) = (Usable(docs[Key(j)]) \ Replaced(j)) \cup Videos(job[j].fresh)
  BY <1>1, <1>4, RotationSound
<1>6. docs' = [docs EXCEPT ![Key(j)] = t]
  BY <1>4
<1> HIDE DEF t
<1>7. Content(j) = Usable(t)
  BY <1>1, <1>5, RotatedContent
<1>8. /\ job'[j].pc = "numbering" /\ job'[j].keys = job[j].keys /\ job'[j].known = job[j].known
      /\ job'[j].fresh = job[j].fresh /\ job'[j].refresh = job[j].refresh
  BY <1>1, <1>4 DEF JobType
<1>9. Key(j)' = Key(j) /\ Content(j)' = Content(j)
  BY <1>8 DEF Key, Content
<1>10. docs'[Key(j)'] = t
  BY <1>1, <1>5, <1>6, <1>9
<1>11. Usable(docs[Key(j)])' = Content(j)'
  BY <1>7, <1>9, <1>10
<1>12. QED
  BY <1>2, <1>8, <1>11 DEF Follows

LEMMA JobFollows ==
  ASSUME Typed, NEW j \in Jobs, JobStep(j), j \in AtWork', Start(j) \/ Follows(j)
  PROVE  Follows(j)'
<1>1. job[j] \in JobType /\ job \in [Jobs -> JobType] /\ job'[j].pc \in Working
  BY JobTyped DEF Typed, AtWork
<1>2. ~End(j)
  <2>1. End(j) => job'[j].pc = "done"
    BY <1>1 DEF End, Idle
  <2>2. QED
    BY <1>1, <2>1 DEF Working
<1>3. ASSUME job'[j].pc \in {"next", "reading"} PROVE Follows(j)'
  BY <1>3 DEF Follows, Busy
<1>4. CASE Start(j) \/ Decide(j) \/ WriteCache(j)
  <2>1. Start(j) => job'[j].pc = "next"
    BY <1>1 DEF Start, JobType
  <2>2. Decide(j) => job'[j].pc = "reading"
    BY <1>1 DEF Decide, Become, JobType
  <2>3. WriteCache(j) => job'[j].pc = "next"
    BY <1>1 DEF WriteCache, Become, JobType
  <2>4. QED
    BY <1>3, <1>4, <2>1, <2>2, <2>3
<1>5. CASE Finish(j) \/ Stop(j)
  BY <1>2, <1>5 DEF Finish, Stop
<1>6. CASE ReadToRefresh(j) \/ ReadToBuild(j)
  BY <1>6, ReadFollows
<1>7. ASSUME ~Start(j) PROVE Follows(j)
  BY <1>7
<1>8. ASSUME job[j].pc # "scheduled" PROVE Follows(j)
  BY <1>7, <1>8 DEF Start, At
<1>9. CASE RefreshVideo(j)
  <2>1. Wants(j) /\ job[j].refresh /\ (Become(j, Skip(j)) \/ Become(j, Keep(j))) /\ UNCHANGED docs
    BY <1>9 DEF RefreshVideo
  <2>2. Follows(j)
    BY <1>8, <2>1 DEF Wants, At
  <2>3. TakesVideo(j)
    BY <2>1 DEF TakesVideo
  <2>4. QED
    BY <2>1, <2>2, <2>3, VideoFollows
<1>10. CASE BuildVideo(j)
  <2>1. /\ Wants(j) /\ ~job[j].refresh
        /\ \/ Become(j, Skip(j)) /\ UNCHANGED docs
           \/ Become(j, Keep(j)) /\ docs' = [docs EXCEPT ![Key(j)] = Append(@, Document(j))]
    BY <1>2, <1>10 DEF BuildVideo
  <2>2. Follows(j)
    BY <1>8, <2>1 DEF Wants, At
  <2>3. TakesVideo(j)
    BY <2>1 DEF TakesVideo
  <2>4. QED
    BY <2>1, <2>2, <2>3, VideoFollows
<1>11. CASE Rotate(j)
  <2>1. Follows(j)
    BY <1>8, <1>11 DEF Rotate, At
  <2>2. QED
    BY <1>11, <2>1, RotateFollows
<1>12. ASSUME NEW p, NEW v, \/ Become(j, [job[j] EXCEPT !.pc = p])
                            \/ Become(j, [job[j] EXCEPT !.pc = p, !.version = v])
       PROVE  job'[j].pc = p /\ UNCHANGED Carried(j)
  <2>1. job'[j] = [job[j] EXCEPT !.pc = p] \/ job'[j] = [job[j] EXCEPT !.pc = p, !.version = v]
    BY <1>1, <1>12 DEF Become
  <2>2. QED
    BY <1>1, <2>1 DEF JobType, Carried
<1>13. CASE VideosRead(j)
  <2>1. job[j].pc = "videos" /\ Become(j, [job[j] EXCEPT !.pc = "synthesis"]) /\ UNCHANGED docs
    BY <1>2, <1>13 DEF VideosRead, At
  <2>2. job'[j].pc = "synthesis" /\ UNCHANGED Carried(j) /\ Follows(j)
    BY <1>8, <1>12, <2>1
  <2>3. QED
    BY <2>1, <2>2, FollowsOn
<1>14. CASE Synthesise(j)
  <2>1. job[j].pc = "synthesis" /\ UNCHANGED docs
        /\ Become(j, [job[j] EXCEPT !.pc = IF job[j].refresh THEN "rotating" ELSE "numbering"])
    BY <1>14 DEF Synthesise, At
  <2>2. Follows(j) /\ job[j].refresh \in BOOLEAN
    BY <1>8, <2>1, JobTyped
  <2>3. CASE job[j].refresh
    <3>1. job'[j].pc = "rotating" /\ UNCHANGED Carried(j)
      BY <1>12, <2>1, <2>3
    <3>2. QED
      BY <2>1, <2>2, <3>1, FollowsOn
  <2>4. CASE ~job[j].refresh
    <3>1. job'[j].pc = "numbering" /\ UNCHANGED Carried(j)
      BY <1>12, <2>1, <2>4
    <3>2. /\ job'[j].pc = "numbering" /\ job'[j].keys = job[j].keys /\ job'[j].known = job[j].known
          /\ job'[j].fresh = job[j].fresh /\ job'[j].refresh = job[j].refresh
      BY <3>1 DEF Carried
    <3>3. Key(j)' = Key(j) /\ Content(j)' = Content(j)
      BY <3>2 DEF Key, Content
    <3>4. Usable(docs[Key(j)])' = Content(j)'
      BY <2>1, <2>2, <2>4, <3>3, BuiltContent
    <3>5. docs'[Key(j)'] = job'[j].known \o job'[j].fresh
      BY <2>1, <2>2, <2>4, <3>2, <3>3 DEF Follows, Busy, Working
    <3>6. QED
      BY <2>4, <3>2, <3>4, <3>5 DEF Follows
  <2>5. QED
    BY <2>2, <2>3, <2>4
<1>15. CASE GetNextVersion(j)
  <2>1. job[j].pc = "numbering" /\ UNCHANGED docs
    BY <1>15 DEF GetNextVersion, At
  <2>2. \E v : Become(j, [job[j] EXCEPT !.pc = "inserting", !.version = v])
    BY <1>15 DEF GetNextVersion
  <2>3. PICK v : Become(j, [job[j] EXCEPT !.pc = "inserting", !.version = v])
    BY <2>2
  <2>4. job'[j].pc = "inserting" /\ UNCHANGED Carried(j) /\ Follows(j)
    BY <1>8, <1>12, <2>1, <2>3
  <2>5. QED
    BY <2>1, <2>4, FollowsOn
<1>16. CASE InsertRow(j)
  <2>1. job[j].pc = "inserting" /\ UNCHANGED docs /\ Become(j, [job[j] EXCEPT !.pc = "caching"])
    BY <1>16 DEF InsertRow, At
  <2>2. job'[j].pc = "caching" /\ UNCHANGED Carried(j) /\ Follows(j)
    BY <1>8, <1>12, <2>1
  <2>3. QED
    BY <2>1, <2>2, FollowsOn
<1>17. QED
  BY <1>4, <1>5, <1>6, <1>9, <1>10, <1>11, <1>13, <1>14, <1>15, <1>16 DEF JobStep

LEMMA FollowingStep == Typed /\ Alone /\ Following /\ [Next]_vars => Following'
<1> SUFFICES ASSUME Typed, Alone, Following, [Next]_vars, calm' PROVE (\A i \in AtWork : Follows(i))'
  BY DEF Following
<1>1. ASSUME NEW j \in Jobs, JobStep(j) PROVE (\A i \in AtWork : Follows(i))'
  <2>1. calm /\ AtWork' \subseteq {j} /\ (Start(j) \/ j \in AtWork)
    BY <1>1, Sole
  <2>2. Start(j) \/ Follows(j)
    BY <2>1 DEF Following
  <2>3. j \in AtWork' => Follows(j)'
    BY <1>1, <2>2, JobFollows
  <2>4. QED
    BY <2>1, <2>3
<1>2. CASE ~\E j \in Jobs : JobStep(j)
  <2>1. calm /\ UNCHANGED docs /\ AtWork' \subseteq AtWork /\ \A i \in AtWork' : job'[i] = job[i]
    BY <1>2, Others, OthersAtWork
  <2>2. ASSUME NEW i \in AtWork' PROVE Follows(i)'
    <3>1. Follows(i) /\ job'[i] = job[i]
      BY <2>1 DEF Following
    <3>2. QED
      BY <2>1, <3>1 DEF Follows, Key, Content
  <2>3. QED
    BY <2>2
<1>3. QED
  BY <1>1, <1>2

--------------------------------------------------------------------------------
(* What the documents become. *)

\* The two steps that change documents.
Builds(j) ==
  /\ Wants(j) /\ ~job[j].refresh /\ Head(job[j].pending) \notin Known
  /\ Become(j, Keep(j)) /\ docs' = [docs EXCEPT ![Key(j)] = Append(@, Document(j))]
Rotates(j) ==
  /\ job[j].pc = "rotating" /\ Replaced(j) \subseteq Videos(docs[Key(j)]) /\ Videos(job[j].fresh) \cap Known = {}
  /\ Cardinality(Videos(job[j].fresh)) = Len(job[j].fresh)
  /\ docs' = [docs EXCEPT ![Key(j)] = Kept(@, Replaced(j)) \o job[j].fresh]

LEMMA DocsStep ==
  ASSUME Typed, [Next]_vars
  PROVE  UNCHANGED docs \/ \E j \in Jobs : JobStep(j) /\ ~Start(j) /\ (Builds(j) \/ Rotates(j))
<1>1. CASE ~\E j \in Jobs : JobStep(j)
  BY <1>1, Others
<1>2. ASSUME NEW j \in Jobs, JobStep(j)
      PROVE  UNCHANGED docs \/ (~Start(j) /\ (Builds(j) \/ Rotates(j)))
  <2>1. CASE BuildVideo(j)
    <3>1. UNCHANGED docs \/ Builds(j)
      BY <2>1 DEF BuildVideo, Builds
    <3>2. ~Start(j)
      BY <2>1 DEF BuildVideo, Wants, Start, At
    <3>3. QED
      BY <3>1, <3>2
  <2>2. CASE Rotate(j)
    <3>1. UNCHANGED docs \/ Rotates(j)
      BY <2>2 DEF Rotate, Rotates, At
    <3>2. ~Start(j)
      BY <2>2 DEF Rotate, Start, At
    <3>3. QED
      BY <3>1, <3>2
  <2>3. CASE ~BuildVideo(j) /\ ~Rotate(j)
    BY <1>2, <2>3 DEF JobStep, Start, Decide, Finish, ReadToRefresh, ReadToBuild, RefreshVideo, VideosRead,
                      Synthesise, GetNextVersion, InsertRow, WriteCache, Stop
  <2>4. QED
    BY <2>1, <2>2, <2>3
<1>3. QED
  BY <1>1, <1>2

LEMMA BuildsOne ==
  ASSUME Typed, NEW j \in Jobs, Builds(j)
  PROVE  /\ Key(j) \in Libraries /\ Len(docs'[Key(j)]) = Len(docs[Key(j)]) + 1
         /\ Broken(docs'[Key(j)]) \subseteq Broken(docs[Key(j)])
         /\ \A k \in Libraries \ {Key(j)} : docs'[k] = docs[k]
<1>1. docs \in [Libraries -> Seq(Documents)] /\ \A k \in Libraries : Sound(docs[k], k)
  BY DEF Typed
<1>2. Wants(j) /\ docs' = [docs EXCEPT ![Key(j)] = Append(@, Document(j))] /\ Head(job[j].pending) \notin Known
  BY DEF Builds
<1>3. /\ Key(j) \in Libraries /\ Document(j) \in Documents /\ Document(j).usable
      /\ Document(j).video = Head(job[j].pending) /\ Document(j).video \in Range(Channel[Key(j)])
  BY <1>2, VideoWanted
<1> DEFINE t == Append(docs[Key(j)], Document(j))
<1>4. Document(j).video \notin Videos(docs[Key(j)])
  BY <1>2, <1>3 DEF Known
<1>5. /\ Len(t) = Len(docs[Key(j)]) + 1
      /\ Videos(t) = Videos(docs[Key(j)]) \cup {Document(j).video}
      /\ Usable(t) = Usable(docs[Key(j)]) \cup {Document(j).video}
  BY <1>1, <1>3, <1>4, Extended
<1>6. docs'[Key(j)] = t /\ \A k \in Libraries \ {Key(j)} : docs'[k] = docs[k]
  BY <1>1, <1>2, <1>3
<1> HIDE DEF t
<1>7. Broken(t) \subseteq Broken(docs[Key(j)])
  BY <1>5 DEF Broken
<1>8. QED
  BY <1>3, <1>5, <1>6, <1>7

LEMMA RotatesAsMany ==
  ASSUME Typed, NEW j \in Jobs, Rotates(j)
  PROVE  /\ Key(j) \in Libraries /\ Len(docs'[Key(j)]) = Len(docs[Key(j)])
         /\ Broken(docs'[Key(j)]) \subseteq Broken(docs[Key(j)])
         /\ \A k \in Libraries \ {Key(j)} : docs'[k] = docs[k]
<1>1. docs \in [Libraries -> Seq(Documents)]
  BY DEF Typed
<1> DEFINE t == Kept(docs[Key(j)], Replaced(j)) \o job[j].fresh
<1>2. /\ Key(j) \in Libraries /\ Len(t) = Len(docs[Key(j)])
      /\ Videos(t) = (Videos(docs[Key(j)]) \ Replaced(j)) \cup Videos(job[j].fresh)
      /\ Usable(t) = (Usable(docs[Key(j)]) \ Replaced(j)) \cup Videos(job[j].fresh)
  BY RotationSound DEF Rotates
<1>3. docs' = [docs EXCEPT ![Key(j)] = t]
  BY DEF Rotates
<1> HIDE DEF t
<1>4. docs'[Key(j)] = t /\ \A k \in Libraries \ {Key(j)} : docs'[k] = docs[k]
  BY <1>1, <1>2, <1>3
<1>5. Broken(t) \subseteq Broken(docs[Key(j)])
  BY <1>2 DEF Broken
<1>6. QED
  BY <1>2, <1>4, <1>5

\* What lacks to the target is counted in usable documents.
LEMMA RoomLeft ==
  ASSUME Typed, NEW j \in Jobs, Wants(j), ~job[j].refresh, Follows(j)
  PROVE  Cardinality(Usable(docs[Key(j)])) + 1 <= MaxDocs /\ Cardinality(Usable(docs[Key(j)])) \in Nat
<1> DEFINE known == job[j].known
           fresh == job[j].fresh
           u     == Usable(known)
           f     == Videos(fresh)
<1>1. job[j].pc = "videos" /\ known \in Seq(Documents) /\ fresh \in Seq(Documents) /\ JobSound(j)
  BY JobTyped DEF Wants, At
<1>2. Usable(fresh) = f /\ Len(fresh) < Missing(j, known)
  BY <1>1 DEF JobSound, Busy, Working, Wants
<1>3. docs[Key(j)] = known \o fresh
  BY <1>1 DEF Follows, Busy, Working
<1>4. Usable(docs[Key(j)]) = u \cup f
  <2> HIDE DEF known, fresh
  <2>1. QED
    BY <1>1, <1>2, <1>3, Joined
<1>5. IsFiniteSet(u) /\ IsFiniteSet(f) /\ Cardinality(u) \in Nat /\ Cardinality(f) \in Nat /\ Cardinality(f) <= Len(fresh)
      /\ Len(fresh) \in Nat
  <2>1. IsFiniteSet(Videos(known)) /\ u \in SUBSET Videos(known) /\ IsFiniteSet(f) /\ Len(fresh) \in Nat
    BY <1>1, Records
  <2>2. IsFiniteSet(u)
    BY <2>1, FS_Subset
  <2>3. Cardinality(f) <= Len(fresh)
    BY <1>1, AtMostEach
  <2> HIDE DEF u, f
  <2>4. QED
    BY <2>1, <2>2, <2>3, FS_CardinalityType
<1>6. Cardinality(u) + Len(fresh) < MaxDocs
  <2>1. Missing(j, known) = IF Cardinality(u) >= MaxDocs THEN 0 ELSE MaxDocs - Cardinality(u)
    BY DEF Missing
  <2> HIDE DEF known, fresh, u
  <2>2. QED
    BY <1>2, <1>5, <2>1, CorpusAssumption
<1> HIDE DEF u, f
<1>7. /\ IsFiniteSet(u \cup f) /\ Cardinality(u \cup f) \in Nat /\ Cardinality(u \cap f) \in Nat
      /\ Cardinality(u \cup f) = Cardinality(u) + Cardinality(f) - Cardinality(u \cap f)
  <2>1. u \cap f \in SUBSET u
    OBVIOUS
  <2>2. IsFiniteSet(u \cap f)
    BY <1>5, <2>1, FS_Subset
  <2>3. QED
    BY <1>5, <2>2, FS_Union, FS_CardinalityType
<1> DEFINE a == Cardinality(u)
           b == Cardinality(f)
           c == Cardinality(u \cap f)
           e == Cardinality(u \cup f)
<1>8. a \in Nat /\ b \in Nat /\ c \in Nat /\ e \in Nat /\ e = a + b - c /\ b <= Len(fresh) /\ a + Len(fresh) < MaxDocs
  BY <1>5, <1>6, <1>7
<1>9. MaxDocs \in Nat /\ Len(fresh) \in Nat
  BY <1>5, CorpusAssumption
<1> HIDE DEF a, b, c, e, fresh
<1>10. e + 1 <= MaxDocs
  BY <1>8, <1>9
<1>11. QED
  BY <1>4, <1>8, <1>10 DEF e

LEMMA BuildKeepsBound ==
  ASSUME Typed, NEW j \in Jobs, Builds(j), Follows(j), NEW d \in InitDocs, Grown(d, Key(j))
  PROVE  Len(docs[Key(j)]) + 1 <= Bound(d[Key(j)])
<1> DEFINE k == Key(j)
           s == docs[k]
<1>1. k \in Libraries /\ s \in Seq(Documents) /\ Sound(s, k)
  <2>1. k \in Libraries
    BY BuildsOne
  <2>2. QED
    BY <2>1 DEF Typed
<1>2. Cardinality(Usable(s)) + 1 <= MaxDocs /\ Cardinality(Usable(s)) \in Nat
  BY RoomLeft DEF Builds
<1>3. d[k] \in Seq(Documents)
  BY <1>1, InitAssumption
<1> HIDE DEF s, k
<1>4. IsFiniteSet(Videos(s)) /\ Usable(s) \subseteq Videos(s) /\ Cardinality(Videos(s)) = Len(s) /\ Len(s) \in Nat
  BY <1>1, Records DEF Sound
<1>5. Cardinality(Broken(s)) = Len(s) - Cardinality(Usable(s)) /\ IsFiniteSet(Broken(s))
  <2>1. Videos(s) \cap Usable(s) = Usable(s)
    BY <1>4
  <2>2. /\ IsFiniteSet(Videos(s) \ Usable(s))
        /\ Cardinality(Videos(s) \ Usable(s)) = Cardinality(Videos(s)) - Cardinality(Videos(s) \cap Usable(s))
    BY <1>4, FS_Difference
  <2>3. QED
    BY <1>4, <2>1, <2>2 DEF Broken
<1>6. Cardinality(Broken(s)) <= Cardinality(Broken(d[k])) /\ Cardinality(Broken(d[k])) \in Nat
  <2>1. Broken(s) \in SUBSET Broken(d[k])
    BY DEF Grown, s, k
  <2>2. IsFiniteSet(Videos(d[k])) /\ Broken(d[k]) \in SUBSET Videos(d[k])
    BY <1>3, Records DEF Broken
  <2>3. IsFiniteSet(Broken(d[k]))
    BY <2>2, FS_Subset
  <2>4. QED
    BY <2>1, <2>3, FS_Subset, FS_CardinalityType
<1> DEFINE n == Len(s)
           u == Cardinality(Usable(s))
           b == Cardinality(Broken(d[k]))
           m == Len(d[k])
<1>7. n \in Nat /\ u \in Nat /\ b \in Nat /\ m \in Nat /\ MaxDocs \in Nat /\ u + 1 <= MaxDocs /\ n - u <= b
  BY <1>2, <1>3, <1>4, <1>5, <1>6, CorpusAssumption
<1>8. Bound(d[k]) = IF m < MaxDocs + b THEN MaxDocs + b ELSE m
  BY DEF Bound
<1> HIDE DEF n, u, b, m
<1>9. n + 1 <= Bound(d[k])
  BY <1>7, <1>8
<1>10. QED
  BY <1>9 DEF n, s, k

LEMMA BoundedStep == Typed /\ Alone /\ Following /\ Bounded /\ [Next]_vars => Bounded'
<1> SUFFICES ASSUME Typed, Alone, Following, Bounded, [Next]_vars PROVE Bounded'
  OBVIOUS
<1>1. PICK d \in InitDocs : calm => \A k \in Libraries : Grown(d, k)
  BY DEF Bounded
<1> SUFFICES ASSUME calm' PROVE \A k \in Libraries : Grown(d, k)'
  BY DEF Bounded
<1>2. calm
  <2>1. CASE \E j \in Jobs : JobStep(j)
    BY <2>1, Sole
  <2>2. CASE ~\E j \in Jobs : JobStep(j)
    BY <2>2, Others
  <2>3. QED
    BY <2>1, <2>2
<1>3. \A k \in Libraries : Grown(d, k)
  BY <1>1, <1>2
<1>4. CASE UNCHANGED docs
  BY <1>3, <1>4 DEF Grown, Broken, Videos, Usable
<1>5. ASSUME NEW j \in Jobs, JobStep(j), ~Start(j), Builds(j) PROVE \A k \in Libraries : Grown(d, k)'
  <2>1. /\ Key(j) \in Libraries /\ Len(docs'[Key(j)]) = Len(docs[Key(j)]) + 1
        /\ Broken(docs'[Key(j)]) \subseteq Broken(docs[Key(j)])
        /\ \A k \in Libraries \ {Key(j)} : docs'[k] = docs[k]
    BY <1>5, BuildsOne
  <2>2. Follows(j)
    BY <1>2, <1>5, Sole DEF Following
  <2>3. Len(docs[Key(j)]) + 1 <= Bound(d[Key(j)])
    BY <1>3, <1>5, <2>1, <2>2, BuildKeepsBound
  <2>4. \A k \in Libraries : /\ Broken(docs'[k]) \subseteq Broken(docs[k])
                             /\ Len(docs'[k]) <= Bound(d[k])
    BY <1>3, <2>1, <2>3 DEF Grown
  <2>5. QED
    BY <1>3, <2>4 DEF Grown
<1>6. ASSUME NEW j \in Jobs, Rotates(j) PROVE \A k \in Libraries : Grown(d, k)'
  <2>1. \A k \in Libraries : Broken(docs'[k]) \subseteq Broken(docs[k]) /\ Len(docs'[k]) = Len(docs[k])
    BY <1>6, RotatesAsMany
  <2>2. QED
    BY <1>3, <2>1 DEF Grown
<1>7. QED
  BY <1>4, <1>5, <1>6, DocsStep

--------------------------------------------------------------------------------
(* The rows and what is cached of them. *)

LEMMA ShelfAlone ==
  ASSUME Typed, NEW j \in Jobs, JobStep(j), ~GetNextVersion(j), ~InsertRow(j), ~WriteCache(j)
  PROVE  UNCHANGED <<rows, cache, reader>> /\ job'[j].pc \notin {"inserting", "caching"}
<1>1. job[j] \in JobType /\ job \in [Jobs -> JobType]
  BY JobTyped DEF Typed
<1>2. End(j) => job'[j].pc = "done"
  BY <1>1 DEF End, Idle
<1>3. ASSUME NEW p, Become(j, [job[j] EXCEPT !.pc = p]) PROVE job'[j].pc = p
  BY <1>1, <1>3 DEF Become, JobType
<1>4. CASE Start(j) \/ Decide(j)
  BY <1>1, <1>4 DEF Start, Decide, Become, JobType
<1>5. CASE Finish(j) \/ Stop(j)
  BY <1>2, <1>5 DEF Finish, Stop
<1>6. CASE ReadToRefresh(j) \/ ReadToBuild(j)
  <2>1. \E refresh, videos : Found(j, refresh, videos)
    BY <1>6 DEF ReadToRefresh, ReadToBuild
  <2>2. job'[j].pc = "videos"
    BY <1>1, <2>1 DEF Found, Become, JobType
  <2>3. QED
    BY <1>6, <2>2 DEF ReadToRefresh, ReadToBuild
<1>7. CASE RefreshVideo(j) \/ BuildVideo(j)
  <2>1. job[j].pc = "videos" /\ (Become(j, Skip(j)) \/ Become(j, Keep(j)) \/ End(j))
    BY <1>7 DEF RefreshVideo, BuildVideo, Wants, At
  <2>2. Become(j, Skip(j)) \/ Become(j, Keep(j)) => job'[j].pc = "videos"
    BY <1>1, <2>1 DEF Become, Skip, Keep, JobType
  <2>3. QED
    BY <1>2, <1>7, <2>1, <2>2 DEF RefreshVideo, BuildVideo
<1>8. CASE VideosRead(j) \/ Rotate(j)
  BY <1>2, <1>3, <1>8 DEF VideosRead, Rotate
<1>9. CASE Synthesise(j)
  BY <1>3, <1>9 DEF Synthesise
<1>10. QED
  BY <1>4, <1>5, <1>6, <1>7, <1>8, <1>9 DEF JobStep

\* The last of rising rows is the newest.
LEMMA NewestIsLast ==
  ASSUME Typed, NEW k \in Libraries, Rising(rows[k]), rows[k] # <<>>
  PROVE  /\ Last(rows[k]) \in Library /\ Last(rows[k]) \in Range(rows[k])
         /\ \A r \in Range(rows[k]) : r.version <= Last(rows[k]).version
         /\ \A r \in Range(rows[k]) : r.version = Last(rows[k]).version => r = Last(rows[k])
         /\ \A r \in Newest(k) : r = Last(rows[k])
<1> DEFINE s == rows[k]
           n == Len(s)
<1>1. s \in Seq(Library) /\ n \in Nat /\ n # 0 /\ DOMAIN s = 1..n /\ \A i \in 1..n : s[i] \in Library
  BY ListTyped
<1>2. Last(s) = s[n] /\ n \in 1..n
  BY <1>1 DEF Last
<1>3. \A i \in 1..n : s[i].version \in Nat
  BY <1>1 DEF Library
<1> HIDE DEF s, n
<1>4. \A i \in 1..n : i # n => s[i].version < s[n].version
  <2>1. \A i \in 1..n : i # n => i < n
    BY <1>1
  <2>2. QED
    BY <1>1, <1>2, <2>1 DEF Rising, s
<1>5. \A r \in Range(s) : \E i \in 1..n : r = s[i]
  BY <1>1 DEF Range
<1>6. \A r \in Range(s) : r = s[n] \/ (r.version \in Nat /\ r.version < s[n].version)
  BY <1>3, <1>4, <1>5
<1>7. s[n].version \in Nat /\ s[n] \in Library /\ s[n] \in Range(s)
  BY <1>1, <1>2, <1>3 DEF Range
<1>8. \A r \in Range(s) : r.version <= s[n].version /\ (r.version = s[n].version => r = s[n])
  <2>1. \A x, y \in Nat : (x < y => x <= y /\ x # y) /\ x <= x
    OBVIOUS
  <2>2. QED
    BY <1>6, <1>7, <2>1
<1>9. \A r \in Range(s) : (\A q \in Range(s) : q.version <= r.version) => r = s[n]
  <2>1. \A x, y \in Nat : x <= y /\ y <= x => x = y
    OBVIOUS
  <2>2. QED
    BY <1>6, <1>7, <1>8, <2>1
<1>10. QED
  BY <1>2, <1>7, <1>8, <1>9 DEF Newest, s

LEMMA NumberShelved ==
  ASSUME Typed, NEW j \in Jobs, GetNextVersion(j), Stored
  PROVE  Shelved(j)'
<1> DEFINE k == Key(j)
<1>1. job[j].pc = "numbering" /\ job[j] \in JobType /\ job \in [Jobs -> JobType] /\ JobSound(j)
  BY JobTyped DEF GetNextVersion, At, Typed
<1>2. k \in Libraries
  BY <1>1, JobTyped DEF JobSound, Busy, Working
<1>3. \E last \in {r.version : r \in Newest(k)} \cup (IF rows[k] = <<>> THEN {0} ELSE {}) :
        Become(j, [job[j] EXCEPT !.pc = "inserting", !.version = last + 1])
  BY DEF GetNextVersion
<1>4. PICK last \in {r.version : r \in Newest(k)} \cup (IF rows[k] = <<>> THEN {0} ELSE {}) :
        Become(j, [job[j] EXCEPT !.pc = "inserting", !.version = last + 1])
  BY <1>3
<1>5. job'[j].pc = "inserting" /\ job'[j].version = last + 1 /\ job'[j].keys = job[j].keys /\ rows' = rows
  BY <1>1, <1>4 DEF Become, JobType, GetNextVersion
<1>6. Key(j)' = k
  BY <1>5 DEF Key
<1> HIDE DEF k
<1>7. \A r \in Range(rows[k]) : r.version < last + 1
  <2>1. CASE rows[k] = <<>>
    BY <2>1 DEF Range
  <2>2. CASE rows[k] # <<>>
    <3>1. /\ Last(rows[k]).version \in Nat
          /\ \A r \in Range(rows[k]) : r.version <= Last(rows[k]).version
          /\ \A r \in Newest(k) : r = Last(rows[k])
      BY <1>2, <2>2, NewestIsLast DEF Stored, Library
    <3>2. last = Last(rows[k]).version
      BY <1>4, <2>2, <3>1
    <3>3. \A r \in Range(rows[k]) : r.version \in Nat
      BY <1>2, ListTyped DEF Range, Library
    <3>4. \A x, y \in Nat : x <= y => x < y + 1
      OBVIOUS
    <3>5. QED
      BY <3>1, <3>2, <3>3, <3>4
  <2>3. QED
    BY <2>1, <2>2
<1>8. QED
  BY <1>5, <1>6, <1>7 DEF Shelved

\* A row that is newer than all others goes to the end.
LEMMA RowAdded ==
  ASSUME NEW s \in Seq(Library), Rising(s), NEW r \in Library, \A q \in Range(s) : q.version < r.version
  PROVE  Rising(Append(s, r)) /\ Range(Append(s, r)) = Range(s) \cup {r}
<1> DEFINE n == Len(s)
           t == Append(s, r)
<1>1. /\ n \in Nat /\ DOMAIN s = 1..n /\ DOMAIN t = 1..(n + 1) /\ 1..(n + 1) = (1..n) \cup {n + 1}
      /\ t[n + 1] = r /\ \A i \in 1..n : t[i] = s[i]
  OBVIOUS
<1>2. \A i \in 1..n : s[i] \in Range(s)
  BY <1>1 DEF Range
<1>3. \A i \in 1..(n + 1) : i < n + 1 => i \in 1..n
  OBVIOUS
<1>4. \A i, l \in 1..(n + 1) : i < l => i < n + 1
  BY <1>1
<1> HIDE DEF n, t
<1>5. Range(t) = Range(s) \cup {r}
  BY <1>1 DEF Range
<1>6. Rising(t)
  <2> SUFFICES ASSUME NEW i \in 1..(n + 1), NEW l \in 1..(n + 1), i < l PROVE t[i].version < t[l].version
    BY <1>1 DEF Rising
  <2>1. i \in 1..n
    BY <1>3, <1>4
  <2>2. CASE l = n + 1
    BY <1>1, <1>2, <2>1, <2>2
  <2>3. CASE l \in 1..n
    BY <1>1, <2>1, <2>3 DEF Rising
  <2>4. QED
    BY <1>1, <2>2, <2>3
<1>7. QED
  BY <1>5, <1>6 DEF t

LEMMA MadeStays ==
  ASSUME Typed, NEW j \in Jobs, UNCHANGED Carried(j), job'[j].version = job[j].version
  PROVE  Made(j)' = Made(j) /\ Key(j)' = Key(j)
<1>1. /\ job'[j].keys = job[j].keys /\ job'[j].known = job[j].known
      /\ job'[j].fresh = job[j].fresh /\ job'[j].refresh = job[j].refresh
  BY DEF Carried
<1>2. Key(j)' = Key(j) /\ Content(j)' = Content(j)
  BY <1>1 DEF Key, Content
<1>3. QED
  BY <1>2 DEF Made

LEMMA InsertShelved ==
  ASSUME Typed, NEW j \in Jobs, InsertRow(j), Stored, ReadStored, Shelved(j)
  PROVE  Stored' /\ ReadStored' /\ Shelved(j)'
<1> DEFINE k == Key(j)
<1>1. job[j].pc = "inserting" /\ job[j] \in JobType /\ job \in [Jobs -> JobType] /\ JobSound(j)
      /\ rows \in [Libraries -> Seq(Library)] /\ reader \in ReaderType
  BY JobTyped DEF InsertRow, At, Typed
<1>2. k \in Libraries /\ Made(j) \in Library /\ Made(j).version = job[j].version
  BY <1>1, JobTyped, MadeIsLibrary DEF JobSound, Busy, Working
<1>3. rows' = [rows EXCEPT ![k] = Append(@, Made(j))] /\ UNCHANGED <<cache, reader>>
  BY DEF InsertRow
<1>4. job'[j] = [job[j] EXCEPT !.pc = "caching"]
  BY <1>1 DEF InsertRow, Become
<1>5. job'[j].pc = "caching" /\ UNCHANGED Carried(j) /\ job'[j].version = job[j].version
  BY <1>1, <1>4 DEF JobType, Carried
<1>6. Made(j)' = Made(j) /\ Key(j)' = k
  BY <1>5, MadeStays
<1> DEFINE m == Made(j)
<1> HIDE DEF k, m
<1>7. Rising(rows'[k]) /\ Range(rows'[k]) = Range(rows[k]) \cup {m}
  <2>1. rows[k] \in Seq(Library) /\ Rising(rows[k]) /\ rows'[k] = Append(rows[k], m)
    BY <1>1, <1>2, <1>3 DEF Stored, m
  <2>2. m \in Library /\ \A q \in Range(rows[k]) : q.version < m.version
    BY <1>1, <1>2 DEF Shelved, m, k
  <2>3. QED
    BY <2>1, <2>2, RowAdded
<1>8. \A l \in Libraries : Rising(rows'[l]) /\ Range(rows[l]) \subseteq Range(rows'[l])
  BY <1>1, <1>3, <1>7 DEF Stored
<1>9. Stored'
  <2>1. \A l \in Libraries : Rising(rows'[l]) /\ (cache'[l] # None => cache'[l] \in Range(rows'[l]))
    BY <1>3, <1>8 DEF Stored
  <2>2. QED
    BY <2>1 DEF Stored, Rising, Range
<1>10. ReadStored'
  <2>1. reader.pc = "query" => Head(reader.keys) \in Libraries
    BY <1>1 DEF Typed, ReaderType
  <2>2. QED
    BY <1>3, <1>8, <2>1 DEF ReadStored
<1>11. m \in Range(rows'[k])
  BY <1>7
<1>12. (Made(j) \in Range(rows[Key(j)]))'
  BY <1>6, <1>11 DEF m, Range
<1>13. Shelved(j)'
  BY <1>5, <1>12 DEF Shelved
<1>14. QED
  BY <1>9, <1>10, <1>13

LEMMA CacheShelved ==
  ASSUME Typed, NEW j \in Jobs, WriteCache(j), Stored, ReadStored, Shelved(j)
  PROVE  Stored' /\ ReadStored' /\ Shelved(j)'
<1>1. job[j].pc = "caching" /\ job[j] \in JobType /\ job \in [Jobs -> JobType] /\ JobSound(j)
      /\ cache \in [Libraries -> Library \cup {None}]
  BY JobTyped DEF WriteCache, At, Typed
<1>2. Key(j) \in Libraries /\ Made(j) \in Range(rows[Key(j)])
  BY <1>1, JobTyped DEF JobSound, Busy, Working, Shelved
<1>3. UNCHANGED <<rows, reader>> /\ (cache' = [cache EXCEPT ![Key(j)] = Made(j)] \/ cache' = cache)
  BY DEF WriteCache
<1>4. job'[j].pc = "next"
  BY <1>1 DEF WriteCache, Become, JobType
<1>5. \A k \in Libraries : cache'[k] # None => cache'[k] \in Range(rows[k])
  BY <1>1, <1>2, <1>3 DEF Stored
<1>6. Stored'
  BY <1>3, <1>5 DEF Stored, Rising, Range
<1>7. ReadStored'
  BY <1>3 DEF ReadStored, Range
<1>8. QED
  BY <1>4, <1>6, <1>7 DEF Shelved

LEMMA ReaderShelved ==
  ASSUME Typed, Stored, ReadStored, StartLoad \/ ReadCache \/ QueryRow \/ Combine \/ Restart
  PROVE  Stored' /\ ReadStored'
<1>1. /\ reader \in ReaderType /\ cache \in [Libraries -> Library \cup {None}] /\ rows' = rows
      /\ reader.pc = "query" => reader.keys # <<>>
  BY DEF Typed, StartLoad, ReadCache, QueryRow, Combine, Restart
<1>2. reader.keys # <<>> => Head(reader.keys) \in Libraries
  BY <1>1 DEF ReaderType
<1>3. ASSUME \A k \in Libraries : cache'[k] # None => cache'[k] \in Range(rows[k]) PROVE Stored'
  BY <1>1, <1>3 DEF Stored, Rising, Range
<1>4. ASSUME reader'.pc # "query" PROVE ReadStored'
  BY <1>4 DEF ReadStored
<1>5. CASE StartLoad \/ Combine
  <2>1. cache' = cache /\ reader'.pc # "query"
    BY <1>1, <1>5, IdleTyped DEF StartLoad, Combine, ReaderType
  <2>2. QED
    BY <1>3, <1>4, <2>1 DEF Stored
<1>6. CASE ReadCache
  <2>1. reader.keys # <<>> /\ cache' = cache
    BY <1>6 DEF ReadCache
  <2>2. PICK found \in {cache[Head(reader.keys)], None} : reader' = [reader EXCEPT !.pc = "query", !.cache = found]
    BY <1>6 DEF ReadCache
  <2>3. reader'.cache = found /\ reader'.keys = reader.keys
    BY <1>1, <2>2 DEF ReaderType
  <2>4. found # None => found \in Range(rows[Head(reader.keys)])
    BY <1>2, <2>1, <2>2 DEF Stored
  <2>5. ReadStored'
    BY <1>1, <2>3, <2>4 DEF ReadStored, Range
  <2>6. QED
    BY <1>3, <2>1, <2>5 DEF Stored
<1>7. CASE QueryRow
  <2> DEFINE k == Head(reader.keys)
  <2>1. reader.pc = "query" /\ k \in Libraries
    BY <1>1, <1>2, <1>7 DEF QueryRow
  <2>2. PICK row \in IF rows[k] = <<>> THEN {None} ELSE Newest(k) :
             /\ reader' = [reader EXCEPT !.pc = "load", !.keys = Tail(@), !.cache = None,
                                         !.got[k] = Chosen(reader.cache, row)]
             /\ cache' = IF reader.cache = None /\ row # None THEN [cache EXCEPT ![k] = row] ELSE cache
    BY <1>7 DEF QueryRow
  <2> HIDE DEF k
  <2>3. reader'.pc = "load"
    BY <1>1, <2>2 DEF ReaderType
  <2>4. row # None => row \in Range(rows[k])
    BY <2>2 DEF Newest
  <2>5. \A l \in Libraries : cache'[l] # None => cache'[l] \in Range(rows[l])
    BY <1>1, <2>1, <2>2, <2>4 DEF Stored
  <2>6. QED
    BY <1>3, <1>4, <2>3, <2>5
<1>8. CASE Restart
  <2>1. cache' \in {cache, [k \in Libraries |-> None]} /\ reader'.pc # "query"
    BY <1>8, IdleTyped DEF Restart
  <2>2. \A l \in Libraries : cache'[l] # None => cache'[l] \in Range(rows[l])
    BY <2>1 DEF Stored
  <2>3. QED
    BY <1>3, <1>4, <2>1, <2>2
<1>9. QED
  BY <1>5, <1>6, <1>7, <1>8

LEMMA ShelfByJob ==
  ASSUME Typed, Alone, Shelf, NEW j \in Jobs, JobStep(j), calm'
  PROVE  Stored' /\ ReadStored' /\ (\A i \in AtWork : Shelved(i))'
<1>1. calm /\ AtWork' \subseteq {j} /\ (Start(j) \/ j \in AtWork)
  BY Sole
<1>2. Stored /\ ReadStored /\ (Start(j) \/ Shelved(j))
  BY <1>1 DEF Shelf
<1>3. CASE ~GetNextVersion(j) /\ ~InsertRow(j) /\ ~WriteCache(j)
  <2>1. UNCHANGED <<rows, cache, reader>> /\ job'[j].pc \notin {"inserting", "caching"}
    BY <1>3, ShelfAlone
  <2>2. Stored' /\ ReadStored'
    BY <1>2, <2>1 DEF Stored, ReadStored, Rising, Range
  <2>3. Shelved(j)'
    BY <2>1 DEF Shelved
  <2>4. QED
    BY <1>1, <2>2, <2>3
<1>4. ASSUME job[j].pc # "scheduled" PROVE Shelved(j)
  BY <1>2, <1>4 DEF Start, At
<1>5. CASE GetNextVersion(j)
  <2>1. UNCHANGED <<rows, cache, reader>>
    BY <1>5 DEF GetNextVersion
  <2>2. Stored' /\ ReadStored'
    BY <1>2, <2>1 DEF Stored, ReadStored, Rising, Range
  <2>3. Shelved(j)'
    BY <1>2, <1>5, NumberShelved
  <2>4. QED
    BY <1>1, <2>2, <2>3
<1>6. CASE InsertRow(j)
  <2>1. Shelved(j)
    BY <1>4, <1>6 DEF InsertRow, At
  <2>2. Stored' /\ ReadStored' /\ Shelved(j)'
    BY <1>2, <1>6, <2>1, InsertShelved
  <2>3. QED
    BY <1>1, <2>2
<1>7. CASE WriteCache(j)
  <2>1. Shelved(j)
    BY <1>4, <1>7 DEF WriteCache, At
  <2>2. Stored' /\ ReadStored' /\ Shelved(j)'
    BY <1>2, <1>7, <2>1, CacheShelved
  <2>3. QED
    BY <1>1, <2>2
<1>8. QED
  BY <1>3, <1>5, <1>6, <1>7

LEMMA ShelfStep == Typed /\ Alone /\ Shelf /\ [Next]_vars => Shelf'
<1> SUFFICES ASSUME Typed, Alone, Shelf, [Next]_vars, calm'
             PROVE  Stored' /\ ReadStored' /\ (\A j \in AtWork : Shelved(j))'
  BY DEF Shelf
<1>1. ASSUME NEW j \in Jobs, JobStep(j) PROVE Stored' /\ ReadStored' /\ (\A i \in AtWork : Shelved(i))'
  BY <1>1, ShelfByJob
<1>2. CASE ~\E j \in Jobs : JobStep(j)
  <2>1. calm /\ rows' = rows /\ AtWork' \subseteq AtWork /\ \A i \in AtWork' : job'[i] = job[i]
    BY <1>2, Others, OthersAtWork
  <2>2. Stored /\ ReadStored /\ \A i \in AtWork : Shelved(i)
    BY <2>1 DEF Shelf
  <2>3. ASSUME NEW i \in AtWork' PROVE Shelved(i)'
    <3>1. Shelved(i) /\ job'[i] = job[i]
      BY <2>1, <2>2
    <3>2. QED
      BY <2>1, <3>1 DEF Shelved, Made, Content, Key, Range
  <2>4. CASE StartLoad \/ ReadCache \/ QueryRow \/ Combine \/ Restart
    BY <2>2, <2>3, <2>4, ReaderShelved
  <2>5. CASE ~(StartLoad \/ ReadCache \/ QueryRow \/ Combine \/ Restart)
    <3>1. UNCHANGED <<rows, cache, reader>>
      BY <1>2, <2>5 DEF Next, RequestRebuild, RunScript, SeedIfEmpty, Schedule, vars
    <3>2. QED
      BY <2>2, <2>3, <3>1 DEF Stored, ReadStored, Rising, Range
  <2>6. QED
    BY <2>4, <2>5
<1>3. QED
  BY <1>1, <1>2

--------------------------------------------------------------------------------
(* The theorems. *)

LEMMA InitInvariants == Init => Alone /\ Following /\ Bounded /\ Shelf
<1> SUFFICES ASSUME Init PROVE Alone /\ Following /\ Bounded /\ Shelf
  OBVIOUS
<1>1. AtWork = {}
  BY DEF Init, AtWork, Idle, Working
<1>2. Alone /\ Following
  BY <1>1 DEF Alone, Following
<1>3. Bounded
  <2>1. \A k \in Libraries : Len(docs[k]) <= Bound(docs[k])
    <3>1. \A k \in Libraries : Sound(docs[k], k)
      BY InitTyped DEF Typed
    <3>2. ASSUME NEW k \in Libraries PROVE Len(docs[k]) <= Bound(docs[k])
      <4>1. docs[k] \in Seq(Documents)
        BY <3>1 DEF Sound
      <4>2. Len(docs[k]) \in Nat /\ MaxDocs \in Nat /\ Cardinality(Broken(docs[k])) \in Nat
        <5>1. IsFiniteSet(Videos(docs[k])) /\ Broken(docs[k]) \in SUBSET Videos(docs[k])
          BY <4>1, Records DEF Broken
        <5>2. QED
          BY <4>1, <5>1, FS_Subset, FS_CardinalityType, CorpusAssumption
      <4>3. QED
        BY <4>2 DEF Bound
    <3>3. QED
      BY <3>2
  <2>2. docs \in InitDocs
    BY DEF Init
  <2>3. QED
    BY <2>1, <2>2 DEF Bounded, Grown
<1>4. Shelf
  <2>1. Stored /\ ReadStored
    BY DEF Init, Stored, ReadStored, Rising, NoReader
  <2>2. QED
    BY <1>1, <2>1 DEF Shelf
<1>5. QED
  BY <1>2, <1>3, <1>4

Invariants == Typed /\ Alone /\ Following /\ Bounded /\ Shelf

LEMMA InvariantsHold == Spec => []Invariants
<1>1. Init => Invariants
  BY InitTyped, InitInvariants DEF Invariants
<1>2. Invariants /\ [Next]_vars => Invariants'
  BY TypedStep, AloneStep, FollowingStep, BoundedStep, ShelfStep DEF Invariants
<1>3. QED
  BY <1>1, <1>2, PTL DEF Spec

LEMMA TypeFollows == Invariants => TypeOK
<1> SUFFICES ASSUME Invariants PROVE TypeOK
  OBVIOUS
<1>1. /\ \A k \in Libraries : /\ rows[k] \in Seq(Library) /\ cache[k] \in Library \cup {None}
                              /\ Videos(docs[k]) \subseteq Range(Channel[k])
                              /\ Cardinality(Videos(docs[k])) = Len(docs[k])
      /\ building \in BOOLEAN /\ calm \in BOOLEAN /\ active \in Library \cup {None}
  BY DEF Invariants, Typed, Sound
<1>2. \A j \in Jobs : job[j].pc \in Working \cup {"none", "scheduled", "done"}
  BY JobTyped DEF Invariants
<1>3. calm => \A k \in Libraries : \E d \in InitDocs : Len(docs[k]) <= Bound(d[k])
  BY DEF Invariants, Bounded, Grown
<1>4. QED
  BY <1>1, <1>2, <1>3 DEF TypeOK

\* In every reachable state every variable is of its type; a video is a document of a library
\* once, and in a calm corpus a library holds no more documents than its target and those
\* without a usable structure (corpus_builder.py: the unique index, and the count of usable
\* documents that expansion goes by).
THEOREM TypeCorrect == Spec => []TypeOK
  BY InvariantsHold, TypeFollows, PTL

\* No step of a rebuild, whatever fails and however rebuilds overlap, leaves a library with
\* fewer documents: an expansion adds one, a rotation replaces as many as it deletes, in one
\* transaction (corpus_builder.py:423-428).
THEOREM NeverShrinks == Spec => CorpusNeverShrinks
<1>1. Typed /\ [Next]_vars => [\A k \in Libraries : Len(docs'[k]) >= Len(docs[k])]_vars
  <2> SUFFICES ASSUME Typed, [Next]_vars PROVE \A k \in Libraries : Len(docs'[k]) >= Len(docs[k])
    OBVIOUS
  <2>1. \A k \in Libraries : Len(docs[k]) \in Nat
    BY Records DEF Typed
  <2>2. \A n \in Nat : n >= n /\ n + 1 >= n
    OBVIOUS
  <2>3. CASE UNCHANGED docs
    BY <2>1, <2>2, <2>3
  <2>4. ASSUME NEW j \in Jobs, Builds(j) \/ Rotates(j) PROVE \A k \in Libraries : Len(docs'[k]) >= Len(docs[k])
    <3>1. CASE Builds(j)
      <4>1. /\ Key(j) \in Libraries /\ Len(docs'[Key(j)]) = Len(docs[Key(j)]) + 1
            /\ \A k \in Libraries \ {Key(j)} : docs'[k] = docs[k]
        BY <3>1, BuildsOne
      <4>2. QED
        BY <2>1, <2>2, <4>1
    <3>2. CASE Rotates(j)
      <4>1. /\ Key(j) \in Libraries /\ Len(docs'[Key(j)]) = Len(docs[Key(j)])
            /\ \A k \in Libraries \ {Key(j)} : docs'[k] = docs[k]
        BY <3>2, RotatesAsMany
      <4>2. QED
        BY <2>1, <2>2, <4>1
    <3>3. QED
      BY <2>4, <3>1, <3>2
  <2>5. QED
    BY <2>3, <2>4, DocsStep
<1>2. Invariants => Typed
  BY DEF Invariants
<1>3. QED
  BY <1>1, <1>2, InvariantsHold, PTL DEF Spec, CorpusNeverShrinks

\* As long as rebuilds do not overlap, the library that is saved is made from exactly the
\* usable documents of its corpus, through expansion, rotation and whatever stopped before
\* (corpus_builder.py:370-438, 588-609).
THEOREM LibraryFollows == Spec => LibraryFollowsDocs
<1>1. Invariants /\ [Next]_vars =>
        [calm => \A k \in Libraries : rows'[k] # rows[k] => Last(rows'[k]).videos = Usable(docs'[k])]_vars
  <2> SUFFICES ASSUME Invariants, [Next]_vars, calm, NEW k \in Libraries, rows'[k] # rows[k]
               PROVE  Last(rows'[k]).videos = Usable(docs'[k])
    OBVIOUS
  <2>1. PICK j \in Jobs : InsertRow(j)
    <3>1. \E j \in Jobs : JobStep(j)
      BY Others DEF Invariants
    <3>2. PICK j \in Jobs : JobStep(j)
      BY <3>1
    <3>3. InsertRow(j)
      <4>1. CASE GetNextVersion(j)
        BY <4>1 DEF GetNextVersion
      <4>2. CASE WriteCache(j)
        BY <4>2 DEF WriteCache
      <4>3. QED
        BY <3>2, <4>1, <4>2, ShelfAlone DEF Invariants
    <3>4. QED
      BY <3>3
  <2>2. /\ job[j].pc = "inserting" /\ rows' = [rows EXCEPT ![Key(j)] = Append(@, Made(j))] /\ docs' = docs
        /\ rows \in [Libraries -> Seq(Library)]
    BY <2>1 DEF InsertRow, At, Invariants, Typed
  <2>3. k = Key(j) /\ rows'[k] = Append(rows[k], Made(j))
    BY <2>2
  <2>4. Last(rows'[k]) = Made(j)
    <3>1. rows[k] \in Seq(Library) /\ Made(j) \in Library
      BY MadeIsLibrary, ListTyped DEF Invariants
    <3>2. ASSUME NEW s \in Seq(Library), NEW r \in Library PROVE Last(Append(s, r)) = r
      BY DEF Last
    <3>3. QED
      BY <2>3, <3>1, <3>2
  <2>5. Follows(j)
    BY <2>2 DEF Invariants, Following, AtWork, Working
  <2>6. Usable(docs[k]) = Content(j)
    BY <2>2, <2>3, <2>5 DEF Follows
  <2>7. QED
    BY <2>2, <2>4, <2>6 DEF Made
<1>2. QED
  BY <1>1, InvariantsHold, PTL DEF Spec, LibraryFollowsDocs

\* As long as rebuilds do not overlap, what a reader takes for a library is the last row
\* that was saved of it, although row and file are written apart, files get lost and the
\* reader may be between the two (benchmarking.py:264-287).
THEOREM ServedNewest == Spec => ServedIsNewest
<1>1. Invariants /\ [Next]_vars =>
        [calm => \A k \in Libraries : reader'.got[k] # reader.got[k] /\ reader'.got[k] # None =>
                   rows[k] # <<>> /\ reader'.got[k] = Last(rows[k])]_vars
  <2> SUFFICES ASSUME Invariants, [Next]_vars, calm, NEW k \in Libraries,
                      reader'.got[k] # reader.got[k], reader'.got[k] # None
               PROVE  rows[k] # <<>> /\ reader'.got[k] = Last(rows[k])
    OBVIOUS
  <2>1. Typed /\ Stored /\ ReadStored
    BY DEF Invariants, Shelf
  <2>2. /\ reader \in ReaderType /\ (reader.pc = "query" => reader.keys # <<>>)
        /\ reader.got \in [Libraries -> Library \cup {None}]
    BY <2>1 DEF Typed, ReaderType
  <2>3. QueryRow
    <3>1. reader' # NoReader
      BY DEF NoReader
    <3>2. ~StartLoad /\ ~ReadCache
      BY <2>2 DEF StartLoad, ReadCache, ReaderType
    <3>3. ~Combine /\ ~Restart
      BY <3>1 DEF Combine, Restart
    <3>4. ~\E j \in Jobs : JobStep(j)
      <4>1. ASSUME NEW j \in Jobs, JobStep(j) PROVE reader' = reader
        <5>1. CASE GetNextVersion(j) \/ InsertRow(j) \/ WriteCache(j)
          BY <5>1 DEF GetNextVersion, InsertRow, WriteCache
        <5>2. QED
          BY <2>1, <4>1, <5>1, ShelfAlone
      <4>2. QED
        BY <4>1
    <3>5. QED
      BY <3>2, <3>3, <3>4 DEF Next, RequestRebuild, RunScript, SeedIfEmpty, Schedule, vars
  <2> DEFINE h == Head(reader.keys)
  <2>4. PICK row \in IF rows[h] = <<>> THEN {None} ELSE Newest(h) :
          reader' = [reader EXCEPT !.pc = "load", !.keys = Tail(@), !.cache = None,
                                   !.got[h] = Chosen(reader.cache, row)]
    BY <2>3 DEF QueryRow
  <2>5. h \in Libraries /\ reader.pc = "query"
    BY <2>2, <2>3 DEF QueryRow, ReaderType
  <2>6. reader.cache # None => reader.cache \in Range(rows[h])
    BY <2>1, <2>5 DEF ReadStored
  <2> HIDE DEF h
  <2>7. k = h /\ reader'.got[k] = Chosen(reader.cache, row)
    <3>1. reader'.got = [reader.got EXCEPT ![h] = Chosen(reader.cache, row)]
      BY <2>2, <2>4 DEF ReaderType
    <3>2. QED
      BY <2>2, <2>5, <3>1
  <2>8. rows[k] # <<>>
    <3>1. ASSUME rows[k] = <<>> PROVE FALSE
      <4>1. row = None /\ reader.cache = None
        BY <2>4, <2>6, <2>7, <3>1 DEF Range
      <4>2. QED
        BY <2>7, <4>1 DEF Chosen
    <3>2. QED
      BY <3>1
  <2>9. Rising(rows[k])
    BY <2>1 DEF Stored
  <2>10. row = Last(rows[k]) /\ \A r \in Range(rows[k]) : r.version = Last(rows[k]).version => r = Last(rows[k])
    BY <2>1, <2>4, <2>7, <2>8, <2>9, NewestIsLast
  <2>11. QED
    <3>1. row # None
      <4>1. Last(rows[k]) \in Library
        BY <2>1, <2>8, <2>9, NewestIsLast
      <4>2. QED
        BY <2>10, <4>1, ListingAssumption
    <3>2. CASE reader.cache # None /\ reader.cache.version = row.version
      BY <2>6, <2>7, <2>8, <2>10, <3>2 DEF Chosen
    <3>3. CASE ~(reader.cache # None /\ reader.cache.version = row.version)
      BY <2>7, <2>8, <2>10, <3>1, <3>3 DEF Chosen
    <3>4. QED
      BY <3>2, <3>3
<1>2. QED
  BY <1>1, InvariantsHold, PTL DEF Spec, ServedIsNewest

================================================================================
