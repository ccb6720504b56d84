------------------------------ MODULE VidIQProofs ------------------------------
(* Machine-checked proofs of VidIQ's budget properties, for any reports, search   *)
(* terms, keywords and videos, any budget and any size of the cache.              *)
(*                                                                                *)
(* The budget proofs leave the entries of a search queue untyped: which keywords  *)
(* a report searches for plays no part in them. Type correctness, which follows   *)
(* them, is where the choice of searches is reasoned about: those it yields exist *)
(* and are calls of the search tool.                                              *)
EXTENDS VidIQ, FiniteSetTheorems, TLAPS

--------------------------------------------------------------------------------
(* What a report becomes when it runs to its next await.                          *)

Fields == {"kind", "pc", "seed", "queue", "got", "keywords", "videos", "partial", "billed",
           "overlapped", "skipped"}

\* x is r further on: whose it is, what was billed and what overlapped it are kept.
Follows(x, r) ==
  /\ DOMAIN x = Fields /\ x.kind = r.kind /\ x.billed = r.billed /\ x.overlapped = r.overlapped

\* A demand report after n calls of its tool. Searches are skipped only at the budget,
\* and the report that follows reads the counter to say so.
SearchState(x, n) ==
  /\ x.pc \in {"calling", "filtering", "judging", "report", "none"}
  /\ x.pc = "calling" => n < MaxCalls
  /\ x.skipped \in BOOLEAN
  /\ x.skipped => x.pc \in {"judging", "report"} /\ n >= MaxCalls
  /\ x.pc = "report" => x.partial = (n >= MaxCalls)

TrendSet == Range(TrendCalls)

\* What is left of a trend snapshot's queue: no call twice, none that has answered.
Pending(x) ==
  /\ x.queue \in Seq(TrendSet) /\ Len(x.queue) <= 3 /\ x.got \subseteq TrendSet
  /\ \A i, j \in DOMAIN x.queue : x.queue[i] = x.queue[j] => i = j
  /\ \A i \in DOMAIN x.queue : x.queue[i] \notin x.got

TrendState(x, n) ==
  /\ x.pc \in {"calling", "report", "none"}
  /\ x.pc = "calling" => n < MaxCalls /\ Pending(x) /\ x.queue # <<>>
  /\ x.skipped \in BOOLEAN
  /\ x.skipped => x.pc = "report" /\ x.partial

LEMMA GoneState ==
  ASSUME NEW r, DOMAIN r = Fields, NEW n \in Nat
  PROVE  Follows(Gone(r), r) /\ SearchState(Gone(r), n) /\ TrendState(Gone(r), n)
  BY DEF Gone, New, Follows, SearchState, TrendState, Fields

LEMMA SearchEffect ==
  ASSUME NEW r, DOMAIN r = Fields, r.skipped = FALSE, NEW n \in Nat, NEW cached
  PROVE  Follows(NextSearch(r, n, cached), r) /\ SearchState(NextSearch(r, n, cached), n)
<1> DEFINE over(y) == IF y.videos = {} THEN Assembled(y, n) ELSE [y EXCEPT !.pc = "judging"]
           live == {i \in DOMAIN r.queue : r.queue[i] \notin cached}
           cut  == IF live = {} THEN Len(r.queue)
                   ELSE (CHOOSE i \in live : \A j \in live : i <= j) - 1
           free == {r.queue[i] : i \in 1..cut}
           seen == [r EXCEPT !.videos = @ \cup UNION {Found[c] : c \in free},
                             !.queue = SubSeq(@, cut + 1, Len(@))]
           none == [r EXCEPT !.skipped = TRUE, !.queue = <<>>]
<1>1. ASSUME NEW y, DOMAIN y = Fields, Follows(y, r), y.skipped \in BOOLEAN,
             y.skipped => n >= MaxCalls
      PROVE  Follows(over(y), r) /\ SearchState(over(y), n)
  BY <1>1, BudgetAssumption DEF Assembled, Follows, SearchState, Fields
<1>2. DOMAIN seen = Fields /\ Follows(seen, r) /\ seen.skipped = FALSE
  BY DEF Follows, Fields
<1>3. DOMAIN none = Fields /\ Follows(none, r) /\ none.skipped = TRUE
  BY DEF Follows, Fields
<1>4. r.queue = <<>> => live = {}
  OBVIOUS
<1>5. NextSearch(r, n, cached) = IF r.queue # <<>> /\ n >= MaxCalls THEN over(none)
                                 ELSE IF live = {} THEN over(seen)
                                 ELSE [seen EXCEPT !.pc = "calling"]
  BY DEF NextSearch
<1> HIDE DEF over, live, seen, none
<1>6. CASE NextSearch(r, n, cached) = over(none) /\ n >= MaxCalls
  BY <1>1, <1>3, <1>6
<1>7. CASE NextSearch(r, n, cached) = over(seen)
  BY <1>1, <1>2, <1>7
<1>8. CASE NextSearch(r, n, cached) = [seen EXCEPT !.pc = "calling"] /\ ~(n >= MaxCalls)
  <2> DEFINE x == [seen EXCEPT !.pc = "calling"]
  <2>1. /\ DOMAIN x = Fields /\ x.pc = "calling" /\ x.skipped = FALSE
        /\ x.kind = r.kind /\ x.billed = r.billed /\ x.overlapped = r.overlapped
    BY <1>2 DEF Follows, Fields
  <2>2. n < MaxCalls
    BY <1>8, BudgetAssumption
  <2>3. NextSearch(r, n, cached) = x
    BY <1>8
  <2> HIDE DEF x
  <2>4. QED
    BY <2>1, <2>2, <2>3 DEF Follows, SearchState
<1>9. QED
  BY <1>4, <1>5, <1>6, <1>7, <1>8

LEMMA FilteredEffect ==
  ASSUME NEW r, DOMAIN r = Fields, r.skipped = FALSE, NEW n \in Nat, NEW cached
  PROVE  Follows(Filtered(r, n, cached), r) /\ SearchState(Filtered(r, n, cached), n)
<1> DEFINE q == [r EXCEPT !.queue = Searches(r.seed, {})]
           f == [r EXCEPT !.pc = "filtering", !.keywords = Range(Related[r.seed]) \ Generic]
<1>1. DOMAIN q = Fields /\ q.skipped = FALSE /\ Follows(q, r)
  BY DEF Follows, Fields
<1>2. Follows(f, r) /\ SearchState(f, n)
  BY DEF Follows, SearchState, Fields
<1>3. Filtered(r, n, cached) = NextSearch(q, n, cached) \/ Filtered(r, n, cached) = f
  BY DEF Filtered
<1> HIDE DEF q, f
<1>4. Follows(NextSearch(q, n, cached), q) /\ SearchState(NextSearch(q, n, cached), n)
  BY <1>1, SearchEffect
<1>5. Follows(NextSearch(q, n, cached), r)
  BY <1>1, <1>4 DEF Follows
<1>6. QED
  BY <1>2, <1>3, <1>4, <1>5

LEMMA ThreeTrendCalls ==
  /\ Len(TrendCalls) = 3 /\ TrendCalls \in Seq(TrendSet)
  /\ \A i, j \in DOMAIN TrendCalls : TrendCalls[i] = TrendCalls[j] => i = j
  /\ \A c \in TrendSet : c[1] # "keywords"
  /\ IsFiniteSet(TrendSet) /\ Cardinality(TrendSet) <= 3
<1> DEFINE a == <<"country", None>>
           b == <<"trending", None>>
           c == <<"outliers", None>>
<1>1. TrendCalls = <<a, b, c>>
  BY DEF TrendCalls
<1>2. a # b /\ a # c /\ b # c /\ a[1] # "keywords" /\ b[1] # "keywords" /\ c[1] # "keywords"
  OBVIOUS
<1> HIDE DEF a, b, c
<1>3. Len(TrendCalls) = 3 /\ DOMAIN TrendCalls = 1..3
      /\ TrendCalls[1] = a /\ TrendCalls[2] = b /\ TrendCalls[3] = c
  BY <1>1
<1>4. TrendSet = {a, b, c}
  BY <1>3 DEF TrendSet, Range
<1>5. TrendCalls \in Seq(TrendSet)
  BY <1>1, <1>4
<1>6. \A i, j \in DOMAIN TrendCalls : TrendCalls[i] = TrendCalls[j] => i = j
  BY <1>2, <1>3
<1>7. IsFiniteSet({a}) /\ Cardinality({a}) = 1
  BY FS_Singleton
<1>8. IsFiniteSet({a} \cup {b}) /\ Cardinality({a} \cup {b}) = 2
  BY <1>2, <1>7, FS_AddElement
<1> DEFINE ab == {a} \cup {b}
<1>9. IsFiniteSet(ab \cup {c}) /\ Cardinality(ab \cup {c}) <= 3
  <2> HIDE DEF ab
  <2>1. IsFiniteSet(ab) /\ Cardinality(ab) = 2
    BY <1>8 DEF ab
  <2>2. /\ IsFiniteSet(ab \cup {c})
        /\ Cardinality(ab \cup {c}) = IF c \in ab THEN Cardinality(ab) ELSE Cardinality(ab) + 1
    BY <2>1, FS_AddElement
  <2>3. QED
    BY <2>1, <2>2
<1>10. TrendSet = ({a} \cup {b}) \cup {c}
  BY <1>4
<1>11. QED
  BY <1>2, <1>3, <1>4, <1>5, <1>6, <1>9, <1>10

\* A snapshot in which a call is missing has fewer than the three.
LEMMA MissingIsPartial ==
  ASSUME NEW got \in SUBSET TrendSet, NEW c \in TrendSet, c \notin got
  PROVE  Cardinality(got) < Len(TrendCalls)
<1>1. IsFiniteSet(got) /\ Cardinality(got) <= Cardinality(TrendSet)
      /\ (Cardinality(TrendSet) = Cardinality(got) => TrendSet = got)
  BY ThreeTrendCalls, FS_Subset
<1>2. Cardinality(got) \in Nat /\ Cardinality(TrendSet) \in Nat
  BY <1>1, ThreeTrendCalls, FS_CardinalityType
<1>3. QED
  BY <1>1, <1>2, ThreeTrendCalls

LEMMA TrendEffect ==
  ASSUME NEW r, DOMAIN r = Fields, r.skipped = FALSE, Pending(r), NEW n \in Nat, NEW cached
  PROVE  Follows(NextTrend(r, n, cached), r) /\ TrendState(NextTrend(r, n, cached), n)
<1> DEFINE q    == r.queue
           due  == {i \in DOMAIN q : q[i] \notin cached /\ n < MaxCalls}
           k    == CHOOSE i \in due : \A j \in due : i <= j
           cut  == IF due = {} THEN Len(q) ELSE k - 1
           free == {q[i] : i \in 1..cut}
           got  == r.got \cup (free \cap cached)
           skip == r.skipped \/ ~(free \subseteq cached)
           rest == SubSeq(q, cut + 1, Len(q))
           seen == [r EXCEPT !.got = got, !.skipped = skip, !.queue = rest]
           part == Cardinality(got) < Len(TrendCalls)
           x    == NextTrend(r, n, cached)
<1>1. /\ DOMAIN seen = Fields /\ Follows(seen, r)
      /\ seen.got = got /\ seen.skipped = skip /\ seen.queue = rest
  BY DEF Follows, Fields
<1>2. x = IF due # {} THEN [seen EXCEPT !.pc = "calling"]
          ELSE IF seen.got = {} THEN Gone(seen)
          ELSE [seen EXCEPT !.pc = "report", !.partial = Cardinality(seen.got) < Len(TrendCalls)]
  BY DEF NextTrend
<1>3. /\ q \in Seq(TrendSet) /\ DOMAIN q = 1..Len(q) /\ r.got \subseteq TrendSet
      /\ Len(q) \in Nat /\ Len(q) <= 3
      /\ \A i, j \in 1..Len(q) : q[i] = q[j] => i = j
      /\ \A i \in 1..Len(q) : q[i] \in TrendSet /\ q[i] \notin r.got
  BY DEF Pending
<1> HIDE DEF seen, x, q
<1>4. CASE due # {}
  <2>1. due \in SUBSET Nat
    BY <1>3
  <2>2. \E i \in due : \A j \in due : i <= j
    <3> HIDE DEF due
    <3>1. \A i \in due : i \in {1, 2, 3}
      BY <1>3 DEF due
    <3>2. QED
      BY <1>4, <3>1
  <2>3. k \in due /\ \A j \in due : k <= j
    BY <2>2
  <2>4. k \in 1..Len(q) /\ cut = k - 1 /\ n < MaxCalls
    BY <1>3, <1>4, <2>3
  <2>5. \A i \in 1..cut : i \in 1..Len(q) /\ i # k /\ q[i] \in cached
    BY <1>3, <2>1, <2>3, <2>4
  <2> HIDE DEF due, k
  <2>6. free \subseteq cached /\ free \subseteq TrendSet
    BY <1>3, <2>5
  <2>7. /\ rest \in Seq(TrendSet) /\ Len(rest) = Len(q) - cut /\ rest # <<>>
        /\ DOMAIN rest = 1..Len(rest) /\ Len(rest) <= 3
        /\ \A i \in 1..Len(rest) : rest[i] = q[i + cut] /\ i + cut \in 1..Len(q) /\ i + cut > cut
    <3>1. cut + 1 \in 1..Len(q) /\ cut \in Nat
      BY <1>3, <2>4
    <3> HIDE DEF cut
    <3>2. /\ rest \in Seq(TrendSet) /\ Len(rest) = Len(q) - cut
          /\ \A i \in 1..Len(rest) : rest[i] = q[i + cut]
      BY <1>3, <3>1
    <3>3. Len(rest) \in Nat /\ Len(rest) >= 1 /\ Len(rest) <= 3 /\ DOMAIN rest = 1..Len(rest)
      BY <1>3, <3>1, <3>2
    <3> HIDE DEF rest
    <3>4. QED
      BY <1>3, <3>1, <3>2, <3>3
  <2> HIDE DEF rest, cut
  <2>8. \A i \in 1..Len(rest) : rest[i] \notin got
    <3> TAKE i \in 1..Len(rest)
    <3>1. \A j \in 1..cut : j \in 1..Len(q) /\ j # i + cut
      BY <1>3, <2>4, <2>5, <2>7
    <3>2. rest[i] \notin free
      BY <1>3, <2>7, <3>1
    <3>3. QED
      BY <1>3, <2>7, <3>2
  <2>9. \A i, j \in 1..Len(rest) : rest[i] = rest[j] => i = j
    <3> TAKE i, j \in 1..Len(rest)
    <3>1. rest[i] = rest[j] => i + cut = j + cut
      BY <1>3, <2>7
    <3>2. cut \in Nat
      BY <1>3, <2>4
    <3>3. QED
      BY <3>1, <3>2, <2>7
  <2>10. x.pc = "calling" /\ x.skipped = skip /\ x.queue = rest /\ x.got = got /\ Follows(x, r)
    BY <1>1, <1>2, <1>4 DEF Follows, Fields
  <2>11. skip = FALSE /\ got \subseteq TrendSet
    BY <1>3, <2>6
  <2> HIDE DEF got, skip
  <2>12. QED
    BY <2>4, <2>7, <2>8, <2>9, <2>10, <2>11 DEF TrendState, Pending, x
<1>5. CASE due = {} /\ seen.got = {}
  BY <1>1, <1>2, <1>5, GoneState DEF Follows, x
<1>6. CASE due = {} /\ seen.got # {}
  <2>1. x = [seen EXCEPT !.pc = "report", !.partial = part]
    BY <1>1, <1>2, <1>6
  <2>2. /\ x.pc = "report" /\ x.skipped = skip /\ x.partial = part /\ Follows(x, r)
    BY <1>1, <2>1 DEF Follows, Fields
  <2>3. \A i \in 1..cut : q[i] \in TrendSet /\ q[i] \notin r.got
    BY <1>3, <1>6
  <2>4. ASSUME skip
        PROVE  part
    <3>1. PICK i \in 1..cut : q[i] \notin cached
      BY <2>4
    <3>2. q[i] \in TrendSet /\ q[i] \notin got
      BY <2>3, <3>1
    <3>3. free \subseteq TrendSet
      BY <2>3
    <3>4. got \in SUBSET TrendSet
      BY <1>3, <3>3
    <3> HIDE DEF got
    <3>5. QED
      BY <3>2, <3>4, MissingIsPartial
  <2>5. skip \in BOOLEAN
    OBVIOUS
  <2> HIDE DEF skip, part
  <2>6. QED
    BY <2>2, <2>4, <2>5 DEF TrendState, x
<1>7. QED
  BY <1>4, <1>5, <1>6 DEF x

\* The calls left when the first of them has failed or answered.
LEMMA PendingTail ==
  ASSUME NEW r, DOMAIN r = Fields, Pending(r), r.queue # <<>>
  PROVE  /\ Head(r.queue) \in TrendSet
         /\ Pending([r EXCEPT !.queue = Tail(@)])
         /\ Pending([r EXCEPT !.queue = Tail(@), !.got = @ \cup {Head(r.queue)}])
<1> DEFINE q    == r.queue
           rest == Tail(q)
<1>1. /\ q \in Seq(TrendSet) /\ Len(q) \in Nat /\ Len(q) >= 1 /\ Len(q) <= 3
      /\ DOMAIN q = 1..Len(q) /\ r.got \subseteq TrendSet
      /\ \A i, j \in 1..Len(q) : q[i] = q[j] => i = j
      /\ \A i \in 1..Len(q) : q[i] \notin r.got
  BY DEF Pending
<1>2. Head(q) = q[1] /\ q[1] \in TrendSet
  BY <1>1
<1>3. /\ rest \in Seq(TrendSet) /\ Len(rest) = Len(q) - 1 /\ DOMAIN rest = 1..Len(rest)
      /\ \A i \in 1..Len(rest) : rest[i] = q[i + 1] /\ i + 1 \in 1..Len(q) /\ i + 1 # 1
  BY <1>1
<1> HIDE DEF rest, q
<1>4. /\ \A i, j \in 1..Len(rest) : rest[i] = rest[j] => i + 1 = j + 1
      /\ \A i \in 1..Len(rest) : rest[i] \notin r.got /\ rest[i] # q[1]
  BY <1>1, <1>3
<1>5. /\ \A i, j \in 1..Len(rest) : rest[i] = rest[j] => i = j
      /\ Len(rest) <= 3
  BY <1>1, <1>3, <1>4
<1> DEFINE a == [r EXCEPT !.queue = Tail(@)]
           b == [r EXCEPT !.queue = Tail(@), !.got = @ \cup {Head(r.queue)}]
<1>6. /\ a.queue = rest /\ a.got = r.got
      /\ b.queue = rest /\ b.got = r.got \cup {q[1]}
  BY <1>2 DEF Fields, rest, q
<1> HIDE DEF a, b
<1>7. Pending(a) /\ Pending(b)
  BY <1>1, <1>2, <1>3, <1>4, <1>5, <1>6 DEF Pending
<1>8. QED
  BY <1>2, <1>7 DEF a, b, q

\* A fetch after n calls of its tool, whichever kind it is of.
Reached(p, x, n) == IF p \in Trends THEN TrendState(x, n) ELSE SearchState(x, n)

LEMMA NextCallEffect ==
  ASSUME NEW p, NEW r, DOMAIN r = Fields, r.skipped = FALSE, p \in Trends => Pending(r),
         NEW n \in Nat, NEW cached
  PROVE  /\ Follows(NextCall(p, r, n, cached), r)
         /\ Reached(p, NextCall(p, r, n, cached), n)
  BY SearchEffect, TrendEffect DEF NextCall, Reached

LEMMA AnswerEffect ==
  ASSUME NEW p, NEW r, DOMAIN r = Fields, r.skipped = FALSE,
         p \in Trends => Pending(r) /\ r.queue # <<>>, NEW n \in Nat
  PROVE  /\ Follows(WithoutPayload(p, r, n), r) /\ Reached(p, WithoutPayload(p, r, n), n)
         /\ Follows(WithPayload(p, r, n), r) /\ Reached(p, WithPayload(p, r, n), n)
<1> DEFINE c    == Head(r.queue)
           rest == [r EXCEPT !.queue = Tail(@)]
           got  == [rest EXCEPT !.got = @ \cup {c}]
           seen == [rest EXCEPT !.videos = @ \cup Found[c]]
<1>1. /\ DOMAIN rest = Fields /\ rest.skipped = FALSE /\ Follows(rest, r)
      /\ DOMAIN got = Fields /\ got.skipped = FALSE /\ Follows(got, r)
      /\ DOMAIN seen = Fields /\ seen.skipped = FALSE /\ Follows(seen, r)
  BY DEF Follows, Fields
<1>2. ASSUME p \in Trends
      PROVE  Pending(rest) /\ Pending(got) /\ c[1] # "keywords"
  <2>1. got = [r EXCEPT !.queue = Tail(@), !.got = @ \cup {Head(r.queue)}]
    BY DEF Fields
  <2>2. Pending(rest) /\ Pending(got) /\ c \in TrendSet
    BY <1>2, <2>1, PendingTail
  <2>3. QED
    BY <2>2, ThreeTrendCalls
<1>3. WithoutPayload(p, r, n) = IF c[1] = "keywords" THEN Gone(r)
                                ELSE NextCall(p, rest, n, cache)
  BY DEF WithoutPayload
<1>4. WithPayload(p, r, n) = IF c[1] = "keywords" THEN Filtered(rest, n, Cached(c))
                             ELSE IF p \in Trends THEN NextTrend(got, n, Cached(c))
                             ELSE NextSearch(seen, n, Cached(c))
  BY DEF WithPayload
<1> HIDE DEF c, rest, got, seen
<1>5. Follows(WithoutPayload(p, r, n), r) /\ Reached(p, WithoutPayload(p, r, n), n)
  <2>1. Follows(Gone(r), r) /\ Reached(p, Gone(r), n)
    BY GoneState DEF Reached
  <2>2. /\ Follows(NextCall(p, rest, n, cache), rest)
        /\ Reached(p, NextCall(p, rest, n, cache), n)
    BY <1>1, <1>2, NextCallEffect
  <2>3. Follows(NextCall(p, rest, n, cache), r)
    BY <1>1, <2>2 DEF Follows
  <2>4. QED
    BY <1>3, <2>1, <2>2, <2>3
<1>6. Follows(WithPayload(p, r, n), r) /\ Reached(p, WithPayload(p, r, n), n)
  <2>1. CASE p \in Trends
    <3>1. /\ Follows(NextTrend(got, n, Cached(c)), got)
          /\ TrendState(NextTrend(got, n, Cached(c)), n)
      BY <1>1, <1>2, <2>1, TrendEffect
    <3>2. QED
      BY <1>1, <1>2, <1>4, <2>1, <3>1 DEF Follows, Reached
  <2>2. CASE p \notin Trends
    <3>1. /\ Follows(Filtered(rest, n, Cached(c)), rest)
          /\ SearchState(Filtered(rest, n, Cached(c)), n)
      BY <1>1, FilteredEffect
    <3>2. /\ Follows(NextSearch(seen, n, Cached(c)), seen)
          /\ SearchState(NextSearch(seen, n, Cached(c)), n)
      BY <1>1, SearchEffect
    <3>3. QED
      BY <1>1, <1>4, <2>2, <3>1, <3>2 DEF Follows, Reached
  <2>3. QED
    BY <2>1, <2>2
<1>7. QED
  BY <1>5, <1>6

--------------------------------------------------------------------------------
(* The counter. A report that has its tool to itself finds in it the calls it     *)
(* has made.                                                                      *)

Recorded ==
  /\ calls \in [Tools -> Nat] /\ DOMAIN report = Reports
  /\ \A p \in Reports :
       /\ DOMAIN report[p] = Fields
       /\ report[p].pc \in {"new"} \cup Waiting \cup Ended
       /\ report[p].billed \in Nat
       /\ report[p].overlapped \in BOOLEAN /\ report[p].skipped \in BOOLEAN

\* Nothing was called and nothing skipped before the tool is started.
Unstarted(p) ==
  /\ report[p].pc = "new" => calls[p] = 0 /\ report[p].got = {}
  /\ report[p].pc = "distilling" => report[p].kind # "trends"
  /\ report[p].pc \in {"new", "distilling"} =>
       report[p].billed = 0 /\ ~report[p].skipped /\ ~report[p].overlapped

\* How far a report at work has got.
UnderWay(p) ==
  Working(p) =>
    /\ report[p].skipped => report[p].pc = "judging"
    /\ p \in Trends =>
         /\ report[p].pc \in {"initializing", "calling"}
         /\ report[p].pc = "initializing" => report[p].got = {}
         /\ report[p].pc = "calling" => Pending(report[p]) /\ report[p].queue # <<>>

\* What it may rely on when nothing else has used its tool.
Undisturbed(p) ==
  ~report[p].overlapped =>
    /\ report[p].billed <= MaxCalls
    /\ Working(p) =>
         /\ \A o \in Reports : Working(o) /\ ToolOf(o) = ToolOf(p) => o = p
         /\ report[p].billed = calls[ToolOf(p)]
         /\ report[p].pc = "calling" => report[p].billed < MaxCalls
         /\ report[p].skipped => report[p].billed >= MaxCalls
    /\ report[p].pc = "report" /\ report[p].skipped => report[p].partial

Accounted == Recorded /\ \A p \in Reports : Unstarted(p) /\ UnderWay(p) /\ Undisturbed(p)

LEMMA ToolsTyped ==
  /\ \A p \in Reports : ToolOf(p) \in Tools
  /\ \A p, o \in Reports : ToolOf(p) = o => p = o /\ report[p].kind # "agent"
  BY ReportsAssumption DEF ToolOf, Tools

\* Fetch p is x and its tool has made n calls, after what x does up to its next await.
Advances(p, x, n) ==
  /\ Working(p)
  /\ report' = [report EXCEPT ![p] = x] /\ calls' = [calls EXCEPT ![ToolOf(p)] = n]
  /\ DOMAIN x = Fields /\ x.kind = report[p].kind /\ x.overlapped = report[p].overlapped
  /\ x.skipped \in BOOLEAN
  /\ \/ n = calls[ToolOf(p)] /\ x.billed = report[p].billed
     \/ /\ report[p].pc = "calling" /\ n = calls[ToolOf(p)] + 1
        /\ x.billed = report[p].billed + 1
  /\ \/ Reached(p, x, n)
     \/ /\ x.pc = "report" /\ p \notin Trends
        /\ ~x.overlapped /\ x.skipped => x.partial

LEMMA CountsKept ==
  ASSUME Accounted, NEW p \in Reports, UNCHANGED calls
  PROVE  calls' = [calls EXCEPT ![ToolOf(p)] = calls[ToolOf(p)]]
  BY ToolsTyped DEF Accounted, Recorded

\* The step of a report at work whose tool makes no call.
LEMMA Advanced ==
  ASSUME Accounted, NEW p \in Reports, Working(p), NEW x, Follows(x, report[p]),
         Reached(p, x, calls[ToolOf(p)]), Put(p, x), UNCHANGED calls
  PROVE  \E n : Advances(p, x, n)
<1>1. calls' = [calls EXCEPT ![ToolOf(p)] = calls[ToolOf(p)]]
  BY CountsKept
<1>2. x.skipped \in BOOLEAN
  BY DEF Reached, SearchState, TrendState
<1>3. Advances(p, x, calls[ToolOf(p)])
  BY <1>1, <1>2 DEF Advances, Follows, Put
<1>4. QED
  BY <1>3

LEMMA AdvanceEffect ==
  ASSUME Accounted, NEW p \in Reports,
         \/ Initialized(p) \/ HttpError(p) \/ ToolError(p) \/ Payload(p)
         \/ KeywordsJudged(p) \/ VideosJudged(p) \/ Fail(p)
  PROVE  \E x, n : Advances(p, x, n)
<1> DEFINE r == report[p]
           t == ToolOf(p)
           n == calls[t]
<1>0. /\ DOMAIN r = Fields /\ n \in Nat /\ t \in Tools /\ calls \in [Tools -> Nat]
      /\ r.skipped \in BOOLEAN /\ r.overlapped \in BOOLEAN /\ r.billed \in Nat
      /\ UnderWay(p) /\ Undisturbed(p)
  BY ToolsTyped DEF Accounted, Recorded
<1>1. CASE Initialized(p)
  <2>1. Working(p) /\ r.pc = "initializing" /\ r.skipped = FALSE
    BY <1>0, <1>1 DEF Initialized, Working, Waiting, UnderWay
  <2> DEFINE q == [r EXCEPT !.queue = TrendCalls]
             c == [r EXCEPT !.pc = "calling", !.queue = <<<<"keywords", r.seed>>>>]
  <2>2. \/ p \in Trends /\ Put(p, NextTrend(q, n, cache))
        \/ p \notin Trends /\ Put(p, Filtered(r, n, cache))
        \/ p \notin Trends /\ Put(p, Gone(r))
        \/ p \notin Trends /\ Put(p, c) /\ ~(n >= MaxCalls)
    BY <1>1 DEF Initialized
  <2>3. UNCHANGED calls
    BY <1>1 DEF Initialized
  <2>4. ASSUME p \in Trends
        PROVE  /\ Follows(NextTrend(q, n, cache), r) /\ Reached(p, NextTrend(q, n, cache), n)
    <3>1. /\ DOMAIN q = Fields /\ q.skipped = FALSE /\ Follows(q, r)
          /\ q.queue = TrendCalls /\ q.got = {}
      BY <1>0, <2>1, <2>4 DEF Follows, Fields, UnderWay
    <3> HIDE DEF q
    <3>2. Pending(q)
      BY <3>1, ThreeTrendCalls DEF Pending
    <3>3. /\ Follows(NextTrend(q, n, cache), q)
          /\ TrendState(NextTrend(q, n, cache), n)
      BY <1>0, <3>1, <3>2, TrendEffect
    <3>4. QED
      BY <2>4, <3>1, <3>3 DEF Follows, Reached
  <2>5. Follows(Filtered(r, n, cache), r) /\ SearchState(Filtered(r, n, cache), n)
    BY <1>0, <2>1, FilteredEffect
  <2>6. Follows(Gone(r), r) /\ SearchState(Gone(r), n)
    BY <1>0, GoneState
  <2>7. ASSUME ~(n >= MaxCalls)
        PROVE  Follows(c, r) /\ SearchState(c, n)
    <3>1. /\ DOMAIN c = Fields /\ c.pc = "calling" /\ c.skipped = FALSE
          /\ c.kind = r.kind /\ c.billed = r.billed /\ c.overlapped = r.overlapped
      BY <1>0, <2>1 DEF Fields
    <3>2. n < MaxCalls
      BY <1>0, <2>7, BudgetAssumption
    <3> HIDE DEF c, n
    <3>3. QED
      BY <3>1, <3>2 DEF Follows, SearchState
  <2> HIDE DEF q, c
  <2>8. PICK x : Put(p, x) /\ Follows(x, r) /\ Reached(p, x, n)
    BY <2>2, <2>4, <2>5, <2>6, <2>7 DEF Reached
  <2>9. QED
    BY <2>1, <2>3, <2>8, Advanced
<1>2. CASE HttpError(p) \/ ToolError(p) \/ Payload(p)
  <2>1. /\ Working(p) /\ r.pc = "calling" /\ r.skipped = FALSE
        /\ p \in Trends => Pending(r) /\ r.queue # <<>>
    BY <1>0, <1>2 DEF HttpError, ToolError, Payload, Working, Waiting, UnderWay
  <2> DEFINE b == [r EXCEPT !.billed = @ + 1]
  <2>2. /\ DOMAIN b = Fields /\ b.skipped = FALSE /\ b.billed = r.billed + 1
        /\ b.kind = r.kind /\ b.overlapped = r.overlapped
        /\ b.queue = r.queue /\ b.got = r.got
    BY <1>0, <2>1 DEF Fields
  <2>3. p \in Trends => Pending(b) /\ b.queue # <<>>
    BY <2>1, <2>2 DEF Pending
  <2> HIDE DEF b
  <2>4. CASE HttpError(p)
    <3>1. Follows(WithoutPayload(p, r, n), r) /\ Reached(p, WithoutPayload(p, r, n), n)
      BY <1>0, <2>1, AnswerEffect
    <3>2. QED
      BY <2>1, <2>4, <3>1, Advanced DEF HttpError
  <2>5. CASE ToolError(p) \/ Payload(p)
    <3>1. n + 1 \in Nat
      BY <1>0
    <3>2. /\ Follows(WithoutPayload(p, b, n + 1), b) /\ Reached(p, WithoutPayload(p, b, n + 1), n + 1)
          /\ Follows(WithPayload(p, b, n + 1), b) /\ Reached(p, WithPayload(p, b, n + 1), n + 1)
      BY <2>2, <2>3, <3>1, AnswerEffect
    <3>3. PICK x : Put(p, x) /\ Follows(x, b) /\ Reached(p, x, n + 1)
      BY <2>5, <3>2 DEF ToolError, Payload, b
    <3>4. calls' = [calls EXCEPT ![t] = n + 1]
      BY <2>5 DEF ToolError, Payload
    <3>5. x.skipped \in BOOLEAN
      BY <3>3 DEF Reached, SearchState, TrendState
    <3>6. Advances(p, x, n + 1)
      BY <2>1, <2>2, <3>3, <3>4, <3>5 DEF Advances, Follows, Put
    <3>7. QED
      BY <3>6
  <2>6. QED
    BY <1>2, <2>4, <2>5
<1>3. CASE KeywordsJudged(p)
  <2>1. Working(p) /\ p \notin Trends /\ r.skipped = FALSE /\ UNCHANGED calls
    BY <1>0, <1>3 DEF KeywordsJudged, Working, Waiting, UnderWay
  <2>2. PICK kept : Put(p, NextSearch([r EXCEPT !.keywords = kept,
                                                !.queue = Searches(r.seed, kept)], n, cache))
    BY <1>3 DEF KeywordsJudged
  <2> DEFINE s == [r EXCEPT !.keywords = kept, !.queue = Searches(r.seed, kept)]
  <2>3. DOMAIN s = Fields /\ s.skipped = FALSE /\ Follows(s, r) /\ Put(p, NextSearch(s, n, cache))
    BY <1>0, <2>1, <2>2 DEF Follows, Fields
  <2> HIDE DEF s
  <2>4. /\ Follows(NextSearch(s, n, cache), s)
        /\ SearchState(NextSearch(s, n, cache), n)
    BY <1>0, <2>3, SearchEffect
  <2>5. Follows(NextSearch(s, n, cache), r) /\ Reached(p, NextSearch(s, n, cache), n)
    BY <2>1, <2>3, <2>4 DEF Follows, Reached
  <2>6. QED
    BY <2>1, <2>3, <2>5, Advanced
<1>4. CASE VideosJudged(p)
  <2>1. Working(p) /\ p \notin Trends /\ r.pc = "judging" /\ UNCHANGED calls
    BY <1>0, <1>4 DEF VideosJudged, Working, Waiting, UnderWay
  <2>2. PICK v : Put(p, Assembled([r EXCEPT !.videos = v], n))
    BY <1>4 DEF VideosJudged
  <2> DEFINE x == Assembled([r EXCEPT !.videos = v], n)
  <2>3. /\ DOMAIN x = Fields /\ x.kind = r.kind /\ x.overlapped = r.overlapped
        /\ x.skipped = r.skipped /\ x.billed = r.billed
        /\ x.pc = "report" /\ x.partial = (n >= MaxCalls)
    BY <1>0 DEF Assembled, Fields
  <2>4. ~r.overlapped /\ r.skipped => n >= MaxCalls
    BY <1>0, <2>1 DEF Undisturbed
  <2>5. calls' = [calls EXCEPT ![t] = n] /\ report' = [report EXCEPT ![p] = x]
    BY <2>1, <2>2, CountsKept DEF Put
  <2> HIDE DEF x
  <2>6. Advances(p, x, n)
    BY <1>0, <2>1, <2>3, <2>4, <2>5 DEF Advances
  <2>7. QED
    BY <2>6
<1>5. CASE Fail(p)
  <2>1. Follows(Gone(r), r) /\ Reached(p, Gone(r), n)
    BY <1>0, GoneState DEF Reached
  <2>2. QED
    BY <1>5, <2>1, Advanced DEF Fail, GiveUp
<1>6. QED
  BY <1>1, <1>2, <1>3, <1>4, <1>5

LEMMA AdvanceKeeps ==
  ASSUME Accounted, NEW p \in Reports, NEW x, NEW n, Advances(p, x, n)
  PROVE  Accounted'
<1> DEFINE r == report[p]
           t == ToolOf(p)
<1>0. /\ Recorded /\ Unstarted(p) /\ UnderWay(p) /\ Undisturbed(p)
      /\ calls \in [Tools -> Nat] /\ DOMAIN report = Reports /\ t \in Tools /\ calls[t] \in Nat
      /\ r.billed \in Nat /\ r.overlapped \in BOOLEAN /\ MaxCalls \in Nat
  BY ToolsTyped, BudgetAssumption DEF Accounted, Recorded
<1>1. /\ Working(p) /\ report' = [report EXCEPT ![p] = x] /\ calls' = [calls EXCEPT ![t] = n]
      /\ DOMAIN x = Fields /\ x.kind = r.kind /\ x.overlapped = r.overlapped /\ x.skipped \in BOOLEAN
      /\ \/ n = calls[t] /\ x.billed = r.billed
         \/ r.pc = "calling" /\ n = calls[t] + 1 /\ x.billed = r.billed + 1
      /\ Reached(p, x, n) \/ /\ x.pc = "report" /\ p \notin Trends
                             /\ ~x.overlapped /\ x.skipped => x.partial
  BY DEF Advances
<1>2. /\ report'[p] = x /\ \A o \in Reports : o # p => report'[o] = report[o]
      /\ calls'[t] = n /\ \A u \in Tools : u # t => calls'[u] = calls[u]
      /\ DOMAIN report' = Reports /\ n \in Nat /\ x.billed \in Nat /\ calls' \in [Tools -> Nat]
  BY <1>0, <1>1
<1>3. \A o \in Reports : ToolOf(o)' = ToolOf(o) /\ (o \in Trends' <=> o \in Trends)
  BY <1>1, <1>2 DEF ToolOf, Trends
<1>4. x.pc \in {"calling", "filtering", "judging", "report", "none"}
  BY <1>1 DEF Reached, SearchState, TrendState
<1>5. \A o \in Reports : Working(o)' => Working(o)
  BY <1>1, <1>2 DEF Working
<1>6. Recorded'
  BY <1>0, <1>1, <1>2, <1>4 DEF Recorded, Waiting, Ended
<1>7. Unstarted(p)' /\ UnderWay(p)'
  <2>1. x.pc \notin {"new", "distilling"}
    BY <1>4
  <2>2. UnderWay(p)'
    BY <1>1, <1>2, <1>3, <1>4 DEF UnderWay, Working, Waiting, Reached, SearchState, TrendState,
                                 Pending
  <2>3. QED
    BY <1>2, <2>1, <2>2 DEF Unstarted
<1>8. Undisturbed(p)'
  <2>1. SUFFICES ASSUME ~x.overlapped
                 PROVE  /\ x.billed <= MaxCalls
                        /\ Working(p)' =>
                             /\ \A o \in Reports : Working(o)' /\ ToolOf(o)' = ToolOf(p)' => o = p
                             /\ x.billed = n
                             /\ x.pc = "calling" => x.billed < MaxCalls
                             /\ x.skipped => x.billed >= MaxCalls
                        /\ x.pc = "report" /\ x.skipped => x.partial
    BY <1>2, <1>3 DEF Undisturbed
  <2>2. /\ r.billed <= MaxCalls /\ r.billed = calls[t]
        /\ r.pc = "calling" => r.billed < MaxCalls
        /\ \A o \in Reports : Working(o) /\ ToolOf(o) = t => o = p
    BY <1>0, <1>1, <2>1 DEF Undisturbed
  <2>3. x.billed = n /\ x.billed <= MaxCalls
    BY <1>0, <1>1, <2>2
  <2>4. \A o \in Reports : Working(o)' /\ ToolOf(o)' = ToolOf(p)' => o = p
    BY <1>3, <1>5, <2>2
  <2>5. CASE Reached(p, x, n)
    <3>1. (x.pc = "calling" => n < MaxCalls)
      BY <2>5 DEF Reached, SearchState, TrendState
    <3>2. CASE p \in Trends
      BY <1>2, <2>3, <2>4, <2>5, <3>1, <3>2 DEF Reached, TrendState, Working, Waiting
    <3>3. CASE p \notin Trends
      BY <2>3, <2>4, <2>5, <3>1, <3>3 DEF Reached, SearchState
    <3>4. QED
      BY <3>2, <3>3
  <2>6. CASE x.pc = "report" /\ (x.skipped => x.partial)
    BY <1>2, <2>3, <2>4, <2>6 DEF Working, Waiting
  <2>7. QED
    BY <1>1, <2>1, <2>5, <2>6
<1>9. ASSUME NEW o \in Reports, o # p
      PROVE  Unstarted(o)' /\ UnderWay(o)' /\ Undisturbed(o)'
  <2>1. /\ report'[o] = report[o] /\ ToolOf(o)' = ToolOf(o) /\ ToolOf(o) \in Tools
        /\ Unstarted(o) /\ UnderWay(o) /\ Undisturbed(o) /\ t # o /\ o \in Tools
    BY <1>2, <1>3, <1>9, ToolsTyped DEF Accounted, Tools
  <2>2. ~report[o].overlapped /\ Working(o) => ToolOf(o) # t
    BY <1>1, <1>9, <2>1 DEF Undisturbed
  <2>3. Unstarted(o)'
    BY <1>2, <2>1 DEF Unstarted
  <2>4. UnderWay(o)'
    BY <1>3, <2>1 DEF UnderWay, Working, Pending
  <2>5. Undisturbed(o)'
    <3>1. Working(o)' <=> Working(o)
      BY <2>1 DEF Working
    <3>2. Working(o) /\ ~report[o].overlapped => calls'[ToolOf(o)] = calls[ToolOf(o)]
      BY <1>2, <2>1, <2>2
    <3>3. \A i \in Reports : Working(i)' /\ ToolOf(i)' = ToolOf(o)' => Working(i) /\ ToolOf(i) = ToolOf(o)
      BY <1>3, <1>5, <2>1
    <3>4. QED
      BY <2>1, <3>1, <3>2, <3>3 DEF Undisturbed
  <2>6. QED
    BY <2>3, <2>4, <2>5
<1>10. QED
  BY <1>6, <1>7, <1>8, <1>9 DEF Accounted

\* The steps before a tool is started: a request, a brief without a search term, the
\* start of a trend snapshot, which has a tool of its own.
LEMMA BeforeStart ==
  ASSUME Accounted, NEW p \in Reports, Request(p) \/ NoSeed(p) \/ StartTrends(p)
  PROVE  Accounted'
<1> DEFINE r == report[p]
<1>0. /\ Recorded /\ Unstarted(p) /\ Undisturbed(p) /\ DOMAIN r = Fields /\ DOMAIN report = Reports
      /\ MaxCalls \in Nat /\ p # "agent"
  BY BudgetAssumption, ReportsAssumption DEF Accounted, Recorded
<1>1. UNCHANGED calls /\ r.pc \in {"new", "distilling"}
      /\ r.billed = 0 /\ ~r.skipped /\ ~r.overlapped
  BY <1>0 DEF Request, NoSeed, StartTrends, Unstarted
<1>2. PICK x : /\ report' = [report EXCEPT ![p] = x] /\ DOMAIN x = Fields
               /\ x.billed = 0 /\ x.skipped = FALSE /\ x.overlapped = FALSE
               /\ \/ x.pc = "distilling" /\ x.kind # "trends"
                  \/ x.pc = "none"
                  \/ /\ x.pc = "initializing" /\ x.kind = "trends" /\ x.got = {}
                     /\ calls[p] = 0
  <2>1. CASE Request(p)
    <3>1. PICK kind \in Kinds \ {"trends"} : Put(p, [r EXCEPT !.pc = "distilling", !.kind = kind])
      BY <2>1 DEF Request
    <3> DEFINE x == [r EXCEPT !.pc = "distilling", !.kind = kind]
    <3>2. /\ DOMAIN x = Fields /\ x.billed = r.billed /\ x.skipped = r.skipped
          /\ x.overlapped = r.overlapped /\ x.pc = "distilling" /\ x.kind # "trends"
      BY <1>0, <3>1 DEF Fields
    <3>3. r.skipped = FALSE /\ r.overlapped = FALSE
      BY <1>0, <1>1 DEF Recorded
    <3>4. QED
      BY <1>1, <3>1, <3>2, <3>3 DEF Put
  <2>2. CASE NoSeed(p)
    <3>1. Put(p, Gone(r))
      BY <2>2 DEF NoSeed, GiveUp
    <3>2. /\ DOMAIN Gone(r) = Fields /\ Gone(r).billed = r.billed /\ Gone(r).skipped = FALSE
          /\ Gone(r).overlapped = r.overlapped /\ Gone(r).pc = "none"
      BY DEF Gone, New, Fields
    <3>3. r.overlapped = FALSE
      BY <1>0, <1>1 DEF Recorded
    <3>4. QED
      BY <1>1, <3>1, <3>2, <3>3 DEF Put
  <2>3. CASE StartTrends(p)
    <3> DEFINE x == [r EXCEPT !.pc = "initializing", !.kind = "trends"]
    <3>1. Put(p, x) /\ r.pc = "new" /\ calls[p] = 0
      BY <1>0, <2>3 DEF StartTrends, Unstarted
    <3>2. /\ DOMAIN x = Fields /\ x.billed = r.billed /\ x.skipped = r.skipped
          /\ x.overlapped = r.overlapped /\ x.pc = "initializing" /\ x.kind = "trends"
          /\ x.got = r.got
      BY <1>0 DEF Fields
    <3>3. r.skipped = FALSE /\ r.overlapped = FALSE /\ r.got = {}
      BY <1>0, <1>1, <3>1 DEF Recorded, Unstarted
    <3>4. QED
      BY <1>1, <3>1, <3>2, <3>3 DEF Put
  <2>4. QED
    BY <2>1, <2>2, <2>3
<1>3. /\ report'[p] = x /\ \A o \in Reports : o # p => report'[o] = report[o]
      /\ DOMAIN report' = Reports
  BY <1>0, <1>2
<1>4. /\ \A o \in Reports : o # p => ToolOf(o)' = ToolOf(o) /\ (o \in Trends' <=> o \in Trends)
                                     /\ (Working(o)' <=> Working(o))
      /\ Working(p)' => x.pc = "initializing" /\ ToolOf(p)' = p /\ p \in Trends'
      /\ \A o \in Reports : o # p => ToolOf(o) # p
  BY <1>0, <1>2, <1>3, ToolsTyped DEF ToolOf, Trends, Working, Waiting
<1>5. Recorded'
  BY <1>0, <1>1, <1>2, <1>3 DEF Recorded, Waiting, Ended
<1>6. Unstarted(p)' /\ UnderWay(p)'
  BY <1>2, <1>3, <1>4 DEF Unstarted, UnderWay
<1>7. Undisturbed(p)'
  BY <1>0, <1>1, <1>2, <1>3, <1>4, BudgetAssumption DEF Undisturbed
<1>8. ASSUME NEW o \in Reports, o # p
      PROVE  Unstarted(o)' /\ UnderWay(o)' /\ Undisturbed(o)'
  <2>1. /\ report'[o] = report[o] /\ Unstarted(o) /\ UnderWay(o) /\ Undisturbed(o)
        /\ ToolOf(o)' = ToolOf(o) /\ (o \in Trends' <=> o \in Trends)
        /\ (Working(o)' <=> Working(o))
    BY <1>3, <1>4, <1>8 DEF Accounted
  <2>2. Unstarted(o)' /\ UnderWay(o)'
    BY <1>1, <2>1 DEF Unstarted, UnderWay, Pending
  <2>3. \A i \in Reports : Working(i)' /\ ToolOf(i)' = ToolOf(o)' =>
          i = o \/ (Working(i) /\ ToolOf(i) = ToolOf(o))
    BY <1>4, <1>8, <2>1
  <2>4. Undisturbed(o)'
    BY <1>1, <2>1, <2>3 DEF Undisturbed
  <2>5. QED
    BY <2>2, <2>4
<1>9. QED
  BY <1>5, <1>6, <1>7, <1>8 DEF Accounted

\* A demand report starts: the counter is reset, and whoever is using it is overlapped.
LEMMA StartKeeps ==
  ASSUME Accounted, NEW p \in Reports, Start(p)
  PROVE  Accounted'
<1> DEFINE r == report[p]
           t == ToolOf(p)
<1>0. /\ Recorded /\ Unstarted(p) /\ DOMAIN r = Fields /\ DOMAIN report = Reports
      /\ calls \in [Tools -> Nat] /\ t \in Tools /\ r.pc = "distilling"
      /\ r.billed = 0 /\ ~r.skipped /\ r.skipped \in BOOLEAN /\ r.kind # "trends" /\ MaxCalls \in Nat
  BY ToolsTyped, BudgetAssumption DEF Accounted, Recorded, Start, Unstarted
<1>1. PICK s \in Seeds : report' = Started(p, s) /\ calls' = [calls EXCEPT ![t] = 0]
  BY DEF Start
<1> DEFINE x    == [r EXCEPT !.pc = "initializing", !.seed = s, !.overlapped = Others(p) # {}]
           y(o) == [report[o] EXCEPT !.overlapped = TRUE]
<1>2. /\ DOMAIN x = Fields /\ x.pc = "initializing" /\ x.kind = r.kind /\ x.billed = 0
      /\ x.skipped = FALSE /\ x.overlapped = (Others(p) # {})
  BY <1>0 DEF Fields
<1>3. ASSUME NEW o \in Reports
      PROVE  /\ DOMAIN y(o) = Fields /\ y(o).pc = report[o].pc /\ y(o).kind = report[o].kind
             /\ y(o).billed = report[o].billed /\ y(o).skipped = report[o].skipped
             /\ y(o).queue = report[o].queue /\ y(o).got = report[o].got /\ y(o).overlapped = TRUE
  BY <1>0 DEF Recorded, Fields
<1>4. /\ DOMAIN report' = Reports /\ report'[p] = x
      /\ \A o \in Reports : o # p => report'[o] = IF o \in Others(p) THEN y(o) ELSE report[o]
      /\ calls'[t] = 0 /\ \A u \in Tools : u # t => calls'[u] = calls[u]
      /\ calls' \in [Tools -> Nat]
  BY <1>0, <1>1 DEF Started
<1> HIDE DEF x, y
<1>5. ASSUME NEW o \in Reports, o # p
      PROVE  /\ report'[o].pc = report[o].pc /\ report'[o].kind = report[o].kind
             /\ report'[o].billed = report[o].billed /\ report'[o].skipped = report[o].skipped
             /\ report'[o].queue = report[o].queue /\ report'[o].got = report[o].got
             /\ DOMAIN report'[o] = Fields
             /\ report'[o].overlapped \in BOOLEAN
             /\ ~report'[o].overlapped => report'[o] = report[o] /\ o \notin Others(p)
  BY <1>0, <1>3, <1>4, <1>5 DEF Recorded
<1>6. /\ \A o \in Reports : ToolOf(o)' = ToolOf(o) /\ (o \in Trends' <=> o \in Trends)
      /\ \A o \in Reports : o # p => (Working(o)' <=> Working(o))
      /\ p \notin Trends
  BY <1>0, <1>2, <1>4, <1>5 DEF ToolOf, Trends, Working
<1>7. Recorded'
  BY <1>0, <1>2, <1>4, <1>5 DEF Recorded, Waiting
<1>8. Unstarted(p)' /\ UnderWay(p)'
  BY <1>2, <1>4, <1>6 DEF Unstarted, UnderWay
<1>9. Undisturbed(p)'
  <2>1. SUFFICES ASSUME ~report'[p].overlapped
                 PROVE  Undisturbed(p)'
    BY DEF Undisturbed
  <2>2. Others(p) = {}
    BY <1>2, <1>4, <2>1
  <2>3. \A o \in Reports : Working(o)' /\ ToolOf(o)' = ToolOf(p)' => o = p
    BY <1>6, <2>2 DEF Others
  <2>4. /\ report'[p].billed = 0 /\ calls'[ToolOf(p)'] = 0 /\ report'[p].pc = "initializing"
        /\ report'[p].skipped = FALSE
    BY <1>2, <1>4, <1>6
  <2>5. QED
    BY <1>0, <2>3, <2>4 DEF Undisturbed
<1>10. ASSUME NEW o \in Reports, o # p
       PROVE  Unstarted(o)' /\ UnderWay(o)' /\ Undisturbed(o)'
  <2>1. /\ Unstarted(o) /\ UnderWay(o) /\ Undisturbed(o) /\ t # o /\ o \in Tools
        /\ ToolOf(o) \in Tools
    BY <1>10, ToolsTyped DEF Accounted, Tools
  <2>2. Unstarted(o)'
    <3>1. report[o].pc \in {"new", "distilling"} => report'[o] = report[o]
      BY <1>4, <1>10 DEF Others, Working, Waiting
    <3>2. QED
      BY <1>4, <2>1, <3>1, <1>5, <1>10 DEF Unstarted
  <2>3. UnderWay(o)'
    BY <1>5, <1>6, <1>10, <2>1 DEF UnderWay, Pending
  <2>4. Undisturbed(o)'
    <3>1. SUFFICES ASSUME ~report'[o].overlapped
                   PROVE  Undisturbed(o)'
      BY DEF Undisturbed
    <3>2. report'[o] = report[o] /\ o \notin Others(p)
      BY <1>5, <1>10, <3>1
    <3>3. Working(o) => ToolOf(o) # t /\ calls'[ToolOf(o)] = calls[ToolOf(o)]
      BY <1>4, <1>10, <2>1, <3>2 DEF Others
    <3>4. \A i \in Reports : Working(o) /\ Working(i)' /\ ToolOf(i)' = ToolOf(o)' =>
            Working(i) /\ ToolOf(i) = ToolOf(o)
      BY <1>6, <3>3
    <3>5. QED
      BY <1>6, <1>10, <2>1, <3>2, <3>3, <3>4 DEF Undisturbed
  <2>5. QED
    BY <2>2, <2>3, <2>4
<1>11. QED
  BY <1>7, <1>8, <1>9, <1>10 DEF Accounted

LEMMA AccountedInit == Init => Accounted
<1> SUFFICES ASSUME Init PROVE Accounted
  OBVIOUS
<1>1. /\ DOMAIN New = Fields /\ New.pc = "new" /\ New.billed = 0 /\ New.overlapped = FALSE
      /\ New.skipped = FALSE /\ New.got = {}
  BY DEF New, Fields
<1>2. /\ calls \in [Tools -> Nat] /\ DOMAIN report = Reports
      /\ \A p \in Reports : report[p] = New /\ calls[p] = 0
  BY DEF Init, Tools
<1>3. Recorded
  <2>1. ASSUME NEW p \in Reports
        PROVE  /\ DOMAIN report[p] = Fields
               /\ report[p].pc \in {"new"} \cup Waiting \cup Ended /\ report[p].billed \in Nat
    BY <1>1, <1>2
  <2>2. ASSUME NEW p \in Reports
        PROVE  report[p].overlapped \in BOOLEAN /\ report[p].skipped \in BOOLEAN
    BY <1>1, <1>2, Zenon
  <2>3. QED
    BY <1>2, <2>1, <2>2 DEF Recorded
<1>4. \A p \in Reports : Unstarted(p) /\ UnderWay(p)
  BY <1>1, <1>2 DEF Unstarted, UnderWay, Working, Waiting
<1>5. \A p \in Reports : Undisturbed(p)
  BY <1>1, <1>2, BudgetAssumption DEF Undisturbed, Working, Waiting
<1>6. QED
  BY <1>3, <1>4, <1>5 DEF Accounted

LEMMA AccountedStep ==
  ASSUME Accounted, [Next]_vars
  PROVE  Accounted'
<1>1. CASE UNCHANGED <<calls, report>>
  BY <1>1 DEF Accounted, Recorded, Unstarted, UnderWay, Undisturbed, Working, ToolOf, Trends, Pending
<1>2. ASSUME NEW p \in Reports,
             \/ Initialized(p) \/ HttpError(p) \/ ToolError(p) \/ Payload(p)
             \/ KeywordsJudged(p) \/ VideosJudged(p) \/ Fail(p)
      PROVE  Accounted'
  BY <1>2, AdvanceEffect, AdvanceKeeps
<1>3. ASSUME NEW p \in Reports, Request(p) \/ NoSeed(p) \/ StartTrends(p)
      PROVE  Accounted'
  BY <1>3, BeforeStart
<1>4. ASSUME NEW p \in Reports, Start(p)
      PROVE  Accounted'
  BY <1>4, StartKeeps
<1>5. ASSUME NEW c \in Calls, Expire(c)
      PROVE  Accounted'
  BY <1>1, <1>5 DEF Expire
<1>6. QED
  BY <1>1, <1>2, <1>3, <1>4, <1>5 DEF Next, vars

LEMMA AccountedAlways == Spec => []Accounted
  BY AccountedInit, AccountedStep, PTL DEF Spec

\* The per-run cap of vidiq.py:14 holds for every report that had its tool to itself,
\* whatever the budget, the number of other reports, the answers and the state of the
\* cache: no call is posted once the counter has reached the budget, and nothing but the
\* report itself has moved that counter.
THEOREM BudgetHolds == Spec => []CallsBudgeted
<1>1. Accounted => CallsBudgeted
  BY DEF Accounted, Undisturbed, CallsBudgeted
<1>2. QED
  BY <1>1, AccountedAlways, PTL

\* A report that left searches out for want of budget is marked partial, although the
\* counter is read once when the searches are skipped and again after the await of the
\* video filter; a trend snapshot that left a call out has fewer than its three parts.
THEOREM SkippingIsReported == Spec => []PartialIsHonest
<1>1. Accounted => PartialIsHonest
  BY DEF Accounted, Undisturbed, PartialIsHonest
<1>2. QED
  BY <1>1, AccountedAlways, PTL

--------------------------------------------------------------------------------
(* Types. Which keywords a report searches for matters here: every search it      *)
(* queues is for its seed or for a keyword the filter kept.                       *)

SearchCalls == Range(Bands) \X Queries

LEMMA CountUpTo ==
  ASSUME NEW n \in Nat
  PROVE  IsFiniteSet(1..n) /\ Cardinality(1..n) = n
<1>1. 1 \in Int /\ n \in Int
  OBVIOUS
<1>2. IsFiniteSet(1..n) /\ Cardinality(1..n) = IF 1 > n THEN 0 ELSE n - 1 + 1
  BY <1>1, FS_Interval
<1>3. QED
  BY <1>2

\* In a ranking the element at each place exists: upTo names those that do not come after.
LEMMA Ranking ==
  ASSUME NEW S, IsFiniteSet(S), NEW upTo \in [S -> SUBSET S],
         \A i \in S : i \in upTo[i],
         \A i, j \in S : upTo[i] \subseteq upTo[j] \/ upTo[j] \subseteq upTo[i],
         \A i, j \in S : upTo[i] = upTo[j] => i = j
  PROVE  \A n \in 1..Cardinality(S) : \E i \in S : Cardinality(upTo[i]) = n
<1> DEFINE c     == Cardinality(S)
           place == [i \in S |-> Cardinality(upTo[i])]
<1>1. c \in Nat
  BY FS_CardinalityType
<1>2. \A i \in S : /\ IsFiniteSet(upTo[i]) /\ Cardinality(upTo[i]) \in Nat
                   /\ Cardinality(upTo[i]) <= c /\ Cardinality(upTo[i]) # 0
  BY FS_Subset, FS_CardinalityType, FS_EmptySet
<1>3. place \in [S -> 1..c]
  BY <1>1, <1>2
<1>4. ASSUME NEW i \in S, NEW j \in S, place[i] = place[j]
      PROVE  i = j
  <2>1. Cardinality(upTo[i]) = Cardinality(upTo[j])
    BY <1>4
  <2>2. upTo[i] = upTo[j]
    BY <1>2, <2>1, FS_Subset
  <2>3. QED
    BY <2>2
<1>5. place \in Injection(S, 1..c)
  BY <1>3, <1>4 DEF Injection, IsInjective
<1>6. place \in Surjection(S, 1..c)
  <2>1. IsFiniteSet(1..c) /\ Cardinality(1..c) = Cardinality(S)
    BY <1>1, CountUpTo
  <2> HIDE DEF place, c
  <2>2. QED
    BY <1>5, <2>1, FS_Injection
<1>7. \A n \in 1..c : \E i \in S : place[i] = n
  BY <1>6 DEF Surjection
<1>8. QED
  BY <1>7

\* Only keywords that were kept are searched for, and no more than the fan-out.
LEMMA KeywordsSearched ==
  ASSUME NEW s \in Seeds, NEW kept
  PROVE  /\ SearchKeywords(s, kept) \in Seq(Keywords \cap kept)
         /\ Len(SearchKeywords(s, kept)) <= Fanout
<1> DEFINE word    == Related[s]
           volume  == {i \in DOMAIN word : word[i] \in kept}
           several == {i \in volume : word[i] \notin Single}
           picked  == IF several = {} THEN volume ELSE several
           upTo(i) == {j \in picked : \/ Rank(word[j]) > Rank(word[i])
                                      \/ Rank(word[j]) = Rank(word[i]) /\ j <= i}
           c       == Cardinality(picked)
           limit   == IF c < Fanout THEN c ELSE Fanout
           at(n)   == CHOOSE i \in picked : Cardinality(upTo(i)) = n
<1>1. word \in Seq(Range(word)) /\ Len(word) \in Nat /\ DOMAIN word = 1..Len(word)
  BY RelatedAssumption
<1>2. picked \in SUBSET (1..Len(word)) /\ \A i \in picked : word[i] \in kept
  BY <1>1
<1>3. IsFiniteSet(picked) /\ c \in Nat
  <2> HIDE DEF picked
  <2>1. QED
    BY <1>1, <1>2, CountUpTo, FS_Subset, FS_CardinalityType
<1>4. \A i \in picked : word[i] \in Keywords \cap kept
  <2>1. \A i \in DOMAIN word : word[i] \in Range(word)
    BY DEF Range
  <2>2. QED
    BY <1>1, <1>2, <2>1 DEF Keywords
<1>5. \A k : Rank(k) \in Nat
  BY DEF Rank
<1>6. \A n \in 1..c : at(n) \in picked
  <2> DEFINE below == [i \in picked |-> upTo(i)]
  <2>1. /\ below \in [picked -> SUBSET picked]
        /\ \A i \in picked : below[i] = upTo(i)
    OBVIOUS
  <2> HIDE DEF picked, word
  <2>2. \A i \in picked : i \in Nat /\ Rank(word[i]) \in Nat
    BY <1>2, <1>5
  <2>3. \A i \in picked : i \in below[i]
    BY <2>2
  <2>4. ASSUME NEW i \in picked, NEW j \in picked
        PROVE  below[i] \subseteq below[j] \/ below[j] \subseteq below[i]
    <3>1. CASE j \in below[i]
      BY <2>2, <3>1
    <3>2. CASE j \notin below[i]
      BY <2>2, <3>2
    <3>3. QED
      BY <3>1, <3>2
  <2>5. ASSUME NEW i \in picked, NEW j \in picked, below[i] = below[j]
        PROVE  i = j
    <3>1. i \in below[j] /\ j \in below[i]
      BY <2>3, <2>5
    <3>2. QED
      BY <2>2, <3>1
  <2> HIDE DEF below
  <2>6. \A n \in 1..c : \E i \in picked : Cardinality(below[i]) = n
    BY <1>3, <2>1, <2>3, <2>4, <2>5, Ranking
  <2>7. QED
    BY <2>1, <2>6
<1>7. SearchKeywords(s, kept) = [n \in 1..limit |-> word[at(n)]]
  BY DEF SearchKeywords
<1> HIDE DEF at, picked, word, c
<1>8. limit \in Nat /\ limit <= c /\ limit <= Fanout
  BY <1>3, BudgetAssumption
<1> HIDE DEF limit
<1>9. \A n \in 1..limit : word[at(n)] \in Keywords \cap kept
  BY <1>3, <1>4, <1>6, <1>8
<1>10. QED
  BY <1>7, <1>8, <1>9

LEMMA SearchesQueued ==
  ASSUME NEW s \in Seeds, NEW kept
  PROVE  Searches(s, kept) \in Seq(SearchCalls)
<1> DEFINE queries == <<s>> \o SearchKeywords(s, kept)
           q       == Searches(s, kept)
<1>1. queries \in Seq(Queries) /\ Len(queries) \in Nat
  <2>1. SearchKeywords(s, kept) \in Seq(Keywords \cap kept)
    BY KeywordsSearched
  <2>2. <<s>> \in Seq(Queries) /\ SearchKeywords(s, kept) \in Seq(Queries)
    BY <2>1 DEF Queries
  <2>3. QED
    BY <2>2
<1>2. q = [i \in 1..(2 * Len(queries)) |-> <<Bands[((i - 1) % 2) + 1], queries[((i - 1) \div 2) + 1]>>]
  BY DEF Searches
<1>3. \A i \in {1, 2} : Bands[i] \in Range(Bands)
  BY DEF Bands, Range
<1> HIDE DEF queries, q
<1>4. ASSUME NEW i \in 1..(2 * Len(queries))
      PROVE  ((i - 1) % 2) + 1 \in {1, 2} /\ ((i - 1) \div 2) + 1 \in 1..Len(queries)
  BY <1>1
<1>5. \A i \in 1..(2 * Len(queries)) :
        <<Bands[((i - 1) % 2) + 1], queries[((i - 1) \div 2) + 1]>> \in SearchCalls
  BY <1>1, <1>3, <1>4 DEF SearchCalls
<1>6. 2 * Len(queries) \in Nat
  BY <1>1
<1>7. q \in Seq(SearchCalls)
  BY <1>2, <1>5, <1>6
<1>8. QED
  BY <1>7 DEF q

LEMMA KindsOfCalls ==
  /\ SearchCalls \subseteq Calls /\ TrendSet \subseteq Calls
  /\ \A s \in Seeds : <<"keywords", s>> \in Calls
  /\ \A c \in SearchCalls : c[1] # "keywords" /\ Found[c] \subseteq Videos
<1>1. \A b \in Range(Bands) : b # "keywords"
  BY DEF Bands, Range
<1>2. QED
  BY <1>1 DEF SearchCalls, TrendSet, Calls, Videos

\* What a fetch holds.
Shaped(x) ==
  /\ x.queue \in Seq(Calls) /\ x.got \subseteq TrendSet
  /\ x.keywords \subseteq Keywords \ Generic /\ x.videos \subseteq Videos
  /\ x.pc = "calling" => x.queue # <<>>

\* What a demand report has left to ask.
Asks(x) ==
  x.seed \in Seeds /\ (x.queue \in Seq(SearchCalls) \/ x.queue = <<<<"keywords", x.seed>>>>)

Typed ==
  /\ cache \subseteq Calls
  /\ \A p \in Reports :
       /\ Shaped(report[p])
       /\ report[p].pc \in {"new", "distilling", "initializing"} => report[p].queue = <<>>
       /\ Working(p) /\ p \notin Trends => Asks(report[p])

LEMMA GoneShaped ==
  ASSUME NEW r, DOMAIN r = Fields
  PROVE  Shaped(Gone(r)) /\ Gone(r).pc = "none"
<1>1. /\ Gone(r).queue = <<>> /\ Gone(r).got = {} /\ Gone(r).keywords = {} /\ Gone(r).videos = {}
      /\ Gone(r).pc = "none"
  BY DEF Gone, New, Fields
<1>2. QED
  BY <1>1 DEF Shaped

LEMMA LeastPlace ==
  ASSUME NEW m \in Nat, NEW S \in SUBSET (1..m), S # {}
  PROVE  \E i \in S : \A j \in S : i <= j
<1> DEFINE upTo == [i \in S |-> {j \in S : j <= i}]
<1>1. IsFiniteSet(S) /\ Cardinality(S) \in Nat /\ Cardinality(S) # 0
  BY CountUpTo, FS_Subset, FS_CardinalityType, FS_EmptySet
<1>2. \A i \in S : i \in Nat
  OBVIOUS
<1>3. /\ upTo \in [S -> SUBSET S]
      /\ \A i, j \in S : j \in upTo[i] <=> j <= i
  OBVIOUS
<1> HIDE DEF upTo
<1>4. /\ \A i \in S : i \in upTo[i]
      /\ \A i, j \in S : upTo[i] \subseteq upTo[j] \/ upTo[j] \subseteq upTo[i]
  <2>1. \A i \in S : i \in upTo[i]
    BY <1>2, <1>3
  <2>2. ASSUME NEW i \in S, NEW j \in S
        PROVE  upTo[i] \subseteq upTo[j] \/ upTo[j] \subseteq upTo[i]
    <3>1. upTo[i] \subseteq S /\ upTo[j] \subseteq S
      BY <1>3
    <3>2. /\ i <= j => \A l \in S : l <= i => l <= j
          /\ j <= i => \A l \in S : l <= j => l <= i
      BY <1>2
    <3>3. i <= j \/ j <= i
      BY <1>2
    <3>4. QED
      BY <1>3, <3>1, <3>2, <3>3
  <2>3. QED
    BY <2>1, <2>2
<1>5. \A i, j \in S : upTo[i] = upTo[j] => i = j
  <2> TAKE i, j \in S
  <2>1. upTo[i] = upTo[j] => i \in upTo[j] /\ j \in upTo[i]
    BY <1>4
  <2>2. QED
    BY <1>2, <1>3, <2>1
<1>6. \A n \in 1..Cardinality(S) : \E i \in S : Cardinality(upTo[i]) = n
  <2>1. /\ IsFiniteSet(S) /\ upTo \in [S -> SUBSET S]
        /\ \A i \in S : i \in upTo[i]
        /\ \A i, j \in S : upTo[i] \subseteq upTo[j] \/ upTo[j] \subseteq upTo[i]
    BY <1>1, <1>3, <1>4
  <2>2. QED
    BY <1>5, <2>1, Ranking, Zenon
<1>7. PICK i \in S : Cardinality(upTo[i]) = 1
  BY <1>1, <1>6
<1>8. upTo[i] = {i}
  <2>1. IsFiniteSet(upTo[i]) /\ {i} \in SUBSET upTo[i]
    BY <1>1, <1>3, <1>4, FS_Subset
  <2>2. Cardinality({i}) = 1
    BY FS_Singleton
  <2>3. QED
    BY <1>7, <2>1, <2>2, FS_Subset
<1>9. \A j \in S : j <= i => j = i
  BY <1>3, <1>8
<1>10. QED
  BY <1>2, <1>9

\* The first of some places of a queue, and what is left of the queue from there.
LEMMA FirstOf ==
  ASSUME NEW D, NEW q \in Seq(D), NEW S \in SUBSET (DOMAIN q), S # {}
  PROVE  LET cut == (CHOOSE i \in S : \A j \in S : i <= j) - 1
         IN  /\ SubSeq(q, cut + 1, Len(q)) \in Seq(D) /\ SubSeq(q, cut + 1, Len(q)) # <<>>
             /\ \A i \in 1..cut : q[i] \in D
<1> DEFINE k == CHOOSE i \in S : \A j \in S : i <= j
<1>1. Len(q) \in Nat /\ DOMAIN q = 1..Len(q) /\ S \in SUBSET (1..Len(q))
  OBVIOUS
<1>2. \E i \in S : \A j \in S : i <= j
  BY <1>1, LeastPlace
<1>3. k \in S /\ k \in 1..Len(q)
  BY <1>1, <1>2
<1> HIDE DEF k
<1>4. (k - 1) + 1 = k
  BY <1>3
<1>5. SubSeq(q, k, Len(q)) \in Seq(D) /\ Len(SubSeq(q, k, Len(q))) = Len(q) - k + 1
  BY <1>1, <1>3
<1>6. SubSeq(q, k, Len(q)) # <<>>
  <2>1. Len(q) - k + 1 # 0
    BY <1>1, <1>3
  <2>2. Len(SubSeq(q, k, Len(q))) # 0
    BY <1>5, <2>1
  <2>3. Len(<<>>) = 0
    OBVIOUS
  <2>4. QED
    BY <2>2, <2>3, Zenon
<1>7. \A i \in 1..(k - 1) : q[i] \in D
  BY <1>1, <1>3
<1>8. QED
  BY <1>4, <1>5, <1>6, <1>7 DEF k

\* The whole of a queue is done: nothing is left.
LEMMA NoneLeft ==
  ASSUME NEW D, NEW q \in Seq(D)
  PROVE  SubSeq(q, Len(q) + 1, Len(q)) = <<>> /\ \A i \in 1..Len(q) : q[i] \in D
  OBVIOUS

LEMMA SearchShaped ==
  ASSUME NEW r, DOMAIN r = Fields, r.seed \in Seeds, r.queue \in Seq(SearchCalls),
         r.got \subseteq TrendSet, r.keywords \subseteq Keywords \ Generic, r.videos \subseteq Videos,
         NEW n, NEW cached
  PROVE  Shaped(NextSearch(r, n, cached)) /\ Asks(NextSearch(r, n, cached))
<1> DEFINE over(y) == IF y.videos = {} THEN Assembled(y, n) ELSE [y EXCEPT !.pc = "judging"]
           q    == r.queue
           live == {i \in DOMAIN q : q[i] \notin cached}
           cut  == IF live = {} THEN Len(q) ELSE (CHOOSE i \in live : \A j \in live : i <= j) - 1
           free == {q[i] : i \in 1..cut}
           rest == SubSeq(q, cut + 1, Len(q))
           vids == r.videos \cup UNION {Found[c] : c \in free}
           seen == [r EXCEPT !.videos = vids, !.queue = rest]
           none == [r EXCEPT !.skipped = TRUE, !.queue = <<>>]
           Fine(y) == /\ DOMAIN y = Fields /\ y.seed \in Seeds /\ y.queue \in Seq(SearchCalls)
                      /\ y.got \subseteq TrendSet /\ y.keywords \subseteq Keywords \ Generic
                      /\ y.videos \subseteq Videos
<1>1. /\ rest \in Seq(SearchCalls) /\ (live # {} => rest # <<>>)
      /\ \A i \in 1..cut : q[i] \in SearchCalls
  <2>1. CASE live = {}
    BY <2>1, NoneLeft
  <2>2. CASE live # {}
    <3>1. live \in SUBSET (DOMAIN q)
      OBVIOUS
    <3> HIDE DEF live, q
    <3>2. q \in Seq(SearchCalls)
      BY DEF q
    <3>3. QED
      BY <2>2, <3>1, <3>2, FirstOf
  <2>3. QED
    BY <2>1, <2>2
<1>2. vids \subseteq Videos
  BY <1>1, KindsOfCalls
<1> HIDE DEF live, cut, rest, vids
<1>3. Fine(seen) /\ seen.queue = rest
  BY <1>1, <1>2 DEF Fields
<1>4. Fine(none)
  BY DEF Fields
<1>5. ASSUME NEW y, Fine(y)
      PROVE  Shaped(over(y)) /\ Asks(over(y))
  <2> DEFINE x == over(y)
  <2>1. /\ x.seed = y.seed /\ x.queue = y.queue /\ x.got = y.got /\ x.keywords = y.keywords
        /\ x.videos = y.videos /\ x.pc \in {"report", "judging"}
    BY <1>5 DEF Assembled, Fields
  <2> HIDE DEF x
  <2>2. x.queue \in Seq(Calls)
    BY <1>5, <2>1, KindsOfCalls
  <2>3. Shaped(x) /\ Asks(x)
    BY <1>5, <2>1, <2>2 DEF Shaped, Asks
  <2>4. QED
    BY <2>3 DEF x
<1>6. ASSUME live # {}
      PROVE  LET x == [seen EXCEPT !.pc = "calling"] IN Shaped(x) /\ Asks(x)
  <2> DEFINE x == [seen EXCEPT !.pc = "calling"]
  <2>1. /\ x.seed = seen.seed /\ x.queue = rest /\ x.got = seen.got /\ x.keywords = seen.keywords
        /\ x.videos = seen.videos
    BY <1>3 DEF Fields
  <2> HIDE DEF x, seen
  <2>2. x.queue \in Seq(Calls) /\ x.queue # <<>> /\ x.queue \in Seq(SearchCalls)
    BY <1>1, <1>6, <2>1, KindsOfCalls
  <2>3. Shaped(x) /\ Asks(x)
    BY <1>3, <2>1, <2>2 DEF Shaped, Asks
  <2>4. QED
    BY <2>3 DEF x
<1>7. NextSearch(r, n, cached) = IF r.queue # <<>> /\ n >= MaxCalls THEN over(none)
                                 ELSE IF live = {} THEN over(seen)
                                 ELSE [seen EXCEPT !.pc = "calling"]
  BY DEF NextSearch, live, cut, rest, vids
<1> HIDE DEF over, seen, none, Fine
<1>8. QED
  BY <1>3, <1>4, <1>5, <1>6, <1>7

LEMMA FilteredShaped ==
  ASSUME NEW r, DOMAIN r = Fields, r.seed \in Seeds, r.queue = <<>>,
         r.got \subseteq TrendSet, r.keywords \subseteq Keywords \ Generic, r.videos \subseteq Videos,
         NEW n, NEW cached
  PROVE  Shaped(Filtered(r, n, cached)) /\ Asks(Filtered(r, n, cached))
<1> DEFINE pool == Range(Related[r.seed]) \ Generic
           q    == [r EXCEPT !.queue = Searches(r.seed, {})]
           f    == [r EXCEPT !.pc = "filtering", !.keywords = pool]
<1>1. /\ DOMAIN q = Fields /\ q.seed = r.seed /\ q.queue = Searches(r.seed, {}) /\ q.got = r.got
      /\ q.keywords = r.keywords /\ q.videos = r.videos
  BY DEF Fields
<1>2. /\ f.seed = r.seed /\ f.queue = <<>> /\ f.got = r.got /\ f.keywords = pool
      /\ f.videos = r.videos /\ f.pc = "filtering"
  BY DEF Fields
<1>3. pool \subseteq Keywords \ Generic
  BY DEF Keywords
<1>4. Filtered(r, n, cached) = IF pool = {} THEN NextSearch(q, n, cached) ELSE f
  BY DEF Filtered
<1> HIDE DEF pool, q, f
<1>5. Shaped(NextSearch(q, n, cached)) /\ Asks(NextSearch(q, n, cached))
  <2>1. q.seed \in Seeds /\ q.queue \in Seq(SearchCalls)
    BY <1>1, SearchesQueued
  <2>2. /\ DOMAIN q = Fields /\ q.got \subseteq TrendSet /\ q.keywords \subseteq Keywords \ Generic
        /\ q.videos \subseteq Videos
    BY <1>1
  <2>3. QED
    BY <2>1, <2>2, SearchShaped
<1>6. Shaped(f) /\ Asks(f)
  BY <1>2, <1>3 DEF Shaped, Asks
<1>7. QED
  BY <1>4, <1>5, <1>6

LEMMA TrendShaped ==
  ASSUME NEW r, DOMAIN r = Fields, Pending(r), r.keywords \subseteq Keywords \ Generic,
         r.videos \subseteq Videos, NEW n, NEW cached
  PROVE  Shaped(NextTrend(r, n, cached))
<1> DEFINE q    == r.queue
           due  == {i \in DOMAIN q : q[i] \notin cached /\ n < MaxCalls}
           cut  == IF due = {} THEN Len(q) ELSE (CHOOSE i \in due : \A j \in due : i <= j) - 1
           free == {q[i] : i \in 1..cut}
           got  == r.got \cup (free \cap cached)
           skip == r.skipped \/ ~(free \subseteq cached)
           rest == SubSeq(q, cut + 1, Len(q))
           seen == [r EXCEPT !.got = got, !.skipped = skip, !.queue = rest]
           call == [seen EXCEPT !.pc = "calling"]
           rep  == [seen EXCEPT !.pc = "report", !.partial = Cardinality(seen.got) < Len(TrendCalls)]
<1>1. q \in Seq(TrendSet) /\ r.got \subseteq TrendSet
  BY DEF Pending
<1>2. /\ rest \in Seq(TrendSet) /\ (due # {} => rest # <<>>)
      /\ \A i \in 1..cut : q[i] \in TrendSet
  <2>1. CASE due = {}
    BY <1>1, <2>1, NoneLeft
  <2>2. CASE due # {}
    <3>1. due \in SUBSET (DOMAIN q)
      OBVIOUS
    <3> HIDE DEF due, q
    <3>2. QED
      BY <1>1, <2>2, <3>1, FirstOf
  <2>3. QED
    BY <2>1, <2>2
<1>3. got \subseteq TrendSet
  BY <1>1, <1>2
<1> HIDE DEF due, cut, rest, got, skip
<1>4. /\ DOMAIN seen = Fields /\ seen.queue = rest /\ seen.got = got
      /\ seen.keywords = r.keywords /\ seen.videos = r.videos
  BY DEF Fields
<1>5. NextTrend(r, n, cached) = IF due # {} THEN call ELSE IF seen.got = {} THEN Gone(seen) ELSE rep
  BY DEF NextTrend, due, cut, rest, got, skip
<1> HIDE DEF seen
<1>6. /\ call.queue = rest /\ call.got = got /\ call.keywords = r.keywords /\ call.videos = r.videos
      /\ rep.queue = rest /\ rep.got = got /\ rep.keywords = r.keywords /\ rep.videos = r.videos
      /\ rep.pc = "report"
  BY <1>4 DEF Fields
<1>7. rest \in Seq(Calls)
  BY <1>2, KindsOfCalls
<1> HIDE DEF call, rep
<1>8. Shaped(rep) /\ (due # {} => Shaped(call))
  BY <1>2, <1>3, <1>6, <1>7 DEF Shaped
<1>9. Shaped(Gone(seen))
  BY <1>4, GoneShaped
<1>10. QED
  BY <1>5, <1>8, <1>9

\* A fetch at its next await, or at its end.
Ready(p, x) == Shaped(x) /\ (p \notin Trends => x.pc = "none" \/ Asks(x))

LEMMA AnswerShaped ==
  ASSUME NEW p, NEW r, DOMAIN r = Fields, Shaped(r), r.queue # <<>>,
         IF p \in Trends THEN Pending(r) ELSE Asks(r), NEW n
  PROVE  /\ Ready(p, WithoutPayload(p, r, n)) /\ Ready(p, WithPayload(p, r, n))
         /\ Head(r.queue) \in Calls
<1> DEFINE c    == Head(r.queue)
           rest == [r EXCEPT !.queue = Tail(@)]
           got  == [rest EXCEPT !.got = @ \cup {c}]
           seen == [rest EXCEPT !.videos = @ \cup Found[c]]
<1>0. r.queue \in Seq(Calls) /\ c \in Calls /\ r.queue # <<>>
  BY DEF Shaped
<1>1. /\ DOMAIN rest = Fields /\ rest.queue = Tail(r.queue) /\ rest.seed = r.seed
      /\ rest.got = r.got /\ rest.keywords = r.keywords /\ rest.videos = r.videos
      /\ DOMAIN got = Fields /\ got.keywords = r.keywords /\ got.videos = r.videos
      /\ DOMAIN seen = Fields /\ seen.queue = Tail(r.queue) /\ seen.seed = r.seed
      /\ seen.got = r.got /\ seen.keywords = r.keywords /\ seen.videos = r.videos \cup Found[c]
  BY DEF Fields
<1>2. /\ r.got \subseteq TrendSet /\ r.keywords \subseteq Keywords \ Generic /\ r.videos \subseteq Videos
  BY DEF Shaped
<1>3. ASSUME p \in Trends
      PROVE  Pending(rest) /\ Pending(got) /\ c[1] # "keywords"
  <2>1. got = [r EXCEPT !.queue = Tail(@), !.got = @ \cup {Head(r.queue)}]
    BY DEF Fields
  <2>2. Pending(rest) /\ Pending(got) /\ c \in TrendSet
    BY <1>0, <1>3, <2>1, PendingTail
  <2>3. QED
    BY <2>2, ThreeTrendCalls
<1>4. ASSUME p \notin Trends
      PROVE  /\ r.seed \in Seeds
             /\ c[1] = "keywords" => Tail(r.queue) = <<>>
             /\ c[1] # "keywords" => /\ Tail(r.queue) \in Seq(SearchCalls)
                                     /\ Found[c] \subseteq Videos
  <2>1. CASE r.queue \in Seq(SearchCalls)
    <3>1. c \in SearchCalls /\ Tail(r.queue) \in Seq(SearchCalls)
      BY <1>0, <2>1
    <3>2. QED
      BY <1>4, <3>1, KindsOfCalls DEF Asks
  <2>2. CASE r.queue = <<<<"keywords", r.seed>>>>
    <3>1. c = <<"keywords", r.seed>> /\ Tail(r.queue) = <<>>
      BY <2>2
    <3> HIDE DEF c
    <3>2. c[1] = "keywords"
      BY <3>1
    <3>3. QED
      BY <1>4, <3>1, <3>2 DEF Asks
  <2>3. QED
    BY <1>4, <2>1, <2>2 DEF Asks
<1>5. WithoutPayload(p, r, n) = IF c[1] = "keywords" THEN Gone(r)
                                ELSE IF p \in Trends THEN NextTrend(rest, n, cache)
                                ELSE NextSearch(rest, n, cache)
  BY DEF WithoutPayload, NextCall
<1>6. WithPayload(p, r, n) = IF c[1] = "keywords" THEN Filtered(rest, n, Cached(c))
                             ELSE IF p \in Trends THEN NextTrend(got, n, Cached(c))
                             ELSE NextSearch(seen, n, Cached(c))
  BY DEF WithPayload
<1> HIDE DEF rest, got, seen, c
<1>7. Ready(p, Gone(r))
  BY GoneShaped DEF Ready
<1>8. CASE p \in Trends
  <2>1. Shaped(NextTrend(rest, n, cache)) /\ Shaped(NextTrend(got, n, Cached(c)))
    BY <1>1, <1>2, <1>3, <1>8, TrendShaped
  <2>2. QED
    BY <1>0, <1>3, <1>5, <1>6, <1>8, <2>1 DEF Ready, c
<1>9. CASE p \notin Trends
  <2>1. CASE c[1] = "keywords"
    <3>1. rest.queue = <<>> /\ rest.seed \in Seeds
      BY <1>1, <1>4, <1>9, <2>1
    <3>2. Shaped(Filtered(rest, n, Cached(c))) /\ Asks(Filtered(rest, n, Cached(c)))
      BY <1>1, <1>2, <3>1, FilteredShaped
    <3>3. QED
      BY <1>0, <1>5, <1>6, <1>7, <2>1, <3>2 DEF Ready, c
  <2>2. CASE c[1] # "keywords"
    <3>1. /\ rest.queue \in Seq(SearchCalls) /\ rest.seed \in Seeds
          /\ seen.queue \in Seq(SearchCalls) /\ seen.seed \in Seeds /\ seen.videos \subseteq Videos
      BY <1>1, <1>2, <1>4, <1>9, <2>2
    <3>2. Shaped(NextSearch(rest, n, cache)) /\ Asks(NextSearch(rest, n, cache))
      BY <1>1, <1>2, <3>1, SearchShaped
    <3>3. Shaped(NextSearch(seen, n, Cached(c))) /\ Asks(NextSearch(seen, n, Cached(c)))
      BY <1>1, <1>2, <3>1, SearchShaped
    <3>4. QED
      BY <1>0, <1>5, <1>6, <1>9, <2>2, <3>2, <3>3 DEF Ready, c
  <2>3. QED
    BY <2>1, <2>2
<1>10. QED
  BY <1>8, <1>9

\* The fetch runs to its next await, its call answered or judged.
LEMMA TypedAdvance ==
  ASSUME Accounted, Typed, NEW p \in Reports,
         \/ Initialized(p) \/ HttpError(p) \/ ToolError(p) \/ Payload(p)
         \/ KeywordsJudged(p) \/ VideosJudged(p) \/ Fail(p)
  PROVE  \E x : Put(p, x) /\ Ready(p, x) /\ x.pc \notin {"new", "distilling", "initializing"}
<1> DEFINE r == report[p]
           n == calls[ToolOf(p)]
<1>0. /\ DOMAIN r = Fields /\ n \in Nat /\ UnderWay(p) /\ r.skipped \in BOOLEAN
      /\ Shaped(r) /\ (Working(p) /\ p \notin Trends => Asks(r))
      /\ r.pc = "initializing" => r.queue = <<>>
  BY ToolsTyped DEF Accounted, Recorded, Typed
<1>1. /\ r.queue \in Seq(Calls) /\ r.got \subseteq TrendSet
      /\ r.keywords \subseteq Keywords \ Generic /\ r.videos \subseteq Videos
  BY <1>0 DEF Shaped
<1>2. PICK x, m : Advances(p, x, m)
  BY AdvanceEffect
<1>3. Put(p, x) /\ Working(p) /\ x.pc \notin {"new", "distilling", "initializing"}
  BY <1>2 DEF Advances, Put, Reached, TrendState, SearchState
<1>4. ASSUME NEW y, Put(p, y)
      PROVE  y = x
  BY <1>3, <1>4 DEF Put, Accounted, Recorded
<1>5. SUFFICES \E y : Put(p, y) /\ Ready(p, y)
  BY <1>3, <1>4
<1>6. CASE Initialized(p)
  <2> DEFINE q == [r EXCEPT !.queue = TrendCalls]
             c == [r EXCEPT !.pc = "calling", !.queue = <<<<"keywords", r.seed>>>>]
  <2>1. r.pc = "initializing" /\ r.queue = <<>>
    BY <1>0, <1>6 DEF Initialized
  <2>2. \/ p \in Trends /\ Put(p, NextTrend(q, n, cache))
        \/ p \notin Trends /\ Put(p, Filtered(r, n, cache))
        \/ p \notin Trends /\ Put(p, Gone(r))
        \/ p \notin Trends /\ Put(p, c)
    BY <1>6 DEF Initialized
  <2>3. ASSUME p \in Trends
        PROVE  Shaped(NextTrend(q, n, cache))
    <3>1. /\ DOMAIN q = Fields /\ q.queue = TrendCalls /\ q.got = {}
          /\ q.keywords = r.keywords /\ q.videos = r.videos
      BY <1>0, <1>3, <2>1, <2>3 DEF Fields, UnderWay
    <3> HIDE DEF q
    <3>2. Pending(q)
      BY <3>1, ThreeTrendCalls DEF Pending
    <3>3. QED
      BY <1>1, <3>1, <3>2, TrendShaped
  <2>4. ASSUME p \notin Trends
        PROVE  Shaped(Filtered(r, n, cache)) /\ Asks(Filtered(r, n, cache))
    <3>1. r.seed \in Seeds
      BY <1>0, <1>3, <2>4 DEF Asks
    <3>2. QED
      BY <1>0, <1>1, <2>1, <3>1, FilteredShaped
  <2>5. ASSUME p \notin Trends
        PROVE  Shaped(c) /\ Asks(c)
    <3>1. /\ c.queue = <<<<"keywords", r.seed>>>> /\ c.got = r.got /\ c.keywords = r.keywords
          /\ c.videos = r.videos /\ c.seed = r.seed
      BY <1>0 DEF Fields
    <3>2. r.seed \in Seeds
      BY <1>0, <1>3, <2>5 DEF Asks
    <3> HIDE DEF c
    <3>3. c.queue \in Seq(Calls) /\ c.queue # <<>>
      <4>1. <<"keywords", r.seed>> \in Calls
        BY <3>2, KindsOfCalls
      <4>2. QED
        BY <3>1, <4>1
    <3>4. QED
      BY <1>1, <3>1, <3>2, <3>3 DEF Shaped, Asks
  <2>6. Ready(p, Gone(r))
    BY <1>0, GoneShaped DEF Ready
  <2> HIDE DEF q, c
  <2>7. QED
    BY <2>2, <2>3, <2>4, <2>5, <2>6 DEF Ready
<1>7. CASE HttpError(p) \/ ToolError(p) \/ Payload(p)
  <2> DEFINE b == [r EXCEPT !.billed = @ + 1]
  <2>1. /\ r.pc = "calling" /\ r.queue # <<>>
        /\ p \in Trends => Pending(r)
        /\ p \notin Trends => Asks(r)
    BY <1>0, <1>3, <1>7 DEF HttpError, ToolError, Payload, UnderWay, Shaped
  <2>2. /\ DOMAIN b = Fields /\ b.queue = r.queue /\ b.got = r.got /\ b.seed = r.seed /\ b.pc = r.pc
        /\ b.keywords = r.keywords /\ b.videos = r.videos
    BY <1>0 DEF Fields
  <2> HIDE DEF b
  <2>3. /\ Shaped(b) /\ (p \in Trends => Pending(b)) /\ (p \notin Trends => Asks(b))
    BY <1>0, <2>1, <2>2 DEF Shaped, Pending, Asks
  <2>4. Ready(p, WithoutPayload(p, r, n))
    BY <1>0, <2>1, AnswerShaped
  <2>5. Ready(p, WithoutPayload(p, b, n + 1)) /\ Ready(p, WithPayload(p, b, n + 1))
    BY <2>1, <2>2, <2>3, AnswerShaped
  <2>6. QED
    BY <1>7, <2>4, <2>5 DEF HttpError, ToolError, Payload, b
<1>8. CASE KeywordsJudged(p)
  <2>1. p \notin Trends /\ r.seed \in Seeds
    BY <1>0, <1>3, <1>8 DEF KeywordsJudged, UnderWay, Asks
  <2>2. PICK reply \in Replies(r.keywords) :
          LET kept == JudgedKeywords(r.keywords, reply) IN
          Put(p, NextSearch([r EXCEPT !.keywords = kept, !.queue = Searches(r.seed, kept)], n, cache))
    BY <1>8 DEF KeywordsJudged
  <2> DEFINE kept == JudgedKeywords(r.keywords, reply)
             s    == [r EXCEPT !.keywords = kept, !.queue = Searches(r.seed, kept)]
  <2>3. kept \subseteq Keywords \ Generic
    BY <1>1, <2>2 DEF JudgedKeywords, Replies
  <2> HIDE DEF kept
  <2>4. /\ DOMAIN s = Fields /\ s.seed = r.seed /\ s.queue = Searches(r.seed, kept)
        /\ s.got = r.got /\ s.keywords = kept /\ s.videos = r.videos
    BY <1>0 DEF Fields
  <2>5. Put(p, NextSearch(s, n, cache))
    BY <2>2 DEF kept
  <2> HIDE DEF s
  <2>6. s.queue \in Seq(SearchCalls) /\ s.seed \in Seeds
    BY <2>1, <2>4, SearchesQueued
  <2>7. Shaped(NextSearch(s, n, cache)) /\ Asks(NextSearch(s, n, cache))
    BY <1>1, <2>3, <2>4, <2>6, SearchShaped
  <2>8. QED
    BY <2>5, <2>7 DEF Ready
<1>9. CASE VideosJudged(p)
  <2>1. p \notin Trends /\ Asks(r)
    BY <1>0, <1>3, <1>9 DEF VideosJudged, UnderWay
  <2>2. PICK reply \in Replies(r.videos) :
          Put(p, Assembled([r EXCEPT !.videos = JudgedVideos(r.videos, reply)], n))
    BY <1>9 DEF VideosJudged
  <2> DEFINE v == JudgedVideos(r.videos, reply)
             y == Assembled([r EXCEPT !.videos = v], n)
  <2>3. v \subseteq Videos
    BY <1>1, <2>2 DEF JudgedVideos, Replies
  <2> HIDE DEF v
  <2>4. /\ y.seed = r.seed /\ y.queue = r.queue /\ y.got = r.got /\ y.keywords = r.keywords
        /\ y.videos = v /\ y.pc = "report"
    BY <1>0 DEF Assembled, Fields
  <2>5. Put(p, y)
    BY <2>2 DEF v
  <2> HIDE DEF y
  <2>6. Ready(p, y)
    BY <1>1, <2>1, <2>3, <2>4 DEF Ready, Shaped, Asks
  <2>7. QED
    BY <2>5, <2>6
<1>10. CASE Fail(p)
  <2>1. Ready(p, Gone(r))
    BY <1>0, GoneShaped DEF Ready
  <2>2. QED
    BY <1>10, <2>1 DEF Fail, GiveUp
<1>11. QED
  BY <1>6, <1>7, <1>8, <1>9, <1>10

LEMMA TypedInit == Init => Typed
<1> SUFFICES ASSUME Init PROVE Typed
  OBVIOUS
<1>1. /\ New.queue = <<>> /\ New.got = {} /\ New.keywords = {} /\ New.videos = {} /\ New.pc = "new"
  BY DEF New
<1>2. Shaped(New)
  BY <1>1 DEF Shaped
<1>3. cache = {} /\ \A p \in Reports : report[p] = New
  BY DEF Init
<1>4. QED
  BY <1>1, <1>2, <1>3 DEF Typed, Working, Waiting

LEMMA CacheTyped ==
  ASSUME Accounted, Typed, [Next]_vars
  PROVE  cache' \subseteq Calls
<1>1. ASSUME NEW p \in Reports, Payload(p)
      PROVE  cache' \subseteq Calls
  <2>1. report[p].queue \in Seq(Calls) /\ report[p].queue # <<>>
    BY <1>1 DEF Payload, Typed, Shaped
  <2>2. Head(report[p].queue) \in Calls
    BY <2>1
  <2>3. QED
    BY <1>1, <2>2 DEF Payload, Cached, Typed
<1>2. QED
  BY <1>1 DEF Next, vars, Typed, Request, NoSeed, Start, StartTrends, Initialized, HttpError, ToolError,
              KeywordsJudged, VideosJudged, Fail, Expire

LEMMA TypedStep ==
  ASSUME Accounted, Typed, [Next]_vars
  PROVE  Typed'
<1>0. DOMAIN report = Reports /\ \A p \in Reports : DOMAIN report[p] = Fields
  BY DEF Accounted, Recorded
\* What is kept of the fetches that a step leaves alone.
<1>1. ASSUME NEW o \in Reports, report'[o] = report[o]
      PROVE  /\ Shaped(report'[o])
             /\ report'[o].pc \in {"new", "distilling", "initializing"} => report'[o].queue = <<>>
             /\ Working(o)' /\ o \notin Trends' => Asks(report'[o])
  BY <1>1 DEF Typed, Working, Trends
<1>2. ASSUME NEW p \in Reports,
             \/ Initialized(p) \/ HttpError(p) \/ ToolError(p) \/ Payload(p)
             \/ KeywordsJudged(p) \/ VideosJudged(p) \/ Fail(p)
      PROVE  Typed'
  <2>1. PICK x : Put(p, x) /\ Ready(p, x) /\ x.pc \notin {"new", "distilling", "initializing"}
    BY <1>2, TypedAdvance
  <2>2. PICK y, m : Advances(p, y, m)
    BY <1>2, AdvanceEffect
  <2>3. report'[p] = x /\ x.kind = report[p].kind /\ \A o \in Reports : o # p => report'[o] = report[o]
    BY <1>0, <2>1, <2>2 DEF Put, Advances
  <2>4. p \in Trends' <=> p \in Trends
    BY <2>3 DEF Trends
  <2>5. Working(p)' /\ p \notin Trends' => Asks(report'[p])
    BY <2>1, <2>3, <2>4 DEF Working, Waiting, Ready
  <2>6. QED
    BY <1>1, <2>1, <2>3, <2>5, CacheTyped DEF Typed, Ready
<1>3. ASSUME NEW p \in Reports, Request(p) \/ NoSeed(p) \/ StartTrends(p)
      PROVE  Typed'
  <2>1. report[p].queue = <<>> /\ Shaped(report[p])
    BY <1>3 DEF Request, NoSeed, StartTrends, Typed
  <2>2. PICK x : /\ Put(p, x) /\ Shaped(x) /\ x.queue = <<>>
                 /\ x.pc \in {"distilling", "none"} \/ (x.pc = "initializing" /\ x.kind = "trends")
    <3>1. CASE Request(p)
      <4>1. PICK kind : Put(p, [report[p] EXCEPT !.pc = "distilling", !.kind = kind])
        BY <3>1 DEF Request
      <4> DEFINE x == [report[p] EXCEPT !.pc = "distilling", !.kind = kind]
      <4>2. /\ x.queue = report[p].queue /\ x.got = report[p].got /\ x.videos = report[p].videos
            /\ x.keywords = report[p].keywords /\ x.pc = "distilling"
        BY <1>0 DEF Fields
      <4>3. Put(p, x)
        BY <4>1
      <4> HIDE DEF x
      <4>4. Shaped(x)
        BY <2>1, <4>2 DEF Shaped
      <4>5. QED
        BY <2>1, <4>2, <4>3, <4>4
    <3>2. CASE NoSeed(p)
      <4>1. Shaped(Gone(report[p])) /\ Gone(report[p]).pc = "none" /\ Gone(report[p]).queue = <<>>
        BY <1>0, GoneShaped DEF Gone, New, Fields
      <4>2. QED
        BY <3>2, <4>1 DEF NoSeed, GiveUp
    <3>3. CASE StartTrends(p)
      <4> DEFINE x == [report[p] EXCEPT !.pc = "initializing", !.kind = "trends"]
      <4>1. /\ x.queue = report[p].queue /\ x.got = report[p].got /\ x.videos = report[p].videos
            /\ x.keywords = report[p].keywords /\ x.pc = "initializing" /\ x.kind = "trends"
        BY <1>0 DEF Fields
      <4>2. Put(p, x)
        BY <3>3 DEF StartTrends
      <4> HIDE DEF x
      <4>3. Shaped(x)
        BY <2>1, <4>1 DEF Shaped
      <4>4. QED
        BY <2>1, <4>1, <4>2, <4>3
    <3>4. QED
      BY <1>3, <3>1, <3>2, <3>3
  <2>3. report'[p] = x /\ \A o \in Reports : o # p => report'[o] = report[o]
    BY <1>0, <2>2 DEF Put
  <2>4. Working(p)' => p \in Trends'
    BY <2>2, <2>3 DEF Working, Waiting, Trends
  <2>5. QED
    BY <1>1, <2>2, <2>3, <2>4, CacheTyped DEF Typed
<1>4. ASSUME NEW p \in Reports, Start(p)
      PROVE  Typed'
  <2>1. PICK s \in Seeds : report' = Started(p, s)
    BY <1>4 DEF Start
  <2> DEFINE r == report[p]
             x == [r EXCEPT !.pc = "initializing", !.seed = s, !.overlapped = Others(p) # {}]
             y(o) == [report[o] EXCEPT !.overlapped = TRUE]
  <2>2. r.queue = <<>> /\ Shaped(r)
    BY <1>4 DEF Start, Typed
  <2>3. /\ x.queue = r.queue /\ x.got = r.got /\ x.keywords = r.keywords /\ x.videos = r.videos
        /\ x.pc = "initializing" /\ x.seed = s
    BY <1>0 DEF Fields
  <2>4. ASSUME NEW o \in Reports
        PROVE  /\ y(o).queue = report[o].queue /\ y(o).got = report[o].got
               /\ y(o).keywords = report[o].keywords /\ y(o).videos = report[o].videos
               /\ y(o).pc = report[o].pc /\ y(o).seed = report[o].seed /\ y(o).kind = report[o].kind
    BY <1>0 DEF Fields
  <2>5. report'[p] = x /\ \A o \in Reports : o # p => report'[o] \in {y(o), report[o]}
    BY <2>1 DEF Started
  <2> HIDE DEF x, y
  <2>6. /\ Shaped(report'[p]) /\ report'[p].queue = <<>> /\ Asks(report'[p])
    <3>1. x.queue = <<>> /\ <<>> \in Seq(SearchCalls)
      BY <2>2, <2>3
    <3>2. Asks(x)
      BY <2>3, <3>1 DEF Asks
    <3>3. Shaped(x)
      BY <2>2, <2>3 DEF Shaped
    <3>4. QED
      BY <2>5, <3>1, <3>2, <3>3
  <2>7. ASSUME NEW o \in Reports, report'[o] = y(o)
        PROVE  /\ Shaped(report'[o])
               /\ report'[o].pc \in {"new", "distilling", "initializing"} => report'[o].queue = <<>>
               /\ Working(o)' /\ o \notin Trends' => Asks(report'[o])
    <3>1. /\ Shaped(report[o])
          /\ report[o].pc \in {"new", "distilling", "initializing"} => report[o].queue = <<>>
          /\ Working(o) /\ o \notin Trends => Asks(report[o])
      BY DEF Typed
    <3>2. (Working(o)' <=> Working(o)) /\ (o \in Trends' <=> o \in Trends)
      BY <2>4, <2>7 DEF Working, Trends
    <3>3. QED
      BY <2>4, <2>7, <3>1, <3>2 DEF Shaped, Asks
  <2>8. QED
    BY <1>1, <2>5, <2>6, <2>7, CacheTyped DEF Typed
<1>5. CASE UNCHANGED report
  BY <1>1, <1>5, CacheTyped DEF Typed
<1>6. QED
  BY <1>2, <1>3, <1>4, <1>5 DEF Next, vars, Expire

\* Whatever a fetch finds in the cache, is answered or refused, what it queues are calls
\* for its seed, for keywords the filter kept or for trends, what it holds are keywords off
\* the blocklist and videos of its searches, and a fetch that awaits an answer has a
\* call to be answered (_build_report, _build_idea_trends, _call_tool).
THEOREM TypeCorrect == Spec => []TypeOK
<1>1. Accounted /\ Typed => TypeOK
  <2> SUFFICES ASSUME Accounted, Typed, NEW p \in Reports
               PROVE  /\ calls \in [Tools -> Nat] /\ cache \subseteq Calls
                      /\ DOMAIN report[p] = DOMAIN New
                      /\ report[p].pc \in {"new"} \cup Waiting \cup Ended
                      /\ report[p].pc = "calling" => report[p].queue # <<>>
                      /\ Range(report[p].queue) \cup report[p].got \subseteq Calls
                      /\ report[p].keywords \subseteq Keywords \ Generic
                      /\ report[p].videos \subseteq Videos
    BY DEF TypeOK, Accounted, Recorded, Typed
  <2>1. DOMAIN New = Fields
    BY DEF New, Fields
  <2>2. Range(report[p].queue) \subseteq Calls
    BY DEF Typed, Shaped, Range
  <2>3. QED
    BY <2>1, <2>2, KindsOfCalls DEF Accounted, Recorded, Typed, Shaped
<1>2. Spec => []Typed
  <2>1. Accounted /\ Typed /\ [Next]_vars => Typed'
    BY TypedStep
  <2>2. QED
    BY <2>1, TypedInit, AccountedAlways, PTL DEF Spec
<1>3. QED
  BY <1>1, <1>2, AccountedAlways, PTL

================================================================================
