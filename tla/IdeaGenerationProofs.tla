-------------------------- MODULE IdeaGenerationProofs -------------------------
(* Machine-checked proofs, for every budget, price and answer: no synthesis or   *)
(* repair call takes a generation of ideas over its budget, and the ideas it     *)
(* returns are distinct and the best ones.                                       *)
EXTENDS IdeaGeneration, FiniteSetTheorems, FunctionTheorems, WellFoundedInduction, TLAPS

--------------------------------------------------------------------------------
(* The ledger. *)

LEMMA AffordsSum ==
  ASSUME spent \in Nat, NEW worst \in Nat \ {0}, Affords(worst)
  PROVE  spent + worst <= Budget
  BY CostAssumption DEF Affords, Remaining

\* A call that fits with its worst case leaves the run within its budget.
LEMMA ChargeWithin ==
  ASSUME spent \in Nat, NEW worst \in Nat, spent + worst <= Budget, Charge(worst)
  PROVE  spent' \in Nat /\ spent' <= Budget
  BY CostAssumption DEF Charge

LEMMA DigestCost ==
  ASSUME NEW k \in DOMAIN Digests
  PROVE  Digests[k] \in Nat \ {0}
  BY CostAssumption

--------------------------------------------------------------------------------
(* The inductive invariant: before synthesis only research has been charged, and *)
(* a call under way fits into the budget with its worst case.                    *)

Counted      == spent \in Nat /\ researched \in Nat
OnlyResearch == pc \in {"research", "gate"} => spent = researched
Fits         == /\ pc = "synthesis" => /\ digest \in DOMAIN Digests
                                       /\ spent + Digests[digest] <= Budget
                /\ pc = "repair" => spent + RepairCost <= Budget

Reserved == Counted /\ OnlyResearch /\ Fits /\ BudgetKept

LEMMA ReservedInit == Init => Reserved
  BY CostAssumption DEF Init, Reserved, Counted, OnlyResearch, Fits, BudgetKept

\* What a step needs that charges nothing and starts no call.
LEMMA ReservedQuiet ==
  ASSUME Reserved, UNCHANGED <<spent, researched>>,
         pc' \notin {"synthesis", "repair"},
         pc' \in {"research", "gate"} => pc \in {"research", "gate"}
  PROVE  Reserved'
  BY DEF Reserved, Counted, OnlyResearch, Fits, BudgetKept

\* What a step needs that ends a call.
LEMMA ReservedCharged ==
  ASSUME Reserved, NEW worst \in Nat, spent + worst <= Budget, Charge(worst),
         UNCHANGED researched,
         pc' \notin {"research", "gate", "synthesis", "repair"}
  PROVE  Reserved'
  <1>1. spent' \in Nat /\ spent' <= Budget
    BY ChargeWithin DEF Reserved, Counted
  <1>2. researched \in Nat /\ Budget \in Nat
    BY CostAssumption DEF Reserved, Counted
  <1>3. BudgetKept'
    BY <1>1, <1>2 DEF BudgetKept
  <1>4. OnlyResearch' /\ Fits'
    BY DEF OnlyResearch, Fits
  <1> QED
    BY <1>1, <1>2, <1>3, <1>4 DEF Reserved, Counted

LEMMA ReservedStep == Reserved /\ [Next]_vars => Reserved'
  <1> SUFFICES ASSUME Reserved, [Next]_vars PROVE Reserved'
    OBVIOUS
  <1>1. CASE ResearchCall
    <2>1. PICK cost \in ResearchCosts : spent' = spent + cost /\ researched' = researched + cost
      BY <1>1 DEF ResearchCall
    <2>2. cost \in Nat
      BY CostAssumption
    <2>3. pc = "research" /\ pc' = "research" /\ spent = researched
      BY <1>1 DEF ResearchCall, Reserved, OnlyResearch
    <2> QED
      BY <2>1, <2>2, <2>3, CostAssumption
      DEF Reserved, Counted, OnlyResearch, Fits, BudgetKept
  <1>2. CASE ResearchEnds
    <2>1. pc = "research" /\ UNCHANGED spent /\ UNCHANGED researched
      BY <1>2 DEF ResearchEnds, Fail
    <2>2. pc' \in {"gate", "failed"}
      BY <1>2 DEF ResearchEnds, Fail
    <2> QED
      BY <2>1, <2>2, ReservedQuiet
  <1>3. CASE ResearchFails
    BY <1>3, ReservedQuiet DEF ResearchFails, Fail
  <1>4. CASE ChooseDigest
    <2> DEFINE fitting == {k \in DOMAIN Digests : Affords(Digests[k])}
    <2>1. CASE fitting = {}
      BY <1>4, <2>1, ReservedQuiet DEF ChooseDigest, Fail
    <2>2. CASE fitting # {}
      <3>1. PICK k \in fitting : digest' = k
        BY <1>4, <2>2 DEF ChooseDigest
      <3>2. pc' = "synthesis" /\ UNCHANGED <<spent, researched>>
        BY <1>4, <2>2 DEF ChooseDigest
      <3>3. spent + Digests[k] <= Budget
        BY DigestCost, AffordsSum DEF Reserved, Counted
      <3> QED
        BY <3>1, <3>2, <3>3 DEF Reserved, Counted, OnlyResearch, Fits, BudgetKept
    <2> QED
      BY <2>1, <2>2
  <1>5. ASSUME NEW answer \in Answers, SynthesisAnswers(answer) PROVE Reserved'
    <2>1. Digests[digest] \in Nat /\ spent + Digests[digest] <= Budget
      BY <1>5, DigestCost DEF SynthesisAnswers, Reserved, Fits
    <2> QED
      BY <1>5, <2>1, ReservedCharged DEF SynthesisAnswers
  <1>6. CASE SynthesisFails
    <2>1. Digests[digest] \in Nat /\ spent + Digests[digest] <= Budget
      BY <1>6, DigestCost DEF SynthesisFails, Reserved, Fits
    <2>2. pc' = "failed" /\ UNCHANGED researched
      BY <1>6 DEF SynthesisFails, Fail
    <2>3. UNCHANGED spent \/ Charge(Digests[digest])
      BY <1>6 DEF SynthesisFails
    <2> QED
      BY <2>1, <2>2, <2>3, ReservedQuiet, ReservedCharged
  <1>7. CASE ConsiderRepair
    <2>1. CASE Affords(RepairCost) /\ left >= MinRepairTime
      <3>1. spent + RepairCost <= Budget
        BY <2>1, AffordsSum, CostAssumption DEF Reserved, Counted
      <3> QED
        BY <1>7, <2>1, <3>1 DEF ConsiderRepair, Reserved, Counted, OnlyResearch, Fits, BudgetKept
    <2>2. CASE ~(Affords(RepairCost) /\ left >= MinRepairTime)
      BY <1>7, <2>2, ReservedQuiet DEF ConsiderRepair
    <2> QED
      BY <2>1, <2>2
  <1>8. ASSUME NEW answer \in Answers, RepairAnswers(answer) PROVE Reserved'
    BY <1>8, ReservedCharged, CostAssumption DEF RepairAnswers, Reserved, Fits
  <1>9. CASE RepairTimesOut
    BY <1>9, ReservedQuiet DEF RepairTimesOut, Fail
  <1>10. CASE RepairFails
    BY <1>10, ReservedCharged, CostAssumption DEF RepairFails, Fail, Reserved, Fits
  <1>11. CASE Select
    BY <1>11, ReservedQuiet DEF Select, Fail
  <1>12. CASE UNCHANGED vars
    BY <1>12 DEF vars, Reserved, Counted, OnlyResearch, Fits, BudgetKept
  <1> QED
    BY <1>1, <1>2, <1>3, <1>4, <1>5, <1>6, <1>7, <1>8, <1>9, <1>10, <1>11, <1>12 DEF Next

\* Whatever research costs and the model answers, no synthesis or repair call takes
\* the run over its budget (generate, with CostLedger.affords).
THEOREM BudgetTheorem == Spec => []BudgetKept
  <1>1. Reserved => BudgetKept
    BY DEF Reserved
  <1> QED
    BY ReservedInit, ReservedStep, <1>1, PTL DEF Spec

--------------------------------------------------------------------------------
(* Folds. FoldLeft is a recursive function on the sets of positions; that there is  *)
(* such a function, and what holds of its value at every prefix, is shown by a     *)
(* least counterexample: the numbers are well-founded.                             *)

Less == {ss \in Nat \X Nat : ss[1] < ss[2]}

LEMMA LeastNumber ==
  ASSUME NEW T \in SUBSET Nat, T # {}
  PROVE  \E n \in T : \A m \in T : n <= m
<1>1. IsWellFoundedOn(Less, Nat)
  BY NatLessThanWellFounded DEF OpToRel, Less
<1>2. PICK n \in T : \A m \in T : <<m, n>> \notin Less
  BY <1>1, WFMin
<1>3. ASSUME NEW m \in T
      PROVE  n <= m
  <2>1. <<m, n>> \in Nat \X Nat /\ <<m, n>> \notin Less
    BY <1>2
  <2>2. ~(m < n)
    BY <2>1 DEF Less
  <2>3. QED
    BY <2>2
<1>4. QED
  BY <1>3

LEMMA LastOf ==
  ASSUME NEW k \in Nat, NEW t \in SUBSET (1..k), k \in t
  PROVE  Max(t) = k
<1>1. \A y \in t : k >= y
  OBVIOUS
<1>2. \A x \in t : (\A y \in t : x >= y) => x = k
  BY <1>1
<1>3. QED
  BY <1>1, <1>2 DEF Max

FoldsTo(f, base, step, n) ==
  \A t \in SUBSET (1..n) : f[t] = IF t = {} THEN base ELSE step[<<f[t \ {Max(t)}], Max(t)>>]

Foldable(D, base, step, n) ==
  \E f \in [SUBSET (1..n) -> D] : FoldsTo(f, base, step, n)

LEMMA FoldExists ==
  ASSUME NEW n \in Nat, NEW D, NEW base \in D, NEW step \in [D \X (1..n) -> D]
  PROVE  Foldable(D, base, step, n)
<1> DEFINE T == {m \in 0..n : ~Foldable(D, base, step, m)}
<1> SUFFICES ASSUME T # {} PROVE FALSE
  OBVIOUS
<1>0. T \in SUBSET Nat
  OBVIOUS
<1>1. PICK m \in T : \A k \in T : m <= k
  <2> HIDE DEF T
  <2>1. QED
    BY <1>0, LeastNumber
<1>2. m # 0
  <2> SUFFICES ASSUME m = 0 PROVE FALSE
    OBVIOUS
  <2> DEFINE f == [t \in SUBSET (1..0) |-> base]
  <2>1. f \in [SUBSET (1..0) -> D]
    OBVIOUS
  <2>2. 1..0 = {}
    OBVIOUS
  <2>3. FoldsTo(f, base, step, 0)
    BY <2>2 DEF FoldsTo
  <2>4. QED
    BY <1>1, <2>1, <2>3 DEF Foldable
<1> DEFINE k == m - 1
<1>3. k \in 0..n /\ k + 1 = m /\ k \notin T
  <2>1. m \in 0..n
    BY <1>1
  <2>2. k \in 0..n /\ k + 1 = m /\ ~(m <= k)
    BY <1>2, <2>1
  <2>3. QED
    BY <1>1, <2>2
<1>4. PICK f \in [SUBSET (1..k) -> D] : FoldsTo(f, base, step, k)
  BY <1>3 DEF Foldable
<1> DEFINE g == [t \in SUBSET (1..m) |-> IF m \in t THEN step[<<f[t \ {m}], m>>] ELSE f[t]]
<1>5. \A t \in SUBSET (1..m) : t \ {m} \in SUBSET (1..k) /\ (m \notin t => t \in SUBSET (1..k))
  BY <1>3
<1>6. g \in [SUBSET (1..m) -> D]
  <2>1. \A t \in SUBSET (1..m) : f[t \ {m}] \in D /\ (m \notin t => f[t] \in D)
    BY <1>4, <1>5
  <2>2. m \in 1..n
    BY <1>3
  <2>3. QED
    BY <2>1, <2>2
<1>7. FoldsTo(g, base, step, m)
  <2> SUFFICES ASSUME NEW t \in SUBSET (1..m)
               PROVE  g[t] = IF t = {} THEN base ELSE step[<<g[t \ {Max(t)}], Max(t)>>]
    BY DEF FoldsTo
  <2>1. CASE m \in t
    <3>1. Max(t) = m
      BY <1>3, <2>1, LastOf
    <3>2. t \ {m} \in SUBSET (1..m) /\ m \notin t \ {m}
      OBVIOUS
    <3>3. QED
      BY <2>1, <3>1, <3>2
  <2>2. CASE m \notin t
    <3>1. g[t] = f[t] /\ t \in SUBSET (1..k)
      BY <1>5, <2>2
    <3>2. g[t \ {Max(t)}] = f[t \ {Max(t)}]
      BY <2>2
    <3>3. QED
      BY <1>4, <3>1, <3>2 DEF FoldsTo
  <2>3. QED
    BY <2>1, <2>2
<1>8. QED
  BY <1>1, <1>6, <1>7 DEF Foldable

LEMMA LastOfPrefix ==
  ASSUME NEW k \in Nat \ {0}
  PROVE  Max(1..k) = k
<1>1. k \in Nat /\ (1..k) \in SUBSET (1..k) /\ k \in (1..k)
  OBVIOUS
<1>2. QED
  BY <1>1, LastOf

LEMMA Prefix ==
  ASSUME NEW k \in Nat \ {0}
  PROVE  /\ (1..k) # {}
         /\ (1..k) \ {k} = 1..(k - 1)
<1>1. k \in (1..k)
  OBVIOUS
<1>2. (1..k) \ {k} = 1..(k - 1)
  OBVIOUS
<1>3. QED
  BY <1>1, <1>2

LEMMA UpTo ==
  ASSUME NEW n \in Nat, NEW S, 0 \in S, \A k \in 1..n : k - 1 \in S => k \in S
  PROVE  \A k \in 0..n : k \in S
<1> DEFINE T == {k \in 0..n : k \notin S}
<1> SUFFICES ASSUME T # {} PROVE FALSE
  OBVIOUS
<1>0. T \in SUBSET Nat
  OBVIOUS
<1>1. PICK k \in T : \A m \in T : k <= m
  <2> HIDE DEF T
  <2>1. QED
    BY <1>0, LeastNumber
<1>2. k \in 1..n
  BY <1>1
<1>3. k - 1 \in 0..n /\ ~(k <= k - 1)
  BY <1>2
<1>4. k - 1 \in S
  BY <1>1, <1>3
<1>5. QED
  BY <1>1, <1>2, <1>4

LEMMA MaxBelow ==
  ASSUME NEW n \in Nat, NEW t \in SUBSET (1..n), t # {}
  PROVE  Max(t) \in t
<1> DEFINE T == {m \in 0..n : \A x \in t : x <= m}
<1>1. T \in SUBSET Nat /\ n \in T
  OBVIOUS
<1>2. PICK m \in T : \A k \in T : m <= k
  <2> HIDE DEF T
  <2>1. QED
    BY <1>1, LeastNumber
<1>3. m \in t
  <2> SUFFICES ASSUME m \notin t PROVE FALSE
    OBVIOUS
  <2>1. m \in 0..n /\ \A x \in t : x <= m /\ x \in 1..n /\ x # m
    BY <1>2
  <2>2. m # 0
    <3>1. PICK x \in t : x <= m /\ x \in 1..n
      BY <2>1
    <3>2. QED
      BY <3>1
  <2>3. m - 1 \in T
    BY <2>1, <2>2
  <2>4. m <= m - 1
    BY <1>2, <2>3
  <2>5. QED
    BY <2>1, <2>4
<1>4. \A x \in t : m >= x
  BY <1>2
<1>5. QED
  BY <1>3, <1>4 DEF Max

\* What a recursive function on the sets of positions does from prefix to prefix.
Iterates(iter, D, base, step, n) ==
  /\ iter[{}] = base
  /\ \A k \in 1..n : iter[1..(k - 1)] \in D => iter[1..k] = step[<<iter[1..(k - 1)], k>>]

\* The values of a fold after each of its n steps.
Runs(g, D, base, step, n) ==
  /\ g \in [0..n -> D]
  /\ g[0] = base
  /\ \A k \in 1..n : g[k] = step[<<g[k - 1], k>>]

RunsTo(v, D, base, step, n) == \E g : Runs(g, D, base, step, n) /\ g[n] = v

LEMMA FoldRuns ==
  ASSUME NEW n \in Nat, NEW D, NEW base \in D, NEW step \in [D \X (1..n) -> D],
         NEW iter, Iterates(iter, D, base, step, n)
  PROVE  RunsTo(iter[1..n], D, base, step, n)
<1> DEFINE S == {k \in 0..n : iter[1..k] \in D}
<1>0. 1..0 = {}
  OBVIOUS
<1>1. 0 \in S
  BY <1>0 DEF Iterates
<1>2. ASSUME NEW k \in 1..n, k - 1 \in S
      PROVE  k \in S
  <2>1. iter[1..(k - 1)] \in D
    BY <1>2
  <2>2. iter[1..k] = step[<<iter[1..(k - 1)], k>>]
    BY <2>1 DEF Iterates
  <2>3. QED
    BY <2>1, <2>2
<1>3. \A k \in 0..n : k \in S
  <2> HIDE DEF S
  <2>1. QED
    BY <1>1, <1>2, UpTo
<1> DEFINE g == [k \in 0..n |-> iter[1..k]]
<1>4. g \in [0..n -> D] /\ g[0] = base /\ g[n] = iter[1..n]
  BY <1>0, <1>3 DEF Iterates
<1>5. ASSUME NEW k \in 1..n
      PROVE  g[k] = step[<<g[k - 1], k>>]
  <2>1. k \in 0..n /\ k - 1 \in 0..n
    OBVIOUS
  <2>2. iter[1..(k - 1)] \in D
    BY <1>3, <2>1
  <2>3. QED
    BY <2>1, <2>2 DEF Iterates
<1>6. QED
  BY <1>4, <1>5 DEF Runs, RunsTo

--------------------------------------------------------------------------------
(* The greedy choice, place by place. *)

GreedyStep(ideas) ==
  [at \in Seq(Ideas) \X (1..Len(ideas)) |->
     IF Len(at[1]) < ResultCount /\ ~Repeats(ideas[at[2]], at[1])
     THEN Append(at[1], ideas[at[2]]) ELSE at[1]]

LEMMA GreedyRuns ==
  ASSUME NEW ideas \in Seq(Ideas)
  PROVE  RunsTo(Greedy(ideas), Seq(Ideas), <<>>, GreedyStep(ideas), Len(ideas))
<1> DEFINE n    == Len(ideas)
           D    == Seq(Ideas)
           base == <<>>
           Add(v, i) == IF Len(v) < ResultCount /\ ~Repeats(ideas[i], v)
                        THEN Append(v, ideas[i]) ELSE v
           step == [at \in D \X (1..n) |-> Add(at[1], at[2])]
           Body(f) == [t \in SUBSET (1..n) |->
                         IF t = {} THEN base ELSE Add(f[t \ {Max(t)}], Max(t))]
           iter == CHOOSE f : f = Body(f)
<1>1. n \in Nat /\ DOMAIN ideas = 1..n /\ base \in D
  OBVIOUS
<1>2. step \in [D \X (1..n) -> D]
  OBVIOUS
<1>3. Greedy(ideas) = iter[1..n]
  BY <1>1, Zenon DEF Greedy, FoldLeft, MapThenFoldSet
<1> HIDE DEF Add
<1>4. \E f : f = Body(f)
  <2>1. PICK f \in [SUBSET (1..n) -> D] : FoldsTo(f, base, step, n)
    <3> HIDE DEF n, D, base, step
    <3>1. QED
      BY <1>1, <1>2, FoldExists DEF Foldable
  <2>2. ASSUME NEW t \in SUBSET (1..n)
        PROVE  f[t] = Body(f)[t]
    <3>1. CASE t = {}
      BY <2>1, <3>1 DEF FoldsTo
    <3>2. CASE t # {}
      <4>1. Max(t) \in 1..n
        BY <1>1, <3>2, MaxBelow
      <4>2. f[t \ {Max(t)}] \in D
        BY <2>1
      <4>3. f[t] = step[<<f[t \ {Max(t)}], Max(t)>>]
        BY <2>1, <3>2 DEF FoldsTo
      <4>4. QED
        BY <3>2, <4>1, <4>2, <4>3
    <3>3. QED
      BY <3>1, <3>2
  <2>3. f = Body(f)
    BY <2>1, <2>2
  <2>4. QED
    BY <2>3
<1>5. iter = Body(iter)
  BY <1>4
<1>6. iter[{}] = base
  BY <1>5
<1>7. ASSUME NEW k \in 1..n, iter[1..(k - 1)] \in D
      PROVE  iter[1..k] = step[<<iter[1..(k - 1)], k>>]
  <2>1. k \in Nat \ {0} /\ (1..k) \in SUBSET (1..n)
    BY <1>1
  <2>2. Max(1..k) = k /\ (1..k) # {} /\ (1..k) \ {k} = 1..(k - 1)
    BY <2>1, LastOfPrefix, Prefix
  <2>3. \A t \in SUBSET (1..n) : iter[t] = Body(iter)[t]
    BY <1>5
  <2> HIDE DEF iter
  <2>4. iter[1..k] = Body(iter)[1..k]
    BY <2>1, <2>3
  <2>5. QED
    BY <1>7, <2>1, <2>2, <2>4
<1>8. Iterates(iter, D, base, step, n)
  BY <1>6, <1>7 DEF Iterates
<1>9. GreedyStep(ideas) = step
  BY DEF GreedyStep, Add
<1>10. QED
  <2> HIDE DEF n, D, base, step, iter, Body
  <2>1. RunsTo(iter[1..n], D, base, step, n)
    BY <1>1, <1>2, <1>8, FoldRuns
  <2>2. QED
    BY <1>3, <1>9, <2>1 DEF n, D, base

--------------------------------------------------------------------------------
(* Ranks: a stable sort by falling score is a permutation. *)

Before(ideas, i) ==
  {j \in DOMAIN ideas : \/ ideas[j].score > ideas[i].score
                        \/ ideas[j].score = ideas[i].score /\ j <= i}

LEMMA Scores ==
  ASSUME NEW ideas \in Seq(Ideas)
  PROVE  /\ Len(ideas) \in Nat /\ DOMAIN ideas = 1..Len(ideas)
         /\ \A i \in 1..Len(ideas) : ideas[i] \in Ideas /\ ideas[i].score \in Nat
<1>1. Len(ideas) \in Nat /\ DOMAIN ideas = 1..Len(ideas) /\ \A i \in 1..Len(ideas) : ideas[i] \in Ideas
  OBVIOUS
<1>2. \A c \in Ideas : c.score \in Nat
  <2> DEFINE titles  == {c.title : c \in Pool}
             sectors == {c.sector : c \in Pool}
             words   == {c.words : c \in Pool}
  <2>1. Ideas = [title: titles, sector: sectors, words: words, score: 0..1000]
    BY DEF Ideas
  <2> HIDE DEF titles, sectors, words
  <2>2. \A c \in [title: titles, sector: sectors, words: words, score: 0..1000] : c.score \in 0..1000
    OBVIOUS
  <2>3. (0..1000) \subseteq Nat
    OBVIOUS
  <2>4. QED
    BY <2>1, <2>2, <2>3
<1>3. QED
  BY <1>1, <1>2

LEMMA CountUpTo ==
  ASSUME NEW n \in Nat
  PROVE  IsFiniteSet(1..n) /\ Cardinality(1..n) = n
<1>1. 1 \in Int /\ n \in Int
  OBVIOUS
<1>2. IsFiniteSet(1..n) /\ Cardinality(1..n) = IF 1 > n THEN 0 ELSE n - 1 + 1
  BY <1>1, FS_Interval
<1>3. QED
  BY <1>2

LEMMA BeforeIsOrdered ==
  ASSUME NEW ideas \in Seq(Ideas), NEW i \in 1..Len(ideas), NEW j \in 1..Len(ideas)
  PROVE  /\ i \in Before(ideas, i)
         /\ i \in Before(ideas, j) \/ j \in Before(ideas, i)
         /\ i \in Before(ideas, j) => Before(ideas, i) \subseteq Before(ideas, j)
         /\ i \in Before(ideas, j) /\ j \in Before(ideas, i) => i = j
         /\ i \in Before(ideas, j) => ideas[i].score >= ideas[j].score
  BY Scores DEF Before

LEMMA RankIsInjective ==
  ASSUME NEW ideas \in Seq(Ideas), NEW i \in 1..Len(ideas), NEW j \in 1..Len(ideas)
  PROVE  /\ RankOf(ideas, i) \in 1..Len(ideas)
         /\ RankOf(ideas, i) = RankOf(ideas, j) => i = j
         /\ RankOf(ideas, i) <= RankOf(ideas, j) => i \in Before(ideas, j)
<1> DEFINE n == Len(ideas)
<1>1. n \in Nat /\ DOMAIN ideas = 1..n
  BY Scores
<1>2. IsFiniteSet(1..n) /\ Cardinality(1..n) = n
  BY <1>1, CountUpTo
<1>3. \A k \in 1..n : RankOf(ideas, k) = Cardinality(Before(ideas, k))
  BY DEF RankOf, Before
<1>4. \A k \in 1..n : Before(ideas, k) \subseteq 1..n
  BY <1>1 DEF Before
<1>5. \A k \in 1..n : IsFiniteSet(Before(ideas, k)) /\ Cardinality(Before(ideas, k)) <= n
  BY <1>2, <1>4, FS_Subset
<1>6. \A k \in 1..n : Cardinality(Before(ideas, k)) \in Nat
  BY <1>5, FS_CardinalityType
<1>7. Cardinality(Before(ideas, i)) # 0
  BY <1>5, FS_EmptySet, BeforeIsOrdered
<1>8. RankOf(ideas, i) \in 1..n
  BY <1>1, <1>3, <1>5, <1>6, <1>7
<1>9. ASSUME RankOf(ideas, i) <= RankOf(ideas, j), i \notin Before(ideas, j)
      PROVE  FALSE
  <2>1. j \in Before(ideas, i) /\ Before(ideas, j) \subseteq Before(ideas, i) /\ i \in Before(ideas, i)
    BY <1>9, BeforeIsOrdered
  <2>2. Cardinality(Before(ideas, j)) <= Cardinality(Before(ideas, i))
    BY <1>5, <2>1, FS_Subset
  <2>3. Cardinality(Before(ideas, j)) = Cardinality(Before(ideas, i))
    BY <1>3, <1>6, <1>9, <2>2
  <2>4. Before(ideas, j) = Before(ideas, i)
    BY <1>5, <2>1, <2>3, FS_Subset
  <2>5. QED
    BY <1>9, <2>1, <2>4
<1>10. RankOf(ideas, i) = RankOf(ideas, j) => i = j
  <2> SUFFICES ASSUME RankOf(ideas, i) = RankOf(ideas, j) PROVE i = j
    OBVIOUS
  <2>1. Cardinality(Before(ideas, i)) = Cardinality(Before(ideas, j))
    BY <1>3
  <2>2. Before(ideas, i) = Before(ideas, j)
    <3>1. Before(ideas, i) \subseteq Before(ideas, j) \/ Before(ideas, j) \subseteq Before(ideas, i)
      BY BeforeIsOrdered
    <3>2. QED
      BY <1>5, <2>1, <3>1, FS_Subset
  <2>3. QED
    BY <2>2, BeforeIsOrdered
<1>11. QED
  BY <1>8, <1>9, <1>10

\* Every place of a result is some idea's rank.
LEMMA RankIsOnto ==
  ASSUME NEW ideas \in Seq(Ideas), NEW r \in 1..Len(ideas)
  PROVE  \E i \in 1..Len(ideas) : RankOf(ideas, i) = r
<1> DEFINE n     == Len(ideas)
           ranks == [i \in 1..n |-> RankOf(ideas, i)]
<1>1. n \in Nat
  BY Scores
<1>2. ranks \in [1..n -> 1..n] /\ \A i, j \in 1..n : ranks[i] = ranks[j] => i = j
  BY RankIsInjective
<1>3. ranks \in Injection(1..n, 1..n)
  BY <1>2 DEF Injection, IsInjective
<1>4. IsFiniteSet(1..n)
  BY <1>1, CountUpTo
<1>5. ranks \in Surjection(1..n, 1..n)
  <2> HIDE DEF n, ranks
  <2>1. QED
    BY <1>3, <1>4, FS_Injection
<1>6. \E i \in 1..n : ranks[i] = r
  BY <1>5 DEF Surjection
<1>7. QED
  BY <1>6

Falling(order) == \A r, s \in DOMAIN order : r <= s => order[r].score >= order[s].score

LEMMA RankedIsSorted ==
  ASSUME NEW ideas \in Seq(Ideas)
  PROVE  /\ Ranked(ideas) \in Seq(Ideas)
         /\ Falling(Ranked(ideas))
         /\ \A i \in DOMAIN ideas : \E r \in DOMAIN Ranked(ideas) : Ranked(ideas)[r] = ideas[i]
<1> DEFINE n     == Len(ideas)
           At(r) == CHOOSE i \in DOMAIN ideas : RankOf(ideas, i) = r
<1>1. n \in Nat /\ DOMAIN ideas = 1..n
  BY Scores
<1>2. \A r \in 1..n : At(r) \in 1..n /\ RankOf(ideas, At(r)) = r
  BY <1>1, RankIsOnto
<1>3. DOMAIN Ranked(ideas) = 1..n /\ \A r \in 1..n : Ranked(ideas)[r] = ideas[At(r)]
  BY <1>1 DEF Ranked
<1> HIDE DEF At
<1>4. Ranked(ideas) \in [1..n -> Ideas]
  <2>1. Ranked(ideas) = [r \in 1..n |-> Ranked(ideas)[r]]
    BY <1>1 DEF Ranked
  <2>2. \A r \in 1..n : Ranked(ideas)[r] \in Ideas
    BY <1>2, <1>3, Scores
  <2>3. QED
    BY <2>1, <2>2
<1>5. Ranked(ideas) \in Seq(Ideas)
  BY <1>1, <1>4
<1>6. ASSUME NEW r \in 1..n, NEW s \in 1..n, r <= s
      PROVE  Ranked(ideas)[r].score >= Ranked(ideas)[s].score
  <2>1. RankOf(ideas, At(r)) <= RankOf(ideas, At(s))
    BY <1>2, <1>6
  <2>2. ideas[At(r)].score >= ideas[At(s)].score
    BY <1>2, <2>1, RankIsInjective, BeforeIsOrdered
  <2>3. QED
    BY <1>3, <2>2
<1>7. ASSUME NEW i \in 1..n
      PROVE  \E r \in 1..n : Ranked(ideas)[r] = ideas[i]
  <2>1. RankOf(ideas, i) \in 1..n
    BY RankIsInjective
  <2>2. At(RankOf(ideas, i)) = i
    BY <1>2, <2>1, RankIsInjective
  <2>3. QED
    BY <1>3, <2>1, <2>2
<1>8. QED
  BY <1>1, <1>3, <1>5, <1>6, <1>7 DEF Falling

--------------------------------------------------------------------------------
(* The greedy choice from a sorted list: what holds of the ideas chosen after the *)
(* first k.                                                                       *)

Distinct(chosen) ==
  \A i, j \in DOMAIN chosen :
    i # j => chosen[i].sector # chosen[j].sector /\ ~SameSubject(chosen[i], chosen[j])

\* Idea c is chosen, or there is a reason why not.
Justified(chosen, c) ==
  \/ \E i \in DOMAIN chosen : chosen[i] = c
  \/ Len(chosen) = ResultCount /\ \A i \in DOMAIN chosen : chosen[i].score >= c.score
  \/ \E i \in DOMAIN chosen : /\ chosen[i].score >= c.score
                              /\ chosen[i].sector = c.sector \/ SameSubject(chosen[i], c)

BestOf(chosen, order, k) ==
  /\ chosen \in Seq(Ideas) /\ Len(chosen) <= ResultCount
  /\ Distinct(chosen)
  /\ \A i \in DOMAIN chosen : \E r \in 1..k : chosen[i] = order[r]
  /\ \A r \in 1..k : Justified(chosen, order[r])

LEMMA SubjectsAreShared ==
  ASSUME NEW c, NEW d
  PROVE  SameSubject(c, d) <=> SameSubject(d, c)
<1>1. c.words \cap d.words = d.words \cap c.words /\ {c.words, d.words} = {d.words, c.words}
  OBVIOUS
<1>2. QED
  BY <1>1, Zenon DEF SameSubject

LEMMA GreedyAppends ==
  ASSUME NEW order \in Seq(Ideas), Falling(order), NEW k \in 1..Len(order), NEW chosen,
         BestOf(chosen, order, k - 1), Len(chosen) < ResultCount, ~Repeats(order[k], chosen)
  PROVE  BestOf(Append(chosen, order[k]), order, k)
<1> DEFINE c    == order[k]
           next == Append(chosen, c)
           m    == Len(chosen)
<1>1. /\ chosen \in Seq(Ideas) /\ m \in Nat /\ DOMAIN chosen = 1..m
      /\ c \in Ideas /\ ResultCount \in Nat
  BY Scores, CountAssumption DEF BestOf
<1>2. /\ next \in Seq(Ideas) /\ Len(next) = m + 1 /\ DOMAIN next = 1..(m + 1)
      /\ next[m + 1] = c /\ \A i \in 1..m : next[i] = chosen[i]
  BY <1>1
<1>3. 1..(m + 1) = (1..m) \cup {m + 1} /\ m + 1 \notin 1..m
  BY <1>1
<1>4. k \in Nat \ {0} /\ 1..k = (1..(k - 1)) \cup {k} /\ DOMAIN order = 1..Len(order) /\ Len(order) \in Nat
  OBVIOUS
<1> HIDE DEF c, next, m
<1>5. \A i \in 1..m : chosen[i].sector # c.sector /\ ~SameSubject(c, chosen[i]) /\ ~SameSubject(chosen[i], c)
  BY <1>1, SubjectsAreShared DEF Repeats, c
<1>6. Distinct(next)
  BY <1>1, <1>2, <1>3, <1>5 DEF Distinct, BestOf
<1>7. \A i \in DOMAIN next : \E r \in 1..k : next[i] = order[r]
  BY <1>1, <1>2, <1>3, <1>4 DEF BestOf, c
<1>8. ASSUME NEW r \in 1..k
      PROVE  Justified(next, order[r])
  <2>1. CASE r = k
    BY <1>2, <1>3, <2>1 DEF Justified, c
  <2>2. CASE r # k
    <3>1. r \in 1..(k - 1) /\ Justified(chosen, order[r]) /\ Len(chosen) # ResultCount
      BY <1>1, <1>4, <2>2 DEF BestOf, m
    <3>2. \E i \in 1..m : \/ chosen[i] = order[r]
                          \/ /\ chosen[i].score >= order[r].score
                             /\ chosen[i].sector = order[r].sector \/ SameSubject(chosen[i], order[r])
      BY <1>1, <3>1 DEF Justified
    <3>3. QED
      BY <1>2, <1>3, <3>2 DEF Justified
  <2>3. QED
    BY <2>1, <2>2
<1>9. Len(next) <= ResultCount
  BY <1>1, <1>2 DEF m
<1>10. QED
  BY <1>2, <1>6, <1>7, <1>8, <1>9 DEF BestOf, next, c

LEMMA GreedySkips ==
  ASSUME NEW order \in Seq(Ideas), Falling(order), NEW k \in 1..Len(order), NEW chosen,
         BestOf(chosen, order, k - 1), ~(Len(chosen) < ResultCount) \/ Repeats(order[k], chosen)
  PROVE  BestOf(chosen, order, k)
<1> DEFINE c == order[k]
           m == Len(chosen)
<1>1. /\ chosen \in Seq(Ideas) /\ m \in Nat /\ DOMAIN chosen = 1..m /\ m <= ResultCount
      /\ c \in Ideas /\ ResultCount \in Nat
  BY Scores, CountAssumption DEF BestOf
<1>2. k \in Nat \ {0} /\ 1..k = (1..(k - 1)) \cup {k} /\ DOMAIN order = 1..Len(order) /\ Len(order) \in Nat
  OBVIOUS
<1>3. \A i \in DOMAIN chosen : chosen[i].score >= c.score
  <2> SUFFICES ASSUME NEW i \in DOMAIN chosen PROVE chosen[i].score >= c.score
    OBVIOUS
  <2>1. PICK r \in 1..(k - 1) : chosen[i] = order[r]
    BY DEF BestOf
  <2>2. r \in DOMAIN order /\ k \in DOMAIN order /\ r <= k
    BY <1>2
  <2>3. order[r].score >= order[k].score
    BY <2>2 DEF Falling
  <2>4. QED
    BY <2>1, <2>3
<1>4. Justified(chosen, c)
  <2>1. CASE ~(m < ResultCount)
    <3>1. Len(chosen) = ResultCount
      <4>1. m \in Nat /\ ResultCount \in Nat /\ m <= ResultCount /\ ~(m < ResultCount)
        BY <1>1, <2>1
      <4> HIDE DEF m
      <4>2. m = ResultCount
        BY <4>1
      <4>3. QED
        BY <4>2 DEF m
    <3>2. QED
      BY <1>3, <3>1, Zenon DEF Justified
  <2>2. CASE Repeats(c, chosen)
    BY <1>3, <2>2, SubjectsAreShared DEF Repeats, Justified
  <2>3. QED
    BY <2>1, <2>2
<1>5. QED
  BY <1>2, <1>4 DEF BestOf

\* The list chosen from a sorted list is the best one.
LEMMA GreedyIsBest ==
  ASSUME NEW order \in Seq(Ideas), Falling(order)
  PROVE  BestOf(Greedy(order), order, Len(order))
<1> DEFINE n == Len(order)
<1>1. n \in Nat
  OBVIOUS
<1>2. PICK g : /\ Runs(g, Seq(Ideas), <<>>, GreedyStep(order), n)
               /\ g[n] = Greedy(order)
  BY GreedyRuns DEF RunsTo
<1> DEFINE S == {k \in 0..n : BestOf(g[k], order, k)}
<1>3. 0 \in S
  <2>1. g[0] = <<>>
    BY <1>2 DEF Runs
  <2>2. BestOf(<<>>, order, 0)
    BY CountAssumption DEF BestOf, Distinct
  <2>3. QED
    BY <1>1, <2>1, <2>2
<1>4. ASSUME NEW k \in 1..n, k - 1 \in S
      PROVE  k \in S
  <2>1. BestOf(g[k - 1], order, k - 1) /\ g[k - 1] \in Seq(Ideas)
    BY <1>4 DEF BestOf
  <2>2. g[k] = GreedyStep(order)[<<g[k - 1], k>>]
    BY <1>2 DEF Runs
  <2>3. <<g[k - 1], k>> \in Seq(Ideas) \X (1..Len(order))
    BY <2>1
  <2>4. g[k] = IF Len(g[k - 1]) < ResultCount /\ ~Repeats(order[k], g[k - 1])
               THEN Append(g[k - 1], order[k]) ELSE g[k - 1]
    BY <2>2, <2>3 DEF GreedyStep
  <2>5. BestOf(g[k], order, k)
    BY <2>1, <2>4, GreedyAppends, GreedySkips
  <2>6. k \in 0..n
    OBVIOUS
  <2>7. QED
    BY <2>5, <2>6
<1>5. \A k \in 0..n : k \in S
  <2> HIDE DEF S
  <2>1. QED
    BY <1>1, <1>3, <1>4, UpTo
<1>6. BestOf(g[n], order, n)
  BY <1>1, <1>5
<1>7. QED
  BY <1>2, <1>6

\* What is selected is typed, distinct, and leaves out nothing without a reason.
LEMMA SelectionIsBestOf ==
  ASSUME NEW ideas \in Seq(Ideas)
  PROVE  /\ Selection(ideas) \in Seq(Ideas) /\ Len(Selection(ideas)) <= ResultCount
         /\ Distinct(Selection(ideas))
         /\ \A i \in DOMAIN ideas : Justified(Selection(ideas), ideas[i])
<1> DEFINE order == Ranked(ideas)
<1>1. order \in Seq(Ideas) /\ Falling(order) /\ \A i \in DOMAIN ideas : \E r \in DOMAIN order : order[r] = ideas[i]
  BY RankedIsSorted
<1>2. BestOf(Greedy(order), order, Len(order)) /\ DOMAIN order = 1..Len(order)
  <2> HIDE DEF order
  <2>1. QED
    BY <1>1, GreedyIsBest
<1>3. Selection(ideas) = Greedy(order)
  BY DEF Selection
<1> HIDE DEF order
<1>4. QED
  BY <1>1, <1>2, <1>3 DEF BestOf

--------------------------------------------------------------------------------
(* The score of a candidate is between 0 and 1000 tenths of a point. *)

LEMMA CitedIsFinite ==
  ASSUME NEW c \in Pool, NEW sources, IsFiniteSet(DOMAIN sources)
  PROVE  IsFiniteSet(Cited(c, sources))
<1>1. IsFiniteSet(DOMAIN c.cites)
  BY PoolAssumption
<1>2. IsFiniteSet((DOMAIN c.cites) \X (DOMAIN sources))
  BY <1>1, FS_Product
<1>3. Cited(c, sources) \in SUBSET ((DOMAIN c.cites) \X (DOMAIN sources))
  BY DEF Cited
<1>4. QED
  BY <1>2, <1>3, FS_Subset

LEMMA NearestIsNatural ==
  ASSUME NEW a \in Nat, NEW b \in Nat \ {0}
  PROVE  Nearest(a, b) \in Nat
<1>1. 2 * a + b \in Nat /\ 2 * b \in Nat \ {0}
  OBVIOUS
<1>2. QED
  BY <1>1 DEF Nearest

LEMMA ScoreIsBounded ==
  ASSUME NEW c \in Pool, NEW ev, IsFiniteSet(DOMAIN ev.sources)
  PROVE  Score(c, ev) \in 0..1000
<1> DEFINE cited       == Cited(c, ev.sources)
           source(use) == ev.sources[use[2]]
           current     == Cardinality({use \in cited : Current(source(use))})
           relevant    == Cardinality({use \in cited : source(use).uae})
           high        == Cardinality({use \in cited : source(use).credibility = "high"})
           named       == {source(use).domain : use \in cited}
           domains     == Cardinality(named \ {None})
           signals     == Cardinality(Signals(c, ev.signals))
           independent == Cardinality(cited) >= 2 /\ domains >= 2
           uae          == Least(200, 120 + 20 * relevant)
           timeliness   == IF current > 0 THEN Least(200, 100 + 30 * current) ELSE 40
           youtube      == IF signals > 0 THEN Least(150, 50 + 25 * signals) ELSE 30
           significance == Least(150, 80 + 10 * Cardinality(cited) + Nearest(10 * c.significance, 180))
           editorial    == Least(150, 80 + 10 * c.details + Nearest(10 * c.tension, 120))
           feasibility  == Least(100, 50 + 10 * c.details)
           quality      == IF independent THEN Least(50, 10 + 10 * domains + 5 * high) ELSE 0
<1>1. IsFiniteSet(cited)
  BY CitedIsFinite
<1>2. Cardinality(cited) \in Nat
  BY <1>1, FS_CardinalityType
<1>3. \A T \in SUBSET cited : Cardinality(T) \in Nat
  BY <1>1, FS_Subset, FS_CardinalityType
<1>4. current \in Nat /\ relevant \in Nat /\ high \in Nat
  <2> HIDE DEF cited
  <2>1. {use \in cited : Current(source(use))} \in SUBSET cited /\ {use \in cited : source(use).uae} \in SUBSET cited
        /\ {use \in cited : source(use).credibility = "high"} \in SUBSET cited
    OBVIOUS
  <2>2. QED
    BY <1>3, <2>1
<1>5. domains \in Nat
  <2> DEFINE domain == [use \in cited |-> source(use).domain]
  <2>1. domain \in Surjection(cited, named)
    BY DEF Surjection
  <2> HIDE DEF cited, named, domain
  <2>2. IsFiniteSet(named)
    BY <1>1, <2>1, FS_Surjection
  <2>3. (named \ {None}) \in SUBSET named
    OBVIOUS
  <2>4. QED
    BY <2>2, <2>3, FS_Subset, FS_CardinalityType
<1>6. signals \in Nat
  <2>1. IsFiniteSet(DOMAIN c.signals) /\ Signals(c, ev.signals) \in SUBSET (DOMAIN c.signals)
    BY PoolAssumption DEF Signals
  <2>2. QED
    BY <2>1, FS_Subset, FS_CardinalityType
<1>7. c.details \in Nat /\ c.significance \in Nat /\ c.tension \in Nat
  BY PoolAssumption
<1>8. Nearest(10 * c.significance, 180) \in Nat /\ Nearest(10 * c.tension, 120) \in Nat
  <2>1. 10 * c.significance \in Nat /\ 10 * c.tension \in Nat /\ 180 \in Nat \ {0} /\ 120 \in Nat \ {0}
    BY <1>7
  <2>2. QED
    BY <2>1, NearestIsNatural
<1> HIDE DEF current, relevant, high, domains, signals, independent
<1>9. /\ \A x \in Nat : Least(200, x) \in 0..200 /\ Least(150, x) \in 0..150
      /\ \A x \in Nat : Least(100, x) \in 0..100 /\ Least(50, x) \in 0..50
  BY DEF Least
<1>10. uae \in 0..200 /\ timeliness \in 0..200
  <2>1. 120 + 20 * relevant \in Nat /\ 100 + 30 * current \in Nat
    BY <1>4
  <2>2. QED
    BY <1>9, <2>1
<1>11. youtube \in 0..150
  <2>1. 50 + 25 * signals \in Nat
    BY <1>6
  <2>2. QED
    BY <1>9, <2>1
<1>12. significance \in 0..150
  <2>1. 80 + 10 * Cardinality(cited) + Nearest(10 * c.significance, 180) \in Nat
    BY <1>2, <1>8
  <2>2. QED
    BY <1>9, <2>1
<1>13. editorial \in 0..150 /\ feasibility \in 0..100
  <2>1. 80 + 10 * c.details + Nearest(10 * c.tension, 120) \in Nat /\ 50 + 10 * c.details \in Nat
    BY <1>7, <1>8
  <2>2. QED
    BY <1>9, <2>1
<1>14. quality \in 0..50
  <2>1. 10 + 10 * domains + 5 * high \in Nat
    BY <1>4, <1>5
  <2>2. QED
    BY <1>9, <2>1
<1>15. Score(c, ev) = uae + timeliness + youtube + significance + editorial + feasibility + quality
  BY DEF Score, current, relevant, high, domains, signals, independent
<1> HIDE DEF uae, timeliness, youtube, significance, editorial, feasibility, quality
<1>16. QED
  BY <1>10, <1>11, <1>12, <1>13, <1>14, <1>15

--------------------------------------------------------------------------------
(* What is kept of research, and the candidates accepted, are lists of their types. *)

LEMMA ScoredTyped ==
  ASSUME NEW c \in Pool, IsFiniteSet(DOMAIN evidence.sources)
  PROVE  Scored(c) \in Ideas
<1>1. Score(c, evidence) \in 0..1000
  BY ScoreIsBounded
<1>2. QED
  BY <1>1 DEF Scored, Ideas

LEMMA AcceptTyped ==
  ASSUME NEW before \in Seq(Ideas), NEW n \in Nat, NEW answer \in [1..n -> Pool],
         IsFiniteSet(DOMAIN evidence.sources)
  PROVE  Accept(before, answer) \in Seq(Ideas)
<1> DEFINE D    == Seq(Ideas)
           base == before
           Add(v, i) == IF Valid(answer[i], evidence) /\ answer[i].title \notin Titles(v)
                        THEN Append(v, Scored(answer[i])) ELSE v
           step == [at \in D \X (1..n) |-> Add(at[1], at[2])]
           Body(f) == [t \in SUBSET (1..n) |->
                         IF t = {} THEN base ELSE Add(f[t \ {Max(t)}], Max(t))]
           iter == CHOOSE f : f = Body(f)
<1>1. n \in Nat /\ DOMAIN answer = 1..n /\ base \in D
  OBVIOUS
<1>2. step \in [D \X (1..n) -> D]
  <2>1. \A i \in 1..n : Scored(answer[i]) \in Ideas
    BY ScoredTyped
  <2>2. QED
    BY <2>1
<1>3. Accept(before, answer) = iter[1..n]
  BY <1>1, Zenon DEF Accept, FoldLeft, MapThenFoldSet
<1> HIDE DEF Add
<1>4. \E f : f = Body(f)
  <2>1. PICK f \in [SUBSET (1..n) -> D] : FoldsTo(f, base, step, n)
    <3> HIDE DEF D, base, step
    <3>1. QED
      BY <1>1, <1>2, FoldExists DEF Foldable
  <2>2. ASSUME NEW t \in SUBSET (1..n)
        PROVE  f[t] = Body(f)[t]
    <3>1. CASE t = {}
      BY <2>1, <3>1 DEF FoldsTo
    <3>2. CASE t # {}
      <4>1. Max(t) \in 1..n
        BY <1>1, <3>2, MaxBelow
      <4>2. f[t \ {Max(t)}] \in D
        BY <2>1
      <4>3. f[t] = step[<<f[t \ {Max(t)}], Max(t)>>]
        BY <2>1, <3>2 DEF FoldsTo
      <4>4. QED
        BY <3>2, <4>1, <4>2, <4>3
    <3>3. QED
      BY <3>1, <3>2
  <2>3. f = Body(f)
    BY <2>1, <2>2
  <2>4. QED
    BY <2>3
<1>5. iter = Body(iter)
  BY <1>4
<1>6. iter[{}] = base
  BY <1>5
<1>7. ASSUME NEW k \in 1..n, iter[1..(k - 1)] \in D
      PROVE  iter[1..k] = step[<<iter[1..(k - 1)], k>>]
  <2>1. k \in Nat \ {0} /\ (1..k) \in SUBSET (1..n)
    BY <1>1
  <2>2. Max(1..k) = k /\ (1..k) # {} /\ (1..k) \ {k} = 1..(k - 1)
    BY <2>1, LastOfPrefix, Prefix
  <2>3. \A t \in SUBSET (1..n) : iter[t] = Body(iter)[t]
    BY <1>5
  <2> HIDE DEF iter
  <2>4. iter[1..k] = Body(iter)[1..k]
    BY <2>1, <2>3
  <2>5. QED
    BY <1>7, <2>1, <2>2, <2>4
<1>8. Iterates(iter, D, base, step, n)
  BY <1>6, <1>7 DEF Iterates
<1>9. iter[1..n] \in D
  <2> HIDE DEF D, base, step, iter, Body
  <2>1. RunsTo(iter[1..n], D, base, step, n)
    BY <1>1, <1>2, <1>8, FoldRuns
  <2>2. QED
    BY <1>1, <2>1 DEF RunsTo, Runs
<1>10. QED
  BY <1>3, <1>9

\* A list cut to what a run keeps.
Prepared(kept) == Len(kept) \in 0..MaxPrepared /\ DOMAIN kept = 1..Len(kept)

LEMMA FirstOfIsPrepared ==
  ASSUME NEW R, NEW s \in Seq(R)
  PROVE  Prepared(FirstOf(s))
<1> DEFINE m == Least(MaxPrepared, Len(s))
<1>1. m \in 0..MaxPrepared /\ m <= Len(s)
  BY PreparedAssumption DEF Least
<1>2. Len(SubSeq(s, 1, m)) = m /\ DOMAIN SubSeq(s, 1, m) = 1..m
  BY <1>1
<1>3. QED
  BY <1>1, <1>2 DEF Prepared, FirstOf

LEMMA SourcesTyped ==
  ASSUME NEW list, Len(list) \in Nat, DOMAIN list = 1..Len(list)
  PROVE  Prepared(PrepareSources(list))
<1> DEFINE n    == Len(list)
           D    == Seq({list[i] : i \in 1..n})
           base == <<>>
           Add(v, i) == IF list[i].kind = "youtube_benchmark" \/ \E j \in DOMAIN v : KeyOf(v[j]) = KeyOf(list[i])
                        THEN v ELSE Append(v, list[i])
           step == [at \in D \X (1..n) |-> Add(at[1], at[2])]
           Body(f) == [t \in SUBSET (1..n) |->
                         IF t = {} THEN base ELSE Add(f[t \ {Max(t)}], Max(t))]
           iter == CHOOSE f : f = Body(f)
<1>1. n \in Nat /\ DOMAIN list = 1..n /\ base \in D
  OBVIOUS
<1>2. step \in [D \X (1..n) -> D]
  <2> DEFINE members == {list[i] : i \in 1..n}
  <2>1. \A i \in 1..n : list[i] \in members
    OBVIOUS
  <2>2. QED
    BY <2>1
<1>3. PrepareSources(list) = FirstOf(iter[1..n])
  BY <1>1, Zenon DEF PrepareSources, FoldLeft, MapThenFoldSet
<1> HIDE DEF Add
<1>4. \E f : f = Body(f)
  <2>1. PICK f \in [SUBSET (1..n) -> D] : FoldsTo(f, base, step, n)
    <3> HIDE DEF n, D, base, step
    <3>1. QED
      BY <1>1, <1>2, FoldExists DEF Foldable
  <2>2. ASSUME NEW t \in SUBSET (1..n)
        PROVE  f[t] = Body(f)[t]
    <3>1. CASE t = {}
      BY <2>1, <3>1 DEF FoldsTo
    <3>2. CASE t # {}
      <4>1. Max(t) \in 1..n
        BY <1>1, <3>2, MaxBelow
      <4>2. f[t \ {Max(t)}] \in D
        BY <2>1
      <4>3. f[t] = step[<<f[t \ {Max(t)}], Max(t)>>]
        BY <2>1, <3>2 DEF FoldsTo
      <4>4. QED
        BY <3>2, <4>1, <4>2, <4>3
    <3>3. QED
      BY <3>1, <3>2
  <2>3. f = Body(f)
    BY <2>1, <2>2
  <2>4. QED
    BY <2>3
<1>5. iter = Body(iter)
  BY <1>4
<1>6. iter[{}] = base
  BY <1>5
<1>7. ASSUME NEW k \in 1..n, iter[1..(k - 1)] \in D
      PROVE  iter[1..k] = step[<<iter[1..(k - 1)], k>>]
  <2>1. k \in Nat \ {0} /\ (1..k) \in SUBSET (1..n)
    BY <1>1
  <2>2. Max(1..k) = k /\ (1..k) # {} /\ (1..k) \ {k} = 1..(k - 1)
    BY <2>1, LastOfPrefix, Prefix
  <2>3. \A t \in SUBSET (1..n) : iter[t] = Body(iter)[t]
    BY <1>5
  <2> HIDE DEF iter
  <2>4. iter[1..k] = Body(iter)[1..k]
    BY <2>1, <2>3
  <2>5. QED
    BY <1>7, <2>1, <2>2, <2>4
<1>8. Iterates(iter, D, base, step, n)
  BY <1>6, <1>7 DEF Iterates
<1>9. iter[1..n] \in D
  <2> HIDE DEF n, D, base, step, iter, Body
  <2>1. RunsTo(iter[1..n], D, base, step, n)
    BY <1>1, <1>2, <1>8, FoldRuns
  <2>2. QED
    BY <1>1, <2>1 DEF RunsTo, Runs
<1>10. QED
  BY <1>3, <1>9, FirstOfIsPrepared

LEMMA SignalsTyped ==
  ASSUME NEW list, Len(list) \in Nat, DOMAIN list = 1..Len(list)
  PROVE  Prepared(PrepareSignals(list))
<1> DEFINE n    == Len(list)
           D    == Seq({list[i] : i \in 1..n})
           base == <<>>
           Add(v, i) == IF list[i].topic = None THEN v ELSE Append(v, list[i])
           step == [at \in D \X (1..n) |-> Add(at[1], at[2])]
           Body(f) == [t \in SUBSET (1..n) |->
                         IF t = {} THEN base ELSE Add(f[t \ {Max(t)}], Max(t))]
           iter == CHOOSE f : f = Body(f)
<1>1. n \in Nat /\ DOMAIN list = 1..n /\ base \in D
  OBVIOUS
<1>2. step \in [D \X (1..n) -> D]
  <2> DEFINE members == {list[i] : i \in 1..n}
  <2>1. \A i \in 1..n : list[i] \in members
    OBVIOUS
  <2>2. QED
    BY <2>1
<1>3. PrepareSignals(list) = FirstOf(iter[1..n])
  BY <1>1, Zenon DEF PrepareSignals, FoldLeft, MapThenFoldSet
<1> HIDE DEF Add
<1>4. \E f : f = Body(f)
  <2>1. PICK f \in [SUBSET (1..n) -> D] : FoldsTo(f, base, step, n)
    <3> HIDE DEF n, D, base, step
    <3>1. QED
      BY <1>1, <1>2, FoldExists DEF Foldable
  <2>2. ASSUME NEW t \in SUBSET (1..n)
        PROVE  f[t] = Body(f)[t]
    <3>1. CASE t = {}
      BY <2>1, <3>1 DEF FoldsTo
    <3>2. CASE t # {}
      <4>1. Max(t) \in 1..n
        BY <1>1, <3>2, MaxBelow
      <4>2. f[t \ {Max(t)}] \in D
        BY <2>1
      <4>3. f[t] = step[<<f[t \ {Max(t)}], Max(t)>>]
        BY <2>1, <3>2 DEF FoldsTo
      <4>4. QED
        BY <3>2, <4>1, <4>2, <4>3
    <3>3. QED
      BY <3>1, <3>2
  <2>3. f = Body(f)
    BY <2>1, <2>2
  <2>4. QED
    BY <2>3
<1>5. iter = Body(iter)
  BY <1>4
<1>6. iter[{}] = base
  BY <1>5
<1>7. ASSUME NEW k \in 1..n, iter[1..(k - 1)] \in D
      PROVE  iter[1..k] = step[<<iter[1..(k - 1)], k>>]
  <2>1. k \in Nat \ {0} /\ (1..k) \in SUBSET (1..n)
    BY <1>1
  <2>2. Max(1..k) = k /\ (1..k) # {} /\ (1..k) \ {k} = 1..(k - 1)
    BY <2>1, LastOfPrefix, Prefix
  <2>3. \A t \in SUBSET (1..n) : iter[t] = Body(iter)[t]
    BY <1>5
  <2> HIDE DEF iter
  <2>4. iter[1..k] = Body(iter)[1..k]
    BY <2>1, <2>3
  <2>5. QED
    BY <1>7, <2>1, <2>2, <2>4
<1>8. Iterates(iter, D, base, step, n)
  BY <1>6, <1>7 DEF Iterates
<1>9. iter[1..n] \in D
  <2> HIDE DEF n, D, base, step, iter, Body
  <2>1. RunsTo(iter[1..n], D, base, step, n)
    BY <1>1, <1>2, <1>8, FoldRuns
  <2>2. QED
    BY <1>1, <2>1 DEF RunsTo, Runs
<1>10. QED
  BY <1>3, <1>9, FirstOfIsPrepared

--------------------------------------------------------------------------------
(* The inductive invariant of the result: every variable stays within its type, *)
(* the evidence kept is a pair of lists, and only a run that is done has selected. *)

Evident == Prepared(evidence.sources) /\ Prepared(evidence.signals)
Chosen  == selected = IF pc = "done" THEN Selection(accepted) ELSE <<>>

Typed == TypeOK /\ Evident /\ Chosen

LEMMA TypedInit == Init => Typed
<1> SUFFICES ASSUME Init PROVE Typed
  OBVIOUS
<1>1. TypeOK
  BY CostAssumption, CountAssumption, PreparedAssumption DEF Init, TypeOK
<1>2. Evident
  BY PreparedAssumption DEF Init, Evident, Prepared
<1>3. QED
  BY <1>1, <1>2 DEF Init, Typed, Chosen

\* What a step needs that ends no run with a result, research and its ledger apart.
LEMMA TypedQuiet ==
  ASSUME Typed, pc # "done", pc' \in {"gate", "synthesis", "deficit", "repair", "select", "failed"},
         UNCHANGED <<researched, evidence, selected, calls>>,
         spent' \in Nat, left' \in 0..TotalTime, digest' \in 0..Len(Digests),
         accepted' \in Seq(Ideas), error' \in Errors \cup {"none"}
  PROVE  Typed'
<1>1. TypeOK'
  BY DEF Typed, TypeOK, Ended
<1>2. Evident'
  BY DEF Typed, Evident
<1>3. Chosen'
  BY DEF Typed, Chosen
<1>4. QED
  BY <1>1, <1>2, <1>3 DEF Typed

\* What a step needs that ends the run with an error.
LEMMA TypedFail ==
  ASSUME Typed, pc # "done", NEW code \in Errors, Fail(code), spent' \in Nat, UNCHANGED <<left, evidence>>
  PROVE  Typed'
<1>1. accepted \in Seq(Ideas) /\ left \in 0..TotalTime /\ digest \in 0..Len(Digests)
  BY DEF Typed, TypeOK
<1>2. QED
  BY <1>1, TypedQuiet DEF Fail

LEMMA AnswerAccepted ==
  ASSUME Typed, NEW answer \in Answers
  PROVE  Accept(accepted, answer) \in Seq(Ideas)
<1>1. PICK n \in 1..MaxOutput : answer \in [1..n -> Pool]
  BY DEF Answers
<1>2. n \in Nat
  BY CountAssumption
<1>3. IsFiniteSet(DOMAIN evidence.sources)
  <2>1. Len(evidence.sources) \in Nat /\ DOMAIN evidence.sources = 1..Len(evidence.sources)
    BY PreparedAssumption DEF Typed, Evident, Prepared
  <2>2. QED
    BY <2>1, CountUpTo
<1>4. accepted \in Seq(Ideas)
  BY DEF Typed, TypeOK
<1>5. QED
  BY <1>1, <1>2, <1>3, <1>4, AcceptTyped

LEMMA ChargeTyped ==
  ASSUME Typed, NEW worst, Charge(worst), worst \in Nat
  PROVE  spent' \in Nat
BY DEF Typed, TypeOK, Charge

LEMMA EvidenceTyped ==
  ASSUME Typed, ResearchEnds
  PROVE  Typed'
<1>1. PICK package \in Packages, rows \in Trends :
        /\ evidence' = [sources |-> PrepareSources(package), signals |-> PrepareSignals(rows)]
        /\ IF Cardinality(Domains(evidence'.sources)) < 2 THEN Fail("insufficient_evidence")
           ELSE pc' = "gate" /\ UNCHANGED <<calls, researched, digest, accepted, selected, error>>
  BY DEF ResearchEnds
<1>2. Len(package) \in Nat /\ DOMAIN package = 1..Len(package)
  BY EvidenceAssumption
<1>3. Len(rows) \in Nat /\ DOMAIN rows = 1..Len(rows)
  BY EvidenceAssumption
<1>4. Evident'
  BY <1>1, <1>2, <1>3, SourcesTyped, SignalsTyped DEF Evident
<1>5. /\ UNCHANGED <<spent, calls, researched, digest, accepted, selected>>
      /\ pc' \in {"gate", "failed"} /\ error' \in Errors \cup {"none"} /\ pc = "research"
  BY <1>1 DEF ResearchEnds, Fail, Typed, TypeOK, Errors
<1>6. left' \in 0..TotalTime
  <2>1. left' \in 0..left /\ left \in 0..TotalTime /\ TotalTime \in Nat
    BY CountAssumption DEF ResearchEnds, Typed, TypeOK
  <2>2. QED
    BY <2>1
<1>7. Len(evidence'.sources) <= MaxPrepared /\ Len(evidence'.signals) <= MaxPrepared
  BY <1>4, PreparedAssumption DEF Evident, Prepared
<1>8. TypeOK'
  BY <1>5, <1>6, <1>7 DEF Typed, TypeOK, Ended
<1>9. Chosen'
  BY <1>5 DEF Typed, Chosen
<1>10. QED
  BY <1>4, <1>8, <1>9 DEF Typed

LEMMA TypedStep == Typed /\ Reserved /\ [Next]_vars => Typed'
<1> SUFFICES ASSUME Typed, Reserved, [Next]_vars PROVE Typed'
  OBVIOUS
<1>0. /\ spent \in Nat /\ researched \in Nat /\ left \in 0..TotalTime /\ calls \in 0..MaxResearch
      /\ digest \in 0..Len(Digests) /\ accepted \in Seq(Ideas) /\ error \in Errors \cup {"none"}
      /\ TotalTime \in Nat
  BY CountAssumption DEF Typed, TypeOK
<1>1. CASE ResearchCall
  <2>1. PICK cost \in ResearchCosts : spent' = spent + cost /\ researched' = researched + cost
    BY <1>1 DEF ResearchCall
  <2>2. cost \in Nat /\ MaxResearch \in Nat
    BY CostAssumption
  <2>3. spent' \in Nat /\ researched' \in Nat
    BY <1>0, <2>1, <2>2
  <2>4. calls' \in 0..MaxResearch
    BY <1>0, <1>1, <2>2 DEF ResearchCall
  <2>5. TypeOK'
    BY <1>1, <2>3, <2>4 DEF ResearchCall, Typed, TypeOK
  <2>6. Evident' /\ Chosen'
    BY <1>1 DEF ResearchCall, Typed, Evident, Chosen
  <2>7. QED
    BY <2>5, <2>6 DEF Typed
<1>2. CASE ResearchEnds
  BY <1>2, EvidenceTyped
<1>3. CASE ResearchFails
  <2>1. PICK code \in {"research_timed_out", "generation_failed"} : Fail(code)
    BY <1>3 DEF ResearchFails
  <2>2. code \in Errors
    BY DEF Errors
  <2>3. QED
    BY <1>0, <1>3, <2>1, <2>2, TypedFail DEF ResearchFails
<1>4. CASE ChooseDigest
  <2> DEFINE fitting == {k \in DOMAIN Digests : Affords(Digests[k])}
  <2>1. CASE fitting = {}
    <3>1. Fail("budget_exceeded") /\ UNCHANGED <<spent, left, evidence>> /\ pc # "done"
      BY <1>4, <2>1 DEF ChooseDigest
    <3>2. "budget_exceeded" \in Errors
      BY DEF Errors
    <3>3. QED
      BY <1>0, <3>1, <3>2, TypedFail
  <2>2. CASE fitting # {}
    <3>1. PICK k \in fitting : digest' = k
      BY <1>4, <2>2 DEF ChooseDigest
    <3>2. digest' \in 0..Len(Digests)
      BY <3>1, CostAssumption
    <3>3. /\ pc # "done" /\ pc' = "synthesis"
          /\ UNCHANGED <<researched, evidence, selected, calls, spent, left, accepted, error>>
      BY <1>4, <2>2 DEF ChooseDigest
    <3>4. QED
      BY <1>0, <3>2, <3>3, TypedQuiet
  <2>3. QED
    BY <2>1, <2>2
<1>5. ASSUME NEW answer \in Answers, SynthesisAnswers(answer) PROVE Typed'
  <2>1. Digests[digest] \in Nat
    BY <1>5, DigestCost DEF SynthesisAnswers, Reserved, Fits
  <2>2. spent' \in Nat
    BY <1>5, <2>1, ChargeTyped DEF SynthesisAnswers
  <2>3. accepted' \in Seq(Ideas)
    BY <1>5, AnswerAccepted DEF SynthesisAnswers
  <2>4. left' \in 0..TotalTime
    <3>1. left' \in 0..left
      BY <1>5 DEF SynthesisAnswers
    <3>2. QED
      BY <1>0, <3>1
  <2>5. pc # "done" /\ pc' \in {"deficit", "select"}
    BY <1>5 DEF SynthesisAnswers
  <2>6. UNCHANGED <<calls, researched, digest, evidence, selected, error>>
    BY <1>5 DEF SynthesisAnswers
  <2>7. QED
    BY <1>0, <2>2, <2>3, <2>4, <2>5, <2>6, TypedQuiet
<1>6. CASE SynthesisFails
  <2>1. Digests[digest] \in Nat
    BY <1>6, DigestCost DEF SynthesisFails, Reserved, Fits
  <2>2. spent' \in Nat
    BY <1>0, <1>6, <2>1, ChargeTyped DEF SynthesisFails
  <2>3. PICK code \in {"synthesis_timed_out", "generation_failed"} : Fail(code)
    BY <1>6 DEF SynthesisFails
  <2>4. code \in Errors
    BY DEF Errors
  <2>5. QED
    BY <1>6, <2>2, <2>3, <2>4, TypedFail DEF SynthesisFails
<1>7. CASE ConsiderRepair
  <2>1. pc # "done" /\ pc' \in {"repair", "select"}
    BY <1>7 DEF ConsiderRepair
  <2>2. QED
    BY <1>0, <1>7, <2>1, TypedQuiet DEF ConsiderRepair
<1>8. ASSUME NEW answer \in Answers, RepairAnswers(answer) PROVE Typed'
  <2>1. accepted' \in Seq(Ideas)
    BY <1>8, AnswerAccepted DEF RepairAnswers
  <2>2. spent' \in Nat
    BY <1>8, ChargeTyped, CostAssumption DEF RepairAnswers
  <2>3. QED
    BY <1>0, <1>8, <2>1, <2>2, TypedQuiet DEF RepairAnswers
<1>9. CASE RepairTimesOut
  <2>1. CASE accepted = <<>>
    <3>1. Fail("repair_timed_out") /\ "repair_timed_out" \in Errors
      BY <1>9, <2>1 DEF RepairTimesOut, Errors
    <3>2. QED
      BY <1>0, <1>9, <3>1, TypedFail DEF RepairTimesOut
  <2>2. CASE accepted # <<>>
    BY <1>0, <1>9, <2>2, TypedQuiet DEF RepairTimesOut
  <2>3. QED
    BY <2>1, <2>2
<1>10. CASE RepairFails
  <2>1. spent' \in Nat
    BY <1>10, ChargeTyped, CostAssumption DEF RepairFails
  <2>2. "generation_failed" \in Errors
    BY DEF Errors
  <2>3. QED
    BY <1>10, <2>1, <2>2, TypedFail DEF RepairFails
<1>11. CASE Select
  <2>1. CASE accepted = <<>>
    <3>1. Fail("insufficient_evidence") /\ "insufficient_evidence" \in Errors
      BY <1>11, <2>1 DEF Select, Errors
    <3>2. QED
      BY <1>0, <1>11, <3>1, TypedFail DEF Select
  <2>2. CASE accepted # <<>>
    <3>1. /\ selected' = Selection(accepted) /\ pc' = "done"
          /\ UNCHANGED <<calls, researched, digest, accepted, error, spent, left, evidence>>
      BY <1>11, <2>2 DEF Select
    <3>2. selected' \in Seq(Ideas) /\ Len(selected') <= ResultCount
      BY <1>0, <3>1, SelectionIsBestOf
    <3>3. TypeOK'
      BY <3>1, <3>2 DEF Typed, TypeOK, Ended
    <3>4. Evident' /\ Chosen'
      BY <3>1 DEF Typed, Evident, Chosen
    <3>5. QED
      BY <3>3, <3>4 DEF Typed
  <2>3. QED
    BY <2>1, <2>2
<1>12. CASE UNCHANGED vars
  <2>1. TypeOK' /\ Evident'
    BY <1>12 DEF vars, Typed, TypeOK, Evident
  <2>2. Chosen'
    BY <1>12 DEF vars, Typed, Chosen
  <2>3. QED
    BY <2>1, <2>2 DEF Typed
<1>13. QED
  BY <1>1, <1>2, <1>3, <1>4, <1>5, <1>6, <1>7, <1>8, <1>9, <1>10, <1>11, <1>12 DEF Next

\* The choice that a run returns is distinct, and leaves nothing out without a reason.
LEMMA ChosenIsCorrect == Typed => SelectionCorrect
<1> SUFFICES ASSUME Typed PROVE SelectionCorrect
  OBVIOUS
<1>1. accepted \in Seq(Ideas) /\ Chosen
  BY DEF Typed, TypeOK
<1>2. CASE pc = "done"
  <2>1. /\ selected \in Seq(Ideas) /\ Distinct(selected)
        /\ \A i \in DOMAIN accepted : Justified(selected, accepted[i])
    BY <1>1, <1>2, SelectionIsBestOf DEF Chosen
  <2>2. SelectionDistinct
    BY <2>1 DEF Distinct, SelectionDistinct
  <2>3. ASSUME NEW c \in ToSet(accepted) \ ToSet(selected)
        PROVE  LET better == {i \in DOMAIN selected : selected[i].score >= c.score} IN
               \/ Cardinality(better) = ResultCount
               \/ \E i \in better : selected[i].sector = c.sector \/ SameSubject(selected[i], c)
    <3> DEFINE better == {i \in DOMAIN selected : selected[i].score >= c.score}
    <3>1. Justified(selected, c)
      BY <2>1, <2>3 DEF ToSet
    <3>2. \A i \in DOMAIN selected : selected[i] # c
      BY <2>3 DEF ToSet
    <3>3. CASE Len(selected) = ResultCount /\ \A i \in DOMAIN selected : selected[i].score >= c.score
      <4>1. better = 1..Len(selected) /\ Len(selected) \in Nat
        BY <2>1, <3>3
      <4>2. Cardinality(better) = ResultCount
        BY <3>3, <4>1, CountUpTo
      <4>3. QED
        BY <4>2
    <3>4. CASE \E i \in DOMAIN selected :
                 /\ selected[i].score >= c.score
                 /\ selected[i].sector = c.sector \/ SameSubject(selected[i], c)
      BY <3>4, Zenon
    <3>5. QED
      BY <3>1, <3>2, <3>3, <3>4 DEF Justified
  <2>4. SelectionIsBest
    BY <2>3 DEF SelectionIsBest
  <2>5. QED
    BY <2>2, <2>4 DEF SelectionCorrect
<1>3. CASE pc # "done"
  <2>1. selected = <<>>
    BY <1>1, <1>3 DEF Chosen
  <2>2. DOMAIN selected = {}
    BY <2>1
  <2>3. QED
    BY <1>3, <2>2 DEF SelectionCorrect, SelectionDistinct, SelectionIsBest
<1>4. QED
  BY <1>2, <1>3

\* Every variable stays within its type; no run returns more than ResultCount ideas.
THEOREM TypeCorrect == Spec => []TypeOK
<1>1. Typed => TypeOK
  BY DEF Typed
<1>2. QED
  BY ReservedInit, ReservedStep, TypedInit, TypedStep, <1>1, PTL DEF Spec

\* Whatever candidates the model answers: no two ideas of a result share a sector or
\* a subject, and an accepted idea is left out only if the list is full of ideas that
\* are no worse, or one such idea covers its sector or subject (_generate).
THEOREM SelectionIsCorrect == Spec => []SelectionCorrect
  BY ReservedInit, ReservedStep, TypedInit, TypedStep, ChosenIsCorrect, PTL DEF Spec

================================================================================
