---------------------------- MODULE IdeaGeneration -----------------------------
(* One generation of ideas (backend/agents/idea_generator.py, _generate): research *)
(* that charges a ledger, a synthesis call whose evidence is trimmed to what is    *)
(* left of the budget, at most one repair call for missing ideas, and the choice   *)
(* of distinct ideas (backend/services/cost_ledger.py for the money).              *)
(* Money and time are in small units; IdeaScore says what a candidate is worth.     *)
EXTENDS IdeaScore

CONSTANTS Pool,            \* the candidates the model may return
          Packages,        \* sources that research may find
          Trends,          \* rows that vidIQ may report, <<>> when it is unavailable
          MaxOutput,       \* bound: candidates in one answer
          ResultCount,     \* idea_generator_result_count
          Budget,          \* idea_generator_max_cost_usd
          ResearchCosts,   \* what one research call may cost
          MaxResearch,     \* bound: research calls that are charged
          Digests,         \* worst-case cost of synthesis for each payload step
          RepairCost,      \* worst-case cost of the repair call
          TotalTime,       \* the deadline of the run
          MinRepairTime    \* no repair is started with less time left

VARIABLES pc, spent, left, calls,
          researched,        \* what research has spent
          digest,            \* the payload step chosen
          evidence,          \* the sources and signals kept
          accepted,          \* candidates with their scores
          selected, error

vars == <<pc, spent, left, calls, researched, digest, evidence, accepted, selected, error>>

--------------------------------------------------------------------------------
ASSUME PoolAssumption ==
  \A c \in Pool : /\ {c.details, c.significance, c.tension} \subseteq Nat /\ c.conflict \in BOOLEAN
                  /\ IsFiniteSet(DOMAIN c.cites) /\ IsFiniteSet(DOMAIN c.signals)
ASSUME EvidenceAssumption ==
  \A list \in Packages \cup Trends : Len(list) \in Nat /\ DOMAIN list = 1..Len(list)
ASSUME CostAssumption ==
  /\ Budget \in Nat /\ MaxResearch \in Nat
  /\ ResearchCosts \subseteq Nat
  /\ RepairCost \in Nat \ {0}
  /\ Digests \in Seq(Nat \ {0}) /\ Digests # <<>>
ASSUME CountAssumption ==
  /\ ResultCount \in Nat \ {0} /\ MaxOutput \in Nat \ {0}
  /\ TotalTime \in Nat /\ MinRepairTime \in Nat

Ended  == {"done", "failed"}
Errors == {"insufficient_evidence", "research_timed_out", "synthesis_timed_out",
           "repair_timed_out", "budget_exceeded", "generation_failed"}

\* The candidates of one answer, in its order.
Answers == UNION {[1..n -> Pool] : n \in 1..MaxOutput}

Init ==
  /\ pc = "research"
  /\ spent = 0 /\ calls = 0 /\ researched = 0
  /\ left = TotalTime
  /\ digest = 0
  /\ evidence = [sources |-> <<>>, signals |-> <<>>]
  /\ accepted = <<>> /\ selected = <<>>
  /\ error = "none"

--------------------------------------------------------------------------------
\* The ledger.

Remaining == IF spent < Budget THEN Budget - spent ELSE 0

\* Faulty: what research has spent is not counted.
AffordsAlone(worst) == worst <= Budget

Affords(worst) == worst <= Remaining

--------------------------------------------------------------------------------
\* The candidates.

Titles(s) == {s[i].title : i \in DOMAIN s}

Scored(c) == [title |-> c.title, sector |-> c.sector, words |-> c.words, score |-> Score(c, evidence)]

\* accept_candidates: in order, by new title, if _score_candidate gives a score.
Accept(before, answer) ==
  FoldLeft(LAMBDA kept, c : IF Valid(c, evidence) /\ c.title \notin Titles(kept)
                            THEN Append(kept, Scored(c)) ELSE kept,
           before, answer)

\* The position of idea i after a stable sort by falling score.
RankOf(ideas, i) ==
  Cardinality({j \in DOMAIN ideas : \/ ideas[j].score > ideas[i].score
                                    \/ ideas[j].score = ideas[i].score /\ j <= i})

Ranked(ideas) ==
  [r \in DOMAIN ideas |-> ideas[CHOOSE i \in DOMAIN ideas : RankOf(ideas, i) = r]]

\* _same_subject: the words shared are at least 28 in 100 of the shorter subject.
SameSubject(c, d) ==
  /\ c.words # {} /\ d.words # {}
  /\ \E shorter \in {c.words, d.words} :
       100 * Cardinality(c.words \cap d.words) >= 28 * Cardinality(shorter)

Repeats(c, chosen) ==
  \E i \in DOMAIN chosen : c.sector = chosen[i].sector \/ SameSubject(c, chosen[i])

\* The greedy choice from ideas in the order given.
Greedy(ideas) ==
  FoldLeft(LAMBDA chosen, c : IF Len(chosen) < ResultCount /\ ~Repeats(c, chosen)
                              THEN Append(chosen, c) ELSE chosen,
           <<>>, ideas)

\* Faulty: free places are filled with the next best ideas.
SelectionFilled(ideas) ==
  LET chosen == Greedy(Ranked(ideas))
      others == SelectSeq(Ranked(ideas), LAMBDA c : c \notin ToSet(chosen))
      free   == ResultCount - Len(chosen)
  IN chosen \o SubSeq(others, 1, IF free < Len(others) THEN free ELSE Len(others))

\* Faulty: one idea too many.
SelectionLong(ideas) ==
  FoldLeft(LAMBDA chosen, c : IF Len(chosen) <= ResultCount /\ ~Repeats(c, chosen)
                              THEN Append(chosen, c) ELSE chosen,
           <<>>, Ranked(ideas))

\* The best ideas, each with a sector and a subject of its own.
Selection(ideas) == Greedy(Ranked(ideas))

--------------------------------------------------------------------------------
Fail(code) ==
  /\ pc' = "failed" /\ error' = code
  /\ UNCHANGED <<calls, researched, digest, accepted, selected>>

\* A research tool records what its call has cost; nothing is asked beforehand.
ResearchCall ==
  /\ pc = "research" /\ calls < MaxResearch
  /\ \E cost \in ResearchCosts : spent' = spent + cost /\ researched' = researched + cost
  /\ calls' = calls + 1
  /\ UNCHANGED <<pc, left, digest, evidence, accepted, selected, error>>

\* Research, and the unbounded read of earlier observations, are over.
ResearchEnds ==
  /\ pc = "research"
  /\ left' \in 0..left
  /\ \E package \in Packages, rows \in Trends :
       /\ evidence' = [sources |-> PrepareSources(package), signals |-> PrepareSignals(rows)]
       /\ IF Cardinality(Domains(evidence'.sources)) < 2 THEN Fail("insufficient_evidence")
          ELSE pc' = "gate" /\ UNCHANGED <<calls, researched, digest, accepted, selected, error>>
  /\ UNCHANGED spent

\* Out of time, or a provider's exception.
ResearchFails ==
  /\ pc = "research"
  /\ \E code \in {"research_timed_out", "generation_failed"} : Fail(code)
  /\ UNCHANGED <<spent, left, evidence>>

\* The largest evidence digest that the rest of the budget affords.
ChooseDigest ==
  /\ pc = "gate"
  /\ LET fitting == {k \in DOMAIN Digests : Affords(Digests[k])} IN
     IF fitting = {} THEN Fail("budget_exceeded")
     ELSE /\ \E k \in fitting : (\A other \in fitting : k <= other) /\ digest' = k
          /\ pc' = "synthesis"
          /\ UNCHANGED <<calls, researched, accepted, selected, error>>
  /\ UNCHANGED <<spent, left, evidence>>

Charge(worst) == \E cost \in 0..worst : spent' = spent + cost

SynthesisAnswers(answer) ==
  /\ pc = "synthesis"
  /\ Charge(Digests[digest])
  /\ left' \in 0..left
  /\ accepted' = Accept(accepted, answer)
  /\ pc' = IF Len(accepted') < ResultCount THEN "deficit" ELSE "select"
  /\ UNCHANGED <<calls, researched, digest, evidence, selected, error>>

\* A call that is cut off is not recorded; an answer that cannot be parsed is.
SynthesisFails ==
  /\ pc = "synthesis"
  /\ \/ Fail("synthesis_timed_out") /\ UNCHANGED spent
     \/ Fail("generation_failed") /\ Charge(Digests[digest])
  /\ UNCHANGED <<left, evidence>>

\* The missing ideas are asked for again if money and time allow.
ConsiderRepair ==
  /\ pc = "deficit"
  /\ pc' = IF Affords(RepairCost) /\ left >= MinRepairTime THEN "repair" ELSE "select"
  /\ UNCHANGED <<spent, left, calls, researched, digest, evidence, accepted, selected, error>>

RepairAnswers(answer) ==
  /\ pc = "repair"
  /\ Charge(RepairCost)
  /\ accepted' = Accept(accepted, answer)
  /\ pc' = "select"
  /\ UNCHANGED <<left, calls, researched, digest, evidence, selected, error>>

RepairTimesOut ==
  /\ pc = "repair"
  /\ IF accepted = <<>> THEN Fail("repair_timed_out")
     ELSE /\ pc' = "select"
          /\ UNCHANGED <<calls, researched, digest, accepted, selected, error>>
  /\ UNCHANGED <<spent, left, evidence>>

\* Any other exception of the repair call, such as an answer that does not parse.
RepairFails ==
  /\ pc = "repair"
  /\ Fail("generation_failed") /\ Charge(RepairCost)
  /\ UNCHANGED <<left, evidence>>

Select ==
  /\ pc = "select"
  /\ IF accepted = <<>> THEN Fail("insufficient_evidence")
     ELSE /\ selected' = Selection(accepted)
          /\ pc' = "done"
          /\ UNCHANGED <<calls, researched, digest, accepted, error>>
  /\ UNCHANGED <<spent, left, evidence>>

--------------------------------------------------------------------------------
Next ==
  \/ ResearchCall \/ ResearchEnds \/ ResearchFails \/ ChooseDigest
  \/ \E answer \in Answers : SynthesisAnswers(answer) \/ RepairAnswers(answer)
  \/ SynthesisFails \/ ConsiderRepair \/ RepairTimesOut \/ RepairFails \/ Select

Spec == Init /\ [][Next]_vars

--------------------------------------------------------------------------------
\* What the best score is: 100 points.
Ideas == [title: {c.title : c \in Pool}, sector: {c.sector : c \in Pool},
          words: {c.words : c \in Pool}, score: 0..1000]

\* Every variable stays within its type; no run returns more than ResultCount ideas.
TypeOK ==
  /\ pc \in {"research", "gate", "synthesis", "deficit", "repair", "select"} \cup Ended
  /\ spent \in Nat /\ researched \in Nat
  /\ left \in 0..TotalTime /\ calls \in 0..MaxResearch
  /\ digest \in 0..Len(Digests)
  /\ accepted \in Seq(Ideas)
  /\ Len(evidence.sources) <= MaxPrepared /\ Len(evidence.signals) <= MaxPrepared
  /\ selected \in Seq(Ideas) /\ Len(selected) <= ResultCount
  /\ error \in Errors \cup {"none"}

\* No synthesis or repair call takes the run over its budget: past the ceiling there
\* is only what research had spent ("Enforcement is deliberately pre-flight",
\* cost_ledger.py:14-17).
BudgetKept == spent <= IF researched > Budget THEN researched ELSE Budget

\* "Distinctness is a hard requirement, not a ranking preference"
\* (idea_generator.py:888): no two ideas of a result share a sector or a subject.
SelectionDistinct ==
  \A i, j \in DOMAIN selected :
    i # j => selected[i].sector # selected[j].sector /\ ~SameSubject(selected[i], selected[j])

\* An accepted idea is left out only for better ones: the list is full of them, or
\* one of them covers its sector or subject.
SelectionIsBest ==
  pc = "done" =>
    \A c \in ToSet(accepted) \ ToSet(selected) :
      LET better == {i \in DOMAIN selected : selected[i].score >= c.score} IN
      \/ Cardinality(better) = ResultCount
      \/ \E i \in better : selected[i].sector = c.sector \/ SameSubject(selected[i], c)

\* What a run returns is what the greedy choice by score promises.
SelectionCorrect == SelectionDistinct /\ SelectionIsBest
================================================================================
