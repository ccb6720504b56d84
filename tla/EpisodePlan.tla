------------------------------ MODULE EpisodePlan ------------------------------
(* How long an episode is and how an outline is fitted into it                   *)
(* (backend/services/duration_targets.py, agents/_chapter_structure_skill.py).   *)
(* Acts of an outline are numbered; what they say is left out. Seconds are       *)
(* products of a number of minutes with hundredths, never half a second.         *)
EXTENDS Naturals, Sequences, FiniteSets, SequencesExt

CONSTANT DefaultMinutes   \* DEFAULT_DURATION_MINUTES

ASSUME MinutesAssumption == DefaultMinutes \in Nat

Least(a, b)    == IF a < b THEN a ELSE b
Greatest(a, b) == IF a < b THEN b ELSE a

\* round(a / b), for quotients that are never halfway between two integers.
Rounded(a, b) == (2 * a + b) \div (2 * b)

\* The production profile of a story of m minutes, 0 for none: the fields the pipeline
\* acts on. The others word prompts.
Target(m) ==
  LET bounded == Greatest(5, Least(15, IF m = 0 THEN DefaultMinutes ELSE m))
      Profile(most, recommended, web, news, entries, scrape) ==
        [seconds |-> 60 * bounded, most |-> most, recommended |-> recommended, web |-> web,
         news |-> news, entries |-> entries, scrape |-> scrape]
  IN IF bounded <= 7 THEN Profile(3, 3, 6, 1, 5, 2)
     ELSE IF bounded <= 12 THEN Profile(5, 4, 8, 2, 8, 3)
     ELSE Profile(5, 5, 12, 3, 12, 5)

--------------------------------------------------------------------------------
\* Shares of the episode in hundredths, per number of acts.
Ratios == <<<<100>>, <<40, 60>>, <<20, 58, 22>>, <<16, 26, 34, 24>>, <<15, 24, 30, 20, 11>>,
            <<12, 17, 22, 20, 18, 11>>>>

Total(s) == FoldLeft(LAMBDA a, b : a + b, 0, s)

\* _distribute_total: what rounding and the floor of 30 seconds gain or lose goes to
\* the last act, and to the first when the last has no room.
Distribute(total, ratios) ==
  LET raw  == [i \in DOMAIN ratios |-> Greatest(30, Rounded(total * ratios[i], 100))]
      n    == Len(raw)
      rest == Total(Front(raw))
      last == Greatest(30, IF rest > total THEN 0 ELSE total - rest)
      full == [raw EXCEPT ![n] = last]
  IN IF n > 1 /\ rest + 30 > total THEN [full EXCEPT ![1] = raw[1] + total - (rest + last)]
                                   ELSE full

\* act_timings_for_count, for the counts the squash leaves.
Timings(target, count) == Distribute(target.seconds, Ratios[Greatest(1, count)])

\* Faulty: the remainder of the division is left out.
SquashFloor(n, most) ==
  IF n <= most THEN [i \in 1..n |-> {i}]
  ELSE [i \in 1..most |-> ((i - 1) * (n \div most) + 1)..(i * (n \div most))]

\* _squash_acts_to_limit: which acts of an outline of n each remaining act joins.
Squash(n, most) ==
  IF n <= most THEN [i \in 1..n |-> {i}]
  ELSE [i \in 1..most |->
         LET start == Rounded((i - 1) * n, most)
             end   == Rounded(i * n, most)
         IN IF start = end THEN {Least(start, n - 1) + 1} ELSE (start + 1)..end]

\* _adapt_acts_to_duration.
AdaptActs(n, target) ==
  LET joined == Squash(n, target.most) IN
  IF n = 0 THEN <<>>
  ELSE LET timings == Timings(target, Len(joined)) IN
       [i \in DOMAIN joined |-> [joins |-> joined[i], seconds |-> timings[i]]]
================================================================================
