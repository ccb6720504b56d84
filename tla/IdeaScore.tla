------------------------------- MODULE IdeaScore -------------------------------
(* What an idea candidate is worth (backend/agents/idea_generator.py): the sources *)
(* and signals of a run that a candidate may cite, the two hard gates, and the     *)
(* score. Points are in tenths, as the code rounds each component to one decimal.  *)
EXTENDS Integers, Sequences, FiniteSets, SequencesExt

CONSTANTS None,         \* no address, no date, no name
          MaxPrepared   \* sources, and signals, that a run keeps: 60

ASSUME PreparedAssumption == MaxPrepared \in Nat \ {0}

Least(x, y) == IF x <= y THEN x ELSE y
FirstOf(s)  == SubSeq(s, 1, Least(MaxPrepared, Len(s)))

\* Sources without an address are told apart by title and text.
KeyOf(source) == IF source.url # None THEN source.url ELSE source.text

\* _prepare_sources: no benchmarks, no address twice.
PrepareSources(package) ==
  FirstOf(FoldLeft(LAMBDA kept, s :
                     IF s.kind = "youtube_benchmark" \/ \E i \in DOMAIN kept : KeyOf(kept[i]) = KeyOf(s)
                     THEN kept ELSE Append(kept, s),
                   <<>>, package))

\* _prepare_signals: rows without a topic are skipped.
PrepareSignals(rows) ==
  FirstOf(FoldLeft(LAMBDA kept, row : IF row.topic = None THEN kept ELSE Append(kept, row), <<>>, rows))

Domains(sources) == {sources[i].domain : i \in DOMAIN sources} \ {None}

\* _is_current_uae_source: a source without a date counts if it is of a kind that is fresh.
Current(source) ==
  /\ source.uae /\ source.credibility # "low"
  /\ IF source.age # None THEN source.age <= 45
     ELSE source.kind \in {"news_api", "rss", "web_search", "web_scrape"}

\* The sources a candidate's ids resolve to, each with the place of its id: an id named
\* twice counts twice.
Cited(c, sources) ==
  {use \in (DOMAIN c.cites) \X (DOMAIN sources) : sources[use[2]].id = c.cites[use[1]]}

Signals(c, signals) ==
  {i \in DOMAIN c.signals : \E j \in DOMAIN signals : signals[j].key = c.signals[i]}

\* The gates of _score_candidate: evidence that exists, and editorial policy.
Valid(c, evidence) == Cited(c, evidence.sources) # {} /\ ~c.conflict

Nearest(a, b) == (2 * a + b) \div (2 * b)

Score(c, evidence) ==
  LET cited       == Cited(c, evidence.sources)
      source(use) == evidence.sources[use[2]]
      current     == Cardinality({use \in cited : Current(source(use))})
      relevant    == Cardinality({use \in cited : source(use).uae})
      high        == Cardinality({use \in cited : source(use).credibility = "high"})
      domains     == Cardinality({source(use).domain : use \in cited} \ {None})
      signals     == Cardinality(Signals(c, evidence.signals))
      independent == Cardinality(cited) >= 2 /\ domains >= 2
      uae          == Least(200, 120 + 20 * relevant)
      timeliness   == IF current > 0 THEN Least(200, 100 + 30 * current) ELSE 40
      youtube      == IF signals > 0 THEN Least(150, 50 + 25 * signals) ELSE 30
      significance == Least(150, 80 + 10 * Cardinality(cited) + Nearest(10 * c.significance, 180))
      editorial    == Least(150, 80 + 10 * c.details + Nearest(10 * c.tension, 120))
      feasibility  == Least(100, 50 + 10 * c.details)
      quality      == IF independent THEN Least(50, 10 + 10 * domains + 5 * high) ELSE 0
  IN uae + timeliness + youtube + significance + editorial + feasibility + quality
================================================================================
