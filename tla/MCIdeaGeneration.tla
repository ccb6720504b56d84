--------------------------- MODULE MCIdeaGeneration ----------------------------
(* An instance of IdeaGeneration for TLC: candidates with a repeated title, repeated *)
(* sectors, subjects that share too many words or few enough, equal scores, sources  *)
(* that do not exist and forbidden subjects; research that finds an address twice,   *)
(* more than is kept, one domain only or nothing current; payload steps of which the *)
(* budget affords all to none.                                                       *)
EXTENDS IdeaGeneration

Source(id, url, domain, kind, credibility, uae, age) ==
  [id |-> id, url |-> url, text |-> id, domain |-> domain, kind |-> kind,
   credibility |-> credibility, uae |-> uae, age |-> age]

Benchmark == Source("s0", "u0", "tube", "youtube_benchmark", "high", TRUE, 1)
News      == Source("s1", "u1", "daily", "news_api", "high", TRUE, 3)
Again     == Source("s2", "u1", "daily", "rss", "medium", TRUE, None)
Old       == Source("s3", "u3", "daily", "rss", "medium", TRUE, 46)
Report    == Source("s4", None, None, "financial_api", "medium", FALSE, None)
Page      == Source("s5", "u5", "weekly", "web_search", "medium", TRUE, None)
Rumour    == Source("s6", "u6", "blog", "web_search", "low", TRUE, 1)

MCPackages == {<<Benchmark, News, Again, Old, Page, Rumour>>, <<Report, Old, Rumour>>, <<News, Old>>}
MCTrends   == {<<>>, <<[key |-> "k1", topic |-> None], [key |-> "k2", topic |-> "oil"]>>}

Candidate(title, sector, words, cites, signals, details, conflict) ==
  [title |-> title, sector |-> sector, words |-> words, cites |-> cites, signals |-> signals,
   details |-> details, significance |-> 600, tension |-> 300, conflict |-> conflict]

MCPool == {Candidate("t1", "energy", {"solar"}, <<"s1", "s5">>, <<"k2">>, 3, FALSE),
           Candidate("t2", "energy", {"oil", "gulf", "tanker", "price"}, <<"s3", "s6">>, <<"k1">>, 2, FALSE),
           Candidate("t3", "retail", {"solar", "malls"}, <<"s3", "s3">>, <<"k2">>, 2, FALSE),
           Candidate("t4", "retail", {"oil", "fuel", "pump", "card"}, <<"s1", "s2">>, <<"k1">>, 1, FALSE),
           Candidate("t1", "health", {"clinics"}, <<"s1", "s5">>, <<"k2">>, 3, FALSE),
           Candidate("t5", "health", {"clinics"}, <<"s1", "s3">>, <<"k2">>, 3, TRUE)}

MCDigests == <<4, 3, 2>>
MCResearchCosts == {1, 3, 4}
================================================================================
