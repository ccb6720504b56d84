----------------------------- MODULE ResearchGather -----------------------------
(* One gather of the research agent (backend/agents/research.py): where a plan     *)
(* sends its queries, what the providers (backend/tools) make of what the services  *)
(* behind them hold, how their answers are merged and which pages are then read.    *)
(* Services are constants; any of their requests may fail. A title is distinct      *)
(* where an entry has no address.                                                   *)
EXTENDS EpisodePlan, FiniteSetsExt

CONSTANTS Urls,        \* addresses of pages
          Held,        \* what each service holds: entries per query, feed or symbol
          SearchCap,   \* anthropic_search_max_queries
          Blank,       \* a query without text
          None

ASSUME GatherAssumption == None \notin Urls /\ SearchCap \in Nat

\* RawSource: source_type and tenths of relevance_score, all of it the merge looks at.
Source == [url: Urls \cup {None}, score: 0..10,
           kind: {"user_attachment", "web_search", "news_api", "rss_feed", "financial_data", "web_scrape"}]
From(kind, score, urls) == [k \in DOMAIN urls |-> [url |-> urls[k], kind |-> kind, score |-> score]]
Attached == [url |-> None, kind |-> "user_attachment", score |-> 10]

First(s, n) == SubSeq(s, 1, Least(n, Len(s)))
Addresses(sources) == {sources[i].url : i \in DOMAIN sources} \ {None}

\* Faulty: the URLs the package already holds are not looked at.
AddSource(src, s) == Append(src, s)

\* add_source_deduped: a source without an address is always new.
AddDeduped(src, s) == IF s.url \in Addresses(src) THEN src ELSE Append(src, s)

--------------------------------------------------------------------------------
\* The planner's routing and queries.

\* _normalise_sources.
Defaults == [background |-> {"tavily", "rss"}, news |-> {"tavily", "newsapi", "rss"},
             financial |-> {"tavily", "newsapi", "rss", "financial"}, mixed |-> {"tavily", "newsapi", "rss"}]
NormaliseSources(plan) ==
  LET selected == (plan.sources \cap {"tavily", "newsapi", "rss", "financial"}) \cup Defaults[plan.type]
  IN selected \cup (IF "newsapi" \in selected THEN {"rss"} ELSE {})
              \cup (IF plan.symbols # <<>> THEN {"financial"} ELSE {})

Distinct(s) == FoldLeft(LAMBDA seen, q : IF q \in Range(seen) THEN seen ELSE Append(seen, q), <<>>, s)

\* Faulty: one lane after the other.
QueriesInOrder(lanes, cap) == First(Distinct(SelectSeq(FlattenSeq(lanes), LAMBDA q : q # Blank)), cap)

\* _select_balanced_queries: the first query of every lane, then the second ones.
SelectBalancedQueries(lanes, cap) ==
  LET depth  == FoldLeft(Greatest, 0, [l \in DOMAIN lanes |-> Len(lanes[l])])
      row(d) == FlattenSeq([l \in DOMAIN lanes |-> IF d \in DOMAIN lanes[l] THEN <<lanes[l][d]>> ELSE <<>>])
  IN First(Distinct(SelectSeq(FlattenSeq([d \in 1..depth |-> row(d)]), LAMBDA q : q # Blank)), cap)

\* What run asks for a plan, and enrich for its focus queries. Lanes: economics,
\* operations, human story, origin, counterintuitive, visual. Every profile has one
\* cap for news and human story queries (news_query_cap, human_story_query_cap).
PlanRequest(plan, target) ==
  LET routed == NormaliseSources(plan) IN
  [base    |-> SelectBalancedQueries(plan.lanes, target.web),
   human   |-> First(plan.lanes[3], target.news),
   news    |-> IF "newsapi" \notin routed THEN <<>>
               ELSE First(First(plan.lanes[1], 2) \o First(plan.lanes[5], 2) \o First(plan.lanes[4], 1), target.news),
   rss     |-> IF "rss" \in routed THEN target.entries ELSE 0,
   symbols |-> First(plan.symbols, 3)]
FocusRequest(focus, target) ==
  [base |-> focus, human |-> <<>>, news |-> First(focus, target.news), rss |-> 0, symbols |-> <<>>]

--------------------------------------------------------------------------------
\* The providers: the lists of sources each may return. Those that search per query
\* leave out the queries that failed.
Partial(batches) ==
  {FlattenSeq([k \in DOMAIN batches |-> IF k \in answered THEN batches[k] ELSE <<>>]) :
     answered \in SUBSET DOMAIN batches}
Linked(urls) == SelectSeq(Distinct(urls), LAMBDA u : u # None)

WebSearch(queries) ==
  {From("web_search", 5, Linked(urls)) : urls \in Partial([k \in DOMAIN queries |-> Held.web[queries[k]]])}

\* A query whose answer is not the JSON asked for yields the addresses searched.
AnthropicSearch(queries) ==
  LET asked == First(queries, SearchCap) IN
  {From("web_search", 5, Linked(urls)) : urls \in Partial([k \in DOMAIN asked |-> Held.anthropic[asked[k]]])}

\* One task per query: an article has no address where the service gives none.
NewsArticles(queries) ==
  {From("news_api", 5, urls) : urls \in Partial([k \in DOMAIN queries |-> Held.news[queries[k]]])}

\* fetch_feed: entries are cut off before they are filtered by the keyword.
FeedEntries(feed, most) == SelectSeq(First(feed, most), LAMBDA e : e.on_topic)

\* fetch_all_default_feeds: whatever feeds answer, once per address, newest first.
RssFeeds(most) ==
  LET fresh(entries) ==
        SortSeq(FoldLeft(LAMBDA kept, e : IF e.url # None /\ \E i \in DOMAIN kept : kept[i].url = e.url
                                          THEN kept ELSE Append(kept, e), <<>>, entries),
                LAMBDA e, f : e.at > f.at)
  IN {From("rss_feed", 6, [k \in DOMAIN fresh(entries) |-> fresh(entries)[k].url]) :
        entries \in Partial([k \in DOMAIN Held.feeds |-> FeedEntries(Held.feeds[k], most)])}

\* Overview and prices of each symbol, each a task.
FinancialData(symbols) ==
  LET pages(s) == <<From("financial_data", 9, <<Held.overview[s]>>), From("financial_data", 8, <<Held.prices[s]>>)>>
  IN Partial(FlattenSeq([k \in DOMAIN symbols |-> pages(symbols[k])]))

\* run_standalone: a report with its citations or, when it is empty, an error.
DeepResearch == {[report |-> FALSE, cited |-> <<>>]} \cup {[report |-> TRUE, cited |-> From("web_search", 6, Linked(urls))] : urls \in Held.deep}

--------------------------------------------------------------------------------
\* All tasks at once. Their answers are taken in the order of the tasks.
Answers(request) ==
  [web: WebSearch(request.base), anthropic: AnthropicSearch(request.base), human: NewsArticles(request.human),
   rss: RssFeeds(request.rss), news: NewsArticles(request.news), financial: FinancialData(request.symbols),
   deep: DeepResearch]

Merged(src, answer) ==
  FoldLeft(AddDeduped, src, answer.web \o answer.anthropic \o answer.human \o answer.rss \o answer.news
                              \o answer.financial \o answer.deep.cited)

\* top_sources: by score, the earlier first among equals.
Ahead(src, i, j)   == src[i].score > src[j].score \/ (src[i].score = src[j].score /\ i < j)
Best(src, S, n)    == {i \in S : Cardinality({j \in S : Ahead(src, j, i)}) < n}
TopSources(src, n) == Best(src, DOMAIN src, n)
UrlsOf(src, S)     == {src[i].url : i \in S} \ {None}

\* The pages to read: from a window of the best sources, web results not read before.
ToScrape(src, most) ==
  LET read   == {src[i].url : i \in {j \in DOMAIN src : src[j].kind = "web_scrape"}}
      window == {i \in TopSources(src, 2 * most) : src[i].kind = "web_search" /\ src[i].url \notin read}
      order  == SetToSortSeq(Best(src, window, most), LAMBDA i, j : Ahead(src, i, j))
  IN [k \in DOMAIN order |-> src[order[k]].url]

\* scrape_many: a page that cannot be read is left out.
ScrapeMany(urls) == {From("web_scrape", 5, SelectSeq(urls, LAMBDA u : u \in read)) : read \in SUBSET Range(urls)}
================================================================================
