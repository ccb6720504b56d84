--------------------------------- MODULE VidIQ ---------------------------------
(* The vidIQ client (backend/tools/vidiq.py): demand reports for research and   *)
(* stories, trend snapshots for the Idea Generator.                             *)
(*                                                                              *)
(* Each call is billed, so a tool counts the calls it has made and stops at a   *)
(* budget, and a process-wide cache answers repeats for nothing. The counter    *)
(* belongs to the tool and not to the report: the research agent is one object  *)
(* per process, so two reports built at the same time share it. Control passes  *)
(* between reports only where one awaits the service or a model; what runs from *)
(* one await to the next is one action here.                                    *)
(*                                                                              *)
(* Keywords and videos are model values; what the service knows about them is   *)
(* given by constants, and whether it answers is not.                           *)
EXTENDS Naturals, Sequences, FiniteSets, SequencesExt

CONSTANTS Reports,    \* fetches: of a demand report or of a trend snapshot
          Seeds,        \* search terms of at most _MAX_SEED_WORDS words
          Related,      \* per seed, its related keywords by falling volume
          Generic,      \* keywords of _GENERIC_KEYWORDS
          Single,       \* keywords of a single word
          Process,      \* keywords with a word of _PROCESS_WORDS
          Adds,         \* keywords with stems their seed does not have
          Found,        \* per query and band, the on-topic videos it returns
          MaxCalls,     \* vidiq_max_calls_per_story
          Fanout,       \* vidiq_keyword_fanout
          CacheLimit,   \* 512
          None

Keywords == UNION {Range(Related[s]) : s \in Seeds}
Queries  == Seeds \cup Keywords
Bands    == <<"long", "medium">>
TrendCalls == <<<<"country", None>>, <<"trending", None>>, <<"outliers", None>>>>
Calls    == ({"keywords"} \X Seeds) \cup (Range(Bands) \X Queries) \cup Range(TrendCalls)
Videos   == UNION {Found[c] : c \in Range(Bands) \X Queries}

Kinds    == {"agent", "story", "trends"}
Tools    == {"agent"} \cup Reports

ASSUME ReportsAssumption == "agent" \notin Reports
ASSUME RelatedAssumption == \A s \in Seeds : Related[s] \in Seq(Range(Related[s]))
ASSUME BudgetAssumption == MaxCalls \in Nat \ {0} /\ Fanout \in Nat /\ CacheLimit \in Nat

VARIABLES calls,   \* per tool, _calls_made
          cache,   \* calls whose payload _CACHE holds and would still serve
          report   \* each fetch: where it waits and what it has

vars == <<calls, cache, report>>

--------------------------------------------------------------------------------
\* pc names what the coroutine awaits: the seed distiller, the handshake, the answer
\* to the first call of queue, the keyword filter, the video filter.
Waiting == {"distilling", "initializing", "calling", "filtering", "judging"}
Ended   == {"none", "report"}

\* billed, overlapped and skipped are history: calls the service answered, whether
\* another report used the tool meanwhile, whether a call was left out for want of budget.
Report == [kind: Kinds \cup {None}, pc: {"new"} \cup Waiting \cup Ended, seed: Seeds \cup {None}, queue: Seq(Calls),
           got: SUBSET Range(TrendCalls), keywords: SUBSET Keywords, videos: SUBSET Videos,
           partial: BOOLEAN, billed: Nat, overlapped: BOOLEAN, skipped: BOOLEAN]
New == [kind |-> None, pc |-> "new", seed |-> None, queue |-> <<>>, got |-> {}, keywords |-> {},
        videos |-> {}, partial |-> FALSE, billed |-> 0, overlapped |-> FALSE, skipped |-> FALSE]

\* The research agent, one per process, has one tool for all its reports; a new story
\* and an idea run make a tool for each fetch.
ToolOf(p)  == IF report[p].kind = "agent" THEN "agent" ELSE p
Trends     == {p \in Reports : report[p].kind = "trends"}
Working(p) == report[p].pc \in Waiting \ {"distilling"}
Others(p)  == {o \in Reports \ {p} : ToolOf(o) = ToolOf(p) /\ Working(o)}

Init == calls = [t \in Tools |-> 0] /\ cache = {} /\ report = [p \in Reports |-> New]

Put(p, r)     == report' = [report EXCEPT ![p] = r]
Gone(r)       == [New EXCEPT !.kind = r.kind, !.pc = "none", !.billed = r.billed,
                             !.overlapped = r.overlapped]
GiveUp(p)     == Put(p, Gone(report[p]))

--------------------------------------------------------------------------------
\* _video_search_keywords: specific before generic activity, then new stems, then
\* volume; single words only when there is nothing else.
Rank(k) ==
  IF k \in Single THEN 0
  ELSE 1 + (IF k \in Process THEN 0 ELSE 2) + (IF k \in Adds THEN 1 ELSE 0)

SearchKeywords(s, kept) ==
  LET word    == Related[s]
      volume  == {i \in DOMAIN word : word[i] \in kept}
      several == {i \in volume : word[i] \notin Single}
      picked  == IF several = {} THEN volume ELSE several
      upTo(i) == {j \in picked : \/ Rank(word[j]) > Rank(word[i])
                                 \/ Rank(word[j]) = Rank(word[i]) /\ j <= i}
      limit   == IF Cardinality(picked) < Fanout THEN Cardinality(picked) ELSE Fanout
  IN [n \in 1..limit |-> word[CHOOSE i \in picked : Cardinality(upTo(i)) = n]]

Searches(s, kept) ==
  LET queries == <<s>> \o SearchKeywords(s, kept) IN
  [i \in 1..(2 * Len(queries)) |-> <<Bands[((i - 1) % 2) + 1], queries[((i - 1) \div 2) + 1]>>]

\* A model judges a pool: it names some, refuses all, or gives no usable reply. The
\* keyword filter returns nothing for a refusal (any reply that contains "none", even
\* beside a choice) and the pool for a reply without a number or an error; the video
\* filter returns nothing without a number and the pool only for an error.
Replies(pool) == [named: SUBSET pool, none: BOOLEAN, failed: BOOLEAN]
JudgedKeywords(pool, reply) ==
  IF reply.failed THEN pool ELSE IF reply.none THEN {}
  ELSE IF reply.named = {} THEN pool ELSE reply.named
JudgedVideos(pool, reply) == IF reply.failed THEN pool ELSE reply.named

\* Faulty: a report is partial only when the counter went past the budget.
AssembledLate(r, n) == [r EXCEPT !.pc = "report", !.partial = n > MaxCalls]

\* The end of _build_report.
Assembled(r, n) == [r EXCEPT !.pc = "report", !.partial = n >= MaxCalls]

\* The search loop up to its next await: with the budget used up the remaining
\* searches are skipped; cached ones are free; the first other one is posted.
NextSearch(r, n, cached) ==
  LET live == {i \in DOMAIN r.queue : r.queue[i] \notin cached}
      cut  == IF live = {} THEN Len(r.queue)
              ELSE (CHOOSE i \in live : \A j \in live : i <= j) - 1
      free == {r.queue[i] : i \in 1..cut}
      seen == [r EXCEPT !.videos = @ \cup UNION {Found[c] : c \in free},
                        !.queue = SubSeq(@, cut + 1, Len(@))]
      over(x) == IF x.videos = {} THEN Assembled(x, n) ELSE [x EXCEPT !.pc = "judging"]
  IN IF r.queue # <<>> /\ n >= MaxCalls
     THEN over([r EXCEPT !.skipped = TRUE, !.queue = <<>>])
     ELSE IF live = {} THEN over(seen) ELSE [seen EXCEPT !.pc = "calling"]

\* The trend loop up to its next await; a snapshot with nothing in it is None.
NextTrend(r, n, cached) ==
  LET due  == {i \in DOMAIN r.queue : r.queue[i] \notin cached /\ n < MaxCalls}
      cut  == IF due = {} THEN Len(r.queue)
              ELSE (CHOOSE i \in due : \A j \in due : i <= j) - 1
      free == {r.queue[i] : i \in 1..cut}
      seen == [r EXCEPT !.got = @ \cup (free \cap cached), !.skipped = @ \/ ~(free \subseteq cached),
                        !.queue = SubSeq(@, cut + 1, Len(@))]
  IN IF due # {} THEN [seen EXCEPT !.pc = "calling"]
     ELSE IF seen.got = {} THEN Gone(seen)
     ELSE [seen EXCEPT !.pc = "report", !.partial = Cardinality(seen.got) < Len(TrendCalls)]

NextCall(p, r, n, cached) == IF p \in Trends THEN NextTrend(r, n, cached) ELSE NextSearch(r, n, cached)

\* Faulty: the blocklist is left to the model.
FilteredAll(r, n, cached) ==
  LET pool == Range(Related[r.seed]) IN
  IF pool = {}
  THEN NextSearch([r EXCEPT !.queue = Searches(r.seed, {})], n, cached)
  ELSE [r EXCEPT !.pc = "filtering", !.keywords = pool]

\* Between the keyword payload and the searches: volume, blocklist, filter.
Filtered(r, n, cached) ==
  LET pool == Range(Related[r.seed]) \ Generic IN
  IF pool = {}
  THEN NextSearch([r EXCEPT !.queue = Searches(r.seed, {})], n, cached)
  ELSE [r EXCEPT !.pc = "filtering", !.keywords = pool]

--------------------------------------------------------------------------------
\* A demand report distills its brief to a search term first; a short brief is its own.
Request(p) ==
  /\ report[p].pc = "new"
  /\ \E kind \in Kinds \ {"trends"} : Put(p, [report[p] EXCEPT !.pc = "distilling", !.kind = kind])
  /\ UNCHANGED <<calls, cache>>

NoSeed(p) ==
  /\ report[p].pc = "distilling"
  /\ GiveUp(p)
  /\ UNCHANGED <<calls, cache>>

\* fetch_demand_report and fetch_idea_trends begin: the tool's counter is reset,
\* also under a report that is using it.
Started(p, s) ==
  [o \in Reports |-> IF o = p THEN [report[p] EXCEPT !.pc = "initializing", !.seed = s,
                                                     !.overlapped = Others(p) # {}]
                     ELSE IF o \in Others(p) THEN [report[o] EXCEPT !.overlapped = TRUE]
                     ELSE report[o]]

\* Faulty: the counter is never reset.
StartCounting(p) ==
  /\ report[p].pc = "distilling"
  /\ \E s \in Seeds : report' = Started(p, s)
  /\ UNCHANGED <<calls, cache>>

Start(p) ==
  /\ report[p].pc = "distilling"
  /\ \E s \in Seeds : report' = Started(p, s)
  /\ calls' = [calls EXCEPT ![ToolOf(p)] = 0]
  /\ UNCHANGED cache

StartTrends(p) ==
  /\ report[p].pc = "new"
  /\ Put(p, [report[p] EXCEPT !.pc = "initializing", !.kind = "trends"])
  /\ UNCHANGED <<calls, cache>>

\* The handshake is done; the first call follows, unless the cache has it. Only the
\* keyword call may meet a used-up budget here, left by an overlapping report.
Initialized(p) ==
  LET r == report[p]
      n == calls[ToolOf(p)]
      first == <<"keywords", r.seed>>
  IN
  /\ r.pc = "initializing"
  /\ Put(p, IF p \in Trends THEN NextTrend([r EXCEPT !.queue = TrendCalls], n, cache)
            ELSE IF first \in cache THEN Filtered(r, n, cache)
            ELSE IF n >= MaxCalls THEN Gone(r)
            ELSE [r EXCEPT !.pc = "calling", !.queue = <<first>>])
  /\ UNCHANGED <<calls, cache>>

Cached(c) == IF Cardinality(cache) > CacheLimit THEN {c} ELSE cache \cup {c}

\* What a report makes of a call without a payload, and of one with it.
WithoutPayload(p, r, n) ==
  IF Head(r.queue)[1] = "keywords" THEN Gone(r)
  ELSE NextCall(p, [r EXCEPT !.queue = Tail(@)], n, cache)

WithPayload(p, r, n) ==
  LET c    == Head(r.queue)
      rest == [r EXCEPT !.queue = Tail(@)]
  IN IF c[1] = "keywords" THEN Filtered(rest, n, Cached(c))
     ELSE IF p \in Trends THEN NextTrend([rest EXCEPT !.got = @ \cup {c}], n, Cached(c))
     ELSE NextSearch([rest EXCEPT !.videos = @ \cup Found[c]], n, Cached(c))

\* An HTTP error is not counted.
HttpError(p) ==
  /\ report[p].pc = "calling"
  /\ Put(p, WithoutPayload(p, report[p], calls[ToolOf(p)]))
  /\ UNCHANGED <<calls, cache>>

\* Faulty: only calls with a payload are counted.
ToolErrorUncounted(p) ==
  /\ report[p].pc = "calling"
  /\ Put(p, WithoutPayload(p, [report[p] EXCEPT !.billed = @ + 1], calls[ToolOf(p)]))
  /\ UNCHANGED <<calls, cache>>

\* An answer that is an error, or holds no JSON, is counted and not cached.
ToolError(p) ==
  LET n == calls[ToolOf(p)] + 1 IN
  /\ report[p].pc = "calling"
  /\ calls' = [calls EXCEPT ![ToolOf(p)] = n]
  /\ Put(p, WithoutPayload(p, [report[p] EXCEPT !.billed = @ + 1], n))
  /\ UNCHANGED cache

Payload(p) ==
  LET n == calls[ToolOf(p)] + 1 IN
  /\ report[p].pc = "calling"
  /\ calls' = [calls EXCEPT ![ToolOf(p)] = n]
  /\ Put(p, WithPayload(p, [report[p] EXCEPT !.billed = @ + 1], n))
  /\ cache' = Cached(Head(report[p].queue))

KeywordsJudged(p) ==
  /\ report[p].pc = "filtering"
  /\ \E reply \in Replies(report[p].keywords) :
       LET kept == JudgedKeywords(report[p].keywords, reply) IN
       Put(p, NextSearch([report[p] EXCEPT !.keywords = kept,
                                           !.queue = Searches(report[p].seed, kept)],
                         calls[ToolOf(p)], cache))
  /\ UNCHANGED <<calls, cache>>

\* The counter is read again for partial, after the filter's await.
VideosJudged(p) ==
  /\ report[p].pc = "judging"
  /\ \E reply \in Replies(report[p].videos) :
       Put(p, Assembled([report[p] EXCEPT !.videos = JudgedVideos(@, reply)], calls[ToolOf(p)]))
  /\ UNCHANGED <<calls, cache>>

\* Faulty: only the calls to the service are cut off, as vidiq_timeout_seconds does.
FailCalls(p) ==
  /\ report[p].pc = "calling"
  /\ GiveUp(p)
  /\ UNCHANGED <<calls, cache>>

\* The total timeout, or any exception: whatever was collected is lost.
Fail(p) ==
  /\ Working(p)
  /\ GiveUp(p)
  /\ UNCHANGED <<calls, cache>>

\* vidiq_cache_ttl_seconds after a payload was stored.
Expire(c) ==
  /\ c \in cache
  /\ cache' = cache \ {c}
  /\ UNCHANGED <<calls, report>>

Next ==
  \/ \E p \in Reports :
       \/ Request(p) \/ NoSeed(p) \/ Start(p) \/ StartTrends(p) \/ Initialized(p)
       \/ HttpError(p) \/ ToolError(p) \/ Payload(p)
       \/ KeywordsJudged(p) \/ VideosJudged(p) \/ Fail(p)
  \/ \E c \in Calls : Expire(c)

Spec == Init /\ [][Next]_vars

\* asyncio.wait_for ends what the service leaves hanging: no answer is assumed, only
\* that the timeout fires. The distiller's client has a timeout of its own.
FairSpec ==
  /\ Spec
  /\ \A p \in Reports : WF_vars(Fail(p)) /\ WF_vars(NoSeed(p))

--------------------------------------------------------------------------------
\* Every variable stays within its type.
TypeOK ==
  /\ calls \in [Tools -> Nat]
  /\ cache \subseteq Calls
  /\ \A p \in Reports :
       LET r == report[p] IN
       /\ DOMAIN r = DOMAIN New
       /\ r.pc \in {"new"} \cup Waiting \cup Ended
       /\ r.pc = "calling" => r.queue # <<>>
       /\ Range(r.queue) \cup r.got \subseteq Calls
       /\ r.keywords \subseteq Keywords \ Generic
       /\ r.videos \subseteq Videos

\* A report that had its tool to itself is never billed more calls than the budget,
\* whatever fails, expires or was cached (vidiq.py:14, 505).
CallsBudgeted == \A p \in Reports : ~report[p].overlapped => report[p].billed <= MaxCalls

\* A report that had its tool to itself says so when searches were left out for want
\* of budget, although it reads the counter again after an await (vidiq.py:780, 801).
PartialIsHonest ==
  \A p \in Reports :
    report[p].pc = "report" /\ ~report[p].overlapped /\ report[p].skipped
      => report[p].partial

\* Every fetch that has started ends, with a report or without, even when neither the
\* service nor a model ever answers (vidiq.py:583-591).
EveryReportEnds == \A p \in Reports : Working(p) ~> report[p].pc \in Ended

\* What vidiq.py:14 says of every report: "settings.vidiq_max_calls_per_story caps
\* spend per pipeline run."
SpendCapped == \A p \in Reports : report[p].billed <= MaxCalls
================================================================================
