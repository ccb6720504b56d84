----------------------------- MODULE CorpusRebuild -----------------------------
(* The benchmark corpus: rebuild jobs (backend/services/benchmarking.py,          *)
(* agents/corpus_builder.py) started by an administrator, by a script or on the    *)
(* first start, the reference documentaries and pattern libraries they write, the  *)
(* cache file of each library, and a reader that scores with them. Jobs overlap:   *)
(* the flag that should prevent it is set when a job starts, not when it is        *)
(* accepted, and is unknown to other processes.                                    *)
EXTENDS Naturals, Sequences, FiniteSets, SequencesExt

CONSTANTS Keys,      \* _COMPONENT_LIBRARY_KEYS, in order
          Channel,   \* per library: the channel's videos, newest first
          Popular,   \* the same, most viewed first
          InitDocs,  \* the corpora there may be at first, documents in order of creation
          MinDocs,   \* bi_corpus_min_docs
          MaxDocs,   \* benchmark_default_rebuild_docs
          Fraction,  \* benchmark_admin_refresh_fraction, in hundredths
          Jobs,      \* bound: rebuilds
          Requests,  \* bound: the libraries an administrator or a script asks for
          None

VARIABLES docs,      \* bi_reference_docs, per library in order of creation
          rows,      \* bi_pattern_library, per library in order of creation
          cache,     \* the cache files
          building,  \* _BUILD_STATE["in_progress"]
          job,       \* the rebuilds
          reader,    \* load_active_benchmark_library
          active,    \* the active library it returned, until the next load
          calm       \* no two rebuilds have been at work at once

vars == <<docs, rows, cache, building, job, reader, active, calm>>

\* The elements of s at the positions S, in their order.
Those(s, S) ==
  [n \in 1..Cardinality(S) |-> s[CHOOSE i \in S : Cardinality({j \in S : j <= i}) = n]]

Libraries == Range(Keys)
Listed    == UNION {Range(Channel[k]) : k \in Libraries}
Documents == [video: Listed, usable: BOOLEAN]
\* A library is known by the videos it was made from.
Library   == [version: Nat, videos: SUBSET Listed]

Videos(s) == {s[i].video : i \in DOMAIN s}
Usable(s) == {s[i].video : i \in {n \in DOMAIN s : s[n].usable}}
Broken(s) == Videos(s) \ Usable(s)
Known     == UNION {Videos(docs[k]) : k \in Libraries}

ASSUME CorpusAssumption ==
  {MinDocs, MaxDocs} \subseteq Nat \ {0} /\ Fraction \in 0..100
ASSUME ListingAssumption ==
  /\ Keys \in Seq(Libraries) /\ Keys # <<>> /\ Requests \subseteq Seq(Libraries) /\ None \notin Library
  /\ \A k \in Libraries : {Channel[k], Popular[k]} \subseteq Seq(Range(Channel[k]))
\* The unique index has kept out a second document of a video.
ASSUME InitAssumption ==
  \A d \in InitDocs : /\ d \in [Libraries -> Seq(Documents)]
                      /\ \A k \in Libraries : /\ Videos(d[k]) \subseteq Range(Channel[k])
                                              /\ Cardinality(Videos(d[k])) = Len(d[k])

Newest(k) == {r \in Range(rows[k]) : \A s \in Range(rows[k]) : s.version <= r.version}

Idle == [pc |-> "none", server |-> FALSE, rotate |-> FALSE, keys |-> <<>>, refresh |-> FALSE,
         known |-> <<>>, pending |-> <<>>, fresh |-> <<>>, version |-> 0]
NoReader == [pc |-> "idle", keys |-> <<>>, cache |-> None, got |-> [k \in Libraries |-> None]]
Working == {"next", "reading", "videos", "synthesis", "rotating", "numbering", "inserting", "caching"}
AtWork  == {j \in Jobs : job[j].pc \in Working}

Init ==
  /\ docs \in InitDocs
  /\ rows = [k \in Libraries |-> <<>>] /\ cache = [k \in Libraries |-> None]
  /\ building = FALSE /\ job = [j \in Jobs |-> Idle]
  /\ reader = NoReader /\ active = None /\ calm = TRUE

--------------------------------------------------------------------------------
\* Who starts rebuilds.

Schedule(server, rotate, keys) ==
  /\ \E j \in Jobs :
       /\ job[j].pc = "none"
       /\ job' = [job EXCEPT ![j] = [Idle EXCEPT !.pc = "scheduled", !.server = server,
                                                 !.rotate = rotate, !.keys = keys]]
  /\ UNCHANGED <<docs, rows, cache, building, reader, active, calm>>

\* POST /rebuild: the job is a background task, run after the response.
RequestRebuild(keys) == ~building /\ Schedule(TRUE, TRUE, keys)
RunScript(keys)      == Schedule(FALSE, FALSE, keys)

\* The server has just started.
SeedIfEmpty == Known = {} /\ (\A j \in Jobs : ~job[j].server) /\ Schedule(TRUE, FALSE, Keys)

--------------------------------------------------------------------------------
\* A rebuild, one step between two awaits.

At(j, pc)      == job[j].pc = pc
Key(j)         == Head(job[j].keys)
End(j)         == /\ job' = [job EXCEPT ![j] = [Idle EXCEPT !.pc = "done"]]
                  /\ building' = (building /\ ~job[j].server)
Become(j, new) == job' = [job EXCEPT ![j] = new] /\ UNCHANGED building

\* Any await of a rebuild may raise: YouTube, the model, the database, the file.
Stop(j) ==
  /\ job[j].pc \in Working
  /\ End(j)
  /\ UNCHANGED <<docs, rows, cache, reader, active, calm>>

\* run_benchmark_rebuild.
Start(j) ==
  /\ At(j, "scheduled")
  /\ job' = [job EXCEPT ![j].pc = "next"]
  /\ building' = (building \/ job[j].server)
  /\ calm' = (calm /\ AtWork = {})
  /\ UNCHANGED <<docs, rows, cache, reader, active>>

\* The next library: rotate its documents or expand towards the target.
Decide(j) ==
  /\ At(j, "next") /\ job[j].keys # <<>>
  /\ Become(j, [job[j] EXCEPT !.pc = "reading",
                  !.refresh = job[j].rotate /\ Cardinality(Usable(docs[Key(j)])) >= MaxDocs])
  /\ UNCHANGED <<docs, rows, cache, reader, active, calm>>

Finish(j) ==
  /\ At(j, "next") /\ job[j].keys = <<>>
  /\ End(j)
  /\ UNCHANGED <<docs, rows, cache, reader, active, calm>>

RefreshCount(n) == IF n * Fraction < 100 THEN 1 ELSE (n * Fraction) \div 100

\* How many documents a rebuild lacks that has read known.
Missing(j, known) ==
  IF job[j].refresh THEN RefreshCount(Len(known))
  ELSE IF Cardinality(Usable(known)) >= MaxDocs THEN 0 ELSE MaxDocs - Cardinality(Usable(known))

Found(j, refresh, videos) ==
  LET known == docs[Key(j)] IN
  Become(j, [job[j] EXCEPT !.pc = "videos", !.refresh = refresh, !.known = known, !.fresh = <<>>,
               !.pending = Those(videos, {i \in DOMAIN videos : videos[i] \notin Videos(known)})])

\* Both modes read the documents and list the videos that are not among them. A corpus
\* under the minimum is not refreshed but built.
RefreshesNow(j) == job[j].refresh /\ Len(docs[Key(j)]) >= MinDocs /\ Fraction > 0

ReadToRefresh(j) ==
  /\ At(j, "reading") /\ RefreshesNow(j)
  /\ Found(j, TRUE, Channel[Key(j)])
  /\ UNCHANGED <<docs, rows, cache, reader, active, calm>>

ReadToBuild(j) ==
  /\ At(j, "reading") /\ ~RefreshesNow(j)
  /\ Found(j, FALSE, IF Cardinality(Usable(docs[Key(j)])) >= MaxDocs THEN <<>> ELSE Popular[Key(j)])
  /\ UNCHANGED <<docs, rows, cache, reader, active, calm>>

\* Faulty: one document too many.
WantsOneMore(j) == At(j, "videos") /\ job[j].pending # <<>> /\ Len(job[j].fresh) <= Missing(j, job[j].known)

Wants(j) == At(j, "videos") /\ job[j].pending # <<>> /\ Len(job[j].fresh) < Missing(j, job[j].known)

Document(j) == [video |-> Head(job[j].pending), usable |-> TRUE]
Skip(j)     == [job[j] EXCEPT !.pending = Tail(@)]
Keep(j)     == [Skip(j) EXCEPT !.fresh = Append(@, Document(j))]

\* A video without a transcript or a structure is passed over.
RefreshVideo(j) ==
  /\ Wants(j) /\ job[j].refresh
  /\ Become(j, Skip(j)) \/ Become(j, Keep(j))
  /\ UNCHANGED <<docs, rows, cache, reader, active, calm>>

\* A build saves every document at once; the video may have been saved by another rebuild
\* since, which raises.
BuildVideo(j) ==
  /\ Wants(j) /\ ~job[j].refresh
  /\ \/ Become(j, Skip(j)) /\ UNCHANGED docs
     \/ /\ Head(job[j].pending) \notin Known
        /\ Become(j, Keep(j)) /\ docs' = [docs EXCEPT ![Key(j)] = Append(@, Document(j))]
     \/ Head(job[j].pending) \in Known /\ End(j) /\ UNCHANGED docs
  /\ UNCHANGED <<rows, cache, reader, active, calm>>

\* Faulty: the oldest documents are still among the patterns that replace them.
ContentUnrotated(j) == Usable(job[j].known) \cup Videos(job[j].fresh)

\* The documents the library is made from.
Content(j) ==
  LET kept == IF job[j].refresh THEN SubSeq(job[j].known, Len(job[j].fresh) + 1, Len(job[j].known)) ELSE job[j].known
  IN Usable(kept) \cup Videos(job[j].fresh)

\* Otherwise the rebuild raises InsufficientBenchmarkCorpusError or finds nothing new.
Suffices(j) == Cardinality(Content(j)) >= MinDocs /\ (job[j].refresh => job[j].fresh # <<>>)

VideosRead(j) ==
  /\ At(j, "videos") /\ ~Wants(j)
  /\ IF Suffices(j) THEN Become(j, [job[j] EXCEPT !.pc = "synthesis"]) ELSE End(j)
  /\ UNCHANGED <<docs, rows, cache, reader, active, calm>>

Synthesise(j) ==
  /\ At(j, "synthesis")
  /\ Become(j, [job[j] EXCEPT !.pc = IF job[j].refresh THEN "rotating" ELSE "numbering"])
  /\ UNCHANGED <<docs, rows, cache, reader, active, calm>>

\* As many of the oldest documents as there are fresh ones.
Replaced(j)   == Videos(SubSeq(job[j].known, 1, Len(job[j].fresh)))
Kept(s, gone) == Those(s, {i \in DOMAIN s : s[i].video \notin gone})

\* Faulty: what is new is not added with what it replaces.
RotateOut(j) ==
  /\ At(j, "rotating")
  /\ docs' = [docs EXCEPT ![Key(j)] = Kept(@, Replaced(j))]
  /\ Become(j, [job[j] EXCEPT !.pc = "numbering"])
  /\ UNCHANGED <<rows, cache, reader, active, calm>>

\* One transaction replaces the oldest documents by the fresh ones. It raises when another
\* rebuild has deleted one of the former or saved one of the latter, or a video is listed
\* twice.
Rotate(j) ==
  /\ At(j, "rotating")
  /\ IF /\ Replaced(j) \subseteq Videos(docs[Key(j)]) /\ Videos(job[j].fresh) \cap Known = {}
        /\ Cardinality(Videos(job[j].fresh)) = Len(job[j].fresh)
     THEN /\ docs' = [docs EXCEPT ![Key(j)] = Kept(@, Replaced(j)) \o job[j].fresh]
          /\ Become(j, [job[j] EXCEPT !.pc = "numbering"])
     ELSE End(j) /\ UNCHANGED docs
  /\ UNCHANGED <<rows, cache, reader, active, calm>>

\* _save_library: the version, the row, the cache file.
GetNextVersion(j) ==
  /\ At(j, "numbering")
  /\ \E last \in {r.version : r \in Newest(Key(j))} \cup (IF rows[Key(j)] = <<>> THEN {0} ELSE {}) :
       Become(j, [job[j] EXCEPT !.pc = "inserting", !.version = last + 1])
  /\ UNCHANGED <<docs, rows, cache, reader, active, calm>>

Made(j) == [version |-> job[j].version, videos |-> Content(j)]

InsertRow(j) ==
  /\ At(j, "inserting")
  /\ rows' = [rows EXCEPT ![Key(j)] = Append(@, Made(j))]
  /\ Become(j, [job[j] EXCEPT !.pc = "caching"])
  /\ UNCHANGED <<docs, cache, reader, active, calm>>

\* The script may run on a machine of its own, with its own files.
WriteCache(j) ==
  /\ At(j, "caching")
  /\ \/ cache' = [cache EXCEPT ![Key(j)] = Made(j)]
     \/ ~job[j].server /\ UNCHANGED cache
  /\ Become(j, [job[j] EXCEPT !.pc = "next", !.keys = Tail(@)])
  /\ UNCHANGED <<docs, rows, reader, active, calm>>

--------------------------------------------------------------------------------
\* load_active_benchmark_library, one library after the other.
StartLoad ==
  /\ reader.pc = "idle"
  /\ reader' = [reader EXCEPT !.pc = "load", !.keys = Keys]
  /\ active' = None
  /\ UNCHANGED <<docs, rows, cache, building, job, calm>>

\* The file may be unreadable.
ReadCache ==
  /\ reader.pc = "load" /\ reader.keys # <<>>
  /\ \E found \in {cache[Head(reader.keys)], None} : reader' = [reader EXCEPT !.pc = "query", !.cache = found]
  /\ UNCHANGED <<docs, rows, cache, building, job, active, calm>>

\* Faulty: a cache file is good enough.
ChosenCached(cached, row) == IF cached # None THEN cached ELSE row

\* The cache only when it is of the version of the row, or there is no row.
Chosen(cached, row) ==
  IF cached # None /\ (row = None \/ cached.version = row.version) THEN cached ELSE row

\* Rows of one version come in any order. A file that was missing is written anew.
QueryRow ==
  LET k == Head(reader.keys) IN
  /\ reader.pc = "query"
  /\ \E row \in IF rows[k] = <<>> THEN {None} ELSE Newest(k) :
       /\ reader' = [reader EXCEPT !.pc = "load", !.keys = Tail(@), !.cache = None,
                                   !.got[k] = Chosen(reader.cache, row)]
       /\ cache' = IF reader.cache = None /\ row # None THEN [cache EXCEPT ![k] = row] ELSE cache
  /\ UNCHANGED <<docs, rows, building, job, active, calm>>

\* The combined library: only of libraries that are all there and large enough.
Combined(got) ==
  IF \A k \in Libraries : got[k] # None /\ Cardinality(got[k].videos) >= MinDocs
  THEN [version |-> CHOOSE v \in {got[k].version : k \in Libraries} : \A k \in Libraries : got[k].version <= v,
        videos |-> UNION {got[k].videos : k \in Libraries}]
  ELSE None

Combine ==
  /\ reader.pc = "load" /\ reader.keys = <<>>
  /\ active' = Combined(reader.got)
  /\ reader' = NoReader
  /\ UNCHANGED <<docs, rows, cache, building, job, calm>>

\* The server stops and starts; its files may be gone. A script is a process of its own.
Restart ==
  /\ job' = [j \in Jobs |-> IF job[j].server THEN [Idle EXCEPT !.pc = "done"] ELSE job[j]]
  /\ building' = FALSE
  /\ cache' \in {cache, [k \in Libraries |-> None]}
  /\ reader' = NoReader /\ active' = None
  /\ UNCHANGED <<docs, rows, calm>>

--------------------------------------------------------------------------------
JobStep(j) ==
  \/ Start(j) \/ Decide(j) \/ Finish(j) \/ ReadToRefresh(j) \/ ReadToBuild(j)
  \/ RefreshVideo(j) \/ BuildVideo(j) \/ VideosRead(j) \/ Synthesise(j) \/ Rotate(j)
  \/ GetNextVersion(j) \/ InsertRow(j) \/ WriteCache(j) \/ Stop(j)

Next ==
  \/ \E keys \in Requests : RequestRebuild(keys) \/ RunScript(keys)
  \/ SeedIfEmpty
  \/ \E j \in Jobs : JobStep(j)
  \/ StartLoad \/ ReadCache \/ QueryRow \/ Combine \/ Restart

Spec == Init /\ [][Next]_vars

--------------------------------------------------------------------------------
\* What documents d may grow to: MaxDocs, besides those that had no usable structure.
Bound(d) == LET target == MaxDocs + Cardinality(Broken(d)) IN IF Len(d) < target THEN target ELSE Len(d)

\* Every variable stays within its type; a video is a document of a library once (the unique
\* index on youtube_id), and a calm corpus keeps to its target.
TypeOK ==
  /\ \A k \in Libraries :
       /\ rows[k] \in Seq(Library) /\ cache[k] \in Library \cup {None}
       /\ Videos(docs[k]) \subseteq Range(Channel[k]) /\ Cardinality(Videos(docs[k])) = Len(docs[k])
       /\ calm => \E d \in InitDocs : Len(docs[k]) <= Bound(d[k])
  /\ building \in BOOLEAN /\ calm \in BOOLEAN /\ active \in Library \cup {None}
  /\ \A j \in Jobs : job[j].pc \in Working \cup {"none", "scheduled", "done"}

\* Whatever fails, stops or overlaps, a corpus never loses a document without gaining one:
\* expansion only adds, and rotation is one transaction (corpus_builder.py:423-428).
CorpusNeverShrinks == [][\A k \in Libraries : Len(docs'[k]) >= Len(docs[k])]_vars

\* A library that is saved is made from exactly the usable documents of its corpus,
\* through expansion, rotation and the recovery from a rebuild that stopped half-way.
LibraryFollowsDocs ==
  [][calm => \A k \in Libraries : rows'[k] # rows[k] => Last(rows'[k]).videos = Usable(docs'[k])]_vars

\* A reader gets the newest library there is, although file and row are written apart and
\* files get lost ("Cache version was behind the database version; database copy
\* used", benchmarking.py:272).
ServedIsNewest ==
  [][calm => \A k \in Libraries : reader'.got[k] # reader.got[k] /\ reader'.got[k] # None => rows[k] # <<>> /\ reader'.got[k] = Last(rows[k])]_vars
================================================================================
