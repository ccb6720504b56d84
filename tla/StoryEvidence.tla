----------------------------- MODULE StoryEvidence -----------------------------
(* The evidence of one story on its way through the pipeline: what the research   *)
(* agent gathers (agents/research.py), what writers add to it while they work      *)
(* (agents/_research_enrichment.py), which sources the script lists and cites      *)
(* (agents/scriptwriter.py) and what the chief editor's rewrite makes of them.     *)
(*                                                                                 *)
(* A package only grows, so the position of a source stands for its source_id. The *)
(* sections of a script are written independently and from the same lookup: cites  *)
(* follows one of them. Models and providers answer as they like or not at all.    *)
EXTENDS ResearchGather

CONSTANTS Plans,         \* plans the planner may make
          Focus,         \* focus queries a gap detection may name
          Attachments,   \* number of uploaded files
          Minutes,       \* requested length
          Outlines,      \* numbers of acts a storyline may have
          Listed,        \* sources a script lists: 20
          Reread,        \* sources a rewrite looks up: 25
          MaxIterations, \* max_research_iterations
          MaxCycles,     \* max_script_revision_cycles
          Enrichment     \* enable_writer_research_enrichment

ASSUME EvidenceAssumption ==
  /\ {Attachments, Minutes, Listed, Reread, MaxCycles} \subseteq Nat /\ MaxIterations \in Nat \ {0}
  /\ Outlines \subseteq Nat /\ Listed <= Reread /\ Enrichment \in BOOLEAN

VARIABLES stage,    \* what the graph awaits
          pass,     \* the gather: for which agent, sources before it, URLs to scrape
          pkg,      \* research_package
          plan,     \* acts of the outline and of the selected storyline
          script,   \* final_script: one section's citations, its list, its dossier
          rounds,   \* passes of the scriptwriter's deepening loop
          cycle,    \* script_revision_cycle
          history   \* gathers, and whether one that merged sources was lost to its caller

vars == <<stage, pass, pkg, plan, script, rounds, cycle, history>>

Stages == {"gathering", "scraping", "analysing", "detecting", "outlining", "writing", "dossier",
           "auditing", "rewriting", "done", "failed"}
Agents == {"research_agent", "chapter_writer", "scriptwriter"}

NoPlan   == [outline |-> 0, acts |-> <<>>]
NoScript == [cites |-> {}, sources |-> {}, report |-> FALSE, citations |-> {}]
Target0  == Target(Minutes)

Init ==
  /\ stage = "gathering" /\ pass = [by |-> "research_agent", before |-> 0, pages |-> <<>>]
  /\ pkg = [sources |-> [i \in 1..Attachments |-> Attached], iterations |-> 1, narrative |-> FALSE]
  /\ plan = NoPlan /\ script = NoScript /\ rounds = 0 /\ cycle = 0
  /\ history = [gathers |-> 0, lost |-> FALSE]

--------------------------------------------------------------------------------
\* Faulty: a draft is kept although the research it lacked has come.
ResumeDraft(new) ==
  CASE pass.by = "chapter_writer" -> "outlining"
    [] pass.by = "scriptwriter"   -> "dossier"

\* Where an agent goes on after enrich_if_gaps, with or without new sources.
Resume(new) ==
  CASE pass.by = "chapter_writer" -> "outlining"
    [] pass.by = "scriptwriter"   -> IF new THEN "writing" ELSE "dossier"

\* A gather returns; only a writer's counts as an iteration.
Return(package) ==
  IF pass.by = "research_agent" THEN stage' = "analysing" /\ pkg' = package
  ELSE /\ stage' = Resume(Len(package.sources) > pass.before)
       /\ pkg' = [package EXCEPT !.iterations = @ + 1]

\* What an agent asks for: run its plan, enrich the gaps found.
Requests == IF pass.by = "research_agent" THEN {PlanRequest(p, Target0) : p \in Plans}
                                          ELSE {FocusRequest(f, Target0) : f \in Focus}

\* _run_gather: all providers at once, then their answers in order, whoever failed.
Gather ==
  /\ stage = "gathering"
  /\ \E request \in Requests : \E answer \in Answers(request) :
       LET found == [pkg EXCEPT !.sources = Merged(@, answer), !.narrative = @ \/ answer.deep.report]
           pages == ToScrape(found.sources, Target0.scrape)
       IN /\ pass' = [pass EXCEPT !.pages = pages]
          /\ IF pages # <<>> THEN stage' = "scraping" /\ pkg' = found ELSE Return(found)
  /\ history' = [history EXCEPT !.gathers = @ + 1]
  /\ UNCHANGED <<plan, script, rounds, cycle>>

\* Sources of pages are not deduplicated.
Scrape ==
  /\ stage = "scraping"
  /\ \E read \in ScrapeMany(pass.pages) : Return([pkg EXCEPT !.sources = @ \o read])
  /\ UNCHANGED <<pass, plan, script, rounds, cycle, history>>

\* The browser does not start. The research node fails; a writer goes on as if
\* nothing had been found, with a package that holds what was.
ScraperFails ==
  /\ stage = "scraping"
  /\ stage' = IF pass.by = "research_agent" THEN "failed" ELSE Resume(FALSE)
  /\ history' = [history EXCEPT !.lost = @ \/ Len(pkg.sources) > pass.before]
  /\ UNCHANGED <<pass, pkg, plan, script, rounds, cycle>>

\* Analysis and, when it has been selected, the angle.
Analyse ==
  /\ stage = "analysing"
  /\ stage' = "detecting" /\ pass' = [pass EXCEPT !.by = "chapter_writer"]
  /\ UNCHANGED <<pkg, plan, script, rounds, cycle, history>>

\* Faulty: the cap on iterations is left to the scriptwriter's loop.
MayEnrichLoop == Enrichment

MayEnrich == Enrichment /\ pkg.iterations < MaxIterations

\* enrich_if_gaps up to its gather; a detection that fails finds no gaps.
DetectGaps ==
  /\ stage = "detecting"
  /\ \E gaps \in BOOLEAN :
       IF gaps /\ MayEnrich
       THEN /\ stage' = "gathering"
            /\ pass' = [pass EXCEPT !.before = Len(pkg.sources), !.pages = <<>>]
       ELSE stage' = Resume(FALSE) /\ UNCHANGED pass
  /\ rounds' = IF pass.by = "scriptwriter" THEN rounds + 1 ELSE rounds
  /\ UNCHANGED <<pkg, plan, script, cycle, history>>

\* The chapter writer's storyline: of the model, of its JSON or built without it.
Outline ==
  /\ stage = "outlining"
  /\ \E n \in Outlines : plan' = [outline |-> n, acts |-> AdaptActs(n, Target0)]
  /\ stage' = "writing"
  /\ UNCHANGED <<pass, pkg, script, rounds, cycle, history>>

\* _write_act keeps the ids that are in the lookup. Then the loop looks for gaps
\* again, while it has passes left.
Write ==
  /\ stage = "writing"
  /\ \E ids \in SUBSET TopSources(pkg.sources, Listed) :
       script' = [script EXCEPT !.cites = IF plan.acts = <<>> THEN {} ELSE ids]
  /\ pass' = [pass EXCEPT !.by = "scriptwriter"]
  /\ stage' = IF rounds < MaxIterations THEN "detecting" ELSE "dossier"
  /\ UNCHANGED <<pkg, plan, rounds, cycle, history>>

\* The list of sources and the dossier. Without the model the dossier is the deep
\* research narrative; when the synthesis raises there is none.
Dossier ==
  /\ stage = "dossier"
  /\ LET listed == TopSources(pkg.sources, Listed)
         linked == UrlsOf(pkg.sources, TopSources(pkg.sources, 2 * Listed))
     IN \/ script' = [script EXCEPT !.sources = listed]
        \/ \E report \in BOOLEAN :
             /\ pkg.narrative => report
             /\ report => pkg.narrative \/ pkg.sources # <<>>
             /\ script' = [script EXCEPT !.sources = listed, !.report = report, !.citations = linked]
  /\ stage' = "auditing"
  /\ UNCHANGED <<pass, pkg, plan, rounds, cycle, history>>

\* The audit, failed or not, and its route.
Audit ==
  /\ stage = "auditing"
  /\ \E advice \in BOOLEAN :
       stage' = IF advice /\ cycle < MaxCycles THEN "rewriting" ELSE "done"
  /\ UNCHANGED <<pass, pkg, plan, script, rounds, cycle, history>>

\* _source_lookup: the package's best sources and what the script lists.
Lookup == TopSources(pkg.sources, Reread) \cup script.sources

\* Faulty: a section that names no valid source loses those it had.
RevisedIds(ids) == ids \cap Lookup

\* _rewrite_section: valid ids of the answer or else of the section.
Revised(ids) == IF ids \cap Lookup # {} THEN ids \cap Lookup ELSE script.cites \cap Lookup

\* The revised script is built anew: its list is kept, its dossier is not.
Rewrite ==
  /\ stage = "rewriting"
  /\ \E ids \in SUBSET Lookup :
       script' = [NoScript EXCEPT !.cites = IF plan.acts = <<>> THEN {} ELSE Revised(ids), !.sources = script.sources]
  /\ cycle' = cycle + 1
  /\ stage' = "auditing"
  /\ UNCHANGED <<pass, pkg, plan, rounds, history>>

\* A node raises: without a script the story has failed, a rewrite leaves the script.
NodeFails ==
  /\ stage \in {"gathering", "analysing", "outlining", "writing", "rewriting"}
  /\ stage = "gathering" => pass.by = "research_agent"
  /\ stage' = IF stage = "rewriting" THEN "done" ELSE "failed"
  /\ UNCHANGED <<pass, pkg, plan, script, rounds, cycle, history>>

Next ==
  \/ Gather \/ Scrape \/ ScraperFails \/ Analyse \/ DetectGaps \/ Outline
  \/ Write \/ Dossier \/ Audit \/ Rewrite \/ NodeFails

Spec == Init /\ [][Next]_vars

--------------------------------------------------------------------------------
Ids == DOMAIN pkg.sources

\* Every variable stays within its type and ids name sources of the package. Research is
\* billed by the pass: the cap on iterations and the loop's own passes bound it, although
\* a pass that fails is not counted (_research_enrichment.py:47).
TypeOK ==
  /\ stage \in Stages /\ pass \in [by: Agents, before: Nat, pages: Seq(Urls)]
  /\ pkg \in [sources: Seq(Source), iterations: 1..MaxIterations, narrative: BOOLEAN]
  /\ plan \in [outline: Nat, acts: Seq([joins: SUBSET Nat, seconds: Nat])]
  /\ script \in [cites: SUBSET Ids, sources: SUBSET Ids, report: BOOLEAN, citations: SUBSET Urls]
  /\ rounds \in 0..MaxIterations /\ cycle \in 0..MaxCycles
  /\ history \in [gathers: 0..(MaxIterations + 1), lost: BOOLEAN]

\* However many passes gather, a web address is found once and its page read once
\* ("Dedupe by URL across the whole block, including any URLs the package already
\* holds", research.py:505): a package does not weigh a source twice.
EvidenceOnce ==
  \A i, j \in Ids :
    /\ i # j /\ pkg.sources[i].url # None
    /\ pkg.sources[i].kind = "web_scrape" <=> pkg.sources[j].kind = "web_scrape"
    => pkg.sources[i].url # pkg.sources[j].url

\* What a section cites the script lists, until a rewrite and unless a failed pass
\* has changed the package behind the writer's back: research that came after a
\* draft has led to another draft.
CitationsListed ==
  stage \in {"auditing", "rewriting", "done"} /\ cycle = 0 /\ ~history.lost =>
    script.cites \subseteq script.sources

\* A rewrite never leaves a section that had a source without any.
RewriteKeepsCitations ==
  [][cycle' # cycle /\ ~history.lost => (script.cites # {} => script'.cites # {})]_vars

\* Whatever a planner proposes, the capped choice asks no query twice, wastes none of
\* the cap and leaves no lane out that opens with a query ("preserving the six
\* evidence lanes", research.py:221), so no kind of evidence is missing from a story.
LanesKept ==
  stage = "gathering" /\ pass.by = "research_agent" => \A p \in Plans, m \in {5, 10, 15} :
    LET cap     == Target(m).web
        chosen  == SelectBalancedQueries(p.lanes, cap)
        queries == UNION {Range(p.lanes[l]) : l \in DOMAIN p.lanes} \ {Blank}
    IN /\ Len(chosen) = Least(cap, Cardinality(queries)) /\ Cardinality(Range(chosen)) = Len(chosen)
       /\ \A l \in DOMAIN p.lanes : p.lanes[l] # <<>> /\ p.lanes[l][1] # Blank => p.lanes[l][1] \in Range(chosen)

\* For an outline of this length or less and an episode of any: the acts cover the outline in
\* order and without overlap, are no more than the profile allows, and last the
\* episode ("act durations in seconds that sum to the requested episode length",
\* duration_targets.py:158), each at least 30 seconds.
PlanFitsEpisode ==
  stage = "writing" => \A n \in 0..plan.outline, m \in {0} \cup 4..16 :
    LET acts == AdaptActs(n, Target(m)) IN
    /\ Len(acts) <= Target(m).most
    /\ UNION {acts[i].joins : i \in DOMAIN acts} = 1..n
    /\ \A i, j \in DOMAIN acts : i < j => \A x \in acts[i].joins, y \in acts[j].joins : x < y
    /\ \A i \in DOMAIN acts : acts[i].joins # {} /\ acts[i].seconds >= 30
    /\ acts # <<>> => Total([i \in DOMAIN acts |-> acts[i].seconds]) = Target(m).seconds
================================================================================
