----------------------------- MODULE PipelineGraph -----------------------------
(* The LangGraph pipeline of one story (backend/graph/journalist_graph.py): what *)
(* each node may leave in the graph state and which node runs next. Agents are   *)
(* nondeterministic; a node turns an agent's exception into an error in the state. *)
EXTENDS Naturals

CONSTANT MaxCycles   \* settings.max_script_revision_cycles

ASSUME MaxCyclesAssumption == MaxCycles \in Nat

Nodes == {"research_agent", "angles_and_hooks", "chapter_writer",
          "chief_editor_evaluator", "scriptwriter", "chief_editor_script_audit",
          "chief_editor_rewrite"}

\* Artefacts are present or not; angles and selected are 0 for none, and otherwise
\* the number of a generation of angles.
GraphState == [research: BOOLEAN, analysis: BOOLEAN, angles: Nat, selected: Nat,
               storyline: BOOLEAN, script: BOOLEAN, audit: BOOLEAN, advice: BOOLEAN,
               cycle: 0..MaxCycles, error: BOOLEAN]

\* create_initial_state.
InitialState == [research |-> FALSE, analysis |-> FALSE, angles |-> 0, selected |-> 0,
                 storyline |-> FALSE, script |-> FALSE, audit |-> FALSE, advice |-> FALSE,
                 cycle |-> 0, error |-> FALSE]

Failed(g) == [g EXCEPT !.error = TRUE]

--------------------------------------------------------------------------------
\* The states a node may return in state g; fresh numbers the angles it would offer.
Research(g) == IF g.research THEN {g} ELSE {[g EXCEPT !.research = TRUE], Failed(g)}

AnglesAndHooks(g, fresh) ==
  IF g.analysis THEN {g}
  ELSE {[g EXCEPT !.analysis = TRUE, !.angles = fresh], Failed(g)}

ChapterWriter(g) == {[g EXCEPT !.storyline = TRUE], g, Failed(g)}

Scriptwriter(g) == {[g EXCEPT !.script = TRUE], Failed(g)}

\* An audit that fails leaves no report and no error: the script is kept.
Audit(g) ==
  {[g EXCEPT !.audit = FALSE]}
    \cup (IF g.script THEN {[g EXCEPT !.audit = TRUE, !.advice = b] : b \in BOOLEAN} ELSE {})

Rewrite(g) == {[g EXCEPT !.cycle = @ + 1], Failed(g)}

Results(node, g, fresh) ==
  CASE node = "research_agent"            -> Research(g)
    [] node = "angles_and_hooks"          -> AnglesAndHooks(g, fresh)
    [] node = "chapter_writer"            -> ChapterWriter(g)
    [] node = "chief_editor_evaluator"    -> {g, Failed(g)}
    [] node = "scriptwriter"              -> Scriptwriter(g)
    [] node = "chief_editor_script_audit" -> Audit(g)
    [] node = "chief_editor_rewrite"      -> Rewrite(g)

--------------------------------------------------------------------------------
\* Faulty: one rewrite more than the budget allows.
WantsRewriteOnce(g) ==
  ~g.error /\ g.audit /\ g.script /\ g.advice /\ g.cycle <= MaxCycles

\* route_after_chief_editor_script_audit.
WantsRewrite(g) ==
  ~g.error /\ g.audit /\ g.script /\ g.advice /\ g.cycle < MaxCycles

\* The node that runs after node has left g; the angle pause is an end too.
Successor(node, g) ==
  CASE node = "research_agent"         -> IF g.error THEN "end" ELSE "angles_and_hooks"
    [] node = "angles_and_hooks"       -> IF ~g.error /\ g.analysis /\ g.selected # 0
                                          THEN "chapter_writer" ELSE "end"
    [] node = "chapter_writer"         -> IF ~g.error /\ g.storyline
                                          THEN "chief_editor_evaluator" ELSE "end"
    [] node = "chief_editor_evaluator" -> IF g.error THEN "end" ELSE "scriptwriter"
    [] node \in {"scriptwriter", "chief_editor_rewrite"} -> "chief_editor_script_audit"
    [] node = "chief_editor_script_audit" ->
         IF WantsRewrite(g) THEN "chief_editor_rewrite" ELSE "end"
================================================================================
