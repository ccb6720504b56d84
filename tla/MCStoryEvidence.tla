---------------------------- MODULE MCStoryEvidence ----------------------------
(* A story with one upload, few addresses and repeated finds.                    *)
EXTENDS StoryEvidence
CONSTANTS a, b, c, d, e

\* Queries that are not named here find nothing.
Queries == {"q1", "q2", "q3", "q4", "q5", "q6", "q7", "q8"}
Find(f) == [q \in Queries |-> IF q \in DOMAIN f THEN f[q] ELSE <<>>]
Entry(u, n, on) == [url |-> u, at |-> n, on_topic |-> on]

MCHeld == [web |-> Find([q1 |-> <<a, b>>, q2 |-> <<c, a>>]), anthropic |-> Find([q2 |-> <<b>>]), news |-> Find([q2 |-> <<c>>]),
           feeds |-> <<<<Entry(None, 1, TRUE), Entry(d, 2, TRUE), Entry(a, 3, FALSE)>>>>,
           overview |-> [x |-> e], prices |-> [x |-> e], deep |-> {<<b, a>>}]

Lanes(l1, l2, l3, l4, l5, l6) == <<l1, l2, l3, l4, l5, l6>>
MCPlans == {
  [type |-> "background", sources |-> {"tavily"}, symbols |-> <<"x">>,
   lanes |-> Lanes(<<"q1", "q2", "q8">>, <<"q3", "q1">>, <<>>, <<"q4">>, <<Blank, "q5">>, <<"q6">>)],
  [type |-> "mixed", sources |-> {"fax"}, symbols |-> <<>>,
   lanes |-> Lanes(<<"q2", "q3">>, <<"q2">>, <<"q4">>, <<"q5">>, <<"q6">>, <<"q7", "q8">>)]}
MCFocus == {<<"q2">>}

MCOutlines  == {0, 8}
================================================================================
