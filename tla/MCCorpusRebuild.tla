---------------------------- MODULE MCCorpusRebuild ----------------------------
(* Two libraries: at the start both empty, or one with a document that has no     *)
(* usable structure, or one at its target. The first start rebuilds both in one   *)
(* job, the others rebuild one.                                                   *)
EXTENDS CorpusRebuild

MCKeys    == <<"bi", "vox">>
MCChannel == [bi |-> <<4, 3, 2, 1>>, vox |-> <<11>>]
MCPopular == [bi |-> <<3, 2, 4>>, vox |-> <<11>>]
Doc(v, b) == [video |-> v, usable |-> b]
AtTarget  == <<Doc(1, TRUE), Doc(2, TRUE)>>
MCInitDocs == {[bi |-> <<>>, vox |-> <<>>], [bi |-> <<Doc(1, FALSE)>>, vox |-> <<>>],
               [bi |-> AtTarget, vox |-> <<Doc(11, TRUE)>>]}
MCRequests == {<<"bi">>, <<"vox">>}
Symmetric  == Permutations(Jobs)
================================================================================
