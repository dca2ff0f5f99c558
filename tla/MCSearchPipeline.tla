-------------------------- MODULE MCSearchPipeline --------------------------
(* A small tree for model checking SearchPipeline: a chapter, a section of it, *)
(* and another chapter; pages below each.                                     *)
EXTENDS SearchPipeline

CONSTANTS ch1, sec, ch2, p1, p2, p3

TreePath == (ch1 :> <<1>>) @@ (sec :> <<1, 1>>) @@ (ch2 :> <<2>>)
TreePagePaths == {<<1, 1, 1>>, <<1, 2>>, <<2, 1>>}
SomeScores == {-1, 0, 1}

SomeRequests ==
    [top_k : {1, 2}, entry_limit : {2, 3}, page_limit : {2, 3}, pool : {1, 2}, min_entries : {1, 2}]

Symmetry == Permutations(Pages)
=============================================================================
