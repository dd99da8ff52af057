----------------------------- MODULE MCPipeline -----------------------------
(* Instances of Pipeline for TLC. *)
EXTENDS Pipeline

MCNames == {1, 2, 3}

\* Names 1 and 2 are hard links; name 3 is a file with the same bytes.
Base ==
    [inode |-> <<1, 1, 3>>, content |-> <<1, 1, 1>>, regular |-> {1, 2, 3}, zeros |-> {},
     included |-> MCNames, excluded |-> {}, fragile |-> {},
     eager |-> FALSE, detect |-> TRUE, sparsify |-> FALSE]

Lazy ==
    {[Base EXCEPT !.fragile = {1}],
     [Base EXCEPT !.excluded = {1}, !.fragile = {1}],
     [Base EXCEPT !.excluded = {1}, !.fragile = {2}, !.sparsify = TRUE, !.zeros = {1}],
     [Base EXCEPT !.detect = FALSE, !.excluded = {1}, !.fragile = {2}]}

Eager == {[w EXCEPT !.eager = TRUE] : w \in Lazy}

\* Three contents, two of them with zeros; name 2 is a directory.
Distinct ==
    [Base EXCEPT !.inode = <<1, 2, 3>>, !.content = <<1, 2, 3>>, !.zeros = {1, 3},
                 !.sparsify = TRUE]
Mixed ==
    {[Distinct EXCEPT !.regular = {1, 3}, !.fragile = {3}],
     [Distinct EXCEPT !.included = {1, 2}, !.eager = TRUE, !.fragile = {1}]}

MCWorlds == Lazy \cup Eager \cup Mixed
MCPlain == {Base}
=============================================================================
