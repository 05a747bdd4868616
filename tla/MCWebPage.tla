------------------------------ MODULE MCWebPage ------------------------------
(***************************************************************************)
(* Two lots with one place each, joined by a road, and one ghost, for      *)
(* model checking WebPage.                                                 *)
(***************************************************************************)
EXTENDS WebPage

MCNodes == 0 .. 2
MCGhost == {2}
MCInitialCapacity == [n \in MCNodes |-> IF n \in MCGhost THEN 0 ELSE 1]
MCRoadPath == [e \in MCNodes \X MCNodes |->
                 IF e \in {<<0, 1>>, <<1, 0>>} THEN e
                 ELSE IF e[1] = e[2] /\ e[1] \notin MCGhost THEN <<e[1]>> ELSE << >>]

\* One search that falls back to the start when lot 1 is full.
MCSearches == {<<0, 1, 0, 1>>}

\* A cut, a raise and a number that is refused.
MCChanges == {<<1, 0>>, <<1, 2>>, <<1, -1>>}

=============================================================================
