----------------------------- MODULE MCListree -----------------------------
(* An instance of Listree: two names, paths of one and two components.     *)
EXTENDS Listree

ShortPaths == {<<Step(1)>>, <<[Step(1) EXCEPT !.tail = TRUE]>>,
               <<Step(1), Step(2)>>, <<Step(2), Step(2)>>,
               <<Step(2), [Step(1) EXCEPT !.listTail = TRUE]>>}
=============================================================================
