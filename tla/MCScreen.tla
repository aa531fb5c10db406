------------------------------ MODULE MCScreen ------------------------------
(* Constants for model checking Screen. *)
EXTENDS Screen

MCLists == {<< >>, <<2>>, <<1, 2, 3>>}

MCDeltas == {-2, 1, 2}

MCWidths == 0..130
=============================================================================
