------------------------------ MODULE MCServer ------------------------------
(***************************************************************************)
(* Server with tokens of at most two bytes: the server's own, the same     *)
(* with a zero byte behind it, and none.                                   *)
(***************************************************************************)
EXTENDS Server

MCToken == <<1>>
MCOffers == {<<>>, <<1>>, <<1, 0>>}
=============================================================================
