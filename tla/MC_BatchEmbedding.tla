-------------------------- MODULE MC_BatchEmbedding --------------------------
(* Two texts of each length up to 2 and one of 3; a text may hold the        *)
(* padding id, and a text may begin another.                                 *)
EXTENDS BatchEmbedding

MCText == {<<1>>, <<2>>, <<1, 0>>, <<2, 1>>, <<1, 0, 1>>}
==============================================================================
