------------------------- MODULE MCObjectProperties -------------------------
(***************************************************************************)
(* Characters are 1 to 4 for the bytes they take, and three of them are as *)
(* many as can be counted.                                                 *)
(***************************************************************************)
EXTENDS ObjectProperties

OnCard   == {<<1, 2>>, <<3, 2, 1>>, <<4>>}
FromHost == {<<3, 1>>, <<2>>}
OneDate  == <<1>>
=============================================================================
