--------------------------- MODULE MCCarefulHost ---------------------------
(* A careful host on a card with a folder and a file in it, or on an empty one. *)
EXTENDS CarefulHost

CONSTANTS a, b

Empty  == (Root :> "dir")
Folder == Empty @@ (<<a>> :> "dir") @@ (<<a, b>> :> "file")

MCInit == card \in {Empty, Folder} /\ CarefulInit
MCSpec == MCInit /\ [][CarefulNext]_hostVars

\* No action reads mResponse of the state it starts from.
WithoutResponse ==
    <<card, counter, db, status, mSessionOpen, sendObject, mObjectEditList, known, unshown>>
=============================================================================
