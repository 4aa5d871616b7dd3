---------------------------- MODULE MCMtpServer ----------------------------
(***************************************************************************)
(* Small instances of MtpServer: two names, two levels of directories, on  *)
(* an empty card or one with a folder and a file in it.                    *)
(***************************************************************************)
EXTENDS MtpServerProperties

CONSTANTS a, b

Empty        == (Root :> "dir")
Folder(m, n) == Empty @@ (<<m>> :> "dir") @@ (<<m, n>> :> "file")

MCInit == card \in {Empty, Folder(a, b), Folder(b, a)} /\ Init
MCSpec == MCInit /\ [][Next]_vars

\* The two names may be exchanged: cards and requests come in both ways.
Exchange == Permutations({a, b})

\* No action and no invariant but TypeOK reads mResponse: states that differ
\* in it alone are explored once.  Action properties read it in the successor.
WithoutResponse ==
    <<card, counter, db, status, mSessionOpen, sendObject, mObjectEditList>>
=============================================================================
