------------------------------ MODULE MCClaims ------------------------------
(***************************************************************************)
(* What comments in the repository say of the handlers, each refuted by a  *)
(* run of its own.  The card starts with a folder two levels deep.         *)
(***************************************************************************)
EXTENDS MtpServer

CONSTANTS a, b

MCInit ==
    /\ card = (Root :> "dir") @@ (<<a>> :> "dir") @@ (<<a, a>> :> "dir") @@ (<<a, a, b>> :> "file")
    /\ Init

MCSpec == MCInit /\ [][Next]_vars

\* SwitchMtpDatabase.h:901-904: deleteFile removes the object's children
\* "recursively", so that none of them stays in the database.
DeletesDescendants ==
    [][\A h \in HostHandle : DeleteObject(h, {}) /\ mResponse' = "OK" =>
          \A g \in DOMAIN db' :
              ~ \E c \in DOMAIN db : db[c].parent = h /\ db[g].parent = c]_vars

\* MtpServer.cpp:1175: once the database allows it, MoveObject moves "the
\* actual files": the file ends up in the folder its new parent names.
MovesTheFile ==
    [][\A h, p \in HostHandle : 
          /\ MoveObject(h, p) /\ mResponse' = "OK"
          /\ p \in DOMAIN db /\ ~IsPrefix(db[h].path, db[p].path)
          /\ IsDirectory(db[p].path) /\ Exists(db[h].path)
          => db'[h].path \in DOMAIN card' /\ Front(db'[h].path) = db'[p].path]_vars
=============================================================================
