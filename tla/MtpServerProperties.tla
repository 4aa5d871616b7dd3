------------------------ MODULE MtpServerProperties ------------------------
(***************************************************************************)
(* What the request handlers keep true of the database and the card.       *)
(***************************************************************************)
EXTENDS MtpServer

TypeOK ==
    /\ IsCard
    /\ counter \in 1 .. MTP_PARENT_ROOT
    /\ DOMAIN db \subseteq 1 .. MaxHandle
    /\ db \in [DOMAIN db -> DbEntry]
    /\ status \in {"running", "stopped", "aborted"}
    /\ mSessionOpen \in BOOLEAN
    /\ mSendObjectHandle \in 1 .. MTP_PARENT_ROOT
    /\ mSendObjectFilePath \in Path
    /\ mObjectEditList \in Seq(ObjectEdit)
    /\ mResponse \in Response

-----------------------------------------------------------------------------
(* Handles.                                                                *)

\* Handles behave as MtpTypes.h:45-46 says: unique, and not reused after the
\* object is deleted.  A handle below the counter that is not in the map is spent.
Handles == INSTANCE ObjectHandles WITH
    Handle <- 1 .. MaxHandle,
    up     <- status = "running",
    live   <- DOMAIN db,
    spent  <- (1 .. counter - 1) \ DOMAIN db

HandlesImplemented == Handles!Spec

\* While the server runs, the root's own entry is there and no listing a host
\* can ask for shows it, so that no host can delete, move or rename the root.
RootHidden ==
    status = "running" =>
        /\ 1 \in DOMAIN db /\ db[1].path = Root
        /\ \A s \in StorageID, p \in HostHandle : 1 \notin Listing(s, p)

\* The handle SendObjectInfo reserved still names the path and the format it
\* was reserved for when SendObject uses it, whatever came in between.
SendObjectReserved ==
    mSendObjectHandle # kInvalidObjectHandle =>
        /\ mSendObjectHandle \in DOMAIN db
        /\ db[mSendObjectHandle].path = mSendObjectFilePath
        /\ db[mSendObjectHandle].object_format = "other"

\* An object is open for edit at most once, so that getEditObject,
\* removeEditObject and the edit's size speak of the same edit.
EditedOnce ==
    \A i, j \in DOMAIN mObjectEditList :
        mObjectEditList[i].mHandle = mObjectEditList[j].mHandle => i = j

-----------------------------------------------------------------------------
(* The inductive invariant.                                                *)

\* A database whose handles lie below c.
Issued(d, c) ==
    /\ DOMAIN d \subseteq 1 .. (c - 1)
    /\ d \in [DOMAIN d -> DbEntry]

\* The root's entry, in the state no request can change: its parent is the
\* one value that is no listing's and no object's.
RootEntry ==
    status = "running" =>
        /\ 1 \in DOMAIN db
        /\ db[1].path = Root
        /\ db[1].parent = MTP_PARENT_ROOT
        /\ db[1].object_format = "association"

\* A process that ended keeps nothing.
AtRest ==
    status # "running" =>
        /\ counter = 1
        /\ db = NoEntries
        /\ mSendObjectHandle = kInvalidObjectHandle
        /\ mSendObjectFilePath = Root

\* The safety properties above, and what they need to be inductive: every
\* handle in the map was issued by the counter, and the root's entry stays put.
IInv ==
    /\ TypeOK
    /\ Issued(db, counter)
    /\ RootEntry
    /\ AtRest
    /\ SendObjectReserved

-----------------------------------------------------------------------------
(* Steps.                                                                  *)

\* A handle names one file for as long as it is live: its path changes only
\* together with the file, and its format never.
Binding ==
    \A h \in DOMAIN db \cap DOMAIN db' :
        /\ db'[h].object_format = db[h].object_format
        /\ db'[h].path # db[h].path =>
              /\ db[h].path \in DOMAIN card \ DOMAIN card'
              /\ db'[h].path \in DOMAIN card' \ DOMAIN card
              /\ card'[db'[h].path] = card[db[h].path]

BindingKept == [][status' = "running" /\ status = "running" => Binding]_vars

\* DeleteObject answers OK exactly when the handle was live, and then the
\* handle and its children's handles are gone, and at and below its path
\* nothing is left but what the card refused to remove and the directories
\* that lie above it.  No other file is touched, and a DeleteObject that is
\* refused itself changes neither the database nor the card.
DeleteOutcome(h, refused) ==
    IF mResponse' = "OK"
    THEN /\ h \in DOMAIN db \ DOMAIN db'
         /\ \A c \in DOMAIN db' : db'[c].parent # h
         /\ \A p \in DOMAIN card' :
               /\ p \in DOMAIN card /\ card'[p] = card[p]
               /\ IsPrefix(db[h].path, p) => \E k \in refused : IsPrefix(p, k)
         /\ \A p \in DOMAIN card :
               ~IsPrefix(db[h].path, p) \/ p \in refused => p \in DOMAIN card'
    ELSE UNCHANGED <<card, db>>

DeleteAllOrNothing ==
    [][\A h \in HostHandle : \A refused \in SUBSET AtAndBelow(h) :
          DeleteObject(h, refused) => DeleteOutcome(h, refused)]_vars

\* SendObject answers OK only if the announced object is live and its file
\* exists; otherwise the handle is gone and no file has appeared, unless the
\* card refuses to unlink it.  Only the announced path is touched.
SendObjectOutcome(unlinked) ==
    /\ \A p \in (DOMAIN card \cup DOMAIN card') \ {mSendObjectFilePath} :
          p \in DOMAIN card \cap DOMAIN card' /\ card'[p] = card[p]
    /\ IF mResponse' = "OK"
       THEN /\ mSendObjectHandle \in DOMAIN db'
            /\ db'[mSendObjectHandle].path \in DOMAIN card'
            /\ card'[db'[mSendObjectHandle].path] = "file"
       ELSE /\ mSendObjectHandle \notin DOMAIN db'
            /\ unlinked => DOMAIN card' \subseteq DOMAIN card

SendObjectAllOrNothing ==
    [][\A unlinked \in BOOLEAN : SendObject(unlinked) => SendObjectOutcome(unlinked)]_vars

\* The first listing of a directory shows each entry of it that can be read
\* once, with the kind it has on the card, and later listings add nothing,
\* provided nobody sent or moved an object into it before.
MirrorsDirectory(s, p, unread) ==
    LET shown == {h \in DOMAIN db' : db'[h].parent = p}
    IN  /\ {db'[h].path : h \in shown} = Children(db[p].path) \ unread
        /\ \A h, i \in shown : db'[h].path = db'[i].path => h = i
        /\ \A h \in shown : /\ db'[h].storage_id = s
                            /\ db'[h].object_format = "association" <=> IsDirectory(db'[h].path)
        /\ db'[p].scanned

FirstListingComplete ==
    [][\A s \in StorageID, p \in HostHandle : \A unread \in SUBSET MayMiss(p) :
          /\ status' = "running" /\ mResponse' = "OK" /\ p \in DOMAIN db
          /\ GetObjectHandles(s, p, unread)
          => IF db[p].scanned THEN UNCHANGED <<counter, db>>
             ELSE (IsDirectory(db[p].path) /\ \A h \in DOMAIN db : db[h].parent # p)
                      => MirrorsDirectory(s, p, unread)]_vars
=============================================================================
