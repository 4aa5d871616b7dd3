---------------------------- MODULE CarefulHost ----------------------------
(***************************************************************************)
(* The requests under which the database mirrors the card.  Nothing in     *)
(* MtpServer.cpp makes a host keep to them: each guard below marks a way   *)
(* for the two to part, and the README names the lines that let it happen. *)
(***************************************************************************)
EXTENDS MtpServer

VARIABLES
    known,      \* the handles the host learnt and has not given up
    unshown     \* history: what the card failed to tell in a scan or to remove

hostVars == <<vars, known, unshown>>

Idle == mSendObjectHandle = kInvalidObjectHandle

IsFolder(h) == h \in known /\ db[h].object_format = "association"

\* The host has listed the directory it writes into.
Listed(parent) == parent = MTP_PARENT_ROOT \/ (IsFolder(parent) /\ db[parent].scanned)

IsEmpty(h) == IsFolder(h) => db[h].scanned /\ \A c \in known : db[c].parent # h

\* Only folders are listed, as objects of the one storage.  A host whose
\* server ends on an unreadable folder keeps nothing.
CarefulList(p, unread) ==
    /\ Idle
    /\ p = MTP_PARENT_ROOT \/ IsFolder(p)
    /\ GetObjectHandles(SdStorage, p, unread)
    /\ \/ /\ mResponse' = "OK"
          /\ known' = known \cup {h \in DOMAIN db' : db'[h].parent = ParentEntry(p)}
          /\ unshown' = unshown \cup unread
       \/ /\ status' = "running" /\ mResponse' # "OK"
          /\ UNCHANGED <<known, unshown>>
       \/ /\ status' = "aborted"
          /\ known' = {} /\ unshown' = {}

\* A new object gets a new name; the card does not refuse a new folder.
CarefulSendInfo(p, n, f) ==
    /\ Idle
    /\ Listed(p)
    /\ ~Exists(Append(ParentPath(p), n))
    /\ SendObjectInfo(SdStorage, p, n, f)
    /\ f = "association" => mResponse' # "GENERAL_ERROR"
    /\ known' = IF mResponse' = "OK" THEN known \cup {counter} ELSE known
    /\ UNCHANGED unshown

\* The announced object follows at once.
CarefulSend(unlinked) ==
    /\ SendObject(unlinked)
    /\ IF mResponse' = "OK"
       THEN UNCHANGED <<known, unshown>>
       ELSE /\ known' = known \ {mSendObjectHandle}
            /\ unshown' = unshown \cup (DOMAIN card' \ DOMAIN card)

\* Folders are emptied before they are deleted.
CarefulDelete(h, refused) ==
    /\ Idle
    /\ h \in known
    /\ IsEmpty(h)
    /\ DeleteObject(h, refused)
    /\ known' = known \ {h}
    /\ unshown' = (unshown \cup AtAndBelow(h)) \cap DOMAIN card'

\* A folder is renamed only while nothing in it is known.
CarefulRename(h, n) ==
    /\ Idle
    /\ h \in known
    /\ \A c \in known : db[c].parent # h
    /\ SetObjectPropValue(h, n)
    /\ unshown' = IF db' = db THEN unshown
                  ELSE {Rebase(p, db[h].path, db'[h].path) : p \in unshown}
    /\ UNCHANGED known

CarefulEdit(h) ==
    /\ Idle
    /\ h \in known
    /\ BeginEditObject(h) \/ EndEditObject(h)
    /\ UNCHANGED <<known, unshown>>

CarefulNext ==
    \/ \E unread \in SUBSET Visited(Root) : Start(unread) /\ known' = {} /\ unshown' = unread
    \/ Stop /\ known' = {} /\ unshown' = {}
    \/ Idle /\ (OpenSession \/ CloseSession) /\ UNCHANGED <<known, unshown>>
    \/ \E p \in HostHandle : \E unread \in SUBSET MayMiss(p) : CarefulList(p, unread)
    \/ \E p \in HostHandle, n \in Name, f \in {"association", "other"} : CarefulSendInfo(p, n, f)
    \/ \E unlinked \in BOOLEAN : CarefulSend(unlinked)
    \/ \E h \in HostHandle : \E refused \in SUBSET AtAndBelow(h) : CarefulDelete(h, refused)
    \/ \E h \in HostHandle, n \in Name : CarefulRename(h, n)
    \/ \E h \in HostHandle : CarefulEdit(h)

CarefulInit == Init /\ known = {} /\ unshown = {}

CarefulSpec == CarefulInit /\ [][CarefulNext]_hostVars

-----------------------------------------------------------------------------
\* Every object of the database is on the card under its path and with its kind, in the
\* directory its parent names; only the announced one may not be there yet.
NamesRealObjects ==
    \A h \in DOMAIN db \ {1, mSendObjectHandle} :
        /\ Exists(db[h].path)
        /\ IsDirectory(db[h].path) <=> db[h].object_format = "association"
        /\ LET above == IF db[h].parent = 0 THEN 1 ELSE db[h].parent
           IN  above \in DOMAIN db /\ db[above].path = Front(db[h].path)

\* No file has two handles.
NamedOnce ==
    \A h, i \in DOMAIN db : db[h].path = db[i].path => h = i

\* Every entry of a directory that was scanned has a handle, but for what the
\* card failed to tell or to remove: a host that has listed a directory sees
\* the rest of it from then on.
ListedDirectoriesComplete ==
    \A h \in DOMAIN db : (db[h].scanned \/ h = 1) =>
        Children(db[h].path) \subseteq {db[c].path : c \in DOMAIN db} \cup unshown

\* What the host learnt stays good: no request of a careful host meets a
\* dead handle, and with it db.at's uncaught exception.  (A folder that
\* cannot be read ends the process all the same.)
KnowledgeStaysGood == known \subseteq DOMAIN db

-----------------------------------------------------------------------------
(* What the four need to be inductive.                                     *)

\* The entry of the directory that h is in.
Above(h) == IF db[h].parent = 0 THEN 1 ELSE db[h].parent

\* Every entry but the root's hangs from one whose path is one name shorter:
\* the root's, or that of a folder the host has listed.
Placed ==
    \A h \in DOMAIN db \ {1} :
        /\ db[h].path # Root
        /\ Above(h) \in DOMAIN db
        /\ db[Above(h)].path = Front(db[h].path)
        /\ db[h].parent # 0 => db[db[h].parent].scanned
                              /\ db[db[h].parent].object_format = "association"

\* With an entry the directories above it have entries.
Rooted ==
    \A h \in DOMAIN db : \A k \in 0 .. Len(db[h].path) :
        \E g \in DOMAIN db : db[g].path = SubSeq(db[h].path, 1, k)

\* The entries are on the card; the announced one is not yet.
OnCard ==
    /\ \A h \in DOMAIN db \ {mSendObjectHandle} :
          /\ Exists(db[h].path)
          /\ IsDirectory(db[h].path) <=> db[h].object_format = "association"
    /\ ~Idle => ~Exists(mSendObjectFilePath)

\* The host knows all but the root's own entry and what lies in the root.
Knows ==
    /\ known \subseteq DOMAIN db \ {1}
    /\ \A h \in DOMAIN db \ ({1} \cup known) : db[h].parent = 0
    /\ ~Idle => mSendObjectHandle \in known

CarefulInv ==
    IsTree /\ NamedOnce /\ Placed /\ Rooted /\ OnCard /\ ListedDirectoriesComplete /\ Knows
=============================================================================
