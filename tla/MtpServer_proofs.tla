-------------------------- MODULE MtpServer_proofs --------------------------
(***************************************************************************)
(* For every card, host and bound: the type invariant, the safety of       *)
(* reserved handles and of the root, and the handle discipline of          *)
(* MtpTypes.h; and what single requests do: an object is edited once,      *)
(* SendObject and DeleteObject do all of their work or none of it, a       *)
(* handle stays with its file, and a folder is read completely, once.      *)
(***************************************************************************)
EXTENDS MtpServerProperties, SequenceTheorems, TLAPS

-----------------------------------------------------------------------------
(* Paths and entries.                                                      *)

\* The parent directory of a path, and a name in a directory, are paths.
LEMMA PathLemma ==
    ASSUME NEW p \in Path, NEW n \in Name
    PROVE  /\ Front(p) \in Path
           /\ Append(p, n) \in Path
  BY DEF Path, Front

\* A renamed path is a path.
LEMMA RebaseLemma ==
    ASSUME NEW p \in Path, NEW q \in Path, NEW r \in Path
    PROVE  Rebase(r, p, q) \in Path
<1>1. Len(p) \in Nat
  BY LenProperties DEF Path
<1>2. SubSeq(r, Len(p) + 1, Len(r)) \in Path
  BY <1>1, SubSeqProperties DEF Path
<1> QED BY <1>2, ConcatProperties DEF Rebase, Path

\* Rename yields a card again.
LEMMA RenamedLemma ==
    ASSUME IsCard, NEW p \in Path, NEW q \in Path
    PROVE  /\ Renamed(p, q) \in [DOMAIN Renamed(p, q) -> {"dir", "file"}]
           /\ DOMAIN Renamed(p, q) \subseteq Path
<1> DEFINE D == {Rebase(s, p, q) : s \in DOMAIN card}
           Was(r) == CHOOSE s \in DOMAIN card : Rebase(s, p, q) = r
<1>1. \A r \in D : Was(r) \in DOMAIN card
  OBVIOUS
<1>2. D \subseteq Path
  BY RebaseLemma DEF IsCard
<1>3. Renamed(p, q) = [r \in D |-> card[Was(r)]]
  BY DEF Renamed
<1> HIDE DEF D, Was
<1> QED BY <1>1, <1>2, <1>3 DEF IsCard

-----------------------------------------------------------------------------
(* Scanning a directory.                                                   *)

\* Two entries that differ in the mark alone.
SameObject(e, f) ==
    /\ e.storage_id = f.storage_id
    /\ e.object_format = f.object_format
    /\ e.parent = f.parent
    /\ e.path = f.path

\* Marking an entry as scanned changes that field alone.
LEMMA SetScannedLemma ==
    ASSUME NEW d, d \in [DOMAIN d -> DbEntry], NEW h, NEW m, m = SetScanned(d, h)
    PROVE  /\ DOMAIN m = DOMAIN d
           /\ m \in [DOMAIN d -> DbEntry]
           /\ \A g \in DOMAIN d : SameObject(m[g], d[g])
<1>1. CASE h \in DOMAIN d
  <2> DEFINE e == d[h]
             f == [e EXCEPT !.scanned = TRUE]
  <2>1. e \in DbEntry
    BY <1>1
  <2>2. f \in DbEntry /\ SameObject(f, e)
    BY <2>1, Zenon DEF DbEntry, SameObject
  <2>3. m = [d EXCEPT ![h].scanned = TRUE]
    BY <1>1 DEF SetScanned
  <2>4. DOMAIN m = DOMAIN d /\ m[h] = f /\ \A g \in DOMAIN d \ {h} : m[g] = d[g]
    BY <1>1, <2>3, Zenon
  <2>5. m = [g \in DOMAIN d |-> m[g]]
    BY <2>3, Zenon
  <2> HIDE DEF f
  <2> QED BY <2>2, <2>4, <2>5 DEF SameObject
<1>2. CASE h \notin DOMAIN d
  BY <1>2 DEF SetScanned, SameObject
<1> QED BY <1>1, <1>2

\* moveFile gives one entry another parent, and changes nothing else.
LEMMA MoveLemma ==
    ASSUME db \in [DOMAIN db -> DbEntry], NEW h \in DOMAIN db, NEW p \in 0 .. MTP_PARENT_ROOT,
           moveFile(h, p)
    PROVE  /\ DOMAIN db' = DOMAIN db
           /\ db' \in [DOMAIN db -> DbEntry]
           /\ db'[h].parent = p
           /\ db'[h].storage_id = db[h].storage_id
           /\ db'[h].object_format = db[h].object_format
           /\ db'[h].path = db[h].path
           /\ db'[h].scanned = db[h].scanned
           /\ \A g \in DOMAIN db \ {h} : db'[g] = db[g]
<1> DEFINE e == db[h]
           f == [e EXCEPT !.parent = p]
<1>1. e \in DbEntry
  OBVIOUS
<1>2. f \in DbEntry /\ f.parent = p
  BY <1>1, Zenon DEF DbEntry
<1>3. f.storage_id = e.storage_id /\ f.object_format = e.object_format /\ f.path = e.path /\ f.scanned = e.scanned
  BY <1>1, Zenon DEF DbEntry
<1>4. db' = [db EXCEPT ![h].parent = p]
  BY DEF moveFile
<1>5. DOMAIN db' = DOMAIN db /\ db'[h] = f /\ \A g \in DOMAIN db \ {h} : db'[g] = db[g]
  BY <1>4, Zenon
<1>6. db' = [g \in DOMAIN db |-> db'[g]]
  BY <1>4, Zenon
<1> HIDE DEF f
<1> QED BY <1>2, <1>3, <1>5, <1>6

\* A rename gives one entry another path, and changes nothing else.
LEMMA PathUpdateLemma ==
    ASSUME db \in [DOMAIN db -> DbEntry], NEW h \in DOMAIN db, NEW q \in Path,
           db' = [db EXCEPT ![h].path = q]
    PROVE  /\ DOMAIN db' = DOMAIN db
           /\ db' \in [DOMAIN db -> DbEntry]
           /\ db'[h].path = q
           /\ db'[h].storage_id = db[h].storage_id
           /\ db'[h].object_format = db[h].object_format
           /\ db'[h].parent = db[h].parent
           /\ db'[h].scanned = db[h].scanned
           /\ \A g \in DOMAIN db \ {h} : db'[g] = db[g]
<1> DEFINE e == db[h]
           f == [e EXCEPT !.path = q]
<1>1. e \in DbEntry
  OBVIOUS
<1>2. f \in DbEntry /\ f.path = q
  BY <1>1, Zenon DEF DbEntry
<1>3. f.storage_id = e.storage_id /\ f.object_format = e.object_format /\ f.parent = e.parent /\ f.scanned = e.scanned
  BY <1>1, Zenon DEF DbEntry
<1>4. db' = [db EXCEPT ![h].path = q]
  OBVIOUS
<1>5. DOMAIN db' = DOMAIN db /\ db'[h] = f /\ \A g \in DOMAIN db \ {h} : db'[g] = db[g]
  BY <1>4, Zenon
<1>6. db' = [g \in DOMAIN db |-> db'[g]]
  BY <1>4, Zenon
<1> HIDE DEF f
<1> QED BY <1>2, <1>3, <1>5, <1>6

\* What scanning does to a database: it only adds handles at or above the
\* counter, and of the entries it finds it changes no more than the mark.
LEMMA ScanLemma ==
    ASSUME IsCard,
           NEW c \in 1 .. MTP_PARENT_ROOT, NEW d, Issued(d, c),
           NEW p \in Path, NEW parent \in 0 .. MTP_PARENT_ROOT, NEW s \in StorageID,
           NEW unread, NEW o \in parse_directory(c, d, p, parent, s, unread)
    PROVE  /\ o.counter \in c .. MTP_PARENT_ROOT
           /\ Issued(o.db, o.counter)
           /\ DOMAIN d \subseteq DOMAIN o.db
           /\ \A h \in DOMAIN d : SameObject(o.db[h], d[h])
           /\ \A h \in DOMAIN o.db \ DOMAIN d : h >= c /\ o.db[h].parent = parent
<1> DEFINE found == Visited(p)
<1>1. found \subseteq Path
  BY DEF IsCard, Children, Visited
<1>2. PICK n \in 0 .. (MTP_PARENT_ROOT - c) :
         \E order \in Bijection(c .. (c + n - 1), found) :
            o = [counter |-> c + n,
                 db |-> SetScanned(Insert(add_file_entry(order, parent, s, unread), d), parent)]
  BY DEF parse_directory
<1> HIDE DEF found
<1>3. PICK order \in Bijection(c .. (c + n - 1), found) :
         o = [counter |-> c + n,
              db |-> SetScanned(Insert(add_file_entry(order, parent, s, unread), d), parent)]
  BY <1>2
<1>31. order \in [c .. (c + n - 1) -> Path]
  BY <1>1 DEF Bijection, Injection
<1> DEFINE new == add_file_entry(order, parent, s, unread)
           all == Insert(new, d)
<1>4. /\ DOMAIN new \subseteq c .. (c + n - 1)
      /\ \A h \in DOMAIN new : new[h] \in DbEntry /\ new[h].parent = parent
  BY <1>31 DEF add_file_entry, NewEntry, DbEntry
<1>5. MTP_PARENT_ROOT \in Nat
  BY HandleAssumption DEF MTP_PARENT_ROOT
<1>6. /\ Issued(all, c + n)
      /\ DOMAIN d \subseteq DOMAIN all
      /\ \A h \in DOMAIN d : all[h] = d[h]
      /\ \A h \in DOMAIN all \ DOMAIN d : h >= c /\ all[h].parent = parent
  <2> HIDE DEF new
  <2>1. DOMAIN all = DOMAIN d \cup DOMAIN new
    BY DEF Insert
  <2>2. \A h \in DOMAIN all : all[h] = IF h \in DOMAIN d THEN d[h] ELSE new[h]
    BY DEF Insert
  <2>3. \A h \in DOMAIN all : all[h] \in DbEntry
    BY <2>1, <2>2, <1>4 DEF Issued
  <2>4. all = [h \in DOMAIN all |-> all[h]]
    BY DEF Insert
  <2>5. DOMAIN all \subseteq 1 .. (c + n - 1)
    BY <2>1, <1>4, <1>5 DEF Issued
  <2> HIDE DEF all
  <2> QED BY <2>1, <2>2, <2>3, <2>4, <2>5, <1>4, <1>5 DEF Issued
<1> HIDE DEF new, all
<1>7. o.counter = c + n /\ o.db = SetScanned(all, parent)
  BY <1>3 DEF new, all
<1>8. /\ Issued(o.db, c + n)
      /\ DOMAIN o.db = DOMAIN all
      /\ \A h \in DOMAIN all : SameObject(o.db[h], all[h])
  <2>1. all \in [DOMAIN all -> DbEntry]
    BY <1>6 DEF Issued
  <2>2. /\ DOMAIN o.db = DOMAIN all
        /\ o.db \in [DOMAIN all -> DbEntry]
        /\ \A g \in DOMAIN all : SameObject(o.db[g], all[g])
    BY <1>7, <2>1, SetScannedLemma
  <2> QED BY <1>6, <2>2 DEF Issued, SameObject
<1> QED BY <1>5, <1>6, <1>7, <1>8 DEF SameObject

-----------------------------------------------------------------------------
(* The inductive invariant IInv holds at the start, and each request keeps it. *)

\* What the assumptions say of the bounds and of the handles a host names.
LEMMA Constants ==
    /\ MaxHandle \in Nat \ {0}
    /\ MTP_PARENT_ROOT \in Nat /\ MTP_PARENT_ROOT > 1
    /\ MTP_PARENT_ROOT = MaxHandle + 1
    /\ kInvalidObjectHandle = MTP_PARENT_ROOT
    /\ Root \in Path
    /\ \A h \in HostHandle : h \in 0 .. MTP_PARENT_ROOT /\ h # 1
  BY HandleAssumption DEF MTP_PARENT_ROOT, kInvalidObjectHandle, Root, Path

\* The process does not run yet, and the map is empty.
LEMMA InitLemma == Init => IInv
<1> SUFFICES ASSUME Init PROVE IInv
  OBVIOUS
<1>1. DOMAIN NoEntries = {}
  BY DEF NoEntries
<1>2. TypeOK
  <2>1. IsCard
    BY DEF Init, IsTree
  <2>2. mObjectEditList \in Seq(ObjectEdit)
    BY DEF Init
  <2>3. db \in [DOMAIN db -> DbEntry]
    BY <1>1 DEF Init, NoEntries
  <2>4. counter \in 1 .. MTP_PARENT_ROOT /\ DOMAIN db \subseteq 1 .. MaxHandle
    BY <1>1, Constants DEF Init
  <2>5. mSendObjectHandle \in 1 .. MTP_PARENT_ROOT /\ mSendObjectFilePath \in Path
    BY Constants DEF Init
  <2>6. mResponse \in Response /\ mSessionOpen \in BOOLEAN
    BY DEF Init, Response
  <2>7. status \in {"running", "stopped", "aborted"}
    BY DEF Init
  <2> QED BY <2>1, <2>2, <2>3, <2>4, <2>5, <2>6, <2>7, Zenon DEF TypeOK
<1>3. Issued(db, counter)
  BY <1>1, <1>2 DEF Init, TypeOK, Issued
<1>4. RootEntry /\ AtRest /\ SendObjectReserved
  BY Constants DEF Init, RootEntry, AtRest, SendObjectReserved
<1> QED BY <1>2, <1>3, <1>4 DEF IInv

\* Ending the process.
LEMMA TerminateLemma ==
    ASSUME IInv, NEW end \in {"stopped", "aborted"}, Terminate(end)
    PROVE  IInv'
<1>1. DOMAIN NoEntries = {}
  BY DEF NoEntries
<1>2. db' = NoEntries /\ db' \in [DOMAIN db' -> DbEntry]
  BY <1>1 DEF Terminate, NoEntries
<1>3. TypeOK'
  <2>1. IsCard'
    BY DEF Terminate, IInv, TypeOK, IsCard
  <2>2. mObjectEditList' \in Seq(ObjectEdit)
    BY DEF Terminate
  <2>3. mSessionOpen' \in BOOLEAN /\ status' \in {"running", "stopped", "aborted"}
    BY DEF Terminate
  <2>4. counter' \in 1 .. MTP_PARENT_ROOT /\ DOMAIN db' \subseteq 1 .. MaxHandle
    BY <1>1, Constants DEF Terminate
  <2>5. mSendObjectHandle' \in 1 .. MTP_PARENT_ROOT /\ mSendObjectFilePath' \in Path
    BY Constants DEF Terminate
  <2>6. mResponse' \in Response
    BY DEF Terminate, Response
  <2> QED BY <1>2, <2>1, <2>2, <2>3, <2>4, <2>5, <2>6, Zenon DEF TypeOK
<1>4. Issued(db, counter)'
  BY <1>1, <1>2, Constants DEF Terminate, Issued
<1>5. RootEntry' /\ AtRest' /\ SendObjectReserved'
  BY Constants DEF Terminate, RootEntry, AtRest, SendObjectReserved
<1> QED BY <1>3, <1>4, <1>5 DEF IInv

\* What a request has to keep, whichever it is, when it forgets the handle
\* SendObjectInfo reserved.
LEMMA RequestLemma ==
    ASSUME IInv, status' = "running", ForgetSendObject,
           IsCard', counter' \in 1 .. MTP_PARENT_ROOT, Issued(db, counter)',
           status = "running" => 1 \in DOMAIN db' /\ SameObject(db'[1], db[1]),
           status # "running" => RootEntry',
           mSessionOpen' \in BOOLEAN, mObjectEditList' \in Seq(ObjectEdit), mResponse' \in Response
    PROVE  IInv'
<1>1. mSendObjectHandle' \in 1 .. MTP_PARENT_ROOT /\ mSendObjectFilePath' \in Path
  BY Constants DEF ForgetSendObject
<1>2. DOMAIN db' \subseteq 1 .. MaxHandle /\ db' \in [DOMAIN db' -> DbEntry]
  BY Constants DEF Issued
<1>3. status' \in {"running", "stopped", "aborted"}
  OBVIOUS
<1>4. TypeOK'
  BY <1>1, <1>2, <1>3, Zenon DEF TypeOK
<1>5. RootEntry'
  BY DEF IInv, RootEntry, SameObject
<1>6. AtRest' /\ SendObjectReserved'
  BY DEF AtRest, SendObjectReserved, ForgetSendObject
<1> QED BY <1>4, <1>5, <1>6 DEF IInv

\* A request that leaves the database and the card alone.
LEMMA AnswerLemma ==
    ASSUME IInv, NEW code \in Response, Answer(code)
    PROVE  IInv'
<1>1. /\ status = "running" /\ status' = "running" /\ ForgetSendObject
      /\ IsCard' /\ Issued(db, counter)'
      /\ 1 \in DOMAIN db' /\ SameObject(db'[1], db[1])
  BY DEF IInv, Answer, Reply, TypeOK, IsCard, Issued, RootEntry, SameObject
<1>2. /\ counter' \in 1 .. MTP_PARENT_ROOT /\ mSessionOpen' \in BOOLEAN
      /\ mObjectEditList' \in Seq(ObjectEdit) /\ mResponse' \in Response
  BY DEF IInv, Answer, Reply, TypeOK
<1> QED BY <1>1, <1>2, RequestLemma

\* Starting anew.
LEMMA StartLemma == ASSUME IInv, NEW unread, Start(unread) PROVE IInv'
<1> DEFINE d == [h \in {1} |-> NewEntry(SdStorage, "association", MTP_PARENT_ROOT, Root)]
<1>1. /\ Issued(d, 2) /\ d[1].path = Root /\ d[1].parent = MTP_PARENT_ROOT
      /\ d[1].object_format = "association"
  BY Constants, StorageAssumption DEF Issued, NewEntry, DbEntry
<1>2. \E o : /\ counter' = o.counter /\ db' = o.db
           /\ \/ o \in parse_directory(2, d, Root, 0, SdStorage, unread)
              \/ o = [counter |-> 2, db |-> d]
  BY DEF Start, readFiles
<1>3. IsCard /\ 2 \in 1 .. MTP_PARENT_ROOT /\ 1 \in DOMAIN d
  BY Constants DEF IInv, TypeOK
<1> HIDE DEF d
<1> PICK o : /\ counter' = o.counter /\ db' = o.db
             /\ \/ o \in parse_directory(2, d, Root, 0, SdStorage, unread)
                \/ o = [counter |-> 2, db |-> d]
  BY <1>2
<1>4. /\ o.counter \in 2 .. MTP_PARENT_ROOT
      /\ Issued(o.db, o.counter)
      /\ DOMAIN d \subseteq DOMAIN o.db
      /\ \A h \in DOMAIN d : SameObject(o.db[h], d[h])
  <2>1. CASE o \in parse_directory(2, d, Root, 0, SdStorage, unread)
    BY <1>1, <1>3, <2>1, Constants, StorageAssumption, ScanLemma
  <2>2. CASE o = [counter |-> 2, db |-> d]
    BY <1>1, <1>3, <2>2, Constants DEF SameObject
  <2> QED
    BY <2>1, <2>2
<1>5. counter' \in 1 .. MTP_PARENT_ROOT /\ Issued(db, counter)' /\ RootEntry'
  BY <1>1, <1>2, <1>3, <1>4, Constants DEF Issued, RootEntry, SameObject
<1>6. /\ status # "running" /\ status' = "running" /\ IsCard' /\ ForgetSendObject
      /\ mSessionOpen' \in BOOLEAN /\ mObjectEditList' \in Seq(ObjectEdit) /\ mResponse' \in Response
  BY DEF Start, IInv, TypeOK, IsCard, AtRest, ForgetSendObject, sendObject
<1> QED BY <1>5, <1>6, RequestLemma

\* Listing scans at most one directory, and forgets nothing.
LEMMA ListLemma ==
    ASSUME IInv, NEW s \in StorageID, NEW parent \in 0 .. MTP_PARENT_ROOT,
           NEW unread, getObjectList(s, parent, unread)
    PROVE  /\ counter' \in counter .. MTP_PARENT_ROOT
           /\ Issued(db, counter)'
           /\ DOMAIN db \subseteq DOMAIN db'
           /\ \A h \in DOMAIN db : SameObject(db'[h], db[h])
           /\ \A h \in DOMAIN db' \ DOMAIN db : h >= counter
<1>1. counter \in 1 .. MTP_PARENT_ROOT /\ IsCard /\ Issued(db, counter)
  BY DEF IInv, TypeOK
<1>2. CASE NeedsScan(parent)
  <2>1. PICK o \in parse_directory(counter, db, db[parent].path, parent, s, unread) :
           counter' = o.counter /\ db' = o.db
    BY <1>2 DEF getObjectList
  <2>2. db[parent].path \in Path
    BY <1>1, <1>2 DEF NeedsScan, Issued, DbEntry
  <2>3. /\ o.counter \in counter .. MTP_PARENT_ROOT
        /\ Issued(o.db, o.counter)
        /\ DOMAIN db \subseteq DOMAIN o.db
        /\ \A h \in DOMAIN db : SameObject(o.db[h], db[h])
        /\ \A h \in DOMAIN o.db \ DOMAIN db : h >= counter
    BY <1>1, <2>1, <2>2, ScanLemma
  <2> QED BY <2>1, <2>3 DEF Issued
<1>3. CASE ~NeedsScan(parent)
  BY <1>1, <1>3, Constants DEF getObjectList, Issued, SameObject
<1> QED BY <1>2, <1>3

\* A listing request keeps the invariant.
LEMMA ListObjectsLemma ==
    ASSUME IInv, NEW s \in StorageID, NEW parent \in 0 .. MTP_PARENT_ROOT,
           NEW unread, ListObjects(s, parent, unread)
    PROVE  IInv'
<1>1. /\ counter' \in counter .. MTP_PARENT_ROOT /\ Issued(db, counter)'
      /\ DOMAIN db \subseteq DOMAIN db'
      /\ \A h \in DOMAIN db : SameObject(db'[h], db[h])
  BY ListLemma DEF ListObjects
<1>2. /\ status = "running" /\ status' = "running" /\ ForgetSendObject /\ IsCard'
      /\ mSessionOpen' \in BOOLEAN /\ mObjectEditList' \in Seq(ObjectEdit) /\ mResponse' \in Response
  BY DEF ListObjects, Reply, Response, IInv, TypeOK, IsCard
<1>3. counter' \in 1 .. MTP_PARENT_ROOT /\ 1 \in DOMAIN db
  BY <1>1, <1>2, Constants DEF IInv, TypeOK, RootEntry
<1> QED BY <1>1, <1>2, <1>3, RequestLemma

\* The three listings.
LEMMA ListingsLemma ==
    ASSUME IInv, NEW s \in StorageID, NEW p \in HostHandle, NEW unread,
           \/ GetObjectHandles(s, p, unread) \/ GetNumObjects(s, p, unread)
           \/ GetObjectReferences(p, unread)
    PROVE  IInv'
<1>1. p \in 0 .. MTP_PARENT_ROOT
  BY Constants
<1>2. \A code \in {"OK", "SESSION_NOT_OPEN", "INVALID_OBJECT_HANDLE"} : Answer(code) => IInv'
  BY AnswerLemma DEF Response
<1>3. Abort => IInv'
  BY TerminateLemma DEF Abort
<1>4. \A t \in StorageID : ListObjects(t, p, unread) => IInv'
  BY <1>1, ListObjectsLemma
<1>5. p \in DOMAIN db => db[p].storage_id \in StorageID
  BY DEF IInv, Issued, DbEntry
<1> QED BY <1>2, <1>3, <1>4, <1>5 DEF GetObjectHandles, GetNumObjects, GetObjectReferences

\* A new entry at the counter.
LEMMA BeginSendObjectLemma ==
    ASSUME IInv, NEW path \in Path, NEW format \in {"association", "other"},
           NEW parent \in 0 .. MTP_PARENT_ROOT, NEW s \in StorageID,
           beginSendObject(path, format, parent, s)
    PROVE  /\ counter' \in 1 .. MTP_PARENT_ROOT /\ counter \in 1 .. MaxHandle
           /\ Issued(db, counter)'
           /\ counter \notin DOMAIN db
           /\ DOMAIN db' = DOMAIN db \cup {counter}
           /\ \A h \in DOMAIN db : db'[h] = db[h]
           /\ db'[counter] = NewEntry(s, format, parent, path)
<1> DEFINE new == [h \in {counter} |-> NewEntry(s, format, parent, path)]
<1>1. counter \in 1 .. MaxHandle /\ counter' = counter + 1 /\ counter' \in 1 .. MTP_PARENT_ROOT
  BY Constants DEF beginSendObject, IInv, TypeOK
<1>2. counter \notin DOMAIN db
  BY <1>1 DEF IInv, Issued
<1>3. DOMAIN new = {counter} /\ new[counter] = NewEntry(s, format, parent, path)
      /\ new[counter] \in DbEntry
  BY DEF NewEntry, DbEntry
<1>4. db' = Insert(new, db)
  BY DEF beginSendObject
<1> HIDE DEF new
<1>5. /\ DOMAIN db' = DOMAIN db \cup {counter}
      /\ \A h \in DOMAIN db : db'[h] = db[h]
      /\ db'[counter] = new[counter]
      /\ db' = [h \in DOMAIN db' |-> db'[h]]
  BY <1>2, <1>3, <1>4 DEF Insert
<1>6. Issued(db, counter)'
  BY <1>1, <1>3, <1>5 DEF IInv, Issued
<1> QED BY <1>1, <1>2, <1>3, <1>5, <1>6

\* The directory an accepted SendObjectInfo names has a path, and leaves room for a name.
LEMMA AcceptsLemma ==
    ASSUME IInv, NEW s \in StorageID, NEW p \in HostHandle, NEW n \in Name, AcceptsInto(s, p)
    PROVE  /\ Append(ParentPath(p), n) \in Path
           /\ ParentEntry(p) \in 0 .. MTP_PARENT_ROOT
<1>1. ParentPath(p) \in Path
  BY Constants DEF AcceptsInto, getObjectFilePath, ParentPath, IInv, Issued, DbEntry
<1>2. Append(ParentPath(p), n) \in Path
  BY <1>1, PathLemma
<1>3. p \in 0 .. MTP_PARENT_ROOT /\ 0 \in 0 .. MTP_PARENT_ROOT
  BY Constants
<1>4. ParentEntry(p) \in 0 .. MTP_PARENT_ROOT
  BY <1>3 DEF ParentEntry
<1> QED BY <1>2, <1>4

\* An accepted file gets the counter as its handle, reserved under its own path.
LEMMA SendObjectInfoFileLemma ==
    ASSUME IInv, NEW s \in StorageID, NEW p \in HostHandle, NEW n \in Name,
           SendObjectInfoFile(s, p, n)
    PROVE  IInv'
<1> DEFINE path == Append(ParentPath(p), n)
<1>1. path \in Path /\ ParentEntry(p) \in 0 .. MTP_PARENT_ROOT
  BY AcceptsLemma DEF SendObjectInfoFile
<1>2. /\ beginSendObject(path, "other", ParentEntry(p), s)
      /\ mSendObjectHandle' = counter /\ mSendObjectFilePath' = path
  BY DEF SendObjectInfoFile
<1> HIDE DEF path
<1>3. /\ counter' \in 1 .. MTP_PARENT_ROOT /\ counter \in 1 .. MaxHandle
      /\ Issued(db, counter)'
      /\ counter \notin DOMAIN db
      /\ DOMAIN db' = DOMAIN db \cup {counter}
      /\ \A h \in DOMAIN db : db'[h] = db[h]
      /\ db'[counter] = NewEntry(s, "other", ParentEntry(p), path)
  BY <1>1, <1>2, BeginSendObjectLemma
<1>4. /\ status = "running" /\ status' = "running" /\ IsCard'
      /\ mSessionOpen' \in BOOLEAN /\ mObjectEditList' \in Seq(ObjectEdit) /\ mResponse' \in Response
  BY DEF SendObjectInfoFile, Reply, Response, IInv, TypeOK, IsCard
<1>5. TypeOK'
  <2>1. DOMAIN db' \subseteq 1 .. MaxHandle /\ db' \in [DOMAIN db' -> DbEntry]
    BY <1>3, Constants DEF Issued
  <2>2. mSendObjectHandle' \in 1 .. MTP_PARENT_ROOT /\ mSendObjectFilePath' \in Path
    BY <1>1, <1>2, <1>3, Constants
  <2>3. status' \in {"running", "stopped", "aborted"}
    BY <1>4
  <2> QED BY <1>3, <1>4, <2>1, <2>2, <2>3, Zenon DEF TypeOK
<1>6. RootEntry' /\ AtRest'
  BY <1>3, <1>4 DEF IInv, RootEntry, AtRest
<1>7. SendObjectReserved'
  BY <1>2, <1>3 DEF SendObjectReserved, NewEntry
<1> QED BY <1>3, <1>5, <1>6, <1>7 DEF IInv

\* SendObjectInfo keeps the invariant, refused, reserved or done.
LEMMA SendObjectInfoLemma ==
    ASSUME IInv, NEW s \in StorageID, NEW p \in HostHandle, NEW n \in Name,
           NEW f \in {"association", "other"}, SendObjectInfo(s, p, n, f)
    PROVE  IInv'
<1>1. CASE SendObjectInfoRefused(s, p)
  BY <1>1, AnswerLemma DEF SendObjectInfoRefused, getObjectFilePath, Response
<1>2. CASE \E code \in {"STORAGE_FULL", "OBJECT_TOO_LARGE"} : Answer(code)
  BY <1>2, AnswerLemma DEF Response
<1>3. CASE SendObjectInfoFile(s, p, n)
  BY <1>3, SendObjectInfoFileLemma
<1>4. CASE SendObjectInfoFolder(s, p, n)
  <2> DEFINE path == Append(ParentPath(p), n)
  <2>1. path \in Path /\ ParentEntry(p) \in 0 .. MTP_PARENT_ROOT
    BY <1>4, AcceptsLemma DEF SendObjectInfoFolder
  <2>2. /\ beginSendObject(path, "association", ParentEntry(p), s)
        /\ ForgetSendObject /\ status = "running" /\ status' = "running"
        /\ mSessionOpen' = mSessionOpen /\ mObjectEditList' = mObjectEditList
        /\ mResponse' \in Response
        /\ card' = card \/ card' = With(path, "dir")
    BY <1>4 DEF SendObjectInfoFolder, Reply, Response
  <2> HIDE DEF path
  <2>3. /\ counter' \in 1 .. MTP_PARENT_ROOT /\ Issued(db, counter)'
        /\ DOMAIN db' = DOMAIN db \cup {counter}
        /\ \A h \in DOMAIN db : db'[h] = db[h]
    BY <2>1, <2>2, BeginSendObjectLemma
  <2>4. IsCard'
    BY <2>1, <2>2 DEF IInv, TypeOK, IsCard, With
  <2>5. 1 \in DOMAIN db' /\ SameObject(db'[1], db[1])
    BY <2>2, <2>3 DEF IInv, RootEntry, SameObject
  <2>6. mSessionOpen' \in BOOLEAN /\ mObjectEditList' \in Seq(ObjectEdit)
    BY <2>2 DEF IInv, TypeOK
  <2> QED BY <2>2, <2>3, <2>4, <2>5, <2>6, RequestLemma
<1> QED BY <1>1, <1>2, <1>3, <1>4 DEF SendObjectInfo

\* Erasing handles other than the root's.
LEMMA EraseLemma ==
    ASSUME IInv, NEW S, 1 \notin S, db' = Erase(S), counter' = counter
    PROVE  /\ Issued(db, counter)'
           /\ counter' \in 1 .. MTP_PARENT_ROOT
           /\ status = "running" => 1 \in DOMAIN db' /\ SameObject(db'[1], db[1])
  BY DEF Erase, Restrict, IInv, Issued, TypeOK, RootEntry, SameObject

\* Some files go, or one appears.
LEMMA CardLemma ==
    ASSUME IsCard, NEW p \in Path, NEW S,
           card' = card \/ card' = With(p, "file") \/ card' = Without(S)
    PROVE  IsCard'
  BY DEF IsCard, With, Without, Restrict

\* SendObject erases the reserved handle at most, which is not the root's.
LEMMA SendObjectLemma == ASSUME IInv, NEW unlinked, SendObject(unlinked) PROVE IInv'
<1>1. /\ ForgetSendObject /\ status = "running" /\ status' = "running" /\ counter' = counter
      /\ mSessionOpen' \in BOOLEAN /\ mObjectEditList' \in Seq(ObjectEdit)
      /\ mResponse' \in Response
  BY DEF SendObject, Reply, Response, IInv, TypeOK
<1>2. mSendObjectHandle # 1
  BY <1>1, Constants DEF IInv, RootEntry, SendObjectReserved
<1>3. db' = db \/ db' = Erase({mSendObjectHandle})
  BY DEF SendObject, endSendObject
<1>4. /\ Issued(db, counter)' /\ counter' \in 1 .. MTP_PARENT_ROOT
      /\ 1 \in DOMAIN db' /\ SameObject(db'[1], db[1])
  <2>1. CASE db' = db
    BY <1>1, <2>1 DEF IInv, Issued, TypeOK, RootEntry, SameObject
  <2>2. CASE db' = Erase({mSendObjectHandle})
    BY <1>1, <1>2, <2>2, EraseLemma
  <2> QED BY <1>3, <2>1, <2>2
<1>5. \/ card' = card \/ card' = With(mSendObjectFilePath, "file")
      \/ card' = Without({mSendObjectFilePath})
  BY DEF SendObject
<1>6. IsCard'
  BY <1>5, CardLemma DEF IInv, TypeOK
<1> QED BY <1>1, <1>4, <1>6, RequestLemma

\* DeleteObject erases a handle and its children; the root's parent is no handle.
LEMMA DeleteObjectLemma ==
    ASSUME IInv, NEW h \in HostHandle, NEW refused, DeleteObject(h, refused) PROVE IInv'
<1>1. CASE getObjectFilePath(h) # "OK"
  BY <1>1, AnswerLemma DEF DeleteObject, getObjectFilePath, Response
<1>2. CASE getObjectFilePath(h) = "OK"
  <2>1. h \in DOMAIN db /\ h # 1 /\ h # MTP_PARENT_ROOT
    BY <1>2, Constants DEF getObjectFilePath
  <2>2. /\ ForgetSendObject /\ status = "running" /\ status' = "running" /\ counter' = counter
        /\ mSessionOpen' \in BOOLEAN /\ mObjectEditList' \in Seq(ObjectEdit)
        /\ mResponse' \in Response
    BY <1>2, AnswerLemma DEF DeleteObject, deleteFileResponse, Reply, Response, IInv, TypeOK, Answer
  <2>3. \E S : 1 \notin S /\ db' = Erase(S)
    <3>1. db[1].parent # h
      BY <2>1, <2>2 DEF IInv, RootEntry
    <3> DEFINE S == {h} \cup {g \in DOMAIN db : db[g].parent = h}
    <3>2. db' = Erase({h}) \/ db' = Erase(S)
      BY <1>2, <2>1 DEF DeleteObject, deleteFile
    <3>3. 1 \notin S /\ 1 \notin {h}
      BY <2>1, <3>1
    <3> HIDE DEF S
    <3> QED BY <3>2, <3>3
  <2>4. /\ Issued(db, counter)' /\ counter' \in 1 .. MTP_PARENT_ROOT
        /\ 1 \in DOMAIN db' /\ SameObject(db'[1], db[1])
    BY <2>2, <2>3, EraseLemma
  <2>5. card' = card \/ \E S : card' = Without(S)
    BY <1>2 DEF DeleteObject, deletePath
  <2>6. IsCard'
    BY <2>5, CardLemma, Constants DEF IInv, TypeOK
  <2> QED BY <2>2, <2>4, <2>6, RequestLemma
<1> QED BY <1>1, <1>2

\* MoveObject changes the parent of an object that is not the root.
LEMMA MoveObjectLemma ==
    ASSUME IInv, NEW h \in HostHandle, NEW p \in HostHandle, MoveObject(h, p) PROVE IInv'
<1>1. CASE getObjectFilePath(h) # "OK"
  BY <1>1, AnswerLemma DEF MoveObject, getObjectFilePath, Response
<1>2. CASE getObjectFilePath(h) = "OK"
  <2>1. h \in DOMAIN db /\ h # 1 /\ p \in 0 .. MTP_PARENT_ROOT
    BY <1>2, Constants DEF getObjectFilePath
  <2>2. /\ ForgetSendObject /\ status = "running" /\ status' = "running" /\ counter' = counter
        /\ mSessionOpen' \in BOOLEAN /\ mObjectEditList' \in Seq(ObjectEdit)
        /\ mResponse' \in Response /\ IsCard'
    BY <1>2 DEF MoveObject, Answer, Reply, Response, IInv, TypeOK, IsCard
  <2>3. moveFile(h, p)
    BY <1>2 DEF MoveObject
  <2>4. db \in [DOMAIN db -> DbEntry]
    BY DEF IInv, Issued
  <2>5. /\ DOMAIN db' = DOMAIN db
        /\ db' \in [DOMAIN db -> DbEntry]
        /\ \A g \in DOMAIN db \ {h} : db'[g] = db[g]
    BY <2>1, <2>3, <2>4, MoveLemma
  <2>6. /\ Issued(db, counter)' /\ counter' \in 1 .. MTP_PARENT_ROOT
        /\ 1 \in DOMAIN db' /\ SameObject(db'[1], db[1])
    BY <2>1, <2>2, <2>5 DEF IInv, Issued, TypeOK, RootEntry, SameObject
  <2> QED BY <2>2, <2>6, RequestLemma
<1> QED BY <1>1, <1>2

\* A rename changes the path of an object that is not the root.
LEMMA SetObjectPropValueLemma ==
    ASSUME IInv, NEW h \in HostHandle, NEW n \in Name, SetObjectPropValue(h, n) PROVE IInv'
<1> DEFINE oldpath == db[h].path
           newpath == Append(Front(oldpath), n)
<1>1. CASE getObjectFilePath(h) # "OK"
  BY <1>1, AnswerLemma DEF SetObjectPropValue, getObjectFilePath, Response
<1>2. CASE Answer("DEVICE_BUSY") \/ Answer("OPERATION_NOT_SUPPORTED")
  BY <1>2, AnswerLemma DEF Response
<1>3. CASE /\ getObjectFilePath(h) = "OK"
           /\ card' = Renamed(oldpath, newpath)
           /\ db' = [db EXCEPT ![h].path = newpath]
           /\ ForgetSendObject /\ Reply("OK")
           /\ UNCHANGED <<counter, mSessionOpen, mObjectEditList>>
  <2>1. h \in DOMAIN db /\ h # 1
    BY <1>3, Constants DEF getObjectFilePath
  <2>2. db \in [DOMAIN db -> DbEntry] /\ oldpath \in Path
    BY <2>1 DEF IInv, Issued, DbEntry
  <2>3. newpath \in Path
    BY <2>2, PathLemma
  <2> HIDE DEF newpath, oldpath
  <2>4. IsCard'
    BY <1>3, <2>2, <2>3, RenamedLemma DEF IsCard, IInv, TypeOK
  <2>5. /\ DOMAIN db' = DOMAIN db
        /\ db' \in [DOMAIN db -> DbEntry]
        /\ \A g \in DOMAIN db \ {h} : db'[g] = db[g]
    BY <1>3, <2>1, <2>2, <2>3, PathUpdateLemma
  <2>6. /\ status = "running" /\ status' = "running" /\ counter' = counter
        /\ mSessionOpen' \in BOOLEAN /\ mObjectEditList' \in Seq(ObjectEdit)
        /\ mResponse' \in Response
    BY <1>3 DEF Reply, Response, IInv, TypeOK
  <2>7. /\ Issued(db, counter)' /\ counter' \in 1 .. MTP_PARENT_ROOT
        /\ 1 \in DOMAIN db' /\ SameObject(db'[1], db[1])
    BY <2>1, <2>5, <2>6 DEF IInv, Issued, TypeOK, RootEntry, SameObject
  <2> QED BY <1>3, <2>4, <2>6, <2>7, RequestLemma
<1> QED BY <1>1, <1>2, <1>3 DEF SetObjectPropValue

\* The edits open and close without touching the database.
LEMMA EditLemma ==
    ASSUME IInv, NEW h \in HostHandle, BeginEditObject(h) \/ EndEditObject(h) PROVE IInv'
<1>1. CASE \E code \in Response : Answer(code)
  BY <1>1, AnswerLemma
<1>2. CASE /\ getObjectFilePath(h) = "OK"
           /\ mObjectEditList' = Append(mObjectEditList, [mHandle |-> h])
           /\ ForgetSendObject /\ Reply("OK")
           /\ UNCHANGED <<card, counter, db, mSessionOpen>>
  <2>1. [mHandle |-> h] \in ObjectEdit
    BY <1>2, Constants DEF getObjectFilePath, IInv, Issued, TypeOK, DbEntry, ObjectEdit
  <2>2. mObjectEditList' \in Seq(ObjectEdit)
    BY <1>2, <2>1 DEF IInv, TypeOK
  <2> QED BY <1>2, <2>2, RequestLemma
          DEF IInv, TypeOK, IsCard, Issued, RootEntry, SameObject, Reply, Response
<1>3. CASE \E i \in getEditObject(h) :
              /\ mObjectEditList' = RemoveAt(mObjectEditList, i)
              /\ ForgetSendObject /\ Reply("OK")
              /\ UNCHANGED <<card, counter, db, mSessionOpen>>
  <2>1. PICK i \in 1 .. Len(mObjectEditList) :
           /\ mObjectEditList' = RemoveAt(mObjectEditList, i)
           /\ ForgetSendObject /\ Reply("OK")
           /\ UNCHANGED <<card, counter, db, mSessionOpen>>
    BY <1>3 DEF getEditObject, IInv, TypeOK
  <2>2. mObjectEditList \in Seq(ObjectEdit) /\ Len(mObjectEditList) \in Nat
    BY LenProperties DEF IInv, TypeOK
  <2>3. /\ SubSeq(mObjectEditList, 1, i - 1) \in Seq(ObjectEdit)
        /\ SubSeq(mObjectEditList, i + 1, Len(mObjectEditList)) \in Seq(ObjectEdit)
    BY <2>2, SubSeqProperties
  <2>4. mObjectEditList' \in Seq(ObjectEdit)
    BY <2>1, <2>3, ConcatProperties DEF RemoveAt
  <2> QED BY <2>1, <2>4, RequestLemma
          DEF IInv, TypeOK, IsCard, Issued, RootEntry, SameObject, Reply, Response
<1> QED BY <1>1, <1>2, <1>3 DEF BeginEditObject, EndEditObject, getObjectFilePath, Response

\* Sessions open and close without touching the database.
LEMMA SessionLemma == ASSUME IInv, OpenSession \/ CloseSession PROVE IInv'
  BY RequestLemma DEF OpenSession, CloseSession, IInv, TypeOK, IsCard, Issued, RootEntry, SameObject, Reply, Response

\* Requests that only read answer, and change nothing else.
LEMMA ReadLemma ==
    ASSUME IInv, NEW h \in HostHandle, GetObjectInfo(h) \/ GetObject(h) PROVE IInv'
  BY AnswerLemma DEF GetObjectInfo, GetObject, getObjectFilePath, Response

-----------------------------------------------------------------------------
(* Invariance.                                                             *)

\* Every step keeps the invariant: the case analysis over Next.
LEMMA StepLemma == IInv /\ [Next]_vars => IInv'
<1> SUFFICES ASSUME IInv, [Next]_vars PROVE IInv'
  OBVIOUS
<1>1. CASE UNCHANGED vars
  BY <1>1 DEF vars, sendObject, IInv, TypeOK, IsCard, Issued, RootEntry, AtRest, SendObjectReserved
<1>2. CASE \E unread : Start(unread)
  BY <1>2, StartLemma
<1>3. CASE Stop
  BY <1>3, TerminateLemma DEF Stop
<1>4. CASE OpenSession \/ CloseSession
  BY <1>4, SessionLemma
<1>5. CASE \E s \in StorageID, p \in HostHandle : \E unread :
              GetObjectHandles(s, p, unread) \/ GetNumObjects(s, p, unread)
  BY <1>5, ListingsLemma
<1>6. CASE \E h \in HostHandle : \E unread : GetObjectReferences(h, unread)
  BY <1>6, ListingsLemma, StorageAssumption
<1>7. CASE \E h \in HostHandle : GetObjectInfo(h) \/ GetObject(h)
  BY <1>7, ReadLemma
<1>8. CASE \E s \in StorageID, p \in HostHandle, n \in Name, f \in {"association", "other"} :
              SendObjectInfo(s, p, n, f)
  BY <1>8, SendObjectInfoLemma
<1>9. CASE \E unlinked : SendObject(unlinked)
  BY <1>9, SendObjectLemma
<1>10. CASE \E h \in HostHandle : \E refused : DeleteObject(h, refused)
  BY <1>10, DeleteObjectLemma
<1>11. CASE \E h, p \in HostHandle : MoveObject(h, p)
  BY <1>11, MoveObjectLemma
<1>12. CASE \E h \in HostHandle, n \in Name : SetObjectPropValue(h, n)
  BY <1>12, SetObjectPropValueLemma
<1>13. CASE \E h \in HostHandle : BeginEditObject(h) \/ EndEditObject(h)
  BY <1>13, EditLemma
<1> QED BY <1>1, <1>2, <1>3, <1>4, <1>5, <1>6, <1>7, <1>8, <1>9, <1>10, <1>11, <1>12, <1>13 DEF Next

\* The invariant holds of every behaviour.
THEOREM Invariance == Spec => []IInv
  BY InitLemma, StepLemma, PTL DEF Spec

\* The state has its types.
THEOREM TypeCorrect == Spec => []TypeOK
  BY Invariance, PTL DEF IInv

\* The handle SendObjectInfo reserved is still good when SendObject uses it.
THEOREM ReservedHandleKept == Spec => []SendObjectReserved
  BY Invariance, PTL DEF IInv

\* No host ever learns the handle of the root, whatever it asks for.
THEOREM RootOutOfReach == Spec => []RootHidden
<1>1. IInv => RootHidden
  <2> SUFFICES ASSUME IInv, status = "running" PROVE RootHidden
    BY DEF RootHidden
  <2>1. ASSUME NEW s \in StorageID, NEW p \in HostHandle PROVE 1 \notin Listing(s, p)
    <3>1. p # MTP_PARENT_ROOT => db[1].parent # p
      BY DEF IInv, RootEntry
    <3>2. db[1].parent # 0
      BY Constants DEF IInv, RootEntry
    <3> QED BY <3>1, <3>2 DEF Listing
  <2> QED BY <2>1 DEF IInv, RootEntry, RootHidden
<1> QED BY <1>1, Invariance, PTL

-----------------------------------------------------------------------------
(* Handles are unique and not reused: the server implements ObjectHandles. *)

Grows ==
    /\ counter' >= counter
    /\ DOMAIN db \subseteq DOMAIN db'
    /\ \A h \in DOMAIN db' \ DOMAIN db : h >= counter

Shrinks == counter' = counter /\ DOMAIN db' \subseteq DOMAIN db

\* A step that only adds handles at or above the counter issues them; one
\* that only removes handles retires them.
LEMMA HandleStep ==
    ASSUME IInv, IInv', status = "running", status' = "running", Grows \/ Shrinks
    PROVE  Handles!Next
<1>1. /\ counter \in Nat /\ counter' \in Nat /\ counter' <= MaxHandle + 1 /\ MaxHandle \in Nat
      /\ DOMAIN db \subseteq 1 .. (counter - 1) /\ DOMAIN db' \subseteq 1 .. (counter' - 1)
  BY Constants DEF IInv, TypeOK, Issued
<1>2. CASE Grows
  <2>1. /\ (1 .. counter - 1) \ DOMAIN db \subseteq (1 .. counter' - 1) \ DOMAIN db'
        /\ DOMAIN db' \cup ((1 .. counter' - 1) \ DOMAIN db') \subseteq 1 .. MaxHandle
    BY <1>1, <1>2 DEF Grows
  <2>2. DOMAIN db' \cap ((1 .. counter' - 1) \ DOMAIN db') = {}
    OBVIOUS
  <2> QED BY <1>2, <2>1, <2>2 DEF Grows, Handles!Next, Handles!Issue
<1>3. CASE Shrinks
  <2>1. (1 .. counter' - 1) \ DOMAIN db' =
            ((1 .. counter - 1) \ DOMAIN db) \cup (DOMAIN db \ DOMAIN db')
    BY <1>1, <1>3 DEF Shrinks
  <2> QED BY <1>3, <2>1 DEF Shrinks, Handles!Next, Handles!Retire
<1> QED BY <1>2, <1>3

\* Every action of a running server adds handles or removes some.
LEMMA ActionsGrowOrShrink ==
    ASSUME IInv, Next, status = "running", status' = "running"
    PROVE  Grows \/ Shrinks
<1> DEFINE Quiet == counter' = counter /\ db' = db
<1>1. Quiet => Shrinks
  BY DEF Shrinks
<1>2. \A code : Answer(code) => Quiet
  BY DEF Answer
<1>3. ASSUME NEW s \in StorageID, NEW p \in HostHandle, NEW unread, ListObjects(s, p, unread)
      PROVE  Grows
  <2>1. p \in 0 .. MTP_PARENT_ROOT /\ counter \in Nat /\ MTP_PARENT_ROOT \in Nat
    BY Constants DEF IInv, TypeOK
  <2>2. getObjectList(s, p, unread)
    BY <1>3 DEF ListObjects
  <2> QED BY <2>1, <2>2, ListLemma DEF Grows
<1>4. ~Abort /\ ~Stop /\ \A unread : ~Start(unread)
  BY DEF Abort, Stop, Start, Terminate
<1>5. CASE \E s \in StorageID, p \in HostHandle : \E unread :
              GetObjectHandles(s, p, unread) \/ GetNumObjects(s, p, unread)
  BY <1>1, <1>2, <1>3, <1>4, <1>5 DEF GetObjectHandles, GetNumObjects
<1>6. CASE \E h \in HostHandle : \E unread : GetObjectReferences(h, unread)
  <2>1. PICK h \in HostHandle : \E unread : GetObjectReferences(h, unread)
    BY <1>6
  <2>2. h \in DOMAIN db => db[h].storage_id \in StorageID
    BY DEF IInv, Issued, DbEntry
  <2> QED BY <1>1, <1>2, <1>3, <1>4, <2>1, <2>2 DEF GetObjectReferences
<1>7. CASE \E s \in StorageID, p \in HostHandle, n \in Name, f \in {"association", "other"} :
              SendObjectInfo(s, p, n, f)
  <2>1. ASSUME NEW q, NEW f, NEW p, NEW s, beginSendObject(q, f, p, s) PROVE Grows
    BY <2>1, Constants DEF beginSendObject, Insert, Grows, IInv, TypeOK
  <2> QED BY <1>1, <1>2, <1>7, <2>1
          DEF SendObjectInfo, SendObjectInfoRefused, SendObjectInfoFile, SendObjectInfoFolder
<1>8. CASE \E unlinked : SendObject(unlinked)
  BY <1>8 DEF SendObject, endSendObject, Erase, Restrict, Shrinks
<1>9. CASE \E h \in HostHandle : \E refused : DeleteObject(h, refused)
  BY <1>1, <1>2, <1>9 DEF DeleteObject, deleteFile, Erase, Restrict, Shrinks
<1>10. CASE \E h, p \in HostHandle : MoveObject(h, p)
  BY <1>1, <1>2, <1>10, Zenon DEF MoveObject, moveFile, Shrinks
<1>11. CASE \E h \in HostHandle, n \in Name : SetObjectPropValue(h, n)
  BY <1>1, <1>2, <1>11, Zenon DEF SetObjectPropValue, Shrinks
<1>12. CASE \/ OpenSession \/ CloseSession
            \/ \E h \in HostHandle : \/ GetObjectInfo(h) \/ GetObject(h)
                                     \/ BeginEditObject(h) \/ EndEditObject(h)
  BY <1>1, <1>2, <1>12
     DEF OpenSession, CloseSession, GetObjectInfo, GetObject, BeginEditObject, EndEditObject
<1> QED BY <1>4, <1>5, <1>6, <1>7, <1>8, <1>9, <1>10, <1>11, <1>12 DEF Next

\* A step starts the process, ends it, or answers a request.
LEMMA NextKinds ==
    ASSUME Next
    PROVE  \/ \E unread : Start(unread)
           \/ \E end \in {"stopped", "aborted"} : Terminate(end)
           \/ status = "running" /\ status' = "running"
<1> DEFINE Ends == \E end \in {"stopped", "aborted"} : Terminate(end)
           Runs == status = "running" /\ status' = "running"
<1>1. \A code : Reply(code) => Runs
  BY DEF Reply
<1>2. \A code : Answer(code) => Runs
  BY <1>1 DEF Answer
<1>3. Abort \/ Stop => Ends
  BY DEF Abort, Stop
<1> HIDE DEF Ends, Runs
<1>4. CASE \E unread : Start(unread)
  BY <1>4
<1>5. CASE Stop
  BY <1>3, <1>5 DEF Ends
<1>6. CASE \/ \E s \in StorageID, p \in HostHandle : \E unread :
              GetObjectHandles(s, p, unread) \/ GetNumObjects(s, p, unread)
           \/ \E h \in HostHandle : \E unread : GetObjectReferences(h, unread)
  BY <1>1, <1>2, <1>3, <1>6
     DEF GetObjectHandles, GetNumObjects, GetObjectReferences, ListObjects, Ends, Runs
<1>7. CASE \E s \in StorageID, p \in HostHandle, n \in Name, f \in {"association", "other"} :
              SendObjectInfo(s, p, n, f)
  BY <1>1, <1>2, <1>7
     DEF SendObjectInfo, SendObjectInfoRefused, SendObjectInfoFile, SendObjectInfoFolder, Runs
<1>8. CASE \E unlinked : SendObject(unlinked)
  BY <1>1, <1>8 DEF SendObject, Runs
<1>9. CASE \E h \in HostHandle : \E refused : DeleteObject(h, refused)
  BY <1>1, <1>2, <1>9 DEF DeleteObject, Runs
<1>10. CASE \E h, p \in HostHandle : MoveObject(h, p)
  BY <1>1, <1>2, <1>10, Zenon DEF MoveObject, Runs
<1>11. CASE \E h \in HostHandle, n \in Name : SetObjectPropValue(h, n)
  BY <1>1, <1>2, <1>11, Zenon DEF SetObjectPropValue, Runs
<1>12. CASE \/ OpenSession \/ CloseSession
            \/ \E h \in HostHandle : \/ GetObjectInfo(h) \/ GetObject(h)
                                     \/ BeginEditObject(h) \/ EndEditObject(h)
  BY <1>1, <1>2, <1>12
     DEF OpenSession, CloseSession, GetObjectInfo, GetObject, BeginEditObject, EndEditObject, Runs
<1> QED BY <1>4, <1>5, <1>6, <1>7, <1>8, <1>9, <1>10, <1>11, <1>12 DEF Next, Ends, Runs

\* The process starts and ends as ObjectHandles does.
LEMMA StartAndEnd ==
    ASSUME IInv, IInv', (\E unread : Start(unread)) \/ \E end \in {"stopped", "aborted"} : Terminate(end)
    PROVE  Handles!Next
<1>1. ASSUME NEW end \in {"stopped", "aborted"}, Terminate(end) PROVE Handles!Next
  <2>1. /\ (status = "running")' = FALSE
        /\ DOMAIN db' = {} /\ (1 .. counter' - 1) \ DOMAIN db' = {}
    BY <1>1 DEF Terminate, NoEntries
  <2> QED BY <2>1 DEF Handles!Next, Handles!Down
<1>2. ASSUME NEW unread, Start(unread) PROVE Handles!Next
  <2>1. /\ ~(status = "running") /\ (status = "running")' = TRUE
        /\ DOMAIN db' \subseteq 1 .. MaxHandle
        /\ (1 .. counter' - 1) \subseteq 1 .. MaxHandle
    BY <1>2, Constants DEF Start, IInv, TypeOK
  <2> QED BY <2>1 DEF Handles!Next, Handles!Up
<1> QED BY <1>1, <1>2

\* MtpTypes.h:45-46 holds of every behaviour: while the process runs, a
\* handle is given out once, and one that is spent names nothing again.
THEOREM HandleDiscipline == Spec => HandlesImplemented
<1>1. Init => Handles!Init
  <2>1. DOMAIN NoEntries = {}
    BY DEF NoEntries
  <2> QED BY <2>1 DEF Init, Handles!Init
<1>2. IInv /\ IInv' /\ [Next]_vars => [Handles!Next]_Handles!handles
  <2> SUFFICES ASSUME IInv, IInv', [Next]_vars PROVE [Handles!Next]_Handles!handles
    OBVIOUS
  <2>1. CASE UNCHANGED vars
    BY <2>1 DEF vars, Handles!handles
  <2>2. CASE Next
    BY <2>2, NextKinds, StartAndEnd, ActionsGrowOrShrink, HandleStep
  <2> QED BY <2>1, <2>2
<1> QED BY <1>1, <1>2, Invariance, PTL DEF Spec, HandlesImplemented, Handles!Spec

-----------------------------------------------------------------------------
(* Open edits.                                                             *)

\* A list without its i-th element, element by element.
LEMMA RemoveAtLemma ==
    ASSUME NEW S, NEW s \in Seq(S), NEW i \in 1 .. Len(s)
    PROVE  /\ RemoveAt(s, i) \in Seq(S)
           /\ Len(RemoveAt(s, i)) = Len(s) - 1
           /\ \A k \in 1 .. Len(s) - 1 :
                 RemoveAt(s, i)[k] = s[IF k < i THEN k ELSE k + 1]
<1> DEFINE a == SubSeq(s, 1, i - 1)
           b == SubSeq(s, i + 1, Len(s))
<1>1. Len(s) \in Nat /\ i \in Int
  BY LenProperties
<1>2. \A k \in 1 .. Len(s) : s[k] \in S
  BY ElementOfSeq
<1>3. /\ a \in Seq(S) /\ Len(a) = i - 1
      /\ \A k \in 1 .. i - 1 : a[k] = s[k]
  <2>1. \A k \in 1 .. i - 1 : s[k] \in S
    BY <1>1, <1>2
  <2>2. /\ a \in Seq(S)
        /\ Len(a) = IF 1 <= i - 1 THEN (i - 1) - 1 + 1 ELSE 0
        /\ \A k \in 1 .. (i - 1) - 1 + 1 : a[k] = s[1 + k - 1]
    BY <1>1, <2>1, SubSeqProperties
  <2> HIDE DEF a
  <2> QED
    BY <1>1, <2>2
<1>4. /\ b \in Seq(S) /\ Len(b) = Len(s) - i
      /\ \A k \in 1 .. Len(s) - i : b[k] = s[i + k]
  <2>1. \A k \in i + 1 .. Len(s) : s[k] \in S
    BY <1>1, <1>2
  <2>2. /\ b \in Seq(S)
        /\ Len(b) = IF i + 1 <= Len(s) THEN Len(s) - (i + 1) + 1 ELSE 0
        /\ \A k \in 1 .. Len(s) - (i + 1) + 1 : b[k] = s[(i + 1) + k - 1]
    BY <1>1, <2>1, SubSeqProperties
  <2> HIDE DEF b
  <2> QED
    BY <1>1, <2>2
<1>5. RemoveAt(s, i) = a \o b
  BY DEF RemoveAt
<1> HIDE DEF a, b
<1>6. /\ a \o b \in Seq(S)
      /\ Len(a \o b) = Len(a) + Len(b)
      /\ \A k \in 1 .. Len(a) + Len(b) :
            (a \o b)[k] = IF k <= Len(a) THEN a[k] ELSE b[k - Len(a)]
  BY <1>3, <1>4, ConcatProperties
<1>7. ASSUME NEW k \in 1 .. Len(s) - 1
      PROVE  (a \o b)[k] = s[IF k < i THEN k ELSE k + 1]
  <2>1. CASE k < i
    BY <1>1, <1>3, <1>4, <1>6, <2>1
  <2>2. CASE ~(k < i)
    <3>1. /\ k - Len(a) \in 1 .. Len(s) - i /\ i + (k - Len(a)) = k + 1
          /\ ~(k <= Len(a)) /\ k \in 1 .. Len(a) + Len(b)
      BY <1>1, <1>3, <1>4, <2>2
    <3> QED
      BY <1>4, <1>6, <2>2, <3>1
  <2> QED
    BY <2>1, <2>2
<1> QED
  BY <1>1, <1>3, <1>4, <1>5, <1>6, <1>7

\* Beginning an edit adds an object that has none; ending one takes it out.
LEMMA EditedOnceStep == IInv /\ EditedOnce /\ [Next]_vars => EditedOnce'
<1> SUFFICES ASSUME IInv, EditedOnce, [Next]_vars
             PROVE  EditedOnce'
  OBVIOUS
<1> DEFINE list == mObjectEditList
<1>1. list \in Seq(ObjectEdit) /\ Len(list) \in Nat /\ DOMAIN list = 1 .. Len(list)
  BY LenProperties DEF IInv, TypeOK
<1>2. list' = list => EditedOnce'
  BY DEF EditedOnce
<1>3. list' = << >> => EditedOnce'
  BY DEF EditedOnce
<1>4. ASSUME NEW h \in HostHandle, getEditObject(h) = {},
             list' = Append(list, [mHandle |-> h]), h \in 1 .. MaxHandle
      PROVE  EditedOnce'
  <2> DEFINE e == [mHandle |-> h]
  <2>1. e \in ObjectEdit /\ e.mHandle = h
    BY <1>4 DEF ObjectEdit
  <2>2. \A i \in 1 .. Len(list) : list[i].mHandle # h
    BY <1>1, <1>4 DEF getEditObject
  <2> HIDE DEF e
  <2>3. /\ Len(list') = Len(list) + 1 /\ DOMAIN list' = 1 .. Len(list) + 1
        /\ \A i \in 1 .. Len(list) : list'[i] = list[i]
        /\ list'[Len(list) + 1] = e
    BY <1>1, <1>4, <2>1, AppendProperties DEF e
  <2>4. SUFFICES ASSUME NEW i \in DOMAIN list', NEW j \in DOMAIN list',
                        list'[i].mHandle = list'[j].mHandle
                 PROVE  i = j
    BY DEF EditedOnce
  <2>5. CASE i \in 1 .. Len(list) /\ j \in 1 .. Len(list)
    BY <1>1, <2>3, <2>4, <2>5 DEF EditedOnce
  <2>6. CASE i \in 1 .. Len(list) /\ j = Len(list) + 1
    BY <2>1, <2>2, <2>3, <2>4, <2>6
  <2>7. CASE i = Len(list) + 1 /\ j \in 1 .. Len(list)
    BY <2>1, <2>2, <2>3, <2>4, <2>7
  <2> QED
    BY <1>1, <2>3, <2>5, <2>6, <2>7
<1>5. ASSUME NEW k \in DOMAIN list, list' = RemoveAt(list, k)
      PROVE  EditedOnce'
  <2>1. /\ Len(list') = Len(list) - 1 /\ list' \in Seq(ObjectEdit)
        /\ \A i \in 1 .. Len(list) - 1 : list'[i] = list[IF i < k THEN i ELSE i + 1]
    BY <1>1, <1>5, RemoveAtLemma
  <2>2. DOMAIN list' = 1 .. Len(list) - 1
    BY <2>1, LenProperties
  <2>3. SUFFICES ASSUME NEW i \in DOMAIN list', NEW j \in DOMAIN list',
                        list'[i].mHandle = list'[j].mHandle
                 PROVE  i = j
    BY DEF EditedOnce
  <2> DEFINE m == IF i < k THEN i ELSE i + 1
             n == IF j < k THEN j ELSE j + 1
  <2>4. m \in DOMAIN list /\ n \in DOMAIN list /\ (m = n => i = j)
    BY <1>1, <2>2
  <2>5. list'[i] = list[m] /\ list'[j] = list[n]
    BY <2>1, <2>2
  <2> QED
    BY <2>3, <2>4, <2>5 DEF EditedOnce
<1> HIDE DEF list
<1>6. \A code : Answer(code) => list' = list
  BY DEF Answer, list
<1>7. CASE \/ UNCHANGED vars \/ (\E unread : Start(unread)) \/ Stop \/ OpenSession \/ CloseSession
           \/ \E unlinked : SendObject(unlinked)
  BY <1>2, <1>3, <1>6, <1>7
     DEF vars, Start, Stop, Terminate, OpenSession, CloseSession, SendObject, list
<1>8. CASE \/ \E s \in StorageID, p \in HostHandle : \E unread :
              GetObjectHandles(s, p, unread) \/ GetNumObjects(s, p, unread)
           \/ \E h \in HostHandle : (\E unread : GetObjectReferences(h, unread)) \/ GetObjectInfo(h) \/ GetObject(h)
  BY <1>2, <1>3, <1>6, <1>8
     DEF GetObjectHandles, GetNumObjects, GetObjectReferences, GetObjectInfo, GetObject,
         ListObjects, Abort, Terminate, list
<1>9. CASE \E s \in StorageID, p \in HostHandle, n \in Name, f \in {"association", "other"} :
              SendObjectInfo(s, p, n, f)
  BY <1>2, <1>6, <1>9
     DEF SendObjectInfo, SendObjectInfoRefused, SendObjectInfoFile, SendObjectInfoFolder, list
<1>10. CASE \E h \in HostHandle : (\E refused : DeleteObject(h, refused)) \/ \E p \in HostHandle : MoveObject(h, p)
  BY <1>2, <1>6, <1>10, Zenon DEF DeleteObject, MoveObject, list
<1>11. CASE \E h \in HostHandle, n \in Name : SetObjectPropValue(h, n)
  BY <1>2, <1>6, <1>11, Zenon DEF SetObjectPropValue, list
<1>12. CASE \E h \in HostHandle : BeginEditObject(h)
  <2>1. PICK h \in HostHandle : BeginEditObject(h)
    BY <1>12
  <2>2. CASE \E code : Answer(code)
    BY <1>2, <1>6, <2>2
  <2>3. CASE /\ getEditObject(h) = {} /\ getObjectFilePath(h) = "OK"
             /\ list' = Append(list, [mHandle |-> h])
    <3>1. h \in DOMAIN db
      BY <2>3 DEF getObjectFilePath
    <3>2. h \in 1 .. MaxHandle
      BY <3>1 DEF IInv, TypeOK
    <3> QED
      BY <1>4, <2>3, <3>2
  <2> QED
    BY <2>1, <2>2, <2>3 DEF BeginEditObject, list
<1>13. CASE \E h \in HostHandle : EndEditObject(h)
  BY <1>2, <1>5, <1>6, <1>13 DEF EndEditObject, getEditObject, list
<1> QED
  BY <1>7, <1>8, <1>9, <1>10, <1>11, <1>12, <1>13 DEF Next

\* An object is open for edit at most once, so that getEditObject finds the
\* edit there is (MtpServer.cpp:291, 1295).
THEOREM EditsAreUnique == Spec => []EditedOnce
<1>1. Init => EditedOnce
  BY DEF Init, EditedOnce
<1> QED
  BY <1>1, EditedOnceStep, Invariance, PTL DEF Spec

-----------------------------------------------------------------------------
(* Sending and deleting.                                                   *)

LEMMA SendObjectWhole ==
    ASSUME IInv, NEW unlinked, SendObject(unlinked)
    PROVE  SendObjectOutcome(unlinked)
<1> DEFINE path == mSendObjectFilePath
<1>1. ASSUME card' = card, db' = Erase({mSendObjectHandle}), mResponse' # "OK"
      PROVE  SendObjectOutcome(unlinked)
  BY <1>1 DEF SendObjectOutcome, Erase, Restrict
<1>2. ASSUME mSendObjectHandle # kInvalidObjectHandle,
             db' = db, mResponse' = "OK", card' = With(path, "file")
      PROVE  SendObjectOutcome(unlinked)
  <2>1. mSendObjectHandle \in DOMAIN db /\ db[mSendObjectHandle].path = path
    BY <1>2 DEF IInv, SendObjectReserved
  <2>2. path \in DOMAIN card' /\ card'[path] = "file"
    BY <1>2 DEF With
  <2>3. \A p \in (DOMAIN card \cup DOMAIN card') \ {path} :
           p \in DOMAIN card \cap DOMAIN card' /\ card'[p] = card[p]
    BY <1>2 DEF With
  <2> QED
    BY <1>2, <2>1, <2>2, <2>3 DEF SendObjectOutcome
<1>3. ASSUME db' = Erase({mSendObjectHandle}), mResponse' # "OK",
             card' = IF unlinked THEN Without({path}) ELSE With(path, "file")
      PROVE  SendObjectOutcome(unlinked)
  BY <1>3 DEF SendObjectOutcome, Erase, Without, With, Restrict
<1> QED
  BY <1>1, <1>2, <1>3 DEF SendObject, endSendObject, Reply

\* SendObject answers OK only if the announced object is live and has its file,
\* and otherwise takes back the handle and leaves no file but one that unlink
\* refuses (MtpServer.cpp:1012-1075).
THEOREM SendsAllOrNothing == Spec => SendObjectAllOrNothing
<1>1. IInv => [\A unlinked \in BOOLEAN : SendObject(unlinked) => SendObjectOutcome(unlinked)]_vars
  BY SendObjectWhole
<1> QED
  BY <1>1, Invariance, PTL DEF SendObjectAllOrNothing

LEMMA DeleteObjectWhole ==
    ASSUME IInv, NEW h \in HostHandle, NEW refused \in SUBSET AtAndBelow(h),
           DeleteObject(h, refused)
    PROVE  DeleteOutcome(h, refused)
<1>1. CASE getObjectFilePath(h) # "OK"
  BY <1>1 DEF DeleteObject, DeleteOutcome, Answer, Reply
<1>2. CASE getObjectFilePath(h) = "OK"
  <2>1. h \in DOMAIN db /\ h # 1
    BY <1>2, Constants DEF getObjectFilePath
  <2>2. 1 \in DOMAIN db
    BY <1>2 DEF DeleteObject, Answer, Reply, IInv, RootEntry
  <2>3. DOMAIN db # {h}
    BY <2>1, <2>2
  <2>4. /\ db' = Erase({h} \cup {g \in DOMAIN db : db[g].parent = h})
        /\ mResponse' = "OK"
        /\ deletePath(db[h].path, refused)
    BY <1>2, <2>3 DEF DeleteObject, Answer, Reply, deleteFile, deleteFileResponse
  <2>5. /\ h \notin DOMAIN db'
        /\ \A c \in DOMAIN db' : db'[c].parent # h
    BY <2>4 DEF Erase, Restrict
  <2>6. card' = Without({p \in DOMAIN card :
                            IsPrefix(db[h].path, p) /\ \A k \in refused : ~IsPrefix(p, k)})
    BY <2>4 DEF deletePath
  <2>7. /\ \A p \in DOMAIN card' :
              /\ p \in DOMAIN card /\ card'[p] = card[p]
              /\ IsPrefix(db[h].path, p) => \E k \in refused : IsPrefix(p, k)
        /\ \A p \in DOMAIN card : ~IsPrefix(db[h].path, p) => p \in DOMAIN card'
    BY <2>6, Zenon DEF Without, Restrict
  <2>8. ASSUME NEW p \in DOMAIN card, p \in refused
        PROVE  p \in DOMAIN card'
    <3>1. p \in Seq(Name) /\ Len(p) \in Nat
      BY LenProperties DEF IInv, TypeOK, IsCard, Path
    <3>2. IsPrefix(p, p)
      BY <3>1, SubSeqFull DEF IsPrefix
    <3> QED
      BY <2>6, <2>8, <3>2, Zenon DEF Without, Restrict
  <2> QED
    BY <2>1, <2>4, <2>5, <2>7, <2>8 DEF DeleteOutcome
<1> QED
  BY <1>1, <1>2

\* DeleteObject takes away the object's handle, its children's and of its files
\* all that the card does not refuse to remove, or nothing
\* (MtpServer.cpp:1139-1161): the last entry, whose deletion the database
\* refuses after it has erased it, is the root's, which no host can name.
THEOREM DeletesAllOrNothing == Spec => DeleteAllOrNothing
<1>1. IInv => [\A h \in HostHandle : \A refused \in SUBSET AtAndBelow(h) :
                  DeleteObject(h, refused) => DeleteOutcome(h, refused)]_vars
  BY DeleteObjectWhole
<1> QED
  BY <1>1, Invariance, PTL DEF DeleteAllOrNothing

-----------------------------------------------------------------------------
(* Handles and their files.                                                *)

\* A path has itself for a prefix; one of its own length is the path itself.
LEMMA PrefixLemma ==
    ASSUME NEW p \in Path, NEW s \in Path
    PROVE  /\ IsPrefix(p, p)
           /\ IsPrefix(p, s) /\ Len(s) = Len(p) => s = p
           /\ IsPrefix(p, s) => Len(p) <= Len(s)
           /\ Len(p) \in Nat
BY SubSeqFull, LenProperties DEF Path, IsPrefix

\* The length of what a prefix is replaced in.
LEMMA RebasedLemma ==
    ASSUME NEW p \in Path, NEW q \in Path, NEW s \in Path, IsPrefix(p, s)
    PROVE  Len(Rebase(s, p, q)) = Len(q) + Len(s) - Len(p)
<1> DEFINE tail == SubSeq(s, Len(p) + 1, Len(s))
<1>1. Len(p) \in Nat /\ Len(q) \in Nat /\ Len(s) \in Nat /\ Len(p) <= Len(s)
  BY PrefixLemma
<1>2. \A i \in Len(p) + 1 .. Len(s) : s[i] \in Name
  BY <1>1, ElementOfSeq DEF Path
<1>3. /\ tail \in Seq(Name)
      /\ Len(tail) = IF Len(p) + 1 <= Len(s) THEN Len(s) - (Len(p) + 1) + 1 ELSE 0
  BY <1>1, <1>2, SubSeqProperties
<1>4. Rebase(s, p, q) = q \o tail
  BY DEF Rebase
<1> HIDE DEF tail
<1>5. Len(q \o tail) = Len(q) + Len(tail)
  BY <1>3, ConcatProperties DEF Path
<1> QED
  BY <1>1, <1>3, <1>4, <1>5

\* rename(2) takes the old path away and puts what it named at the new one.
LEMMA RenameLemma ==
    ASSUME IsCard, NEW p \in Path, NEW q \in Path, p # q, Len(p) <= Len(q),
           CanRename(p, q), card' = Renamed(p, q)
    PROVE  /\ p \in DOMAIN card \ DOMAIN card'
           /\ q \in DOMAIN card' \ DOMAIN card
           /\ card'[q] = card[p]
<1>1. p \in DOMAIN card /\ q \notin DOMAIN card /\ DOMAIN card \subseteq Path
  BY DEF CanRename, IsFree, Exists, IsCard
<1>2. Len(p) \in Nat /\ Len(q) \in Nat /\ IsPrefix(p, p)
  BY PrefixLemma
<1>3. ASSUME NEW s \in DOMAIN card
      PROVE  Rebase(s, p, q) # p
  <2>1. CASE IsPrefix(p, s)
    <3>1. Len(s) \in Nat /\ Len(p) <= Len(s)
      BY <1>1, <2>1, PrefixLemma
    <3>2. Len(Rebase(s, p, q)) = Len(q) + Len(s) - Len(p)
      BY <1>1, <2>1, RebasedLemma
    <3>3. Rebase(s, p, q) = p => Len(s) = Len(p)
      BY <1>2, <3>1, <3>2
    <3>4. Len(s) = Len(p) => Rebase(s, p, q) = q
      <4>1. SUFFICES ASSUME Len(s) = Len(p)
                     PROVE  Rebase(s, p, q) = q
        OBVIOUS
      <4>2. SubSeq(s, Len(p) + 1, Len(s)) = << >>
        BY <1>2, <4>1, SubSeqEmpty
      <4> QED
        BY <2>1, <4>2, ConcatEmptySeq DEF Rebase, Path
    <3> QED
      BY <3>3, <3>4
  <2>2. CASE ~IsPrefix(p, s)
    BY <1>2, <2>2 DEF Rebase
  <2> QED
    BY <2>1, <2>2
<1>4. Rebase(p, p, q) = q
  <2>1. SubSeq(p, Len(p) + 1, Len(p)) = << >>
    BY <1>2, SubSeqEmpty
  <2> QED
    BY <1>2, <2>1, ConcatEmptySeq DEF Rebase, Path
<1>5. ASSUME NEW s \in DOMAIN card, Rebase(s, p, q) = q
      PROVE  s = p
  <2>1. IsPrefix(p, s)
    BY <1>1, <1>5 DEF Rebase
  <2>2. Len(Rebase(s, p, q)) = Len(q) + Len(s) - Len(p) /\ Len(s) \in Nat
    BY <1>1, <2>1, RebasedLemma, PrefixLemma
  <2>3. Len(s) = Len(p)
    BY <1>2, <1>5, <2>2
  <2> QED
    BY <1>1, <2>1, <2>3, PrefixLemma
<1> DEFINE D == {Rebase(s, p, q) : s \in DOMAIN card}
           Was(r) == CHOOSE s \in DOMAIN card : Rebase(s, p, q) = r
<1>6. card' = [r \in D |-> card[Was(r)]]
  BY DEF Renamed
<1>7. p \notin D /\ q \in D
  BY <1>1, <1>3, <1>4
<1>8. Was(q) = p
  BY <1>1, <1>4, <1>5
<1> HIDE DEF D, Was
<1> QED
  BY <1>1, <1>6, <1>7, <1>8

\* A handle that stays keeps its path and its format.
Keeps ==
    \A h \in DOMAIN db \cap DOMAIN db' :
        db'[h].path = db[h].path /\ db'[h].object_format = db[h].object_format

LEMMA RenameBinds ==
    ASSUME IInv, NEW h \in HostHandle, NEW n \in Name, SetObjectPropValue(h, n)
    PROVE  Binding
<1> DEFINE oldpath == db[h].path
           newpath == Append(Front(oldpath), n)
<1>1. ASSUME db' = db
      PROVE  Binding
  BY <1>1 DEF Binding
<1>2. ASSUME getObjectFilePath(h) = "OK", CanRename(oldpath, newpath),
             card' = Renamed(oldpath, newpath),
             db' = [db EXCEPT ![h].path = newpath]
      PROVE  Binding
  <2>1. h \in DOMAIN db /\ db \in [DOMAIN db -> DbEntry]
    BY <1>2 DEF getObjectFilePath, IInv, Issued
  <2>2. oldpath \in Path /\ newpath \in Path /\ IsCard
    BY <2>1, PathLemma DEF DbEntry, IInv, TypeOK
  <2>3. Len(oldpath) <= Len(newpath)
    <3>1. Len(oldpath) \in Nat /\ oldpath \in Seq(Name)
      BY <2>2, LenProperties DEF Path
    <3>2. \A i \in 1 .. Len(oldpath) - 1 : oldpath[i] \in Name
      BY <3>1, ElementOfSeq
    <3> HIDE DEF oldpath
    <3>3. /\ Front(oldpath) \in Seq(Name)
          /\ Len(Front(oldpath)) = IF 1 <= Len(oldpath) - 1 THEN (Len(oldpath) - 1) - 1 + 1 ELSE 0
      BY <3>1, <3>2, SubSeqProperties DEF Front
    <3>4. Len(newpath) = Len(Front(oldpath)) + 1
      BY <3>3, AppendProperties
    <3> QED
      BY <3>1, <3>3, <3>4
  <2> HIDE DEF oldpath, newpath
  <2>4. /\ DOMAIN db' = DOMAIN db
        /\ db'[h].path = newpath
        /\ db'[h].object_format = db[h].object_format
        /\ \A g \in DOMAIN db \ {h} : db'[g] = db[g]
    BY <1>2, <2>1, <2>2, PathUpdateLemma
  <2>5. newpath # oldpath =>
           /\ oldpath \in DOMAIN card \ DOMAIN card'
           /\ newpath \in DOMAIN card' \ DOMAIN card
           /\ card'[newpath] = card[oldpath]
    BY <1>2, <2>2, <2>3, RenameLemma
  <2> QED
    BY <2>4, <2>5 DEF Binding, oldpath
<1>3. \A code : Answer(code) => db' = db
  BY DEF Answer
<1> QED
  BY <1>1, <1>2, <1>3, Zenon DEF SetObjectPropValue

LEMMA OthersKeep ==
    ASSUME IInv, Next, status = "running", status' = "running",
           ~ \E h \in HostHandle, n \in Name : SetObjectPropValue(h, n)
    PROVE  Keeps
<1>1. db' = db => Keeps
  BY DEF Keeps
<1>2. \A code : Answer(code) => db' = db
  BY DEF Answer
<1>3. ~Abort /\ ~Stop /\ \A unread : ~Start(unread)
  BY DEF Abort, Stop, Start, Terminate
<1>4. ASSUME NEW s \in StorageID, NEW p \in HostHandle, NEW unread, ListObjects(s, p, unread)
      PROVE  Keeps
  <2>1. p \in 0 .. MTP_PARENT_ROOT
    BY Constants
  <2>2. getObjectList(s, p, unread)
    BY <1>4 DEF ListObjects
  <2> QED
    BY <2>1, <2>2, ListLemma DEF Keeps, SameObject
<1>5. ASSUME NEW S, db' = Erase(S)
      PROVE  Keeps
  BY <1>5 DEF Keeps, Erase, Restrict
<1>6. ASSUME NEW q, NEW f, NEW p, NEW s, beginSendObject(q, f, p, s)
      PROVE  Keeps
  BY <1>6 DEF beginSendObject, Insert, Keeps
<1>7. CASE \E s \in StorageID, p \in HostHandle : \E unread :
              GetObjectHandles(s, p, unread) \/ GetNumObjects(s, p, unread)
  BY <1>1, <1>2, <1>3, <1>4, <1>7 DEF GetObjectHandles, GetNumObjects
<1>8. CASE \E h \in HostHandle : \E unread : GetObjectReferences(h, unread)
  <2>1. PICK h \in HostHandle : \E unread : GetObjectReferences(h, unread)
    BY <1>8
  <2>2. h \in DOMAIN db => db[h].storage_id \in StorageID
    BY DEF IInv, Issued, DbEntry
  <2> QED
    BY <1>1, <1>2, <1>3, <1>4, <2>1, <2>2 DEF GetObjectReferences
<1>9. CASE \E s \in StorageID, p \in HostHandle, n \in Name, f \in {"association", "other"} :
              SendObjectInfo(s, p, n, f)
  BY <1>1, <1>2, <1>6, <1>9
     DEF SendObjectInfo, SendObjectInfoRefused, SendObjectInfoFile, SendObjectInfoFolder
<1>10. CASE \E unlinked : SendObject(unlinked)
  BY <1>1, <1>5, <1>10 DEF SendObject, endSendObject
<1>11. CASE \E h \in HostHandle : \E refused : DeleteObject(h, refused)
  BY <1>1, <1>2, <1>5, <1>11 DEF DeleteObject, deleteFile
<1>12. CASE \E h, p \in HostHandle : MoveObject(h, p)
  <2>1. PICK h \in HostHandle, p \in HostHandle : MoveObject(h, p)
    BY <1>12
  <2>2. CASE getObjectFilePath(h) # "OK"
    BY <1>1, <1>2, <2>1, <2>2 DEF MoveObject
  <2>3. CASE getObjectFilePath(h) = "OK"
    <3>1. h \in DOMAIN db /\ moveFile(h, p) /\ p \in 0 .. MTP_PARENT_ROOT
      BY <2>1, <2>3, Constants DEF MoveObject, getObjectFilePath
    <3>2. db \in [DOMAIN db -> DbEntry]
      BY DEF IInv, Issued
    <3>3. /\ DOMAIN db' = DOMAIN db
          /\ db'[h].path = db[h].path /\ db'[h].object_format = db[h].object_format
          /\ \A g \in DOMAIN db \ {h} : db'[g] = db[g]
      BY <3>1, <3>2, MoveLemma
    <3> QED
      BY <3>3 DEF Keeps
  <2> QED
    BY <2>2, <2>3
<1>13. CASE \/ OpenSession \/ CloseSession
            \/ \E h \in HostHandle : \/ GetObjectInfo(h) \/ GetObject(h)
                                     \/ BeginEditObject(h) \/ EndEditObject(h)
  BY <1>1, <1>2, <1>13
     DEF OpenSession, CloseSession, GetObjectInfo, GetObject, BeginEditObject, EndEditObject
<1> QED
  BY <1>3, <1>7, <1>8, <1>9, <1>10, <1>11, <1>12, <1>13 DEF Next

\* While it is live a handle names one file and keeps its format: its path
\* changes only when rename(2) has moved what it names (SwitchMtpDatabase.h:542-557).
THEOREM HandlesStayBound == Spec => BindingKept
<1> DEFINE Bound == status' = "running" /\ status = "running" => Binding
<1>1. IInv /\ [Next]_vars => [Bound]_vars
  <2> SUFFICES ASSUME IInv, Next, status = "running", status' = "running"
               PROVE  Binding
    OBVIOUS
  <2>1. Keeps => Binding
    BY DEF Keeps, Binding
  <2> QED
    BY <2>1, OthersKeep, RenameBinds
<1> QED
  BY <1>1, Invariance, PTL DEF BindingKept, Spec

-----------------------------------------------------------------------------
(* Listing a directory.                                                    *)

\* What a scan of a directory adds: an entry for each thing in it.
LEMMA DirectoryLemma ==
    ASSUME IsCard, NEW c \in 1 .. MTP_PARENT_ROOT, NEW d, Issued(d, c),
           NEW p, IsDirectory(p), NEW parent \in DOMAIN d \cup {0}, NEW s,
           NEW unread, NEW o \in parse_directory(c, d, p, parent, s, unread)
    PROVE  /\ DOMAIN d \subseteq DOMAIN o.db
           /\ \A h \in DOMAIN d : /\ SameObject(o.db[h], d[h])
                                  /\ o.db[h].scanned <=> d[h].scanned \/ h = parent
           /\ \A g \in DOMAIN o.db \ DOMAIN d :
                 /\ o.db[g].path \in Children(p) \ unread /\ o.db[g].parent = parent
                 /\ ~o.db[g].scanned /\ o.db[g].storage_id = s
                 /\ o.db[g].object_format = "association" <=> IsDirectory(o.db[g].path)
           /\ \A g, i \in DOMAIN o.db \ DOMAIN d : o.db[g].path = o.db[i].path => g = i
           /\ \A q \in Children(p) \ unread : \E g \in DOMAIN o.db \ DOMAIN d : o.db[g].path = q
<1>0. PICK n \in 0 .. (MTP_PARENT_ROOT - c) :
         \E order \in Bijection(c .. (c + n - 1), Children(p)) :
            o = [counter |-> c + n,
                 db |-> SetScanned(Insert(add_file_entry(order, parent, s, unread), d), parent)]
  BY DEF parse_directory, Visited
<1>1. PICK order \in Bijection(c .. (c + n - 1), Children(p)) :
         o = [counter |-> c + n,
              db |-> SetScanned(Insert(add_file_entry(order, parent, s, unread), d), parent)]
  BY <1>0
<1> DEFINE I == {i \in c .. (c + n - 1) : order[i] \notin unread}
           new == add_file_entry(order, parent, s, unread)
           all == Insert(new, d)
<1>2. /\ order \in [c .. (c + n - 1) -> Children(p)]
      /\ \A g \in I : order[g] \in Children(p) \ unread
      /\ \A g, i \in I : order[g] = order[i] => g = i
      /\ \A q \in Children(p) \ unread : \E g \in I : order[g] = q
  BY <1>1 DEF Bijection, Injection, Surjection, IsInjective
<1>3. \A q \in Children(p) : Exists(q)
  BY DEF Children, Exists
<1>4. /\ DOMAIN new = I
      /\ \A g \in I : /\ new[g].path = order[g] /\ new[g].parent = parent
                      /\ ~new[g].scanned /\ new[g].storage_id = s
                      /\ new[g].object_format = "association" <=> IsDirectory(order[g])
  <2>1. {i \in DOMAIN order : Exists(order[i]) /\ order[i] \notin unread} = I
    BY <1>2, <1>3
  <2> HIDE DEF I
  <2> QED
    BY <2>1 DEF add_file_entry, NewEntry
<1>5. I \cap DOMAIN d = {}
  BY Constants DEF Issued
<1> HIDE DEF new, I
<1>6. /\ DOMAIN all = DOMAIN d \cup I
      /\ \A h \in DOMAIN d : all[h] = d[h]
      /\ \A g \in I : all[g] = new[g]
  BY <1>4, <1>5 DEF Insert
<1> HIDE DEF all
<1>7. o.db = SetScanned(all, parent)
  BY <1>1 DEF new, all
<1>8. /\ DOMAIN o.db = DOMAIN d \cup I
      /\ \A g \in I : o.db[g] = new[g]
      /\ \A h \in DOMAIN d : /\ SameObject(o.db[h], d[h])
                             /\ o.db[h].scanned <=> d[h].scanned \/ h = parent
  <2>1. \A h \in DOMAIN d : d[h] \in DbEntry /\ d[h].scanned \in BOOLEAN
    BY DEF Issued, DbEntry
  <2>2. CASE parent \in DOMAIN d
    <3> DEFINE e == all[parent]
               f == [e EXCEPT !.scanned = TRUE]
    <3>1. e \in DbEntry /\ e = d[parent]
      BY <1>6, <2>1, <2>2
    <3>2. SameObject(f, e) /\ f.scanned = TRUE
      BY <3>1, Zenon DEF DbEntry, SameObject
    <3>3. o.db = [all EXCEPT ![parent].scanned = TRUE]
      BY <1>6, <1>7, <2>2 DEF SetScanned
    <3>4. DOMAIN o.db = DOMAIN all /\ o.db[parent] = f /\ \A g \in DOMAIN all \ {parent} : o.db[g] = all[g]
      BY <1>6, <2>2, <3>3, Zenon
    <3> HIDE DEF f
    <3>5. \A g \in I : g # parent
      BY <1>5, <2>2
    <3>6. \A g \in I : o.db[g] = new[g]
      BY <1>6, <3>4, <3>5
    <3>7. ASSUME NEW h \in DOMAIN d
          PROVE  SameObject(o.db[h], d[h]) /\ (o.db[h].scanned <=> d[h].scanned \/ h = parent)
      <4>1. CASE h = parent
        BY <3>1, <3>2, <3>4, <4>1
      <4>2. CASE h # parent
        <5>1. o.db[h] = d[h]
          BY <1>6, <3>4, <4>2
        <5> QED
          BY <4>2, <5>1 DEF SameObject
      <4> QED
        BY <4>1, <4>2
    <3> QED
      BY <1>6, <3>4, <3>6, <3>7
  <2>3. CASE parent \notin DOMAIN d
    <3>1. parent = 0 /\ 0 \notin I
      BY <2>3, Constants DEF I
    <3>2. o.db = all
      BY <1>6, <1>7, <2>3, <3>1 DEF SetScanned
    <3> QED
      BY <1>6, <2>1, <2>3, <3>2 DEF SameObject
  <2> QED
    BY <2>2, <2>3
<1>9. DOMAIN o.db \ DOMAIN d = I
  BY <1>5, <1>8
<1> QED
  BY <1>2, <1>4, <1>8, <1>9


\* A folder that has no entries yet gets, with its first listing, an entry for
\* each thing in it and no other, and is never read again.
LEMMA FirstListing ==
    ASSUME IInv, NEW s \in StorageID, NEW p \in HostHandle, NEW unread,
           GetObjectHandles(s, p, unread), status' = "running", mResponse' = "OK", p \in DOMAIN db
    PROVE  IF db[p].scanned THEN UNCHANGED <<counter, db>>
           ELSE (IsDirectory(db[p].path) /\ \A h \in DOMAIN db : db[h].parent # p)
                    => MirrorsDirectory(s, p, unread)
<1>1. /\ IsCard /\ counter \in 1 .. MTP_PARENT_ROOT /\ Issued(db, counter)
      /\ p # MTP_PARENT_ROOT /\ isHandleValid(p)
  BY Constants DEF IInv, TypeOK, Issued, isHandleValid
<1>2. getObjectList(s, p, unread)
  BY <1>1 DEF GetObjectHandles, ListingThrows, ListObjects, Answer, Reply, Abort, Terminate
<1>3. CASE db[p].scanned
  BY <1>2, <1>3 DEF getObjectList, NeedsScan
<1>4. ASSUME ~db[p].scanned, IsDirectory(db[p].path), \A h \in DOMAIN db : db[h].parent # p
      PROVE  MirrorsDirectory(s, p, unread)
  <2> DEFINE dir == db[p].path
             new == DOMAIN db' \ DOMAIN db
             shown == {h \in DOMAIN db' : db'[h].parent = p}
  <2>1. PICK o \in parse_directory(counter, db, dir, p, s, unread) : counter' = o.counter /\ db' = o.db
    BY <1>1, <1>2, <1>4 DEF getObjectList, NeedsScan
  <2>2. IsDirectory(dir)
    BY <1>4
  <2> HIDE DEF dir
  <2>3. /\ DOMAIN db \subseteq DOMAIN db'
        /\ \A h \in DOMAIN db : /\ SameObject(db'[h], db[h])
                                /\ db'[h].scanned <=> db[h].scanned \/ h = p
        /\ \A g \in new :
              /\ db'[g].path \in Children(dir) \ unread /\ db'[g].parent = p
              /\ ~db'[g].scanned /\ db'[g].storage_id = s
              /\ db'[g].object_format = "association" <=> IsDirectory(db'[g].path)
        /\ \A g, i \in new : db'[g].path = db'[i].path => g = i
        /\ \A q \in Children(dir) \ unread : \E g \in new : db'[g].path = q
    BY <1>1, <2>1, <2>2, DirectoryLemma
  <2>4. shown = new
    BY <1>4, <2>3 DEF SameObject
  <2> HIDE DEF new
  <2>5. {db'[h].path : h \in shown} = Children(dir) \ unread
    BY <2>3, <2>4
  <2>6. db'[p].scanned
    BY <2>3
  <2> QED
    BY <2>3, <2>4, <2>5, <2>6 DEF MirrorsDirectory, dir
<1> QED
  BY <1>3, <1>4

\* GetObjectHandles shows a folder as it is on the card when it is read for
\* the first time: nothing parse_directory could read is missing, nothing is twice.
THEOREM FirstListingsComplete == Spec => FirstListingComplete
<1>1. IInv /\ [Next]_vars =>
         [\A s \in StorageID, p \in HostHandle : \A unread \in SUBSET MayMiss(p) :
            /\ status' = "running" /\ mResponse' = "OK" /\ p \in DOMAIN db
            /\ GetObjectHandles(s, p, unread)
            => IF db[p].scanned THEN UNCHANGED <<counter, db>>
               ELSE (IsDirectory(db[p].path) /\ \A h \in DOMAIN db : db[h].parent # p)
                        => MirrorsDirectory(s, p, unread)]_vars
  BY FirstListing
<1> QED
  BY <1>1, Invariance, PTL DEF Spec, FirstListingComplete
=============================================================================
