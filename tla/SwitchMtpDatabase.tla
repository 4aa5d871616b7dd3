------------------------- MODULE SwitchMtpDatabase -------------------------
(***************************************************************************)
(* The object database (SwitchMtpDatabase.h): a map from object handles to *)
(* entries that mirror the card, filled one directory at a time, the first *)
(* time the host lists it.  Sizes, dates and display names are left out    *)
(* (the display name is the last component of the path).  What the card    *)
(* fails to tell in a scan is an argument of it: unread, the entries whose *)
(* properties cannot be read.                                              *)
(***************************************************************************)
EXTENDS SdCard, Integers

CONSTANTS
    MaxHandle,      \* bound: the last handle; 2^32 - 2 in the code
    SdStorage,      \* MTP_STORAGE_REMOVABLE_RAM, the id main.cpp registers
    AllStorages,    \* 0xFFFFFFFF in a request
    DefaultStorage, \* 0 in a request
    StorageID,      \* the storage ids the host uses
    HostHandle      \* the handles the host names

\* Handle 1 goes to the root's own entry, which no listing shows.
ASSUME HandleAssumption ==
    /\ MaxHandle \in Nat \ {0}
    /\ HostHandle \subseteq {0} \cup (2 .. (MaxHandle + 1))
ASSUME StorageAssumption == 
    /\ SdStorage \in StorageID
    /\ StorageID \subseteq {SdStorage, AllStorages, DefaultStorage}
    /\ SdStorage \notin {AllStorages, DefaultStorage}
    /\ AllStorages # DefaultStorage

VARIABLES
    counter,        \* the next handle
    db              \* live handle -> DbEntry

MTP_PARENT_ROOT      == MaxHandle + 1
kInvalidObjectHandle == MaxHandle + 1

DbEntry ==
    [storage_id    : StorageID,
     object_format : {"association", "other"},
     parent        : 0 .. MTP_PARENT_ROOT,
     path          : Path,
     scanned       : BOOLEAN]

NewEntry(storage, format, parent, path) ==
    [storage_id |-> storage, object_format |-> format, parent |-> parent,
     path |-> path, scanned |-> FALSE]

isHandleValid(handle) == handle > 0 /\ handle < counter

\* std::map::insert leaves an existing key alone.
Insert(entries, d) == [h \in DOMAIN d \cup DOMAIN entries |->
                          IF h \in DOMAIN d THEN d[h] ELSE entries[h]]

Erase(S) == Restrict(db, DOMAIN db \ S)

-----------------------------------------------------------------------------
(* Scanning.                                                               *)

\* Mutant: the handler of the inner try drops directories too.
add_file_entry_FilesOnly(order, parent, storage, unread) ==
    [h \in {i \in DOMAIN order : IsFile(order[i]) /\ order[i] \notin unread} |->
        NewEntry(storage, "other", parent, order[h])]

\* Every path takes a handle; one whose properties cannot be read takes it
\* for nothing.
add_file_entry(order, parent, storage, unread) ==
    [h \in {i \in DOMAIN order : Exists(order[i]) /\ order[i] \notin unread} |->
        NewEntry(storage, IF IsDirectory(order[h]) THEN "association" ELSE "other",
                 parent, order[h])]

\* Mutant: the mark is set on a copy of the entry.
SetScanned_OnCopy(d, h) == d

SetScanned(d, h) == IF h \in DOMAIN d THEN [d EXCEPT ![h].scanned = TRUE] ELSE d

\* What a scan of p visits: a p that is not a directory becomes a child of itself.
Visited(p) == IF IsDirectory(p) THEN Children(p) ELSE {p}

\* Mutant: the counter is not advanced past the last entry.
parse_directory_OffByOne(c, d, p, parent, storage, unread) ==
    UNION {{[counter |-> IF n = 0 THEN c ELSE c + n - 1,
             db |-> SetScanned(Insert(add_file_entry(order, parent, storage, unread), d), parent)] :
                order \in Bijection(c .. (c + n - 1), Visited(p))} :
           n \in 0 .. (MTP_PARENT_ROOT - c)}

\* The databases that scanning p from handle c on can leave, over the orders
\* in which the directory is read.
parse_directory(c, d, p, parent, storage, unread) ==
    UNION {{[counter |-> c + n,
             db |-> SetScanned(Insert(add_file_entry(order, parent, storage, unread), d), parent)] :
                order \in Bijection(c .. (c + n - 1), Visited(p))} :
           n \in 0 .. (MTP_PARENT_ROOT - c)}

\* Mutant: hidden is taken for false.
readFiles_Shown(unread) ==
    parse_directory(2, [h \in {1} |-> NewEntry(SdStorage, "association", 0, Root)],
                    Root, 0, SdStorage, unread)

\* The constructor and addStoragePath("sdmc:/", ..., hidden = true).  A root
\* directory that cannot be read at all leaves its own entry alone.
readFiles(unread) ==
    LET root == [h \in {1} |-> NewEntry(SdStorage, "association", MTP_PARENT_ROOT, Root)]
    IN  parse_directory(2, root, Root, 0, SdStorage, unread)
            \cup {r \in {[counter |-> 2, db |-> root]} : unread = Visited(Root)}

-----------------------------------------------------------------------------
(* Queries.                                                                *)

getObjectFilePath(handle) ==
    IF handle \in {0, MTP_PARENT_ROOT} THEN "INVALID_OBJECT_HANDLE"
    ELSE IF handle \in DOMAIN db THEN "OK" ELSE "GENERAL_ERROR"

\* db.at(parent) outside the try block: the exception reaches the caller.  So
\* does that of a scan that cannot read its directory, before it has added an entry.
ListingThrows(parent) == parent # MTP_PARENT_ROOT /\ isHandleValid(parent) /\ parent \notin DOMAIN db

NeedsScan(parent) ==
    /\ parent \in DOMAIN db
    /\ parent # MTP_PARENT_ROOT
    /\ isHandleValid(parent)
    /\ ~db[parent].scanned

\* The entries a listing of parent may fail to read.
MayMiss(parent) == IF NeedsScan(parent) THEN Visited(db[parent].path) ELSE {}

\* What getObjectList does to the database before it filters it.
getObjectList(storageID, parent, unread) ==
    IF NeedsScan(parent)
    THEN \E scan \in parse_directory(counter, db, db[parent].path, parent, storageID, unread) :
            counter' = scan.counter /\ db' = scan.db
    ELSE UNCHANGED <<counter, db>>

\* The handles it answers with, for all formats.
Listing(storageID, parent) ==
    {h \in DOMAIN db : /\ db[h].storage_id = storageID
                       /\ db[h].parent = IF parent = MTP_PARENT_ROOT THEN 0 ELSE parent}

-----------------------------------------------------------------------------
(* Updates.                                                                *)

\* Mutant: counter++ is missing.
beginSendObject_NoIncrement(path, format, parent, storage) ==
    /\ counter < MTP_PARENT_ROOT
    /\ counter' = counter
    /\ db' = Insert([h \in {counter} |-> NewEntry(storage, format, parent, path)], db)

\* The guard for MTP_STORAGE_FIXED_RAM is left out: main.cpp registers no such storage.
beginSendObject(path, format, parent, storage) ==
    /\ counter < MTP_PARENT_ROOT
    /\ counter' = counter + 1
    /\ db' = Insert([h \in {counter} |-> NewEntry(storage, format, parent, path)], db)

\* Mutant: the outcome is not looked at.
endSendObject_KeepsEntry(handle, succeeded) == db' = db

\* A success only refreshes the object's size.
endSendObject(handle, succeeded) == db' = IF succeeded THEN db ELSE Erase({handle})

\* Mutant: the loop over the children is missing.
deleteFile_LeavesChildren(handle) == db' = Erase({handle})

\* Mutant: the loop compares the parents of the two objects.
deleteFile_TakesSiblings(handle) ==
    db' = Erase({handle} \cup {h \in DOMAIN db : db[h].parent = db[handle].parent})

\* The guard compares the size of the map with the number of entries erased:
\* it holds unless the object was the last entry.  Direct children only.
deleteFile(handle) ==
    IF DOMAIN db # {handle}
    THEN db' = Erase({handle} \cup {h \in DOMAIN db : db[h].parent = handle})
    ELSE db' = Erase({handle})

deleteFileResponse(handle) == IF DOMAIN db # {handle} THEN "OK" ELSE "GENERAL_ERROR"

moveFile(handle, new_parent) == db' = [db EXCEPT ![handle].parent = new_parent]
=============================================================================
