----------------------------- MODULE MtpServer -----------------------------
(***************************************************************************)
(* The request handlers of MtpServer.cpp over the object database and the  *)
(* card.  A handler runs to its response while the server holds mMutex, so *)
(* each is one action, with the operation's parameters as its arguments.   *)
(* Data phases, object contents and sizes are left out.  A card operation  *)
(* may always fail: the card may be full, busy or removed.  A failure the  *)
(* code does not answer with an error is an argument of its action: unread *)
(* in a scan, refused and unlinked where files are removed.                *)
(***************************************************************************)
EXTENDS SwitchMtpDatabase

CONSTANT MaxEdits       \* bound: objects open for edit at a time

ASSUME EditsAssumption == MaxEdits \in Nat

VARIABLES
    status,                 \* "running", "stopped" or "aborted" (uncaught exception)
    mSessionOpen,
    mSendObjectHandle,      \* reserved by SendObjectInfo for SendObject
    mSendObjectFilePath,    \* read only while a handle is reserved; Root otherwise
    mObjectEditList,        \* the open edits, oldest first
    mResponse               \* the last response code; "none" when there is none

sendObject == <<mSendObjectHandle, mSendObjectFilePath>>
vars == <<card, counter, db, status, mSessionOpen, sendObject, mObjectEditList, mResponse>>

ObjectEdit == [mHandle : 1 .. MaxHandle]

Response == {"none", "OK", "GENERAL_ERROR", "DEVICE_BUSY", "INVALID_OBJECT_HANDLE",
             "INVALID_PARENT_OBJECT", "INVALID_STORAGE_ID", "SESSION_NOT_OPEN",
             "SESSION_ALREADY_OPEN", "STORAGE_FULL", "OBJECT_TOO_LARGE",
             "NO_VALID_OBJECT_INFO", "OPERATION_NOT_SUPPORTED", "TRANSACTION_CANCELLED"}

NoEntries == [h \in {} |-> h]

\* The process ends, and with it all it keeps in memory.
Terminate(end) ==
    /\ status' = end
    /\ counter' = 1
    /\ db' = NoEntries
    /\ mSessionOpen' = FALSE
    /\ mSendObjectHandle' = kInvalidObjectHandle
    /\ mSendObjectFilePath' = Root
    /\ mObjectEditList' = << >>
    /\ mResponse' = "none"
    /\ UNCHANGED card

\* main: the database, the storage and the server are built anew.
Start(unread) ==
    /\ status # "running"
    /\ status' = "running"
    /\ \E scan \in readFiles(unread) : counter' = scan.counter /\ db' = scan.db
    /\ UNCHANGED <<card, mSessionOpen, sendObject, mObjectEditList, mResponse>>

\* The run loop leaves when stop() is called (or the console is switched
\* off); the edits it commits there refresh sizes only.
Stop == status = "running" /\ Terminate("stopped")

Reply(code) ==
    /\ status = "running"
    /\ mResponse' = code
    /\ UNCHANGED status

\* Mutant: the reset is missing.
ForgetSendObject_Missing == UNCHANGED sendObject

\* handleRequest: any operation but SendObject forgets the reserved handle,
\* and leaves its entry in the database.
ForgetSendObject ==
    /\ mSendObjectHandle' = kInvalidObjectHandle
    /\ mSendObjectFilePath' = Root

-----------------------------------------------------------------------------
(* Sessions and listings.                                                  *)

OpenSession ==
    /\ ForgetSendObject
    /\ Reply(IF mSessionOpen THEN "SESSION_ALREADY_OPEN" ELSE "OK")
    /\ mSessionOpen' = TRUE
    /\ UNCHANGED <<card, counter, db, mObjectEditList>>

CloseSession ==
    /\ ForgetSendObject
    /\ Reply(IF mSessionOpen THEN "OK" ELSE "SESSION_NOT_OPEN")
    /\ mSessionOpen' = FALSE
    /\ UNCHANGED <<card, counter, db, mObjectEditList>>

\* A request that changes nothing here and fails or not.
Answer(code) ==
    /\ ForgetSendObject
    /\ Reply(code)
    /\ UNCHANGED <<card, counter, db, mSessionOpen, mObjectEditList>>

ListObjects(storageID, parent, unread) ==
    /\ getObjectList(storageID, parent, unread)
    /\ ForgetSendObject
    /\ Reply("OK")
    /\ UNCHANGED <<card, mSessionOpen, mObjectEditList>>

Abort == status = "running" /\ Terminate("aborted")

GetObjectHandles(storageID, parent, unread) ==
    \/ ~mSessionOpen /\ Answer("SESSION_NOT_OPEN")
    \/ mSessionOpen /\ (ListingThrows(parent) \/ NeedsScan(parent)) /\ Abort
    \/ mSessionOpen /\ ~ListingThrows(parent) /\ ListObjects(storageID, parent, unread)

\* Here the exception is caught and the count is 0.
GetNumObjects(storageID, parent, unread) ==
    \/ ~mSessionOpen /\ Answer("SESSION_NOT_OPEN")
    \/ mSessionOpen /\ (ListingThrows(parent) \/ NeedsScan(parent)) /\ Answer("OK")
    \/ mSessionOpen /\ ~ListingThrows(parent) /\ ListObjects(storageID, parent, unread)

GetObjectReferences(handle, unread) ==
    \/ ~mSessionOpen /\ Answer("SESSION_NOT_OPEN")
    \/ mSessionOpen /\ ~isHandleValid(handle) /\ Answer("INVALID_OBJECT_HANDLE")
    \/ /\ mSessionOpen
       /\ isHandleValid(handle)
       /\ handle \notin DOMAIN db \/ NeedsScan(handle)
       /\ Abort
    \/ /\ mSessionOpen
       /\ isHandleValid(handle)
       /\ handle \in DOMAIN db
       /\ ListObjects(db[handle].storage_id, handle, unread)

GetObjectInfo(handle) == Answer(getObjectFilePath(handle))

GetObject(handle) ==
    \/ getObjectFilePath(handle) # "OK" /\ Answer(getObjectFilePath(handle))
    \/ getObjectFilePath(handle) = "OK" /\ IsFile(db[handle].path) /\ Answer("OK")
    \/ getObjectFilePath(handle) = "OK" /\ Answer("GENERAL_ERROR")

-----------------------------------------------------------------------------
(* Sending an object.                                                      *)

SendObjectInfoRefused(storageID, parent) ==
    \/ storageID = AllStorages /\ Answer("INVALID_STORAGE_ID")
    \/ /\ storageID # AllStorages
       /\ parent # MTP_PARENT_ROOT
       /\ \/ /\ getObjectFilePath(parent) # "OK"
             /\ Answer(getObjectFilePath(parent))
          \/ /\ getObjectFilePath(parent) = "OK"
             /\ db[parent].object_format # "association"
             /\ Answer("INVALID_PARENT_OBJECT")

\* The directory an accepted SendObjectInfo names.
AcceptsInto(storageID, parent) ==
    /\ storageID # AllStorages
    /\ \/ parent = MTP_PARENT_ROOT
       \/ /\ getObjectFilePath(parent) = "OK"
          /\ db[parent].object_format = "association"

ParentPath(parent) == IF parent = MTP_PARENT_ROOT THEN Root ELSE db[parent].path
ParentEntry(parent) == IF parent = MTP_PARENT_ROOT THEN 0 ELSE parent

SendObjectInfoFile(storageID, parent, name) ==
    /\ AcceptsInto(storageID, parent)
    /\ Len(ParentPath(parent)) < PATH_MAX
    /\ LET path == Append(ParentPath(parent), name)
       IN  /\ beginSendObject(path, "other", ParentEntry(parent), storageID)
           /\ mSendObjectHandle' = counter
           /\ mSendObjectFilePath' = path
    /\ Reply("OK")
    /\ UNCHANGED <<card, mSessionOpen, mObjectEditList>>

\* The entry of a folder that mkdir refuses stays in the database.
SendObjectInfoFolder(storageID, parent, name) ==
    /\ AcceptsInto(storageID, parent)
    /\ Len(ParentPath(parent)) < PATH_MAX
    /\ LET path == Append(ParentPath(parent), name)
       IN  /\ beginSendObject(path, "association", ParentEntry(parent), storageID)
           /\ \/ CanCreate(path) /\ card' = With(path, "dir") /\ Reply("OK")
              \/ UNCHANGED card /\ Reply("GENERAL_ERROR")
    /\ ForgetSendObject
    /\ UNCHANGED <<mSessionOpen, mObjectEditList>>

SendObjectInfo(storageID, parent, name, format) ==
    \/ SendObjectInfoRefused(storageID, parent)
    \/ /\ AcceptsInto(storageID, parent)
       /\ \E code \in {"STORAGE_FULL", "OBJECT_TOO_LARGE"} : Answer(code)
    \/ format = "other" /\ SendObjectInfoFile(storageID, parent, name)
    \/ format = "association" /\ SendObjectInfoFolder(storageID, parent, name)

\* open(O_CREAT | O_TRUNC)
CanOpenToWrite(p) == IsFile(p) \/ CanCreate(p)

SendObject(unlinked) ==
    /\ ForgetSendObject
    /\ UNCHANGED <<counter, mSessionOpen, mObjectEditList>>
    /\ \/ /\ mSendObjectHandle = kInvalidObjectHandle
          /\ endSendObject(mSendObjectHandle, FALSE)
          /\ Reply("NO_VALID_OBJECT_INFO")
          /\ UNCHANGED card
       \/ /\ mSendObjectHandle # kInvalidObjectHandle    \* no data phase, or open fails
          /\ endSendObject(mSendObjectHandle, FALSE)
          /\ Reply("GENERAL_ERROR")
          /\ UNCHANGED card
       \/ /\ mSendObjectHandle # kInvalidObjectHandle
          /\ CanOpenToWrite(mSendObjectFilePath)
          /\ endSendObject(mSendObjectHandle, TRUE)
          /\ Reply("OK")
          /\ card' = With(mSendObjectFilePath, "file")
       \/ /\ mSendObjectHandle # kInvalidObjectHandle    \* receive_file or the write fails
          /\ CanOpenToWrite(mSendObjectFilePath)
          /\ endSendObject(mSendObjectHandle, FALSE)
          /\ \E code \in {"GENERAL_ERROR", "TRANSACTION_CANCELLED"} : Reply(code)
          /\ card' = IF unlinked THEN Without({mSendObjectFilePath})
                     ELSE With(mSendObjectFilePath, "file")

-----------------------------------------------------------------------------
(* Deleting, moving and renaming.                                          *)

\* What lies at and below the path of an object.
AtAndBelow(handle) ==
    {p \in DOMAIN card : getObjectFilePath(handle) = "OK" /\ IsPrefix(db[handle].path, p)}

\* Everything at and below path goes, but for what the card refuses to open
\* or to remove, or what has too long a path, and the directories above that.
\* Nobody looks at the results.
deletePath(path, refused) ==
    card' = Without({p \in DOMAIN card :
                        IsPrefix(path, p) /\ \A k \in refused : ~IsPrefix(p, k)})

DeleteObject(handle, refused) ==
    \/ getObjectFilePath(handle) # "OK" /\ Answer(getObjectFilePath(handle))
    \/ /\ getObjectFilePath(handle) = "OK"
       /\ deleteFile(handle)
       /\ Reply(deleteFileResponse(handle))
       /\ IF deleteFileResponse(handle) = "OK"
          THEN deletePath(db[handle].path, refused)
          ELSE UNCHANGED card
       /\ ForgetSendObject
       /\ UNCHANGED <<counter, mSessionOpen, mObjectEditList>>

\* The new path is read back from the object itself, so rename(2) is called
\* with the same path twice and moves nothing.
MoveObject(handle, new_parent) ==
    \/ getObjectFilePath(handle) # "OK" /\ Answer(getObjectFilePath(handle))
    \/ /\ getObjectFilePath(handle) = "OK"
       /\ moveFile(handle, new_parent)
       /\ ForgetSendObject
       /\ Reply("OK")
       /\ UNCHANGED <<card, counter, mSessionOpen, mObjectEditList>>

\* Mutant: the entry is renamed although rename(2) failed.
SetObjectPropValue_Unchecked(handle, newname) ==
    \/ getObjectFilePath(handle) # "OK" /\ Answer(getObjectFilePath(handle))
    \/ /\ getObjectFilePath(handle) = "OK"
       /\ LET oldpath == db[handle].path
              newpath == Append(Front(oldpath), newname)
          IN  /\ card' = IF CanRename(oldpath, newpath) THEN Renamed(oldpath, newpath) ELSE card
              /\ db' = [db EXCEPT ![handle].path = newpath]
       /\ ForgetSendObject
       /\ Reply("OK")
       /\ UNCHANGED <<counter, mSessionOpen, mObjectEditList>>

\* OBJECT_FILE_NAME renames.  PARENT_OBJECT assigns to a copy of the entry
\* and is refused, as is every other property.
SetObjectPropValue(handle, newname) ==
    \/ getObjectFilePath(handle) # "OK" /\ Answer(getObjectFilePath(handle))
    \/ handle \notin {0, MTP_PARENT_ROOT} /\ Answer("OPERATION_NOT_SUPPORTED")
    \/ getObjectFilePath(handle) = "OK" /\ Answer("DEVICE_BUSY")
    \/ /\ getObjectFilePath(handle) = "OK"
       /\ LET oldpath == db[handle].path
              newpath == Append(Front(oldpath), newname)
          IN  /\ CanRename(oldpath, newpath)
              /\ card' = Renamed(oldpath, newpath)
              /\ db' = [db EXCEPT ![handle].path = newpath]
       /\ ForgetSendObject
       /\ Reply("OK")
       /\ UNCHANGED <<counter, mSessionOpen, mObjectEditList>>

-----------------------------------------------------------------------------
(* Editing in place.                                                       *)

\* Mutant: the loop ends one edit early.
getEditObject_MissesLast(handle) ==
    {i \in DOMAIN mObjectEditList : i < Len(mObjectEditList) /\ mObjectEditList[i].mHandle = handle}

getEditObject(handle) == {i \in DOMAIN mObjectEditList : mObjectEditList[i].mHandle = handle}

BeginEditObject(handle) ==
    \/ getEditObject(handle) # {} /\ Answer("GENERAL_ERROR")
    \/ /\ getEditObject(handle) = {}
       /\ getObjectFilePath(handle) # "OK"
       /\ Answer(getObjectFilePath(handle))
    \/ /\ getEditObject(handle) = {}
       /\ getObjectFilePath(handle) = "OK"
       /\ Answer("GENERAL_ERROR")                        \* open fails
    \/ /\ getEditObject(handle) = {}
       /\ getObjectFilePath(handle) = "OK"
       /\ IsFile(db[handle].path)
       /\ Len(mObjectEditList) < MaxEdits
       /\ mObjectEditList' = Append(mObjectEditList, [mHandle |-> handle])
       /\ ForgetSendObject
       /\ Reply("OK")
       /\ UNCHANGED <<card, counter, db, mSessionOpen>>

EndEditObject(handle) ==
    \/ getEditObject(handle) = {} /\ Answer("GENERAL_ERROR")
    \/ \E i \in getEditObject(handle) :
          /\ \A j \in getEditObject(handle) : i <= j
          /\ mObjectEditList' = RemoveAt(mObjectEditList, i)
          /\ ForgetSendObject
          /\ Reply("OK")
          /\ UNCHANGED <<card, counter, db, mSessionOpen>>

-----------------------------------------------------------------------------
Init ==
    /\ IsTree
    /\ status = "stopped"
    /\ counter = 1
    /\ db = NoEntries
    /\ mSessionOpen = FALSE
    /\ mSendObjectHandle = kInvalidObjectHandle
    /\ mSendObjectFilePath = Root
    /\ mObjectEditList = << >>
    /\ mResponse = "none"

Next ==
    \/ \E unread \in SUBSET Visited(Root) : Start(unread)
    \/ Stop
    \/ OpenSession
    \/ CloseSession
    \/ \E s \in StorageID, p \in HostHandle :
          \E unread \in SUBSET MayMiss(p) : GetObjectHandles(s, p, unread)
    \/ \E s \in StorageID, p \in HostHandle :
          \E unread \in SUBSET MayMiss(p) : GetNumObjects(s, p, unread)
    \/ \E h \in HostHandle : \E unread \in SUBSET MayMiss(h) : GetObjectReferences(h, unread)
    \/ \E h \in HostHandle : GetObjectInfo(h)
    \/ \E h \in HostHandle : GetObject(h)
    \/ \E s \in StorageID, p \in HostHandle, n \in Name, f \in {"association", "other"} :
          SendObjectInfo(s, p, n, f)
    \/ \E unlinked \in BOOLEAN : SendObject(unlinked)
    \/ \E h \in HostHandle : \E refused \in SUBSET AtAndBelow(h) : DeleteObject(h, refused)
    \/ \E h, p \in HostHandle : MoveObject(h, p)
    \/ \E h \in HostHandle, n \in Name : SetObjectPropValue(h, n)
    \/ \E h \in HostHandle : BeginEditObject(h)
    \/ \E h \in HostHandle : EndEditObject(h)

Spec == Init /\ [][Next]_vars
=============================================================================
