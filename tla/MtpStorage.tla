----------------------------- MODULE MtpStorage -----------------------------
(***************************************************************************)
(* The space of the card: MtpStorage.cpp and the requests that look at it  *)
(* or use it up.  Sizes are counted in the card's allocation units.  The   *)
(* space is looked at once, when SendObjectInfo announces a size; the data *)
(* comes with SendObject, and in between the console's other programs      *)
(* write to the card too.  Names are unique here and folders are empty:    *)
(* module MtpServer has the tree and the database.                         *)
(***************************************************************************)
EXTENDS Integers, FiniteSets, Functions

CONSTANTS
    FileName,       \* names of files
    FolderName,     \* names of folders, each of one unit
    f_blocks,       \* units on the card
    mReserveSpace,  \* units to leave to others
    Size32,         \* bound: 2^32; a size in an object info is below it
    Size64,         \* bound: 2^64
    None

ASSUME SpaceAssumption ==
    /\ f_blocks \in Nat /\ mReserveSpace \in Nat
    /\ Size32 \in Nat \ {0} /\ Size64 \in Nat
    /\ f_blocks < Size64 - 1 /\ Size32 < Size64
    /\ FileName \cap FolderName = {} /\ None \notin FileName

VARIABLES
    size,                   \* what is on the card: name -> units
    others,                 \* units of other programs and of directories
    f_bavail,               \* units that are free
    edits,                  \* files that are open for edit
    mMaxCapacity,           \* read once; 0 before
    mSendObjectFileSize,
    mSendObjectFilePath,    \* None while no handle is reserved
    mResponse,
    unseen,                 \* history: the accepted size was compared with no free space
    since,                  \* history: units others took since the size was accepted
    lost,                   \* history: units of the last upload that found no room
    promise                 \* history: free units the host was told of and nobody took since

reserved == <<mSendObjectFileSize, mSendObjectFilePath, unseen, since>>
vars == <<size, others, f_bavail, edits, mMaxCapacity, reserved, mResponse, lost, promise>>

\* main: "~4GB arbitrary max file size", the largest value of a 32-bit size.
mMaxFileSize == Size32 - 1

-----------------------------------------------------------------------------
(* What the server reads of the card.  A return of -1 is 2^64 - 1.         *)

Failed == Size64 - 1

\* Mutant: the difference is not clipped at 0.
FreeSpace_Wraps(avail) == (avail - mReserveSpace) % Size64

FreeSpace(avail) == IF avail > mReserveSpace THEN avail - mReserveSpace ELSE 0

\* statvfs succeeds or fails.
getFreeSpace == {FreeSpace(f_bavail), Failed}

getMaxCapacity == IF mMaxCapacity = 0 THEN {f_blocks, 0} ELSE {mMaxCapacity}

-----------------------------------------------------------------------------
(* Units that change hands.                                                *)

\* Units taken from the free ones count against what the host was told.
Take(n) == promise' = IF promise > n THEN promise - n ELSE 0

Old(name) == IF name \in DOMAIN size THEN size[name] ELSE 0

Room(name) == f_bavail + Old(name)

\* name has n units now, and extra more go to the directory it is in.
Occupy(name, n, extra) ==
    /\ size' = [m \in DOMAIN size \cup {name} |-> IF m = name THEN n ELSE size[m]]
    /\ others' = others + extra
    /\ f_bavail' = Room(name) - n - extra
    /\ Take(n + extra)

Remove(name, extra) ==
    /\ size' = Restrict(size, DOMAIN size \ {name})
    /\ others' = others + extra
    /\ f_bavail' = Room(name) - extra
    /\ Take(extra)

SameSpace == UNCHANGED <<size, others, f_bavail, promise>>

-----------------------------------------------------------------------------
(* The requests.                                                           *)

\* Mutant: the reset is missing.
ForgetSendObject_Missing == UNCHANGED reserved

\* handleRequest: any operation but SendObject forgets the reserved handle.
ForgetSendObject ==
    /\ mSendObjectFilePath' = None
    /\ UNCHANGED <<mSendObjectFileSize, unseen, since>>

Reply(code) ==
    /\ mResponse' = code
    /\ ForgetSendObject
    /\ UNCHANGED lost

\* A request that takes and frees no space: one that fails, or is about
\* something else.
Answer(code) ==
    /\ Reply(code)
    /\ SameSpace
    /\ UNCHANGED <<edits, mMaxCapacity>>

\* What is told of the free space is promised, unless it is the -1.
GetStorageInfo ==
    /\ mMaxCapacity' \in getMaxCapacity
    /\ \E free \in getFreeSpace : promise' = IF free = Failed THEN 0 ELSE free
    /\ Reply("OK")
    /\ UNCHANGED <<size, others, f_bavail, edits>>

TooLarge(n) ==
    /\ mMaxFileSize # 0
    /\ n > mMaxFileSize \/ n = Size32 - 1

SendObjectInfoRefused(n) ==
    /\ \E free \in getFreeSpace :
          \/ n > free /\ mResponse' = "STORAGE_FULL"
          \/ n <= free /\ TooLarge(n) /\ mResponse' = "OBJECT_TOO_LARGE"
    /\ mSendObjectFilePath' = None
    /\ mSendObjectFileSize' = n
    /\ SameSpace
    /\ UNCHANGED <<edits, mMaxCapacity, unseen, since, lost>>

SendObjectInfoFile(name, n) ==
    /\ ~TooLarge(n)
    /\ \E free \in getFreeSpace :
          /\ n <= free
          /\ unseen' = (free = Failed)
    /\ mSendObjectFilePath' = name
    /\ mSendObjectFileSize' = n
    /\ since' = 0
    /\ lost' = 0
    /\ mResponse' = "OK"
    /\ SameSpace
    /\ UNCHANGED <<edits, mMaxCapacity>>

\* mkdir succeeds or fails; a folder takes a unit, whatever size was announced.
SendObjectInfoFolder(name, n) ==
    /\ ~TooLarge(n)
    /\ \E free \in getFreeSpace : n <= free
    /\ mSendObjectFilePath' = None
    /\ mSendObjectFileSize' = n
    /\ \/ /\ name \notin DOMAIN size
          /\ \E extra \in 0 .. 1 : 1 + extra <= f_bavail /\ Occupy(name, 1, extra)
          /\ mResponse' = "OK"
       \/ SameSpace /\ mResponse' = "GENERAL_ERROR"
    /\ UNCHANGED <<edits, mMaxCapacity, unseen, since, lost>>

\* The host sends no more than it announced.  Of the data that found no room
\* only the first packet's counts: if nothing of it could be written the file
\* is unlinked; otherwise the answer is OK, for the result of receive_file
\* goes to a variable of an inner block.
SendData(name, sent, extra) ==
    LET room    == Room(name) - extra
        written == IF sent <= room THEN sent ELSE room
    IN  /\ room >= 0
        /\ name \in DOMAIN size => extra = 0
        /\ lost' = sent - written
        /\ IF sent > 0 /\ room = 0
           THEN Remove(name, extra) /\ mResponse' = "GENERAL_ERROR"
           ELSE Occupy(name, written, extra) /\ mResponse' = "OK"
        /\ ForgetSendObject
        /\ UNCHANGED <<edits, mMaxCapacity>>

SendObject ==
    \/ mSendObjectFilePath = None /\ Answer("NO_VALID_OBJECT_INFO")
    \/ mSendObjectFilePath # None /\ Answer("GENERAL_ERROR")    \* no data, or open fails
    \/ /\ mSendObjectFilePath # None
       /\ \E sent \in 0 .. mSendObjectFileSize, extra \in 0 .. 1 :
             SendData(mSendObjectFilePath, sent, extra)

\* Deleted, or kept by the card if it is in use.
DeleteObject(name) ==
    /\ name \in DOMAIN size
    /\ Remove(name, 0) \/ SameSpace
    /\ Reply("OK")
    /\ UNCHANGED <<edits, mMaxCapacity>>

BeginEditObject(name) ==
    /\ name \in DOMAIN size \ edits
    /\ edits' = edits \cup {name}
    /\ Reply("OK")
    /\ SameSpace
    /\ UNCHANGED mMaxCapacity

EndEditObject(name) ==
    /\ name \in edits
    /\ edits' = edits \ {name}
    /\ Reply("OK")
    /\ SameSpace
    /\ UNCHANGED mMaxCapacity

\* An edit grows as far as there is room: nothing is compared beforehand.
SendPartialObject(name) ==
    /\ name \in edits \cap DOMAIN size
    /\ \E n \in size[name] .. Room(name) : Occupy(name, n, 0)
    /\ \E code \in {"OK", "GENERAL_ERROR"} : Reply(code)
    /\ UNCHANGED <<edits, mMaxCapacity>>

TruncateObject(name) ==
    /\ name \in edits \cap DOMAIN size
    /\ \E n \in 0 .. Room(name) : Occupy(name, n, 0)
    /\ Reply("OK")
    /\ UNCHANGED <<edits, mMaxCapacity>>

-----------------------------------------------------------------------------
(* What else happens on the console.                                       *)

OtherPrograms ==
    /\ \E n \in -others .. f_bavail :
          /\ others' = others + n
          /\ f_bavail' = f_bavail - n
          /\ IF n > 0 THEN Take(n) ELSE UNCHANGED promise
          /\ since' = IF mSendObjectFilePath = None THEN since ELSE since + n
    /\ UNCHANGED <<size, edits, mMaxCapacity, mSendObjectFileSize, mSendObjectFilePath,
                   mResponse, unseen, lost>>

\* The program ends and is started again.
Restart ==
    /\ edits' = {}
    /\ mMaxCapacity' = 0
    /\ mSendObjectFileSize' = 0
    /\ mSendObjectFilePath' = None
    /\ mResponse' = "none"
    /\ SameSpace
    /\ UNCHANGED <<unseen, since, lost>>

Init ==
    /\ size = [name \in {} |-> 0]
    /\ others \in 0 .. f_blocks
    /\ f_bavail = f_blocks - others
    /\ edits = {}
    /\ mMaxCapacity = 0
    /\ mSendObjectFileSize = 0
    /\ mSendObjectFilePath = None
    /\ mResponse = "none"
    /\ unseen = FALSE /\ since = 0 /\ lost = 0 /\ promise = 0

Next ==
    \/ GetStorageInfo
    \/ \E n \in 0 .. Size32 - 1 : SendObjectInfoRefused(n)
    \/ \E name \in FileName, n \in 0 .. Size32 - 1 : SendObjectInfoFile(name, n)
    \/ \E name \in FolderName, n \in 0 .. Size32 - 1 : SendObjectInfoFolder(name, n)
    \/ SendObject
    \/ \E name \in FileName \cup FolderName : DeleteObject(name)
    \/ \E name \in FileName : BeginEditObject(name)
    \/ \E name \in FileName : EndEditObject(name)
    \/ \E name \in FileName : SendPartialObject(name)
    \/ \E name \in FileName : TruncateObject(name)
    \/ \E code \in {"OK", "GENERAL_ERROR"} : Answer(code)
    \/ OtherPrograms
    \/ Restart

Spec == Init /\ [][Next]_vars

-----------------------------------------------------------------------------
\* What an upload was accepted for finds room on the card: other programs
\* have taken the whole of the reserve since, or the free space was not known.
UploadFits == lost > 0 => unseen \/ since >= mReserveSpace

\* A host that was told the free space, and stays within it together with
\* everybody else, is not told that the card is full.
PromiseKept ==
    [][\A n \in 0 .. Size32 - 1 :
          n <= promise /\ SendObjectInfoRefused(n) => mResponse' # "STORAGE_FULL"]_vars

-----------------------------------------------------------------------------
(* The inductive invariant.                                                *)

TypeOK ==
    /\ DOMAIN size \subseteq FileName \cup FolderName
    /\ size \in [DOMAIN size -> Nat]
    /\ others \in Nat
    /\ f_bavail \in Nat
    /\ edits \subseteq FileName
    /\ mMaxCapacity \in 0 .. f_blocks
    /\ mSendObjectFileSize \in 0 .. Size32 - 1
    /\ mSendObjectFilePath \in FileName \cup {None}
    /\ mResponse \in {"none", "OK", "GENERAL_ERROR", "STORAGE_FULL", "OBJECT_TOO_LARGE",
                      "NO_VALID_OBJECT_INFO"}
    /\ unseen \in BOOLEAN
    /\ since \in Int
    /\ lost \in Nat
    /\ promise \in Nat

\* While an upload is expected nothing is lost, and the reserve behind it
\* shrinks only by what other programs take.
RoomKept ==
    mSendObjectFilePath # None =>
        /\ lost = 0
        /\ mSendObjectFileSize > 0 /\ ~unseen =>
              f_bavail + since >= mSendObjectFileSize + mReserveSpace

PromiseLeft == promise <= FreeSpace(f_bavail)

SpaceInv == TypeOK /\ RoomKept /\ PromiseLeft /\ UploadFits
=============================================================================
