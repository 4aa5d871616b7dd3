------------------------- MODULE MtpStorage_proofs -------------------------
(***************************************************************************)
(* What is accepted fits and what is promised is there, for every card,    *)
(* reserve and word.                                                       *)
(***************************************************************************)
EXTENDS MtpStorage, TLAPS

Names == FileName \cup FolderName

\* The part of TypeOK about the card's units.
SpaceOK ==
    /\ DOMAIN size \subseteq Names
    /\ size \in [DOMAIN size -> Nat]
    /\ others \in Nat
    /\ f_bavail \in Nat
    /\ promise \in Nat

\* The rest of TypeOK.
RestOK ==
    /\ edits \subseteq FileName
    /\ mMaxCapacity \in 0 .. f_blocks
    /\ mSendObjectFileSize \in 0 .. Size32 - 1
    /\ mSendObjectFilePath \in FileName \cup {None}
    /\ mResponse \in {"none", "OK", "GENERAL_ERROR", "STORAGE_FULL", "OBJECT_TOO_LARGE",
                      "NO_VALID_OBJECT_INFO"}
    /\ unseen \in BOOLEAN
    /\ since \in Int
    /\ lost \in Nat

LEMMA Split == TypeOK <=> SpaceOK /\ RestOK
BY DEF TypeOK, SpaceOK, RestOK, Names

\* What is told of the free space: the -1, or the free space less the reserve.
LEMMA FreeSpaceLemma ==
    ASSUME NEW avail \in Nat
    PROVE  /\ FreeSpace(avail) \in Nat
           /\ FreeSpace(avail) <= avail
           /\ FreeSpace(avail) > 0 => avail = FreeSpace(avail) + mReserveSpace
           /\ avail <= FreeSpace(avail) + mReserveSpace
BY SpaceAssumption DEF FreeSpace

\* It shrinks by no more than is taken.
LEMMA TakenLemma ==
    ASSUME NEW avail \in Nat, NEW left \in Nat, NEW n \in Nat, left >= avail - n
    PROVE  FreeSpace(left) >= FreeSpace(avail) - n
BY SpaceAssumption DEF FreeSpace

\* And grows with what is given back.
LEMMA GivenLemma ==
    ASSUME NEW avail \in Nat, NEW left \in Nat, left >= avail
    PROVE  FreeSpace(left) >= FreeSpace(avail)
BY SpaceAssumption DEF FreeSpace

LEMMA OldLemma ==
    ASSUME SpaceOK, NEW name
    PROVE  Old(name) \in Nat /\ Room(name) \in Nat /\ f_bavail <= Room(name)
BY DEF SpaceOK, Old, Room

\* Units that are taken leave what is promised free.
LEMMA TakeLemma ==
    ASSUME f_bavail \in Nat, f_bavail' \in Nat, promise \in Nat, PromiseLeft,
           NEW n \in Nat, Take(n), f_bavail' >= f_bavail - n
    PROVE  promise' \in Nat /\ PromiseLeft'
<1>1. /\ FreeSpace(f_bavail) \in Nat
      /\ FreeSpace(f_bavail') \in Nat
      /\ FreeSpace(f_bavail') >= FreeSpace(f_bavail) - n
  BY FreeSpaceLemma, TakenLemma
<1>2. promise <= FreeSpace(f_bavail)
  BY DEF PromiseLeft
<1>3. promise' \in Nat /\ promise' <= FreeSpace(f_bavail')
  <2>1. CASE promise > n
    BY <1>1, <1>2, <2>1 DEF Take
  <2>2. CASE ~(promise > n)
    BY <1>1, <2>2 DEF Take
  <2> QED
    BY <2>1, <2>2
<1> QED
  BY <1>3 DEF PromiseLeft

LEMMA OccupyLemma ==
    ASSUME SpaceOK, PromiseLeft, NEW name \in Names, NEW n \in Nat, NEW extra \in Nat,
           n + extra <= Room(name), Occupy(name, n, extra)
    PROVE  SpaceOK' /\ PromiseLeft'
<1>1. /\ DOMAIN size' = DOMAIN size \cup {name}
      /\ size' \in [DOMAIN size' -> Nat]
  BY DEF Occupy, SpaceOK
<1>2. f_bavail' \in Nat /\ f_bavail' >= f_bavail - (n + extra) /\ n + extra \in Nat
  BY OldLemma DEF Occupy, SpaceOK, Room
<1>3. promise' \in Nat /\ PromiseLeft'
  BY <1>2, TakeLemma DEF Occupy, SpaceOK
<1>4. others' \in Nat
  BY DEF Occupy, SpaceOK
<1> QED
  BY <1>1, <1>2, <1>3, <1>4 DEF SpaceOK, Names

LEMMA RemoveLemma ==
    ASSUME SpaceOK, PromiseLeft, NEW name \in Names, NEW extra \in Nat,
           extra <= Room(name), Remove(name, extra)
    PROVE  SpaceOK' /\ PromiseLeft'
<1>1. /\ DOMAIN size' \subseteq DOMAIN size
      /\ size' \in [DOMAIN size' -> Nat]
  BY DEF Remove, SpaceOK, Restrict
<1>2. f_bavail' \in Nat /\ f_bavail' >= f_bavail - extra
  BY OldLemma DEF Remove, SpaceOK, Room
<1>3. promise' \in Nat /\ PromiseLeft'
  BY <1>2, TakeLemma DEF Remove, SpaceOK
<1>4. others' \in Nat
  BY DEF Remove, SpaceOK
<1> QED
  BY <1>1, <1>2, <1>3, <1>4 DEF SpaceOK

LEMMA SameLemma ==
    ASSUME SpaceOK, PromiseLeft, SameSpace
    PROVE  SpaceOK' /\ PromiseLeft'
BY DEF SpaceOK, PromiseLeft, SameSpace

\* A request that is no part of an upload leaves no upload expected, and what
\* was said of the last one.
LEMMA ReplyLemma ==
    ASSUME UploadFits, ForgetSendObject, UNCHANGED lost
    PROVE  RoomKept' /\ UploadFits'
BY DEF ForgetSendObject, RoomKept, UploadFits

-----------------------------------------------------------------------------
(* The steps.                                                              *)

LEMMA InitInv == Init => SpaceInv
<1> SUFFICES ASSUME Init
             PROVE  SpaceInv
  OBVIOUS
<1>1. others \in Nat /\ f_bavail \in Nat /\ size \in [{} -> Nat] /\ DOMAIN size = {}
  BY SpaceAssumption DEF Init
<1>2. TypeOK
  <2>1. 0 \in 0 .. f_blocks /\ 0 \in 0 .. Size32 - 1
    BY SpaceAssumption
  <2>2. size \in [DOMAIN size -> Nat] /\ DOMAIN size \subseteq FileName \cup FolderName
    BY <1>1
  <2>3. /\ edits = {} /\ mMaxCapacity = 0 /\ mSendObjectFileSize = 0
        /\ since = 0 /\ lost = 0 /\ promise = 0
    BY DEF Init
  <2>4. mSendObjectFilePath = None /\ mResponse = "none"
    BY DEF Init
  <2>5. unseen \in BOOLEAN
    BY Zenon DEF Init
  <2> QED
    BY <1>1, <2>1, <2>2, <2>3, <2>4, <2>5 DEF TypeOK
<1>3. PromiseLeft
  BY <1>1, FreeSpaceLemma DEF Init, PromiseLeft
<1> QED
  BY <1>2, <1>3 DEF Init, SpaceInv, RoomKept, UploadFits

\* Requests that leave the space alone.
LEMMA AnswerInv ==
    ASSUME SpaceInv, NEW code \in {"OK", "GENERAL_ERROR", "NO_VALID_OBJECT_INFO"}, Answer(code)
    PROVE  SpaceInv'
<1>1. SpaceOK' /\ PromiseLeft'
  BY Split, SameLemma DEF SpaceInv, Answer
<1>2. RestOK'
  BY Split DEF SpaceInv, RestOK, Answer, Reply, ForgetSendObject
<1>3. RoomKept' /\ UploadFits'
  BY ReplyLemma DEF SpaceInv, Answer, Reply
<1> QED
  BY <1>1, <1>2, <1>3, Split DEF SpaceInv, TypeOK, SpaceOK, RestOK, Names

LEMMA GetStorageInfoInv ==
    ASSUME SpaceInv, GetStorageInfo
    PROVE  SpaceInv'
<1>1. RestOK'
  BY Split, SpaceAssumption
  DEF SpaceInv, RestOK, GetStorageInfo, Reply, ForgetSendObject, getMaxCapacity
<1>2. promise' \in {0, FreeSpace(f_bavail)}
  BY DEF GetStorageInfo, getFreeSpace
<1>3. SpaceOK' /\ PromiseLeft'
  BY <1>2, Split, FreeSpaceLemma
  DEF SpaceInv, SpaceOK, GetStorageInfo, PromiseLeft
<1>4. RoomKept' /\ UploadFits'
  BY ReplyLemma DEF SpaceInv, GetStorageInfo, Reply
<1> QED
  BY <1>1, <1>3, <1>4 DEF SpaceInv, TypeOK, SpaceOK, RestOK, Names

LEMMA RefusedInv ==
    ASSUME SpaceInv, NEW n \in 0 .. Size32 - 1, SendObjectInfoRefused(n)
    PROVE  SpaceInv'
<1>1. SpaceOK' /\ PromiseLeft'
  BY Split, SameLemma DEF SpaceInv, SendObjectInfoRefused
<1>2. RestOK'
  BY Split DEF SpaceInv, RestOK, SendObjectInfoRefused
<1>3. RoomKept' /\ UploadFits'
  BY DEF SpaceInv, RoomKept, UploadFits, SendObjectInfoRefused
<1> QED
  BY <1>1, <1>2, <1>3 DEF SpaceInv, TypeOK, SpaceOK, RestOK, Names

\* The announced size was compared with what is free behind the reserve, or
\* with a -1.
LEMMA FileInv ==
    ASSUME SpaceInv, NEW name \in FileName, NEW n \in 0 .. Size32 - 1,
           SendObjectInfoFile(name, n)
    PROVE  SpaceInv'
<1>1. SpaceOK' /\ PromiseLeft'
  BY Split, SameLemma DEF SpaceInv, SendObjectInfoFile
<1>2. RestOK'
  BY Split DEF SpaceInv, RestOK, SendObjectInfoFile
<1>3. ~unseen' => n <= FreeSpace(f_bavail)
  BY DEF SendObjectInfoFile, getFreeSpace
<1>4. /\ mSendObjectFileSize' = n /\ since' = 0 /\ lost' = 0
      /\ f_bavail' = f_bavail /\ f_bavail \in Nat /\ n \in Nat
  BY SpaceAssumption DEF SendObjectInfoFile, SameSpace, SpaceInv, TypeOK
<1>5. n > 0 /\ ~unseen' => f_bavail >= n + mReserveSpace
  <2>1. /\ FreeSpace(f_bavail) \in Nat /\ mReserveSpace \in Nat
        /\ FreeSpace(f_bavail) > 0 => f_bavail = FreeSpace(f_bavail) + mReserveSpace
    BY <1>4, FreeSpaceLemma, SpaceAssumption
  <2> QED
    BY <1>3, <1>4, <2>1
<1>6. RoomKept'
  BY <1>4, <1>5, SpaceAssumption DEF RoomKept
<1>7. UploadFits'
  BY <1>4 DEF UploadFits
<1> QED
  BY <1>1, <1>2, <1>6, <1>7 DEF SpaceInv, TypeOK, SpaceOK, RestOK, Names

LEMMA FolderInv ==
    ASSUME SpaceInv, NEW name \in FolderName, NEW n \in 0 .. Size32 - 1,
           SendObjectInfoFolder(name, n)
    PROVE  SpaceInv'
<1>1. SpaceOK' /\ PromiseLeft'
  <2>1. CASE SameSpace
    BY <2>1, Split, SameLemma DEF SpaceInv
  <2>2. CASE \E extra \in 0 .. 1 : 1 + extra <= f_bavail /\ Occupy(name, 1, extra)
    <3>1. PICK extra \in 0 .. 1 : 1 + extra <= f_bavail /\ Occupy(name, 1, extra)
      BY <2>2
    <3>2. SpaceOK /\ PromiseLeft /\ name \in Names
      BY Split DEF SpaceInv, Names
    <3>3. 1 + extra <= Room(name)
      BY <3>1, <3>2, OldLemma DEF SpaceOK
    <3> QED
      BY <3>1, <3>2, <3>3, OccupyLemma
  <2> QED
    BY <2>1, <2>2 DEF SendObjectInfoFolder
<1>2. RestOK'
  BY Split DEF SpaceInv, RestOK, SendObjectInfoFolder
<1>3. RoomKept' /\ UploadFits'
  BY DEF SpaceInv, RoomKept, UploadFits, SendObjectInfoFolder
<1> QED
  BY <1>1, <1>2, <1>3 DEF SpaceInv, TypeOK, SpaceOK, RestOK, Names

\* What finds no room is more than was free when the size was accepted, but
\* for the reserve and one unit for the directory.
LEMMA SendDataInv ==
    ASSUME SpaceInv, NEW name \in FileName, mSendObjectFilePath = name,
           NEW sent \in 0 .. mSendObjectFileSize, NEW extra \in 0 .. 1,
           SendData(name, sent, extra)
    PROVE  SpaceInv'
<1> DEFINE room    == Room(name) - extra
           written == IF sent <= room THEN sent ELSE room
<1>1. /\ SpaceOK /\ RestOK /\ PromiseLeft /\ name \in Names
      /\ extra \in Nat /\ sent \in Nat /\ mSendObjectFileSize \in Nat
      /\ since \in Int /\ f_bavail \in Nat /\ unseen \in BOOLEAN
  BY Split, SpaceAssumption DEF SpaceInv, Names, RestOK, SpaceOK
<1>2. Room(name) \in Nat /\ f_bavail <= Room(name)
  BY <1>1, OldLemma
<1>3. room >= 0 /\ lost' = sent - written
  BY DEF SendData
<1>4. room \in Nat /\ written \in Nat /\ written <= room /\ lost' \in Nat
  BY <1>1, <1>2, <1>3
<1>5. SpaceOK' /\ PromiseLeft'
  <2>1. CASE Remove(name, extra)
    <3>1. extra <= Room(name)
      BY <1>1, <1>2, <1>3
    <3> QED
      BY <1>1, <2>1, <3>1, RemoveLemma
  <2>2. CASE Occupy(name, written, extra)
    <3>1. written + extra <= Room(name)
      BY <1>1, <1>2, <1>4
    <3> QED
      BY <1>1, <1>4, <2>2, <3>1, OccupyLemma
  <2> QED
    BY <2>1, <2>2 DEF SendData
<1>6. /\ mSendObjectFilePath' = None
      /\ UNCHANGED <<mSendObjectFileSize, unseen, since, edits, mMaxCapacity>>
      /\ mResponse' \in {"OK", "GENERAL_ERROR"}
  BY DEF SendData, ForgetSendObject
<1>7. RestOK'
  BY <1>1, <1>4, <1>6 DEF RestOK
<1>8. RoomKept'
  BY <1>6 DEF RoomKept
<1>9. UploadFits'
  <2> SUFFICES ASSUME lost' > 0, ~unseen
               PROVE  since >= mReserveSpace
    BY <1>6 DEF UploadFits
  <2>1. sent > room /\ mSendObjectFileSize > 0
    BY <1>1, <1>3, <1>4
  <2>2. f_bavail + since >= mSendObjectFileSize + mReserveSpace
    BY <2>1, SpaceAssumption DEF SpaceInv, RoomKept
  <2>3. mSendObjectFileSize + 1 > f_bavail
    BY <1>1, <1>2, <2>1
  <2> QED
    BY <1>1, <2>2, <2>3, SpaceAssumption
<1> QED
  BY <1>5, <1>7, <1>8, <1>9 DEF SpaceInv, TypeOK, SpaceOK, RestOK, Names

LEMMA SendObjectInv ==
    ASSUME SpaceInv, SendObject
    PROVE  SpaceInv'
<1>1. CASE Answer("NO_VALID_OBJECT_INFO") \/ Answer("GENERAL_ERROR")
  BY <1>1, AnswerInv
<1>2. CASE /\ mSendObjectFilePath # None
           /\ \E sent \in 0 .. mSendObjectFileSize, extra \in 0 .. 1 :
                 SendData(mSendObjectFilePath, sent, extra)
  <2>1. mSendObjectFilePath \in FileName
    BY <1>2 DEF SpaceInv, TypeOK
  <2> QED
    BY <1>2, <2>1, SendDataInv
<1> QED
  BY <1>1, <1>2 DEF SendObject

LEMMA DeleteObjectInv ==
    ASSUME SpaceInv, NEW name \in Names, DeleteObject(name)
    PROVE  SpaceInv'
<1>1. SpaceOK /\ PromiseLeft /\ 0 <= Room(name)
  BY Split, OldLemma DEF SpaceInv
<1>2. SpaceOK' /\ PromiseLeft'
  BY <1>1, SameLemma, RemoveLemma DEF DeleteObject
<1>3. RestOK'
  BY Split DEF SpaceInv, RestOK, DeleteObject, Reply, ForgetSendObject
<1>4. RoomKept' /\ UploadFits'
  BY ReplyLemma DEF SpaceInv, DeleteObject, Reply
<1> QED
  BY <1>2, <1>3, <1>4 DEF SpaceInv, TypeOK, SpaceOK, RestOK, Names

LEMMA EditInv ==
    ASSUME SpaceInv, NEW name \in FileName, BeginEditObject(name) \/ EndEditObject(name)
    PROVE  SpaceInv'
<1>1. SpaceOK' /\ PromiseLeft'
  BY Split, SameLemma DEF SpaceInv, BeginEditObject, EndEditObject
<1>2. RestOK'
  BY Split DEF SpaceInv, RestOK, BeginEditObject, EndEditObject, Reply, ForgetSendObject
<1>3. RoomKept' /\ UploadFits'
  BY ReplyLemma DEF SpaceInv, BeginEditObject, EndEditObject, Reply
<1> QED
  BY <1>1, <1>2, <1>3 DEF SpaceInv, TypeOK, SpaceOK, RestOK, Names

LEMMA ResizeInv ==
    ASSUME SpaceInv, NEW name \in FileName, SendPartialObject(name) \/ TruncateObject(name)
    PROVE  SpaceInv'
<1>1. SpaceOK /\ PromiseLeft /\ name \in Names /\ Room(name) \in Nat
  BY Split, OldLemma DEF SpaceInv, Names
<1>2. \E n \in 0 .. Room(name) : Occupy(name, n, 0)
  <2>1. CASE SendPartialObject(name)
    <3>1. size[name] \in Nat
      BY <1>1, <2>1 DEF SendPartialObject, SpaceOK
    <3> QED
      BY <1>1, <2>1, <3>1 DEF SendPartialObject
  <2> QED
    BY <2>1 DEF TruncateObject
<1>3. SpaceOK' /\ PromiseLeft'
  <2>1. PICK n \in 0 .. Room(name) : Occupy(name, n, 0)
    BY <1>2
  <2>2. n \in Nat /\ n + 0 <= Room(name)
    BY <1>1
  <2> QED
    BY <1>1, <2>1, <2>2, OccupyLemma
<1>4. RestOK'
  BY Split DEF SpaceInv, RestOK, SendPartialObject, TruncateObject, Reply, ForgetSendObject
<1>5. RoomKept' /\ UploadFits'
  BY ReplyLemma DEF SpaceInv, SendPartialObject, TruncateObject, Reply
<1> QED
  BY <1>3, <1>4, <1>5 DEF SpaceInv, TypeOK, SpaceOK, RestOK, Names

\* What other programs take of the space is counted in since.
LEMMA OtherProgramsInv ==
    ASSUME SpaceInv, OtherPrograms
    PROVE  SpaceInv'
<1>1. PICK n \in -others .. f_bavail :
          /\ others' = others + n
          /\ f_bavail' = f_bavail - n
          /\ IF n > 0 THEN Take(n) ELSE UNCHANGED promise
          /\ since' = IF mSendObjectFilePath = None THEN since ELSE since + n
  BY DEF OtherPrograms
<1>2. /\ others \in Nat /\ f_bavail \in Nat /\ promise \in Nat /\ since \in Int
      /\ mSendObjectFileSize \in Nat
  BY SpaceAssumption DEF SpaceInv, TypeOK
<1>3. n \in Int /\ others' \in Nat /\ f_bavail' \in Nat /\ since' \in Int
  BY <1>1, <1>2
<1>4. promise' \in Nat /\ PromiseLeft'
  <2>1. CASE n > 0
    <3>1. n \in Nat /\ Take(n) /\ f_bavail' >= f_bavail - n
      BY <1>1, <1>2, <1>3, <2>1
    <3> QED
      BY <1>2, <1>3, <3>1, TakeLemma DEF SpaceInv
  <2>2. CASE ~(n > 0)
    <3>1. promise' = promise /\ f_bavail' >= f_bavail
      BY <1>1, <1>2, <1>3, <2>2
    <3>2. /\ FreeSpace(f_bavail') >= FreeSpace(f_bavail)
          /\ FreeSpace(f_bavail) \in Nat /\ FreeSpace(f_bavail') \in Nat
      BY <1>2, <1>3, <3>1, GivenLemma, FreeSpaceLemma
    <3> QED
      BY <1>2, <3>1, <3>2 DEF SpaceInv, PromiseLeft
  <2> QED
    BY <2>1, <2>2
<1>5. UNCHANGED <<size, edits, mMaxCapacity, mSendObjectFileSize, mSendObjectFilePath,
                  mResponse, unseen, lost>>
  BY DEF OtherPrograms
<1>6. TypeOK'
  BY <1>3, <1>4, <1>5 DEF SpaceInv, TypeOK
<1>7. RoomKept'
  BY <1>1, <1>2, <1>3, <1>5, SpaceAssumption DEF SpaceInv, RoomKept
<1>8. UploadFits'
  <2>1. CASE mSendObjectFilePath = None
    BY <1>1, <1>5, <2>1 DEF SpaceInv, UploadFits
  <2>2. CASE mSendObjectFilePath # None
    BY <1>5, <2>2 DEF SpaceInv, RoomKept, UploadFits
  <2> QED
    BY <2>1, <2>2
<1> QED
  BY <1>4, <1>6, <1>7, <1>8 DEF SpaceInv

LEMMA RestartInv ==
    ASSUME SpaceInv, Restart
    PROVE  SpaceInv'
<1>1. SpaceOK' /\ PromiseLeft'
  BY Split, SameLemma DEF SpaceInv, Restart
<1>2. RestOK'
  BY Split, SpaceAssumption DEF SpaceInv, RestOK, Restart
<1>3. RoomKept' /\ UploadFits'
  BY DEF SpaceInv, RoomKept, UploadFits, Restart
<1> QED
  BY <1>1, <1>2, <1>3 DEF SpaceInv, TypeOK, SpaceOK, RestOK, Names

LEMMA StepInv == SpaceInv /\ [Next]_vars => SpaceInv'
<1> SUFFICES ASSUME SpaceInv, [Next]_vars
             PROVE  SpaceInv'
  OBVIOUS
<1>1. CASE GetStorageInfo
  BY <1>1, GetStorageInfoInv
<1>2. CASE \E n \in 0 .. Size32 - 1 : SendObjectInfoRefused(n)
  BY <1>2, RefusedInv
<1>3. CASE \E name \in FileName, n \in 0 .. Size32 - 1 : SendObjectInfoFile(name, n)
  BY <1>3, FileInv
<1>4. CASE \E name \in FolderName, n \in 0 .. Size32 - 1 : SendObjectInfoFolder(name, n)
  BY <1>4, FolderInv
<1>5. CASE SendObject
  BY <1>5, SendObjectInv
<1>6. CASE \E name \in FileName \cup FolderName : DeleteObject(name)
  BY <1>6, DeleteObjectInv DEF Names
<1>7. CASE \E name \in FileName : BeginEditObject(name) \/ EndEditObject(name)
  BY <1>7, EditInv
<1>8. CASE \E name \in FileName : SendPartialObject(name) \/ TruncateObject(name)
  BY <1>8, ResizeInv
<1>9. CASE \E code \in {"OK", "GENERAL_ERROR"} : Answer(code)
  BY <1>9, AnswerInv
<1>10. CASE OtherPrograms
  BY <1>10, OtherProgramsInv
<1>11. CASE Restart
  BY <1>11, RestartInv
<1>12. CASE UNCHANGED vars
  BY <1>12 DEF vars, reserved, SpaceInv, TypeOK, RoomKept, PromiseLeft, UploadFits
<1> QED
  BY <1>1, <1>2, <1>3, <1>4, <1>5, <1>6, <1>7, <1>8, <1>9, <1>10, <1>11, <1>12 DEF Next

-----------------------------------------------------------------------------
(* What holds.                                                             *)

\* The inductive invariant: what was accepted has room behind the reserve, but
\* for what other programs took, and what was promised is free.
THEOREM SpaceSafe == Spec => []SpaceInv
<1> QED
  BY InitInv, StepInv, PTL DEF Spec

\* An accepted upload finds room (MtpServer.cpp:972, MtpStorage.cpp:74),
\* whatever was asked for in between, unless statvfs failed or other programs
\* took the whole reserve.
THEOREM AcceptedFits == Spec => []UploadFits
<1>1. SpaceInv => UploadFits
  BY DEF SpaceInv
<1> QED
  BY <1>1, SpaceSafe, PTL

\* No size within what GetStorageInfo told, less what was taken since, is
\* refused with STORAGE_FULL (MtpServer.cpp:973).
THEOREM PromisesKept == Spec => PromiseKept
<1> DEFINE Kept == \A n \in 0 .. Size32 - 1 :
              n <= promise /\ SendObjectInfoRefused(n) => mResponse' # "STORAGE_FULL"
<1>1. SpaceInv => [Kept]_vars
  <2> SUFFICES ASSUME SpaceInv, NEW n \in 0 .. Size32 - 1, n <= promise,
                      SendObjectInfoRefused(n)
               PROVE  mResponse' # "STORAGE_FULL"
    OBVIOUS
  <2>1. n <= FreeSpace(f_bavail)
    BY FreeSpaceLemma, SpaceAssumption DEF SpaceInv, TypeOK, PromiseLeft
  <2>2. n <= Failed
    BY SpaceAssumption DEF Failed
  <2>3. \A free \in getFreeSpace : ~(n > free)
    BY <2>1, <2>2, FreeSpaceLemma, SpaceAssumption DEF getFreeSpace, Failed, SpaceInv, TypeOK
  <2> QED
    BY <2>3 DEF SendObjectInfoRefused
<1> QED
  BY <1>1, SpaceSafe, PTL DEF PromiseKept
=============================================================================
