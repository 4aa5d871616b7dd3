---------------------------- MODULE FileTransfer ----------------------------
(***************************************************************************)
(* The contents of one file, byte by byte: send_file and receive_file, and *)
(* the handlers that call them.  The pipe holds one data container at a    *)
(* time, and a read returns as much of it as the host's transfers give.    *)
(***************************************************************************)
EXTENDS Integers, Sequences

CONSTANTS
    HeaderSize,     \* MTP_CONTAINER_HEADER_SIZE, 12
    FirstRead,      \* the first read of an upload, 512
    BlockSize,      \* the buffer of send_file and receive_file, 16384
    Word,           \* 2^32, for the lengths that are uint32_t
    Data,           \* what hosts send: sequences of bytes other than 0
    MaxSize,        \* bound: bytes of a file, and offsets and lengths of requests
    MaxTimeouts     \* bound: timed-out reads that receive_file counts

ASSUME SizeAssumption ==
    /\ HeaderSize \in Nat \ {0} /\ FirstRead \in Nat /\ BlockSize \in Nat
    /\ HeaderSize < FirstRead /\ HeaderSize < BlockSize
    /\ MaxSize \in Nat /\ Word \in Nat
    /\ 2 * (MaxSize + BlockSize) <= Word      \* sizes are ints in send_file and receive_file
    /\ MaxTimeouts \in Nat
    /\ Data \subseteq Seq(Nat \ {0}) /\ \A data \in Data : Len(data) <= MaxSize

VARIABLES
    exists, file,       \* the object is in the database; its file's contents
    object_size,        \* the size the database has for it
    open, mSize, pos,   \* the edit: its size, and its descriptor's position
    pc, op,             \* where the handler is, and whose it is
    stream,             \* bytes of the container that nobody has read
    offset, length,     \* struct mtp_file_range
    total,              \* bytes received; bytes sent (j in send_file)
    failed,             \* ret < 0 in an upload
    sent, announced,    \* what the host was sent, and the container's length
    at,                 \* the position of the descriptor send_file reads from
    want, clean         \* what the host wants in the file, while nothing spoilt it

disk == <<exists, file, object_size>>
edit == <<open, mSize>>
mfr  == <<offset, length>>
out  == <<sent, announced, at>>
locals == <<op, stream, mfr, total, failed, out>>
host == <<want, clean>>
vars == <<disk, edit, pos, pc, locals, host>>

Least(m, n) == IF m < n THEN m ELSE n
Most(m, n)  == IF m < n THEN n ELSE m

\* lseek and write: a gap reads as zeros, and no bytes make no gap.
WriteAt(f, p, bytes) ==
    IF bytes = << >> THEN f
    ELSE [i \in 1 .. Most(Len(f), p + Len(bytes)) |->
             IF i \in p + 1 .. p + Len(bytes) THEN bytes[i - p]
             ELSE IF i <= Len(f) THEN f[i] ELSE 0]

\* ftruncate
Resize(f, n) == [i \in 1 .. n |-> IF i <= Len(f) THEN f[i] ELSE 0]

Header == [i \in 1 .. HeaderSize |-> 0]

\* A byte of send_file's buffer that the last read() did not put there.
Stale == -1

Spoilt == clean' = FALSE /\ want' = << >>

Idle == pc = "idle"

\* The handler of operation o is entered.
Enter(o) ==
    /\ Idle
    /\ op' = o
    /\ total' = 0 /\ failed' = FALSE
    /\ sent' = << >>

\* A handler returns: what it kept in its locals is gone.
Return ==
    /\ pc' = "idle" /\ op' = "none"
    /\ stream' = << >>
    /\ offset' = 0 /\ length' = 0 /\ total' = 0 /\ failed' = FALSE
    /\ sent' = << >> /\ announced' = 0 /\ at' = 0

\* A request that needs no more than this.
AtOnce == Idle /\ UNCHANGED <<pc, locals>>

-----------------------------------------------------------------------------
(* Uploads.                                                                *)

\* SendObjectInfo announced n bytes, and the host sends data.
SendObject(data, n) ==
    /\ ~open
    /\ exists' = TRUE /\ object_size' = n
    /\ file' = << >> /\ pos' = 0                            \* O_TRUNC
    /\ Enter("SendObject")
    /\ stream' = data
    /\ offset' = 0 /\ length' = n
    /\ pc' = "first"
    /\ IF n = Len(data) THEN want' = data /\ clean' = TRUE ELSE Spoilt
    /\ UNCHANGED <<edit, announced, at>>

\* The data of a refused request stays in the pipe (module RunLoop).
SendPartialObject(data, off, len) ==
    /\ open
    /\ \/ off > mSize /\ AtOnce /\ UNCHANGED <<pos, host>>
       \/ /\ off <= mSize
          /\ Enter("SendPartialObject")
          /\ stream' = data
          /\ offset' = off /\ length' = len
          /\ pc' = "first"
          /\ IF clean /\ len = Len(data)
             THEN want' = WriteAt(want, off, data) /\ UNCHANGED clean
             ELSE Spoilt
          /\ UNCHANGED <<pos, announced, at>>
    /\ UNCHANGED <<disk, edit>>

\* The first read takes the header and n bytes, which go to the file where
\* its descriptor stands.  The rest of the length is for receive_file, which
\* refuses the length -1 and looks for its place first.  SendObject's length
\* is a size_t; it looks at the first write only.
InitialData(n, written) ==
    LET rest == IF op = "SendObject" THEN length - n ELSE (length - n) % Word
        received == rest # 0 /\ rest # Word - 1
    IN  /\ file' = IF written THEN WriteAt(file, pos, SubSeq(stream, 1, n)) ELSE file
        /\ stream' = SubSeq(stream, n + 1, Len(stream))
        /\ offset' = offset + n
        /\ length' = rest
        /\ total' = 0
        /\ pc' = IF received THEN "receive" ELSE "end"
        /\ pos' = IF received THEN offset + n ELSE IF written THEN pos + n ELSE pos
        /\ failed' = IF op = "SendObject" \/ rest = 0 THEN ~written ELSE rest = Word - 1

ReadFirst ==
    /\ pc = "first"
    /\ \E n \in 0 .. Least(FirstRead - HeaderSize, Len(stream)), written \in BOOLEAN :
          /\ n = 0 => written
          /\ InitialData(n, written)
          /\ IF written /\ (n = 0 \/ pos = offset) THEN UNCHANGED host ELSE Spoilt
    /\ UNCHANGED <<exists, object_size, edit, op, out>>

\* No container within a second or, for SendObject, no file to write it to.
\* SendObject gives up its object.
FirstFails ==
    /\ pc = "first"
    /\ IF op = "SendObject"
       THEN exists' = FALSE /\ file' = << >> /\ object_size' = 0
       ELSE UNCHANGED disk
    /\ Return
    /\ Spoilt
    /\ UNCHANGED <<edit, pos>>

\* Mutant: the block is written again from the first one's place.
ReadBlock_Rewinds ==
    /\ pc = "receive"
    /\ \E n \in 1 .. Least(BlockSize, Len(stream)) :
          /\ file' = WriteAt(file, offset, SubSeq(stream, 1, n))
          /\ pos' = offset + n
          /\ stream' = SubSeq(stream, n + 1, Len(stream))
          /\ total' = total + n
          /\ pc' = IF total' < length THEN "receive" ELSE "end"
    /\ UNCHANGED <<exists, object_size, edit, op, mfr, failed, out, host>>

\* Mutant: the loop goes on until more than the length has come.
ReadBlock_OneMore ==
    /\ pc = "receive"
    /\ \E n \in 1 .. Least(BlockSize, Len(stream)) :
          /\ file' = WriteAt(file, pos, SubSeq(stream, 1, n))
          /\ pos' = pos + n
          /\ stream' = SubSeq(stream, n + 1, Len(stream))
          /\ total' = total + n
          /\ pc' = IF total' <= length THEN "receive" ELSE "end"
    /\ UNCHANGED <<exists, object_size, edit, op, mfr, failed, out, host>>

\* Mutant: the loop ends one byte early.
ReadBlock_OneLess ==
    /\ pc = "receive"
    /\ \E n \in 1 .. Least(BlockSize, Len(stream)) :
          /\ file' = WriteAt(file, pos, SubSeq(stream, 1, n))
          /\ pos' = pos + n
          /\ stream' = SubSeq(stream, n + 1, Len(stream))
          /\ total' = total + n
          /\ pc' = IF total' + 1 < length THEN "receive" ELSE "end"
    /\ UNCHANGED <<exists, object_size, edit, op, mfr, failed, out, host>>

\* Nobody looks at whether the write succeeded.
ReadBlock ==
    /\ pc = "receive"
    /\ \E n \in 1 .. Least(BlockSize, Len(stream)), written \in BOOLEAN :
          /\ file' = IF written THEN WriteAt(file, pos, SubSeq(stream, 1, n)) ELSE file
          /\ pos' = IF written THEN pos + n ELSE pos
          /\ stream' = SubSeq(stream, n + 1, Len(stream))
          /\ total' = total + n
          /\ pc' = IF total' < length THEN "receive" ELSE "end"
          /\ IF written THEN UNCHANGED host ELSE Spoilt
    /\ UNCHANGED <<exists, object_size, edit, op, mfr, failed, out>>

\* The -1 of a read that timed out counts like a length, and the write of as
\* many bytes fails.
BlockTimesOut ==
    /\ pc = "receive"
    /\ total' = Most(total - 1, -MaxTimeouts)
    /\ pc' = IF total' < length THEN "receive" ELSE "end"
    /\ Spoilt
    /\ UNCHANGED <<disk, edit, pos, op, stream, mfr, failed, out>>

\* endSendObject reads the file's size again, or erases the entry; the file
\* was unlinked.
EndSendObject ==
    /\ pc = "end" /\ op = "SendObject"
    /\ IF failed
       THEN exists' = FALSE /\ file' = << >> /\ object_size' = 0
       ELSE object_size' = Len(file) /\ UNCHANGED <<exists, file>>
    /\ Return
    /\ UNCHANGED <<edit, pos, host>>

EndSendPartialObject ==
    /\ pc = "end" /\ op = "SendPartialObject"
    /\ mSize' = IF failed THEN mSize ELSE Most(mSize, offset + length)
    /\ Return
    /\ UNCHANGED <<disk, open, pos, host>>

-----------------------------------------------------------------------------
(* Editing in place.                                                       *)

BeginEditObject ==
    /\ AtOnce
    /\ ~open /\ exists
    /\ open' = TRUE
    /\ mSize' = object_size
    /\ pos' = 0
    /\ UNCHANGED <<disk, host>>

TruncateObject(n) ==
    /\ AtOnce
    /\ open
    /\ file' = Resize(file, n)
    /\ mSize' = n
    /\ want' = IF clean THEN Resize(want, n) ELSE want
    /\ UNCHANGED <<exists, object_size, open, pos, clean>>

\* Mutant: the edit is closed without a look at the file.
EndEditObject_KeepsSize ==
    /\ AtOnce
    /\ open
    /\ open' = FALSE /\ mSize' = 0 /\ pos' = 0
    /\ UNCHANGED <<disk, host>>

\* commitEdit; the descriptor is closed.
EndEditObject ==
    /\ AtOnce
    /\ open
    /\ open' = FALSE /\ mSize' = 0 /\ pos' = 0
    /\ object_size' = Len(file)
    /\ UNCHANGED <<exists, file, host>>

\* What GetObjectInfo says: the database's size may be out of date.
size == IF open THEN mSize ELSE object_size

-----------------------------------------------------------------------------
(* Downloads.                                                              *)

\* Mutant: the length is not cut to the 32 bits of its field.
StartSending_Wide(off, len) ==
    /\ Enter("GetObject")
    /\ pc' = "send"
    /\ offset' = off /\ at' = off
    /\ length' = len
    /\ announced' = len + HeaderSize
    /\ UNCHANGED <<disk, edit, pos, stream, host>>

\* send_file, called for len bytes from off on.
StartSending(off, len) ==
    /\ Enter("GetObject")
    /\ pc' = "send"
    /\ offset' = off /\ at' = off
    /\ length' = len
    /\ announced' = (len + HeaderSize) % Word
    /\ UNCHANGED <<disk, edit, pos, stream, host>>

GetObject == exists /\ StartSending(0, object_size)

\* length is a uint32_t.
GetPartialObject(off, len) ==
    /\ exists
    /\ StartSending(off, IF off + len > object_size THEN (object_size - off) % Word ELSE len)

\* Mutant: all of the file from the offset on.
actualsize_ToEnd == IF offset >= Len(file) THEN 0 ELSE Len(file) - offset

actualsize ==
    IF offset >= Len(file) THEN 0
    ELSE IF offset + length > Len(file) THEN Len(file) - offset ELSE length

\* Mutant: ofs is not reset after the first block.
ofs_Kept == HeaderSize

ofs == IF sent = << >> THEN HeaderSize ELSE 0

\* Mutant: the room the header takes is forgotten.
blocksize_NoHeader == IF total + BlockSize < actualsize THEN BlockSize - ofs ELSE actualsize - total

blocksize == IF total + (BlockSize - ofs) < actualsize THEN BlockSize - ofs ELSE actualsize - total

\* What the buffer holds when read() has put got bytes into it.
Block(got) == [i \in 1 .. blocksize |-> IF i <= got THEN file[at + i] ELSE Stale]

\* Nobody looks at how many bytes read() gave, nor at whether the host takes them.
SendBlock ==
    /\ pc = "send"
    /\ \E got \in 0 .. blocksize :
          /\ sent' = sent \o (IF ofs > 0 THEN Header ELSE << >>) \o Block(got)
          /\ at' = at + got
    /\ total' = total + blocksize
    /\ pc' = IF total' < actualsize THEN "send" ELSE "end"
    /\ UNCHANGED <<disk, edit, pos, op, stream, mfr, failed, announced, host>>

EndGetObject == pc = "end" /\ op = "GetObject" /\ Return /\ UNCHANGED <<disk, edit, pos, host>>

-----------------------------------------------------------------------------
Init ==
    /\ exists = FALSE /\ file = << >> /\ object_size = 0
    /\ open = FALSE /\ mSize = 0 /\ pos = 0
    /\ pc = "idle" /\ op = "none" /\ stream = << >>
    /\ offset = 0 /\ length = 0 /\ total = 0 /\ failed = FALSE
    /\ sent = << >> /\ announced = 0 /\ at = 0
    /\ want = << >> /\ clean = TRUE

Request ==
    \/ \E data \in Data, n \in 0 .. MaxSize : SendObject(data, n)
    \/ \E data \in Data, off \in 0 .. MaxSize, len \in 0 .. MaxSize :
          /\ Most(off, pos) + Len(data) <= MaxSize
          /\ SendPartialObject(data, off, len)
    \/ BeginEditObject
    \/ \E n \in 0 .. MaxSize : TruncateObject(n)
    \/ EndEditObject
    \/ GetObject
    \/ \E off, len \in 0 .. MaxSize : GetPartialObject(off, len)

Handler ==
    \/ ReadFirst
    \/ FirstFails
    \/ ReadBlock
    \/ BlockTimesOut
    \/ EndSendObject
    \/ EndSendPartialObject
    \/ SendBlock
    \/ EndGetObject

Next == Request \/ Handler

\* The server's thread runs: its reads return what is there.
Fairness == WF_vars(ReadFirst \/ ReadBlock \/ EndSendObject \/ EndSendPartialObject
                        \/ SendBlock \/ EndGetObject)

Spec == Init /\ [][Next]_vars /\ Fairness

-----------------------------------------------------------------------------
Uploads == {"SendObject", "SendPartialObject"}

TypeOK ==
    /\ exists \in BOOLEAN /\ open \in BOOLEAN /\ failed \in BOOLEAN /\ clean \in BOOLEAN
    /\ object_size \in Nat /\ mSize \in Nat /\ pos \in Nat /\ offset \in Nat /\ at \in Nat
    /\ length \in Int /\ total \in Int /\ total >= -MaxTimeouts
    /\ announced \in 0 .. (Word - 1)
    /\ pc \in {"idle", "first", "receive", "end", "send"}
    /\ op \in {"none", "GetObject"} \cup Uploads
    /\ file \in Seq(Nat) /\ stream \in Seq(Nat) /\ want \in Seq(Nat)
    /\ sent \in Seq(Nat \cup {Stale})

\* Which handler can be where, and what it holds there.
Phases ==
    /\ Idle <=> op = "none"
    /\ pc = "send" => op = "GetObject"
    /\ pc \in {"first", "receive"} => op \in Uploads
    /\ op \notin Uploads => stream = << >>
    /\ op = "SendObject" => exists /\ ~open
    /\ op = "SendPartialObject" => open
    /\ open => exists

\* No file grows beyond the bound, by what is on the way to it neither.
Bounded ==
    /\ Len(file) <= MaxSize /\ object_size <= MaxSize
    /\ pc \in {"first", "receive"} => pos + Len(stream) <= MaxSize
    /\ pc = "first" => offset + Len(stream) <= MaxSize

\* While nothing spoilt it, an upload has as far to go as there is data, and
\* the data, written where the descriptor stands, makes the file complete.
Uploading ==
    clean =>
        /\ op \notin Uploads /\ exists => file = want /\ Len(file) = size
        /\ pc = "first" => length = Len(stream) /\ want = WriteAt(file, offset, stream)
        /\ pc = "receive" =>
              /\ length = total + Len(stream) /\ stream # << >> /\ ~failed
              /\ pos = offset + total
              /\ want = WriteAt(file, pos, stream)
        /\ pc = "end" /\ op \in Uploads => stream = << >> /\ file = want /\ ~failed
        /\ op = "SendPartialObject" => Len(want) = Most(mSize, offset + length)

\* Byte i of the container the host asked for.
Asked(i) == IF i <= HeaderSize THEN Header[i] ELSE file[offset + (i - HeaderSize)]

\* No read before byte i of what was sent came short.
Genuine(i) == \A j \in 1 .. i : sent[j] # Stale

\* What was sent is the header and, up to the first byte a read did not give,
\* the file from the offset on; so far the descriptor is where the count is.
Sending ==
    op = "GetObject" =>
        /\ length \in Nat
        /\ offset <= object_size => offset + length <= object_size /\ announced = length + HeaderSize
        /\ total \in 0 .. actualsize
        /\ IF sent = << >> THEN total = 0 /\ pc = "send" ELSE Len(sent) = HeaderSize + total
        /\ IF Genuine(Len(sent)) THEN at = offset + total ELSE at <= offset + total
        /\ \A i \in 1 .. Len(sent) : Genuine(i) => sent[i] = Asked(i)
        /\ pc = "end" => total = actualsize

\* At every step of a transfer, what has been moved and what is still to be
\* moved make the whole.  The properties below follow from it.
ContentsInv == TypeOK /\ Phases /\ Bounded /\ Uploading /\ Sending

\* What the host wrote is what the file holds, unless a read timed out, a
\* write failed, the host sent another length than it announced, or the first
\* bytes of a SendPartialObject were written elsewhere (see ReadFirst).
UploadExact == Idle /\ clean /\ exists => file = want

\* Then the size the handlers check offsets against, and the size the host is
\* told, are the file's.
SizeKnown == Idle /\ clean /\ exists => Len(file) = size

\* receive_file ends when, and only when, all the host sent has been read.
AllReceived == clean => (pc = "end" => stream = << >>) /\ (pc = "receive" => stream # << >>)

\* While the database has the right size of the file, a download from within
\* the file is as long as it announces, and has the bytes asked for up to the
\* first that read() did not give: all of them, if no read came short.
DownloadExact ==
    pc = "end" /\ op = "GetObject" /\ object_size = Len(file) /\ offset <= Len(file) =>
        /\ Len(sent) = announced
        /\ \A i \in 1 .. Len(sent) : Genuine(i) => sent[i] = Asked(i)

\* Also with a stale size, send_file never sends more than it announced.
WithinAnnounced == op = "GetObject" /\ offset <= object_size => Len(sent) <= announced

\* Every block fits the buffer it is read into.
BlocksFit == pc = "send" => blocksize >= 0 /\ ofs + blocksize <= BlockSize

\* receive_file ends, unless the data does not come.
UploadEnds == (clean /\ pc = "receive") ~> (pc # "receive" \/ ~clean)
=============================================================================
