# mtp-server-nx, specified

mtp-server-nx is an MTP responder for the Nintendo Switch: it offers the SD
card to a computer over USB.  This directory holds TLA+ modules translated from
its source, configurations that model-check them with TLC, and proofs checked
by TLAPS.  Paths below are relative to the repository; `D` stands for
`src/include/SwitchMtpDatabase.h` and `S` for `src/source/MtpServer.cpp`.

## 1. The system

| Component | Where | State | Operations |
|---|---|---|---|
| Run loop and stop | `S:153-236`, `src/source/main.cpp` | `mRunning`, the three packets, the response | `run`, `stop`, `stop_thread` |
| USB transfers | `src/source/usb.c`, `USBMtpInterface.cpp` | interfaces, endpoints and their pages | set up with cleaning up, read with a timeout of a second, write without one, a second try after a change of state |
| nxlink serial console | `nxlink.cpp`, `USBSerialInterface.cpp` | the interface's number | wait for the start command, write log lines, close |
| Request handlers | `S` | session, reserved handle and path, list of edits | one handler per MTP operation, dispatched by `handleRequest` |
| Object database | `D` | `counter`, a map handle → `DbEntry` | scan, list, look up, begin and end an upload, delete, move, rename, rescan |
| File transfer | `send_file`, `receive_file` in `S` | locals of one call: range, total, buffer | copy between a file and the pipe in blocks |
| Datasets | `MtpDataPacket`, `MtpStringBuffer` | a buffer and an offset | put and get integers and strings |
| Properties | `MtpProperty`, tables in `D` | descriptions | describe, read, write |
| Storage | `MtpStorage` | reserve, capacity (read once) | free space, largest file, answers about both |
| logging, debug names, host-side readers | `log.cpp`, `MtpDebug.cpp`, `MtpDeviceInfo.cpp`, ... | none a property is about | output |

How they interact.  `main` sets up USB (one interface, or two if the program was
sent by nxlink, which then has to send a start command), builds the database, registers the one storage
(`sdmc:/`), starts a thread that polls for the B button, calls
`MtpServer::run`, and takes everything down when it returns.  The loop reads a request, reads a data container for the
operations of a fixed list, calls `handleRequest` with `mMutex` held, writes
`mData` if the handler filled it, and writes the response.  The handlers call
the database, which reads the directories; they also call the card on their own
(`mkdir`, `rename`, `unlink`, `open`), before or after they have told the
database.  Uploads and downloads use the pipe from inside the handler.  Nothing
is kept on disk apart from the files themselves: after a restart the database
is built anew.

What is hard in it:

- the database mirrors a card that changes only through the same server, but
  lazily (a directory is scanned at its first listing), and each handler changes
  the two one after the other, with failures in between;
- handles outlive what they name: a host keeps them, requests come in any order,
  and one request leaves state for the next (`SendObjectInfo` → `SendObject`,
  `BeginEditObject` → ... → `EndEditObject`);
- host and server have no framing but the order of packets: a data phase that
  is late, refused, cut short or too long makes the next read take the wrong
  packet;
- `stop()` comes from another thread at any point, the first included;
- a read of the pipe is cut into chunks by where its buffer lies in memory, may
  time out with part of a packet taken, and is tried again from its start; set-up
  is some fifteen calls for each interface, each of which may fail, and `main`
  goes on without a device;
- a request is read over the previous one;
- the free space is looked at once, at SendObjectInfo, and used later, with other
  programs writing to the card in between;
- the same fact is written by several pieces of code (three kinds of answer
  about an object, with the data types in a fourth place), with widths and
  counts that have to agree.

The properties that make each part correct, with the lines where they could go
wrong, are listed under `hazards` in `PROJECT.json`.

## 2. The modules

```
SdCard ── SwitchMtpDatabase ── MtpServer ─┬─ MtpServerProperties ─┬─ MCMtpServer
(card)    (D)                  (S)        │    (ObjectHandles)    └─ MtpServer_proofs
                                          ├─ CarefulHost ─┬─ CarefulHost_proofs
                                          │               └─ MCCarefulHost
                                          └─ MCClaims
RunLoop ── UsbSession ── UsbSession_proofs
UsbComms ── Main ─────┬─ Main_proofs ── Pipe_proofs
 (usb.c)  (BulkPipe)  │
                      └─ MCMain
FileTransfer ─┬─ FileTransfer_proofs
              └─ MCFileTransfer
MtpStorage ─┬─ MtpStorage_proofs
            └─ MCMtpStorage
MtpDataPacket ── MtpStringBuffer ── MtpProperty ── ObjectProperties ─┬─ ObjectProperties_proofs
                                                                     └─ MCObjectProperties
```

An operator whose comment begins with *Mutant* is a wrong version of the
definition behind it, which no specification uses; `mutants` in `PROJECT.json`
says which property tells the two apart.

### Database, handlers and card

**SdCard** is external: what the code relies on when it calls `stat`,
`directory_iterator`, `mkdir`, `open`, `rename`, `unlink` and `rmdir`.  A card
is a tree, a function from paths (sequences of names) to `"dir"` or `"file"`.

**SwitchMtpDatabase** has `counter` and `db`.  `parse_directory` gives the set
of databases a scan may leave, over the orders in which the directory may be
read (`Bijection` from handles to entries); `getObjectList`, `beginSendObject`,
`endSendObject`, `deleteFile` and `moveFile` are the functions of the same name.
Their argument `unread` is the entries whose properties a scan cannot read: each of them takes a
handle for nothing (`D:131-137`).  Exceptions are in the guards: `ListingThrows` is the
`db.at(parent)` outside the `try` block (`D:324`); outside it too are `is_directory` and
`directory_iterator` (`D:146`, `D:154-156`), so that wherever a listing has to read a directory
(`NeedsScan`) it may throw instead, before it has added an entry.

**MtpServer** has one action per handler, with the operation's parameters as
arguments.  The server holds `mMutex` from the request to the response and
there is one thread that handles requests, so a handler is one step; what
happens on the pipe during the step is in RunLoop and FileTransfer.  Each action
has the early returns of the code as disjuncts, in its order; a call on the card
whose result the code checks may fail at any time (the card may be full or
removed), so the failure has no guard.  A call whose result nobody checks may fail too,
and what failed is an argument of the action: `refused` in `DeleteObject`, what `opendir`,
`unlink` and `rmdir` did not open or remove and what `deleteRecursive` skips for its long path
(`S:1091-1130`), which stays with the directories above it while the answer is OK; and
`unlinked` in `SendObject`, whether the `unlink` of an upload that failed (`S:1059`)
succeeds.  `Reply` sets the response code,
`ForgetSendObject` is the reset before the switch in `handleRequest`, and
`Terminate` the end of the process: `Stop` when the loop ends, `Abort` when an
exception leaves `handleRequest`.  `Start` is `main`.  The card survives both.

**MtpServerProperties** states what the handlers keep true and the inductive
invariant.  **ObjectHandles** is the abstract specification of handles that
`src/include/MtpTypes.h:45-46` gives in words (unique, and not reused after the
object is gone); `HandlesImplemented` maps the database to it: live handles are
the domain of the map, spent ones those below the counter that are not in it.

**CarefulHost** restricts the requests to those under which the database
mirrors the card.  Its guards are the answer to the question what a host must
keep to, for nothing in the server makes it: list a folder before writing into
it (`D:324`, otherwise the later scan adds a second handle), list folders only
(`D:146`), use the one storage id (`D:332`), send the object right after its
information (`S:327`), give new objects new names (`S:986`), empty folders
before deleting them (`D:905`), rename a folder only when nothing in it is known
(`D:557`), not rename or delete what is being edited (`S:1313`), not move
(`S:1171`), and not ask for a folder the card refuses (`S:992`).  That a new name is free
includes names of files the host has not been shown.  What the card fails to tell or to remove
no host can prevent: the history variable `unshown` keeps the paths that were unread in a scan
of their directory, refused in a deletion or left by an `unlink` that failed, and
`ListedDirectoriesComplete` is said of all others.

**MCClaims** has the two properties that comments of these files state and the
code does not have (section 4).

### The pipe

**RunLoop** is `MtpServer::run` with `usb.c` below it, in phases (`pc`): one
operation stands for each way of using the pipes (no data; data that the loop
reads; an answer in `mData`; a file sent by the handler; a file received by the
handler).  `packet` is what one read of the receiver that expects it takes: a
container, a block of a file, or an empty packet.  `TimedOut` is a read that
gives up after a second and is cancelled, whereby a packet that arrived in
between may be lost (`usb.c:357`).  Exceptions out of a handler are `Throw`.

**UsbSession** adds a host that runs one transaction at a time, may give up, be
unplugged and come back, and ends an upload that fills its last packet with an
empty one; the user who presses B; and the applet that is asked to leave.
`upset` remembers the first event that puts host and server out of step.  These
events are the modelling result of this module: `full last packet` (`S:809` and
`MtpRequestPacket.cpp:35` take the empty packet for a message), `stalled` and
`dropped` (timeouts), `refused` (a data phase nobody reads, `S:1224`),
`cancelled` (no response), `echoed` (`S:1256`: the loop sends back the packet
that was read), `gave up`, `unplugged`, `aborted`.  Safety is said of the time
before, and liveness up to, the first of them.

### The program around the loop

**UsbComms** is `usb.c`: `usbInitialize` (one action for each group of calls that
leaves something behind; each may fail, after any number of endpoints),
`usbExit`, and `usbTransfer` from a call to its return.  A transfer is cut into
chunks: up to the end of a page through the page of the endpoint, and from there
on directly.  It ends with the first chunk that comes short; it gives up after a
second, if it is a read of the MTP interface; and if the device is no longer
configured it starts over, once.  Packets and buffers are sequences of words (a
request is a header and its parameters, a word each), so that what stands in a
buffer, and from which transfer it came, can be seen.

The service below (usb:ds) is external: it refuses buffers of a device that is
not configured, cancels on request, and a packet that is larger than the buffer
is an error or is cut.  All calls come from one thread, those of the console
between the loop's own, so the locks of `usb.c` have nothing to order and are not
in the model; nor is the branch for system versions before 5.0.0, which does
the same steps with other calls.

**BulkPipe** is what a caller of `usbTransfer` may rely on: a read takes exactly
one transfer of the host, or as much of it as fills the buffer, and returns its
length; a write is one transfer; a packet is taken once and in order.  The
chunks do not show, with one exception, which the specification has to name
(`Seam`): if the first page of the buffer ends within it and a transfer of the
host ends there too, the read does not see the end and goes on to the next
transfer; and a write puts a short packet there.  `PipeImplemented` in Main is
the refinement; packets that the running call has taken are still on the
abstract pipe until it returns (`untaken`).

**Main** is `main()` of the applet build: set-up, whose result it ignores, the
wait for the start command, the loop with a read of the request, of its data, an
answer, a response and log lines, the thread that waits for B or for the applet
to be asked to leave, and the end.  Of the handlers there is what they do with the pipe: a request
is answered by a response, with an answer before it or not, and one that brings a file
(`Brings(TRUE)`) may have the handler read it: a first packet into `mData`
(`ReadInitialData`), then blocks into the page-aligned buffer of `receive_file` (`ReceiveFile`).
`S:806-811` reads again after every timeout and does not look at `mRunning`, so only a read that
gave something can have been the last (`Handled`).  Where UsbSession has a
host that keeps to the protocol and looks at the order of packets, here any
host is plugged in and out, and the question is what is in the buffers and whether
the program gets from one end to the other.  The start command is compared as a
string in an uninitialised buffer of seven bytes, so the byte behind the buffer has to
be 0: `Init` has whatever may be in both, the command itself included.

### Contents

**FileTransfer** follows one file byte by byte through `SendObject`,
`SendPartialObject`, `TruncateObject`, `BeginEditObject`, `EndEditObject`,
`GetObject` and `GetPartialObject`.  A read returns any part of what is left of
the container, up to the size of the buffer.  The `read()` of `send_file` gives any number of
bytes up to those asked for, or none; nobody looks at the result (`S:783`), so the rest of the
block is what the buffer held before (`Stale`), it is counted as sent, and the descriptor (`at`)
falls behind.  `want` is a ghost: the contents a
host that wrote these bytes expects; `clean` is false once something happened of
which the code takes no notice: a write of `receive_file` that failed, a read
that timed out and was counted as -1 bytes, a length that differs from the data,
a first packet written where the descriptor stood and not at the offset.
After a step that fails, what is left of the container is in the pipe for the
next request; that is RunLoop's subject and not followed here.

### Space

**MtpStorage** counts allocation units: those of each file and folder, those of
other programs (and of directories that grow), and the free ones.
`getFreeSpace` keeps the reserve back and, if `statvfs` fails, returns -1, which
is 2^64 - 1 units free; `getMaxCapacity` is asked of the card until it answers
with something else than 0.  `SendObjectInfo` compares a size with the free space
and then with the largest file, in that order; `SendData` is what `SendObject`
does with data for which there may be no room any more: if nothing of the first
packet can be written the file is unlinked, but a failure in the rest is answered
with OK (`S:1053`).  Folders, edits and truncations take space that nobody
compared with anything, and `OtherPrograms` may write or delete between any two
requests.

Four history variables say what was promised to whom: `unseen` and `since` are
about the accepted size (was the free space known; what did others take of it
since), `lost` is what an upload could not write, and `promise` what is left of the
free space the host was last told of.  A host is taken to send no more than it
announced, a folder to be one unit, and names are flat; MtpServer has the tree.

### What the host is told

**MtpDataPacket** and **MtpStringBuffer** write integers and strings as units
with a width and a value, cut to the width; `Take` and `Reading` read them back
and refuse what does not fit.  Characters are told apart by the bytes they take
in UTF-8.  **MtpProperty** is the description of a property, written and read.
**ObjectProperties** has the three answers about an object (`GetObjectInfo`,
`GetObjectPropValue`, `GetObjectPropList`), the descriptions that say how to
read them, and just enough of the database's operations to get every entry: they
are summaries of the actions of MtpServer, without the card.

## 3. The runs

Every run takes seconds to four minutes or so.  `CHECK_DEADLOCK` is on everywhere but in
`program`, which ends.

| Run | Question | Checked |
|---|---|---|
| `handlers` | Every order of requests, any parameters | `IInv` (types, handles issued, root's entry, nothing kept at rest, reserved handle), `SendObjectReserved`, `HandlesImplemented`, `BindingKept`, `DeleteAllOrNothing`, `SendObjectAllOrNothing` |
| `storages` | Other storage ids, handle 0, several edits | `RootHidden`, `EditedOnce`, `FirstListingComplete` |
| `careful_host` | What holds for a host that keeps to the stated requests | `NamesRealObjects`, `NamedOnce`, `ListedDirectoriesComplete`, `KnowledgeStaysGood` |
| `usb_session` | Are host and server in step, is each request answered once, does the loop end | `SessionInv`, `AnsweredOnce`, `InStep`, `DataBeforeResponse`, `ExitsBetweenRequests`, `Answers`, `StopHonoured` |
| `file_transfer` | Is the file what the host wrote, and the download the file | `ContentsInv`, `UploadExact`, `SizeKnown`, `AllReceived`, `DownloadExact`, `WithinAnnounced`, `BlocksFit`, `UploadEnds` |
| `object_properties` | Do the answers about an object agree with each other and with their description | `TypeOK`, `InfoTold`, `PropValueTold`, `PropListTold`, `NamesKept` |
| `program` | From start to end of the program, whatever fails: are transfers within their buffers and what one call takes one transfer, are parameters the request's, does it start and end | `ProgramInv`, `ParametersSent`, `PipeImplemented`, `Exits`, `Starts` |
| `storage_space` | Is there room for what the server accepted, and is what it told to be free to be had | `UploadFits`, `PromiseKept` |
| `deletes_descendants`, `moves_the_file`, `press_b_exits`, `elements_counted` | One sentence of the repository each | violated: section 4 |

Bounds, and why they are enough.

- *Database and handlers* (`handlers`): two names, paths of two components, three
  entries on the card with its root, and four handles; the card starts
  empty or with a folder and a file in it.  Any set of entries may be unread in a scan and
  any set of paths refused in a deletion.  No edits are open here: no property of this run
  reads them, and `storages` and `careful_host` have them.  That is a file in a folder, a second
  object beside or in it, a handle that was spent and one that is not issued
  yet, and the root constant 5.  A step concerns at most two objects and their
  parent, so a third object adds no new case; a folder in a folder has a run of
  its own (`deletes_descendants`, `PATH_MAX` 3, five entries).
- `storages` has one handle less, the three ways to name a storage, handle 0 and
  two edits at once, which `handlers` has not.
- `careful_host` has six handles, five entries on the card and paths of three names, so
  that a folder with two entries can be listed, written into, emptied and deleted, and a folder
  in a folder be renamed with things in it that the host does not know of.
- `SYMMETRY Exchange` exchanges the two names, in `handlers` and `storages`: the initial cards
  and the requests come in both ways and no definition tells names apart.  Both runs check safety only.
- `VIEW WithoutResponse` drops `mResponse` from the state.  No action reads it
  and no invariant but the type invariant does; action properties read it in
  the successor of a step only, and TLC checks them on every step it makes.
- `usb_session`: two transactions, files of up to three packets.  Being out of
  step shows in the transaction after the one that caused it.
- `file_transfer`: a header of one byte, a first read of three, blocks of two and
  a word of 16 keep what matters of the real sizes (a header fits the first read and a block,
  and twice a file and a block fit the word: `SizeAssumption`, for the `int`s); a file
  of three bytes takes more than one block each way, and each block may come short anywhere.  Two files of
  different bytes, and zeros for gaps, tell old bytes, new ones and holes apart.
  One negative total is enough to leave `receive_file`'s loop waiting.
- `program`: pages of six words and packets of three; buffers of three words (requests, the
  first packet of a file) and five (data, blocks of a file) that begin at 0, 3 or 5 in a page, so
  that each is aligned, ends before, at and behind the end of a page, or has one word before it
  (the buffer of `receive_file` is always aligned; with a console, `MCInit` takes 0 and 5 only);
  requests of up to one parameter, one size of data
  (a full packet, hence an empty one behind it), one of a file and one of answers, two requests
  or lines in all and one unplugging.  Two requests are
  what it takes for one to stand over another, and for one read to take two; one
  unplugging is what it takes for the second try.  Three endpoints and two, as in the code
  (the bulk ones are two of each).
- `storage_space`: five units with a reserve of two, sizes of up to two and the one
  that stands for 0xFFFFFFFF, two files and a folder.  An upload that fits only just,
  one that does not fit because others took the reserve or more, a file that
  replaces a larger one, and an edit that grows between two requests all happen.
- `object_properties`: two objects, one possibly in the other, strings of at most
  three units (255 in the code), `Word` 1000000 with a size above it.  The codes
  of properties and data types are the real ones.

Fairness.  The specifications of the handlers and of properties have none: they
state safety.  `UsbSession` assumes weak fairness of the server's thread, which
is scheduled for as long as the process lives, of the host's reads (`Take`) and of its
sending what it began to send: a host that does not is one that `GiveUp` or
`Unplug` describe, and they are free to happen and need not.  Nothing makes the
host start a transaction.  A timed-out read belongs to the server's own steps, so
`StopHonoured` rests on the second after which a read gives up; without a
configured host it has no such step (`usb.c:322` waits without a limit) and the
property says so.  `Main` assumes weak fairness of the server's thread in the same way;
the timeout of a read is a step of it, and so is the taking of a packet by a host
that listens.  A console that nobody reads does not (`listening`), a host may stay
away, and `Exits` and `Starts` make exceptions of exactly these: `usb.c:322` and a
write wait without a limit.  `Exits` names one more, `<>[](pc = "receive")`: `receive_file`
waits again after each timeout for as long as its host is there and sends nothing, and a stop
does not reach it.  `FileTransfer` assumes weak fairness of the handler's
own steps that succeed, which is the thread's scheduling again: the reads find
data whenever the container has some.

## 4. Where the code differs from what it says

Each has a run that shows it and an entry under `findings`.

| Run | Said | Done |
|---|---|---|
| `deletes_descendants` | `D:901` "Recursively remove children object from the DB as well." | `deleteFile` erases direct children; a grandchild stays in the map, its file gone |
| `moves_the_file` | `S:1175` "Don't move the actual files unless the database deletion is allowed" | both paths come from the same entry: the file stays where it was, and the answer is OK |
| `press_b_exits` | `src/source/main.cpp:144` "Press B to exit." | a `stop()` before `S:165` is overwritten and the thread that called it has ended |
| `elements_counted` | `D:661` the dataset begins with the "Number of elements" | 6 per handle are announced, fourteen follow for the first handle, none for the others |

Met while modelling, in the models as the code has them, and without a run:

- `S:562` takes storage id 0xFFFFFFFF for all storages; `getObjectList` compares
  it with the entries' ids (`D:332`) and lists nothing.  An entry made by a
  listing or by SendObjectInfo has the id of the request, 0 included, so a folder scanned under
  one id looks empty under another.
- `S:1223` says that one "can't start writing past the end of the file" and checks
  the offset; the first packet is then written where the descriptor stands
  (`S:1241`), and only the rest at the offset.  `UploadExact` is said of uploads
  for which the two are the same.
- The persistent unique id of an object is its handle (`D:483`), and handles start
  again with every start of the program.
- A folder that `mkdir` refuses stays in the database (`S:992`).
- What `DeleteObject` cannot remove it leaves behind without an entry, and answers OK
  (`S:1091-1130`); an upload that failed leaves its file if `unlink` fails (`S:1059`).
- A folder whose `is_directory` or `directory_iterator` throws ends the process
  (`D:146`, `D:154-156`, outside the `try` of `D:327`), whatever the host does.
  `KnowledgeStaysGood` is about the other cause, handles that are gone.
- `send_file` ignores the result of `read()` (`S:783`), and `doGetObject` answers OK for stale
  bytes.  `DownloadExact` is said of the bytes up to the first that was not read.
- `receive_file` waits without end for a file that does not come (`S:806-811`), also after
  `stop()`; `Exits` makes an exception of it.
- Sizes are `int` in `send_file` and `receive_file` (`S:748`, `S:802`), while 4 GB - 2 are
  accepted.
- The display name of an upload is what follows the last slash of its path (`D:269`): a
  name with a slash comes back cut.  `NamesKept` is said of names without one.
- `moveFile` takes any parent, the object itself among them (`D:932`).
- The inner `ret` of `S:1053` hides the outer one: SendObject does not see that
  `receive_file` failed, and the host that what it sent was not written.
  `UploadFits` says when that happens for want of room: if others took the whole
  reserve since SendObjectInfo, or if the free space was never known.
- A `statvfs` that fails is 2^64 - 1 bytes free (`src/source/MtpStorage.cpp:77`), and
  every size fits.
- Strings have "a maximum of 255 characters" (`src/include/MtpStringBuffer.h:26`), but
  the count is one byte and includes the terminator (`MtpStringBuffer.cpp:145`): 255
  characters are announced as 0.
- GetPartialObject with an offset past the end announces a length near 4 GB (`S:891`).
- Of the object properties, six are answered for handles that are gone;
  NON_CONSUMABLE has a `break` before its value (`D:503`); DATE_MODIFIED is sent
  in lists with the code of DATE_CREATED (`D:777`).
- A character of four bytes in UTF-8 counts for four (`MtpStringBuffer.cpp:90`)
  and brings bytes from behind the terminator into the answer.
- `MtpProperty::write` puts a group for every property and a form flag for object
  properties only, `MtpProperty::read` expects a group for object properties only and a form flag always
  (`MtpProperty.cpp:158-160` and `201-203`): the two do not agree on device
  properties.
- A request is read over the previous one and `getParameter` looks at no length
  (`MtpPacket.cpp:137`): a parameter the host left out is an older request's.
  `ParametersSent` says how far: what the length covers is this request's, and what is
  behind it is never this request's nor a later one's.  It is said of buffers whose first
  page does not end within the request: otherwise the seam (section 2, BulkPipe) joins two
  transfers.  The models of the handlers give every request all its parameters.
- `nxlink.cpp:52-55` reads seven bytes and compares eight.  `Starts` is
  said of programs in which the byte behind the buffer happens to be 0; in others the
  command is not recognised, and the wait for it has no end.

## 5. What is proved

Proofs hold for every value of the constants that the assumptions named in the
modules allow:

| Module | For every | Assumptions |
|---|---|---|
| MtpServer_proofs, CarefulHost_proofs | card, set of names and storages, number of handles and of edits | `CardAssumption`, `HandleAssumption` (the host names no handle but 0, 2 to `MaxHandle`, and the root constant; see below), `StorageAssumption`, `EditsAssumption` |
| UsbSession_proofs | number of transactions, length of files | `TransferAssumption` |
| Main_proofs, Pipe_proofs | page and packet size, number of endpoints, sizes and places of buffers, requests | `UsbAssumption`, `MainAssumption`; for parameters `RequestAssumption`: a request with all its parameters is shorter than a packet, and fits its buffer |
| FileTransfer_proofs | header, first read, block, word and file size | `SizeAssumption` |
| MtpStorage_proofs | card, reserve and word | `SpaceAssumption` |
| ObjectProperties_proofs | number of objects, characters, names, sizes and dates, word and largest count | `WidthAssumption`, `CharAssumption` (each character takes the bytes of one class), `NameAssumption` (a handle is a word; the host's names and dates can be counted, those of the card need not be) |

Everywhere the argument is the same: an inductive invariant, with a lemma for
each action, and the properties as consequences.

**MtpServer.**  `Invariance` is `Spec => []IInv`.  `IInv` joins

- `TypeOK`;
- `Issued`: every handle in the map lies below the counter.  Without it a handle
  that is given out could replace a live one;
- `RootEntry`: the root's entry keeps its path and its parent, the one value no
  listing filters by.  Hence no host learns handle 1, which is why
  `HandleAssumption` leaves it out, and hence the theorem `RootOutOfReach`;
- `AtRest`: a process that ended keeps nothing, for `Start` to begin with;
- `SendObjectReserved`: the reserved handle names the path and format it was
  reserved for.  That it is inductive rests on `ForgetSendObject` in every
  handler but SendObject's.

The step has a lemma for each handler, over lemmas about scanning
(`ScanLemma`: a scan keeps what was issued and adds handles from the counter on),
about changes to entries and about the card.  `TypeCorrect`,
`ReservedHandleKept` and `RootOutOfReach` follow from it.  `HandleDiscipline`
(`Spec => HandlesImplemented`) is the refinement: every step of the server is an
`Issue`, a `Retire`, an `Up` or a `Down` of ObjectHandles, or none.

**UsbSession.**  `SessionSafe` is `Spec => []SessionInv`.  `SessionInv` joins
`TypeOK`, `Accounted` (handled and not yet answered is what is being served) and,
until something upset the two, `Clean`: the packets the host has put on the pipe
or has yet to put there (`Rest`) are exactly those the server reads before it
answers (`Unread`), or a whole transaction whose command has not been read
(`Announced`).  This is what AnsweredOnce and InStep need and do not say.  From
it follow `AnsweredOnceHolds`, `InStepHolds`, `DataBeforeResponseHolds` and
`ExitsBetweenRequestsHolds`.

**Requests** (in MtpServer_proofs, over `IInv`).  `EditsAreUnique` (`EditedOnce`) needs what adding to
and taking from the list of edits do, element by element.  `SendsAllOrNothing` and
`DeletesAllOrNothing` are about single steps: DeleteObject erases the entry first
and refuses the deletion if the map is then empty, and the proof shows that this cannot happen,
because the root's entry is always there and no host can name it.
`HandlesStayBound` (`BindingKept`) is about every handler: an entry's path changes
only where `rename` has moved that very file.  `FirstListingsComplete` follows what
`parse_directory` adds (`DirectoryLemma`): one entry for each thing in the directory that
can be read, and none for another.  `DeletesAllOrNothing` is said for every set of paths the card
refuses: what stays is what lies at or above one of them.

**CarefulHost.**  `CarefulInvariance` is `CarefulSpec => []Inv`, with `Inv` the
`IInv` above joined with `CarefulInv`:

- `IsTree`: above every entry of the card there are directories;
- `NamedOnce` and `ListedDirectoriesComplete`, which are properties of their own;
- `Placed`: an entry hangs from one whose path is one name shorter, and that one was
  listed.  Without "was listed" a later scan of the parent would add it again;
- `Rooted`: with an entry, all directories above it have entries.  It says of all
  prefixes at once what follows from `Placed` by going up one name at a time, which
  would be an induction.  It is needed where something happens to a path and everything
  below it: if there is an entry below that path, there is one right below, which a host that
  deletes or renames only what has no known children excludes (`NoneBelow`);
- `OnCard`: the entries are on the card, but for the one that was announced and
  is not sent yet, whose place is free;
- `Knows`: the host knows all but the root's entry and objects of the root, and
  nothing that is gone.

Uploads add one entry to a tree (`AddedLemma`, `SendKeeps`), deletions take away what
lies at and below a path (`DeleteKeeps`), and a rename moves it: `RenameMoves` says that it takes
each entry to a place of its own, `RenameTree` that the result is a tree, and
`RenamedEntryLemma` that the one changed path in the database is enough.  For that the guard of
`CarefulRename` is needed: `D:557` changes the one entry only.
From `Inv` follow `RealObjects`, `OneHandleEach`, `ListingsComplete` and
`KnownHandlesGood`.

**Main.**  `ProgramSafe` is `Spec => []ProgramInv`.  `ProgramInv` joins `TypeOK`;
`SetUpInOrder`, what of each interface exists at which point of set-up and
cleaning up; `NothingLeaks`, that nothing is left of an interface that is not
initialised; and `ChunkFits`, that what is posted lies within the caller's buffer
and within the page it goes through.  The last is inductive only together with the
second: a transfer uses a page, and who frees pages and when is what set-up and
`usbExit` decide.

**Parameters** (in Main_proofs, over `ProgramInv`).  `ParametersSentHolds` is `Spec =>
[]ParametersSent`.  `ParametersInv` joins

- `InOrder`: what the host has put on the pipe or is still to send (`coming`) is
  requests, each of them one short packet, and packets of data phases; what stands
  before a request is older than it;
- `BufferOld`: nothing in the buffer or in the page of the endpoint belongs to a
  request that is still coming.  A read that fails leaves words in the buffer too, but
  those of packets that are gone from the pipe;
- `ReadOK` and `HandledOK`, for buffers that do not end a page within a request
  (`RoomForRequest`): a read that has words and goes on began with one of a data phase, so
  that no packet comes to stand behind a request it does not belong to; and when the
  read has returned, and while the request is handled, the buffer `Holds` the request that its
  first word is the header of.

**BulkPipe.**  `PipeHolds` is `Spec => PipeImplemented`: every step of Main maps to one
of BulkPipe or to none.  `PipeInv` says how far a try has come.  `TwoChunks`: a
transfer is cut once, at the seam, or not at all.  `ReadSoFar`: the words of the packets
that were taken, joined, are what stands in the buffer and in the page of the endpoint,
and no first part of them would have ended the transfer.  `WrittenSoFar`: the packets
given are the first ones of the transfer, as many as the chunks before and the words
moved of this one account for.  `FreshTry` and `OnlyReadsFail`: a try that begins, or that a
host has left, has nothing, and it is a read whose failure the caller learns without a mishap.
The two chunks of the code and the one sequence of packets of BulkPipe meet in
`PartLemma` (what `SendPacket` cuts off is the next packet) and in `FilledToLemma` and
`OneMoreLemma` (a chunk that is full, or a packet that comes short, ends the transfer where
BulkPipe says so, the seam included).

`FlattenSeq` of the community modules is recursive, a CHOOSE of a function to the
provers.  What it does on every sequence (`FlattenIs`, `FlattenAppend`) is proved by
its least counterexample (`LeastNatural`, from the well-foundedness of the naturals), as the
library's theorem of induction cannot be instantiated.

**FileTransfer.**  `ContentsSafe` is `Spec => []ContentsInv`.  `Uploading` says that
the data still to come, written where the descriptor stands, makes the file the
host wants, and that as much is to come as the code thinks; `Sending`, that what
was sent has the length the code counts and, up to the first byte that a `read()` did not give,
is a piece of the file from the offset on, with the descriptor where the count is; `Phases` and `Bounded`, which
handler can be where and that no file outgrows the bound.  That a block written now and
the rest written after it are the same as both written at once is `SplitLemma`.
`UploadsExact`, `SizesKnown`, `ReceivesAll`, `DownloadsExact`,
`StaysWithinAnnounced` and `BlocksFitHolds` follow.

**MtpStorage.**  `SpaceSafe` is `Spec => []SpaceInv`.  `RoomKept` says that while an
upload is expected, what is free and what others took since make the accepted
size and the reserve; `PromiseLeft`, that what is left of the promise is free.  The
first is kept by every other request because each of them forgets the reserved
handle.  `AcceptedFits` and `PromisesKept` follow.

**ObjectProperties.**  `DatabaseInv` joins `TypeOK` and `Named`: while an object lives, its
entry has the name its host gave last.  That a name goes through `readFromPacket` unchanged
is `GivenName`.  The rest is about the answers, which are functions of the state, and
holds of every database of the right type (`InfoIsTold`, `ValuesAreTold`, `ListsAreTold`):

- a string comes back: `WriteLemma` says that `writeToPacket` decodes the bytes that `set`
  encoded to the same units, since each counted character begins where the bytes of one
  of the name's do (`StartsLemma`, `BytesAtLemma`) and no two characters have the same bytes
  (`DecodeLemma`); `TakeName`, that the host's reader makes the name of them again;
- a dataset comes back: `Reads(part, type, value)` says that wherever the part stands in
  some data, a reader that expects the type takes just the part and has the value.
  Each `put` of the code `Reads` (`ReadsPut`), parts one behind the other are read one after the other
  (`TellsMore`), and `Reading` is right about data with nothing left over (`TellsReading`).  From this follow
  GetObjectInfo (`InfoLemma`), each value (`ValueLemma`) and what `MtpProperty::write`
  writes for `MtpProperty::read` (`DescriptionLemma`);
- a list comes back: each element is read where it stands (`ElementLemma`), the next one begins
  where it ends (`ElementStartsLemma`), and `InOrder` has each handle of a set once (`InOrderLemma`).

`ObjectsTyped`, `NamesKeptHolds`, `InfoToldHolds`, `PropValueToldHolds` and `PropListToldHolds`
follow.  The recursive functions in these definitions (`Starts`, `Reading`, `ElementStarts`,
`FlattenSeq`) are treated as in BulkPipe: by their least counterexample.

Every invariant and action property of a passing run is stated by a theorem.
Only model-checked: liveness
(`Answers`, `StopHonoured`, `UploadEnds`, `Exits`, `Starts`), which with ENABLED is out of
the proof system's reach.
No module declares a RECURSIVE operator.

## 6. What is not modelled

- Device information and thumbnails: answers made of constants, without effect on
  anything.
- The locks of `usb.c` (one thread makes all the calls), its branch for system
  versions before 5.0.0, its descriptors, and the event endpoint after its set-up:
  nobody writes to it.
- The build without an applet, in which `main` differs in the thread it starts.
- Growth of buffers, byte order, dates, printing, logging.
- Files of 2 GB and more, where the `int`s of `send_file` and `receive_file` overflow
  (`SizeAssumption` keeps to smaller ones).
- A start without a card: `readFiles` then makes no entry for the root (`D:177`), while the
  card of the model has a root directory.
- Formats beyond folder and file, and `removeStorage`, which has no caller.
- The host-side readers (`MtpDeviceInfo`, `MtpObjectInfo`, `MtpStorageInfo`),
  which the server does not call.

## 7. Plan

Done: the object database, the handlers and the card; the run loop with its
host; the interfaces, transfers and the program around the loop; file contents;
the space of the card; object properties; the proofs of section 5, which cover every safety
property the passing runs check.

Next, in this order:

1. The composition of Main with MtpServer's handlers, if a property turns up that
   neither states alone.
