-------------------------- MODULE ObjectProperties --------------------------
(***************************************************************************)
(* What the host is told of an object: GetObjectInfo, GetObjectPropValue   *)
(* and GetObjectPropList each put the same entry of the database into mData *)
(* in code of its own, and getObjectPropertyDesc says how to read it.      *)
(***************************************************************************)
EXTENDS MtpProperty, FiniteSets

CONSTANTS
    MaxHandle,      \* bound: the last handle
    CardName,       \* names found on the card
    HostName,       \* names the host gives, without their terminator
    FileSize,       \* sizes of files, which the database keeps in 64 bits
    Date            \* a date, as formatDateTime writes it

Handle == 1 .. MaxHandle
kInvalidObjectHandle == MaxHandle + 1       \* MTP_PARENT_ROOT is the same number

ASSUME NameAssumption ==
    /\ MaxHandle \in Nat /\ kInvalidObjectHandle < Word
    /\ CardName \subseteq Seq(One \cup Two \cup Three \cup Four) \ {<< >>}
    /\ HostName \subseteq Seq(One \cup Two \cup Three) \ {<< >>}
    /\ \A name \in HostName : Len(name) < MaxCount
    /\ FileSize \subseteq Nat
    /\ Date \in Seq(One) /\ Len(Date) < MaxCount

VARIABLES
    db,         \* live handle -> DbEntry
    edit,       \* open edit's handle -> its mSize
    hostName    \* handle -> the name the host gave the object

vars == <<db, edit, hostName>>

MTP_FORMAT_UNDEFINED   == 12288
MTP_FORMAT_ASSOCIATION == 12289
MTP_STORAGE            == 131073        \* MTP_STORAGE_REMOVABLE_RAM
ALL_PROPERTIES         == "ALL"

DbEntry ==
    [parent : 0 .. kInvalidObjectHandle, object_format : {MTP_FORMAT_UNDEFINED, MTP_FORMAT_ASSOCIATION},
     object_size : FileSize \cup {0}, display_name : CardName \cup HostName]

getSupportedObjectProperties ==
    <<"STORAGE_ID", "PARENT_OBJECT", "OBJECT_FORMAT", "OBJECT_SIZE", "OBJECT_FILE_NAME",
      "DISPLAY_NAME", "PERSISTENT_UID", "ASSOCIATION_TYPE", "ASSOCIATION_DESC",
      "PROTECTION_STATUS", "DATE_CREATED", "DATE_MODIFIED", "HIDDEN", "NON_CONSUMABLE">>

Property == ToSet(getSupportedObjectProperties)

\* The codes of the properties.
Code ==
    [STORAGE_ID |-> 56321, OBJECT_FORMAT |-> 56322, PROTECTION_STATUS |-> 56323,
     OBJECT_SIZE |-> 56324, ASSOCIATION_TYPE |-> 56325, ASSOCIATION_DESC |-> 56326,
     OBJECT_FILE_NAME |-> 56327, DATE_CREATED |-> 56328, DATE_MODIFIED |-> 56329,
     PARENT_OBJECT |-> 56331, HIDDEN |-> 56333, PERSISTENT_UID |-> 56385,
     DISPLAY_NAME |-> 56544, NON_CONSUMABLE |-> 56399]

\* Mutant: the size is described with the width it has in the database.
getObjectPropertyDesc_Size64(p) ==
    MtpProperty(Code[p],
        CASE p \in {"STORAGE_ID", "PARENT_OBJECT", "ASSOCIATION_DESC"} -> MTP_TYPE_UINT32
          [] p \in {"DISPLAY_NAME", "OBJECT_FILE_NAME", "DATE_CREATED", "DATE_MODIFIED"} -> MTP_TYPE_STR
          [] p \in {"PERSISTENT_UID", "OBJECT_SIZE"} -> MTP_TYPE_UINT128
          [] OTHER -> MTP_TYPE_UINT16,
        p \in {"PARENT_OBJECT", "DISPLAY_NAME", "OBJECT_FILE_NAME"})

getObjectPropertyDesc(p) ==
    MtpProperty(Code[p],
        CASE p \in {"STORAGE_ID", "PARENT_OBJECT", "OBJECT_SIZE", "ASSOCIATION_DESC"} -> MTP_TYPE_UINT32
          [] p \in {"DISPLAY_NAME", "OBJECT_FILE_NAME", "DATE_CREATED", "DATE_MODIFIED"} -> MTP_TYPE_STR
          [] p = "PERSISTENT_UID" -> MTP_TYPE_UINT128
          [] OTHER -> MTP_TYPE_UINT16,
        p \in {"PARENT_OBJECT", "DISPLAY_NAME", "OBJECT_FILE_NAME"})

-----------------------------------------------------------------------------
(* The database.                                                           *)

IsFolder(h) == db[h].object_format = MTP_FORMAT_ASSOCIATION

Entry(parent, format, size, name) ==
    [parent |-> parent, object_format |-> format, object_size |-> size, display_name |-> name]

\* A map in which h has v.
With(map, h, v) == [i \in DOMAIN map \cup {h} |-> IF i = h THEN v ELSE map[i]]

\* A listing finds an object on the card.
Scan(h, parent, format, size, name) ==
    /\ h \notin DOMAIN db
    /\ db' = With(db, h, Entry(parent, format, size, name))
    /\ UNCHANGED <<edit, hostName>>

\* The name is the first string of the host's dataset.  The code keeps what
\* follows its last slash (path::filename); host names have no slash here.
SendObjectInfo(h, parent, format, size, name) ==
    /\ h \notin DOMAIN db
    /\ db' = With(db, h, Entry(parent, format, size, readFromPacket(Append(name, NUL))))
    /\ hostName' = With(hostName, h, name)
    /\ UNCHANGED edit

\* The rename on the card succeeds; otherwise nothing changes.
SetObjectPropValue(h, name) ==
    /\ h \in DOMAIN db
    /\ db' = [db EXCEPT ![h].display_name = readFromPacket(Append(name, NUL))]
    /\ hostName' = With(hostName, h, name)
    /\ UNCHANGED edit

\* The object, and the objects in it but no deeper ones.
DeleteObject(h) ==
    /\ h \in DOMAIN db
    /\ LET kept == {g \in DOMAIN db : g # h /\ db[g].parent # h}
       IN  /\ db' = Restrict(db, kept)
           /\ hostName' = Restrict(hostName, DOMAIN hostName \cap kept)
    /\ UNCHANGED edit

\* BeginEditObject, and the handlers that change the size while it is open.
Edit(h, size) ==
    /\ \/ h \in DOMAIN db /\ ~IsFolder(h) /\ size = db[h].object_size
       \/ h \in DOMAIN edit
    /\ edit' = With(edit, h, size)
    /\ UNCHANGED <<db, hostName>>

\* Mutant: map[handle] instead of at(handle) makes an entry for a lost one.
EndEditObject_Inserts(h, size) ==
    /\ h \in DOMAIN edit
    /\ edit' = Restrict(edit, DOMAIN edit \ {h})
    /\ db' = With(db, h, Entry(0, 0, size, << >>))
    /\ UNCHANGED hostName

\* The size is read again, if the handle is still there.
EndEditObject(h, size) ==
    /\ h \in DOMAIN edit
    /\ edit' = Restrict(edit, DOMAIN edit \ {h})
    /\ db' = IF h \in DOMAIN db THEN [db EXCEPT ![h].object_size = size] ELSE db
    /\ UNCHANGED hostName

-----------------------------------------------------------------------------
(* The answers: a response code, and what was put into mData, which run    *)
(* has reset.  They change nothing else.                                   *)

Answer(code, data) == [mResponse |-> code, mData |-> IF code = "OK" THEN data ELSE << >>]

\* The value of a property, as the list has it.
Value(p, h) ==
    CASE p = "STORAGE_ID"        -> putUInt32(MTP_STORAGE)
      [] p = "PARENT_OBJECT"     -> putUInt32(db[h].parent)
      [] p = "OBJECT_FORMAT"     -> putUInt16(db[h].object_format)
      [] p = "OBJECT_SIZE"       -> putUInt32(db[h].object_size)
      [] p \in {"DISPLAY_NAME", "OBJECT_FILE_NAME"} -> putString(db[h].display_name)
      [] p = "PERSISTENT_UID"    -> putUInt128(h)
      [] p = "ASSOCIATION_TYPE"  -> putUInt16(IF IsFolder(h) THEN 1 ELSE 0)
      [] p = "ASSOCIATION_DESC"  -> putUInt32(0)
      [] p = "PROTECTION_STATUS" -> putUInt16(0)
      [] p \in {"DATE_CREATED", "DATE_MODIFIED"} -> putString(Date)
      [] p = "HIDDEN"            -> putUInt16(0)
      [] p = "NON_CONSUMABLE"    -> putUInt16(IF IsFolder(h) THEN 0 ELSE 1)

\* These are answered without a look at the database, for a handle that is
\* gone too.
Fixed == {"PERSISTENT_UID", "ASSOCIATION_DESC", "PROTECTION_STATUS", "DATE_CREATED",
          "HIDDEN", "NON_CONSUMABLE"}

PropValueResponse(h, p) ==
    IF h \in {0, kInvalidObjectHandle} THEN "INVALID_OBJECT_HANDLE"
    ELSE IF h \notin DOMAIN db /\ p \notin Fixed THEN "GENERAL_ERROR"
    ELSE "OK"

\* A break before the value leaves NON_CONSUMABLE without one.
GetObjectPropValue(h, p) ==
    Answer(PropValueResponse(h, p), IF p = "NON_CONSUMABLE" THEN << >> ELSE Value(p, h))

GetObjectPropDesc(p) == Answer("OK", write(getObjectPropertyDesc(p)))

\* The host's name and the device's, which are always empty.
DeviceProperty == {54273, 54274}
getDevicePropertyDesc(code) == MtpProperty(code, MTP_TYPE_STR, FALSE)
GetDevicePropValue(code) == Answer("OK", putString(<< >>))

\* The handle, the code, the data type and the value of one property.  The
\* second date goes by the first one's code.
Element(p, h) ==
    putUInt32(h)
    \o putUInt16(IF p = "DATE_MODIFIED" THEN Code["DATE_CREATED"] ELSE Code[p])
    \o putUInt16(CASE p \in {"STORAGE_ID", "PARENT_OBJECT", "OBJECT_SIZE", "ASSOCIATION_DESC"} -> MTP_TYPE_UINT32
                   [] p \in {"DISPLAY_NAME", "OBJECT_FILE_NAME", "DATE_CREATED", "DATE_MODIFIED"} -> MTP_TYPE_STR
                   [] p = "PERSISTENT_UID" -> MTP_TYPE_UINT128
                   [] OTHER -> MTP_TYPE_UINT16)
    \o Value(p, h)

ListOrder ==
    <<"PERSISTENT_UID">> \o SelectSeq(getSupportedObjectProperties, LAMBDA p : p # "PERSISTENT_UID")

Elements(property, h) ==
    IF property = ALL_PROPERTIES
    THEN FlattenSeq([i \in DOMAIN ListOrder |-> Element(ListOrder[i], h)])
    ELSE Element(property, h)

\* The map goes through its handles in their order.
InOrder(S) == CHOOSE s \in [1 .. Cardinality(S) -> S] : \A i, j \in DOMAIN s : i < j => s[i] < s[j]

\* Mutant: a list is always about the objects below the handle.
Matches_Below(h, depth) == InOrder({c \in DOMAIN db : db[c].parent = h})

\* The objects a list is about.
Matches(h, depth) == InOrder(IF depth = 0 THEN {h} ELSE {c \in DOMAIN db : db[c].parent = h})

\* Six properties are announced for each object.  The break behind the last
\* of them, NON_CONSUMABLE, ends the loop over the objects.
getObjectPropertyList(h, property, depth) ==
    LET handles == Matches(h, depth)
        listed  == IF property \in {ALL_PROPERTIES, "NON_CONSUMABLE"} /\ handles # << >>
                   THEN <<Head(handles)>> ELSE handles
    IN  putUInt32((IF property = ALL_PROPERTIES THEN 6 ELSE 1) * Len(handles))
        \o FlattenSeq([i \in DOMAIN listed |-> Elements(property, listed[i])])

PropListResponse(h, property, groupCode, depth) ==
    IF h = kInvalidObjectHandle \/ (property = "none" /\ groupCode = 0) THEN "PARAMETER_NOT_SUPPORTED"
    ELSE IF groupCode # 0 THEN "SPECIFICATION_BY_GROUP_UNSUPPORTED"
    ELSE IF depth > 1 THEN "SPECIFICATION_BY_DEPTH_UNSUPPORTED"
    ELSE IF depth = 0 /\ h \notin DOMAIN db THEN "INVALID_OBJECT_HANDLE"
    ELSE "OK"

GetObjectPropList(h, property, groupCode, depth) ==
    Answer(PropListResponse(h, property, groupCode, depth), getObjectPropertyList(h, property, depth))

\* Mutant: the size comes from the database although the object is edited.
ObjectInfo_StaleSize(h) ==
    putUInt32(MTP_STORAGE) \o putUInt16(db[h].object_format) \o putUInt32(db[h].object_size)
    \o putUInt32(db[h].parent) \o putString(db[h].display_name)
    \o putUInt8(0) \o putString(Date) \o putUInt8(0)

\* The fields that tell nothing of the object are left out.
ObjectInfo(h) ==
    putUInt32(MTP_STORAGE)
    \o putUInt16(db[h].object_format)
    \o putUInt32(IF h \notin DOMAIN edit THEN db[h].object_size
                 ELSE IF edit[h] >= Word THEN Word - 1 ELSE edit[h])
    \o putUInt32(db[h].parent)
    \o putString(db[h].display_name)
    \o putUInt8(0)                          \* date created
    \o putString(Date)
    \o putUInt8(0)                          \* keywords

GetObjectInfo(h) ==
    Answer(IF h \in {0, kInvalidObjectHandle} THEN "INVALID_OBJECT_HANDLE"
           ELSE IF h \notin DOMAIN db THEN "GENERAL_ERROR" ELSE "OK",
           ObjectInfo(h))

-----------------------------------------------------------------------------
Init == db = << >> /\ edit = << >> /\ hostName = << >>

Next ==
    \/ \E h \in Handle, parent \in DOMAIN db \cup {0}, size \in FileSize :
          \/ \E name \in CardName : \/ Scan(h, parent, MTP_FORMAT_UNDEFINED, size, name)
                                   \/ Scan(h, parent, MTP_FORMAT_ASSOCIATION, 0, name)
          \/ \E name \in HostName : \/ SendObjectInfo(h, parent, MTP_FORMAT_UNDEFINED, size, name)
                                   \/ SendObjectInfo(h, parent, MTP_FORMAT_ASSOCIATION, 0, name)
    \/ \E h \in Handle, name \in HostName : SetObjectPropValue(h, name)
    \/ \E h \in Handle : DeleteObject(h)
    \/ \E h \in Handle, size \in FileSize : Edit(h, size)
    \/ \E h \in Handle, size \in FileSize : EndEditObject(h, size)

Spec == Init /\ [][Next]_vars

-----------------------------------------------------------------------------
TypeOK ==
    /\ DOMAIN db \cup DOMAIN edit \cup DOMAIN hostName \subseteq Handle
    /\ db \in [DOMAIN db -> DbEntry]
    /\ edit \in [DOMAIN edit -> FileSize]
    /\ hostName \in [DOMAIN hostName -> HostName]

\* Names whose characters and terminator can be counted.
Fits(name) == Len(name) < MaxCount /\ \A i \in DOMAIN name : name[i] \notin Four

Legible == {h \in DOMAIN db : Fits(db[h].display_name)}

InfoTypes ==
    <<MTP_TYPE_UINT32, MTP_TYPE_UINT16, MTP_TYPE_UINT32, MTP_TYPE_UINT32,
      MTP_TYPE_STR, MTP_TYPE_STR, MTP_TYPE_STR, MTP_TYPE_STR>>

\* GetObjectInfo can be read, and tells the object's format, its parent, its
\* name, and its size: the edit's while it is edited.
InfoTold ==
    \A h \in Legible :
        LET told == Reading(GetObjectInfo(h).mData, InfoTypes)
            size == IF h \in DOMAIN edit THEN edit[h] ELSE db[h].object_size
        IN  /\ told # << >>
            /\ told[2] = <<db[h].object_format>>
            /\ size < Word => told[3] = <<size>>
            /\ told[4] = <<db[h].parent>>
            /\ told[5] = db[h].display_name

\* What v, read for property p of object h, has to be.
Agrees(p, h, v) ==
    CASE p = "PARENT_OBJECT" -> v = <<db[h].parent>>
      [] p = "OBJECT_FORMAT" -> v = <<db[h].object_format>>
      [] p = "OBJECT_SIZE"   -> db[h].object_size < Word => v = <<db[h].object_size>>
      [] p \in {"OBJECT_FILE_NAME", "DISPLAY_NAME"} -> v = db[h].display_name
      [] p = "PERSISTENT_UID" -> v = <<h, 0>>
      [] OTHER -> TRUE

\* The description of a property can be read, the value can be read with the
\* type it names, and is the object's; but for NON_CONSUMABLE, which has none.
\* The type of a device property is right too, its description as a whole is not.
PropValueTold ==
    /\ \A code \in DeviceProperty :
          Reading(GetDevicePropValue(code).mData, <<getDevicePropertyDesc(code).mType>>) # << >>
    /\ \A h \in Legible, p \in Property \ {"NON_CONSUMABLE"} :
          LET desc == read(GetObjectPropDesc(p).mData)
              told == Reading(GetObjectPropValue(h, p).mData, <<desc[1].mType>>)
          IN  /\ desc # << >> /\ desc[1].mCode = Code[p]
              /\ told # << >> /\ Agrees(p, h, told[1])

\* The reader of a property list trusts its count and its data types.
ElementAt(data, p) ==
    LET handle == Take(data, p, MTP_TYPE_UINT32)
        code   == Take(data, handle.next, MTP_TYPE_UINT16)
        type   == Take(data, code.next, MTP_TYPE_UINT16)
        value  == Take(data, type.next, type.value[1])
    IN  IF type = Unreadable \/ value = Unreadable THEN [next |-> 0]
        ELSE [next |-> value.next, handle |-> handle.value[1], code |-> code.value[1],
              type |-> type.value[1], value |-> value.value]

\* Where each element begins, and where the last ends; 0 behind missing data.
ElementStarts(data) ==
    LET start[i \in 1 .. data[1].value + 1] ==
            IF i = 1 THEN 2
            ELSE LET before == start[i - 1] IN IF before = 0 THEN 0 ELSE ElementAt(data, before).next
    IN  start

\* The count is right: the elements it announces are all there is.
ListReadable(data) == ElementStarts(data)[data[1].value + 1] = Len(data) + 1

\* The list of one property can be read, has every object it is about once,
\* and says of each what its description and its value say; again but for
\* NON_CONSUMABLE.  The code of DATE_MODIFIED is another's.
PropListTold ==
    \A h \in Handle \cup {0}, p \in Property \ {"NON_CONSUMABLE"}, depth \in {0, 1} :
        LET answer == GetObjectPropList(h, p, 0, depth)
            about  == IF depth = 0 THEN {h} ELSE {i \in DOMAIN db : db[i].parent = h}
            starts == ElementStarts(answer.mData)
            told   == {ElementAt(answer.mData, starts[i]) : i \in 1 .. answer.mData[1].value}
        IN  answer.mResponse = "OK" /\ about \subseteq Legible =>
                /\ ListReadable(answer.mData)
                /\ answer.mData[1].value = Cardinality(about)
                /\ {e.handle : e \in told} = about
                /\ \A e \in told :
                      /\ e.type = getObjectPropertyDesc(p).mType
                      /\ p # "DATE_MODIFIED" => e.code = Code[p]
                      /\ Agrees(p, e.handle, e.value)

\* Whatever happened in between, the host reads the name it gave.
NamesKept ==
    \A h \in DOMAIN hostName : Reading(GetObjectInfo(h).mData, InfoTypes)[5] = hostName[h]

\* SwitchMtpDatabase.h:658-664: a property list is the "Number of elements"
\* and the elements, four values each.
ElementsCounted ==
    \A h \in Handle \cup {0}, p \in Property \cup {ALL_PROPERTIES}, depth \in {0, 1} :
        LET answer == GetObjectPropList(h, p, 0, depth)
        IN  answer.mResponse = "OK" /\ DOMAIN db = Legible => ListReadable(answer.mData)
=============================================================================
