---------------------------- MODULE MtpProperty ----------------------------
(***************************************************************************)
(* The description of a property as MtpProperty::write puts it into a      *)
(* dataset and MtpProperty::read takes it out.  The server's properties    *)
(* have no form, group 0, and the default value 0 or "".                   *)
(***************************************************************************)
EXTENDS MtpStringBuffer

\* 0x5nnn, and 0xDnnn below 0xD800.
isDeviceProperty(code) == code \div 4096 = 5 \/ code \div 2048 = 26

MtpProperty(code, type, writeable) == [mCode |-> code, mType |-> type, mWriteable |-> writeable]

\* The value 0, or no string.
writeValue(type) ==
    CASE type = MTP_TYPE_UINT16  -> putUInt16(0)
      [] type = MTP_TYPE_UINT32  -> putUInt32(0)
      [] type = MTP_TYPE_UINT128 -> putUInt128(0)
      [] type = MTP_TYPE_STR     -> putUInt8(0)

\* A device property has a current value too, but no form.
write(property) ==
    LET deviceProp == isDeviceProperty(property.mCode)
    IN  putUInt16(property.mCode)
        \o putUInt16(property.mType)
        \o putUInt8(IF property.mWriteable THEN 1 ELSE 0)
        \o writeValue(property.mType)
        \o (IF deviceProp THEN writeValue(property.mType) ELSE << >>)
        \o putUInt32(0)                                             \* mGroupCode
        \o (IF deviceProp THEN << >> ELSE putUInt8(0))              \* mFormFlag

\* The types of the fields that read takes; it takes a form from a device
\* property, and no group.
Fields(code, type) ==
    <<MTP_TYPE_UINT16, MTP_TYPE_UINT16, MTP_TYPE_UINT8, type>>
    \o (IF isDeviceProperty(code) THEN <<type>> ELSE <<MTP_TYPE_UINT32>>)
    \o <<MTP_TYPE_UINT8>>

\* Nothing, if the fields are not all there is.
read(data) ==
    LET told == Reading(data, Fields(data[1].value, data[2].value))
    IN  IF told = << >> THEN << >>
        ELSE <<MtpProperty(told[1][1], told[2][1], told[3] = <<1>>)>>

=============================================================================
