------------------------------ MODULE Conversions ------------------------------
(***************************************************************************)
(* Values of simple types, from one peer to another through a protocol: the  *)
(* handlers of spyne/protocol/_outbase.py and _inbase.py, how they are found  *)
(* (spyne/util/cdict.py), which of them a protocol replaces, and what a       *)
(* document can carry.                                                      *)
(*                                                                         *)
(* A value has a form, its Python type, and layers: how what it stands for   *)
(* is coded in it, the outermost last.  A class has a type and the options    *)
(* that say how its values are written.                                     *)
(***************************************************************************)
EXTENDS Nothing, Naturals, Sequences

Val(form, layers) == [form |-> form, layers |-> layers]
Failed == Val("failed", <<>>)       \* any exception but a fault of the client
Refused == Val("refused", <<>>)     \* ValidationError

Is(w, form, layers) == w.form = form /\ w.layers = layers

-----------------------------------------------------------------------------
(* Protocols: xml, soap, json, yaml, msgpack.                                *)

XmlBased(p) == p \in {"xml", "soap"}
TextBased(p) == p # "msgpack"
BinaryEncoding(p) == IF p = "msgpack" THEN None ELSE "base64"

-----------------------------------------------------------------------------
(* Handlers.                                                                *)

BaseTypes ==
    [ModelBase |-> <<>>, SimpleModel |-> <<"ModelBase">>, EnumBase |-> <<"SimpleModel">>,
     Enum |-> <<"EnumBase">>, Unicode |-> <<"SimpleModel">>, AnyUri |-> <<"Unicode">>,
     Uuid |-> <<"Unicode">>, Decimal |-> <<"SimpleModel">>, Double |-> <<"Decimal">>,
     Float |-> <<"Double">>, Integer |-> <<"Decimal">>, UnsignedInteger |-> <<"Integer">>,
     Boolean |-> <<"SimpleModel">>, DateTime |-> <<"SimpleModel">>, Date |-> <<"DateTime">>,
     Time |-> <<"SimpleModel">>, Duration |-> <<"SimpleModel">>,
     ByteArray |-> <<"SimpleModel">>, File |-> <<"SimpleModel">>]

\* The key of a table that serves a type: the type or a base of it, the last base
\* first.
RECURSIVE Handler(_, _)
Handler(table, type) ==
    IF type \in table THEN type
    ELSE LET bases == BaseTypes[type]
             found == SelectSeq([i \in DOMAIN bases |-> Handler(table, bases[Len(bases) + 1 - i])],
                                LAMBDA t : t # None)
         IN  IF found = <<>> THEN None ELSE Head(found)

Subtype(type, base) == Handler({base}, type) = base

\* _to_bytes_handlers, without complex types and those of documents
ToBytesHandlers ==
    {"ModelBase", "File", "Time", "Uuid", "Date", "Double", "Unicode", "Boolean", "Decimal",
     "Integer", "DateTime", "Duration", "ByteArray"}
ToUnicodeHandlers == ToBytesHandlers \cup {"AnyUri"}

FromUnicodeHandlers ==
    {"File", "Double", "Boolean", "Integer", "Unicode", "ByteArray", "EnumBase", "ModelBase",
     "Date", "Uuid", "Time", "Decimal", "DateTime", "Duration"}

\* The types whose values a protocol puts into documents as they are: what its
\* __init__ replaces in these tables.
JsonNatives == {"Integer", "Double", "Boolean"}
YamlNatives == {"Integer", "Double", "Boolean"}
MessagePackNatives == {"Double", "Boolean"}
Natives(p) ==
    CASE XmlBased(p) -> {}
      [] p = "json" -> JsonNatives
      [] p = "yaml" -> YamlNatives
      [] p = "msgpack" -> MessagePackNatives

\* The types that SOAP writes and those that it reads in the ISO format, whatever their
\* classes say.
IsoWritten(p) == IF p = "soap" THEN {"Time", "DateTime"} ELSE {}
IsoRead(p) == IF p = "soap" THEN {"Date", "DateTime"} ELSE {}

\* Of the tables of XmlDocument, the types that are no documents.
SerializationHandlers == {"ModelBase", "EnumBase", "ByteArray"}
DeserializationHandlers == {"ModelBase", "EnumBase", "Unicode", "ByteArray"}

-----------------------------------------------------------------------------
(* Binary data.                                                             *)

\* ByteArray.to_hex and its siblings: bytes, or a sequence of them, are made bytes.
Encode(encoding, v) ==
    Val("bytes", IF encoding = None THEN v.layers ELSE Append(v.layers, encoding))

\* ByteArray.from_hex cannot join the characters of a text, from_base64 not the
\* numbers that bytes are made of.  Without an encoding whatever there is is taken.
Decode(encoding, w) ==
    LET peeled == Val("chunks", SubSeq(w.layers, 1, Len(w.layers) - 1))
    IN  CASE encoding = None -> Val("chunks", w.layers)
          [] encoding = "base64" /\ w.form = "bytes" -> Refused
          [] encoding = "hex" /\ w.form = "str" -> Failed
          [] OTHER -> IF w.form \in {"str", "bytes"} /\ w.layers # <<>> THEN peeled ELSE Failed

\* The suggestion wins over the class.
BadEncodingOf(c, suggested) == IF suggested # None THEN suggested ELSE c.encoding

\* The encoding of a class, if it has one of its own.
EncodingOf(c, suggested) == IF c.encoding = "default" THEN suggested ELSE c.encoding

AsText(w) == IF w.form = "bytes" THEN [w EXCEPT !.form = "str"] ELSE w
AsBytes(w) == IF w.form = "str" THEN [w EXCEPT !.form = "bytes"] ELSE w

ByteArrayToBytes(p, c, v, suggested) ==
    Encode(EncodingOf(c, IF suggested = None THEN BinaryEncoding(p) ELSE suggested), v)

ByteArrayToUnicode(p, c, v, suggested) ==
    LET encoding == EncodingOf(c, IF suggested = None THEN BinaryEncoding(p) ELSE suggested)
    IN  IF encoding = None THEN Failed ELSE AsText(Encode(encoding, v))

\* An input protocol has no encoding of its own.
ByteArrayFromBytes(c, w, suggested) == Decode(EncodingOf(c, suggested), w)

\* file_to_unicode: data that is not coded is no ASCII.
FileToUnicode(p, c, v, suggested) ==
    LET w == ByteArrayToBytes(p, c, v, suggested)
    IN  IF w.layers = <<>> THEN Failed ELSE AsText(w)

FileFromBytes(c, w, suggested) ==
    LET data == ByteArrayFromBytes(c, w, suggested)
    IN  IF data.form = "chunks" THEN Val("file", data.layers) ELSE data

-----------------------------------------------------------------------------
(* Uuids.                                                                   *)

\* uuid_to_unicode with _uuid_serialize
UuidToUnicode(c, suggested) ==
    LET s == c.serializeAs
    IN  CASE s \in {None, "str"} -> Val("str", <<"uuid">>)
          [] s \in {"hex", "urn"} -> Val("str", <<s>>)
          [] s = "int" -> Val("number", <<s>>)
          [] s = "fields" -> Val("list", <<s>>)
          [] s \in {"bytes", "bytes_le"} -> Encode(EncodingOf(c, suggested), Val("bytes", <<s>>))

\* uuid_from_unicode with _uuid_deserialize: bytes are only taken for the default text.
UuidFromUnicode(c, w, suggested) ==
    LET s == c.serializeAs
        taken(v, layers) == IF v.layers = layers THEN Val("object", <<>>) ELSE Refused
        raw == Decode(EncodingOf(c, suggested), w)
    IN  CASE s = None -> taken(w, <<"uuid">>)
          [] s = "str" -> Failed
          [] s \in {"hex", "urn"} -> IF w.form = "str" THEN taken(w, <<s>>) ELSE Refused
          [] s \in {"int", "fields"} -> taken(w, <<s>>)
          [] s \in {"bytes", "bytes_le"} -> IF raw.form = "chunks" THEN taken(raw, <<s>>) ELSE raw

\* _uuid_validate: "str" is no key of it, "urn" is no argument of UUID, and a text has
\* not the length of bytes.
UuidValidateString(c) ==
    CASE c.serializeAs \in {"str", "urn"} -> Failed
      [] c.serializeAs \in {"bytes", "bytes_le"} -> Refused
      [] OTHER -> Val("valid", <<>>)

-----------------------------------------------------------------------------
(* Dates and times.  The formats of a class are a function of their names.   *)

\* The first of some formats that is given.
FirstFormat(c, names) ==
    LET given == SelectSeq(names, LAMBDA n : n \in DOMAIN c.formats)
    IN  IF given = <<>> THEN None ELSE c.formats[Head(given)]

ReaderFormats == <<"dt_format", "date_format", "out_format", "format">>

\* _get_datetime_format
WriterFormats == <<"datetime_format">> \o ReaderFormats

Formatted(format) == Val("str", IF format = None THEN <<"iso">> ELSE <<format>>)

Units == {"sec", "sec_float", "msec", "msec_float", "usec"}

\* datetime_to_unicode, _datetime_to_unicode: a string format is applied to the
\* datetime itself.
DateTimeToUnicode(c) ==
    LET other == FirstFormat(c, <<"string_format", "str_format", "interp_format">>)
    IN  IF c.serializeAs \in {None, "str"}
        THEN Formatted(IF other # None THEN other ELSE FirstFormat(c, WriterFormats))
        ELSE Val("number", <<c.serializeAs>>)

\* datetime_to_bytes
DateTimeToBytes(c) == AsBytes(DateTimeToUnicode(c))

\* _datetime_from_unicode.  A parser is the user's, and reads everything.  What is
\* read by a format and has no zone is taken for local time.
DateTimeFromFormat(c, w) ==
    LET format == FirstFormat(c, ReaderFormats)
    IN  CASE c.parser -> Val("object", <<>>)
          [] w.form # "str" -> Failed
          [] format # None -> IF w.layers # <<format>> THEN Failed
                              ELSE Val("object", IF c.zone THEN <<"local">> ELSE <<>>)
          [] OTHER -> IF w.layers = <<"iso">> THEN Val("object", <<>>) ELSE Refused

\* datetime_from_unicode with _datetime_dsmap, which knows one name of a unit.
DateTimeFromUnicode(c, w) ==
    CASE c.serializeAs = None -> DateTimeFromFormat(c, w)
      [] c.serializeAs \in Units /\ w.form = "number" -> Val("object", <<>>)
      [] OTHER -> Failed

\* _date_to_bytes: format is applied as a string format, and strftime codes are no
\* fields of one.
DateToText(c) ==
    CASE "str_format" \in DOMAIN c.formats -> Formatted(c.formats["str_format"])
      [] "format" \in DOMAIN c.formats -> Formatted("literal")
      [] OTHER -> Formatted(FirstFormat(c, <<"date_format">>))

DateToUnicode(c) ==
    IF c.serializeAs \in {None, "str"} THEN DateToText(c) ELSE Val("number", <<c.serializeAs>>)

\* date_from_unicode_iso
DateFromIso(w) == IF w.layers = <<"iso">> THEN Val("object", <<>>) ELSE Refused

\* date_from_unicode: what strptime does not take is tried as a date with an offset,
\* and the error that says so has no message.
DateFromUnicode(c, w) ==
    LET format == FirstFormat(c, <<"date_format", "format">>)
    IN  CASE w.form # "str" -> Failed
          [] format # None -> IF w.layers = <<format>> THEN Val("object", <<>>) ELSE Failed
          [] OTHER -> DateFromIso(w)

\* Times have one format, whatever their class says.
TimeToUnicode == Formatted(None)
TimeFromUnicode(w) ==
    CASE w.form # "str" -> Failed
      [] w.layers = <<"iso">> -> Val("object", <<>>)
      [] OTHER -> Refused

-----------------------------------------------------------------------------
(* Texts, numbers and the rest.  A text that is given as bytes has the layer  *)
(* of its charset.                                                          *)

\* unicode_to_unicode
UnicodeToUnicode(c, v) ==
    LET decoded == CASE v.form = "str" \/ c.encoding = "default" -> v
                     [] v.layers = <<c.encoding>> -> Val("str", <<>>)
                     [] c.encoding = "latin1" -> Val("str", <<"garbled">>)
                     [] OTHER -> Failed
        format == FirstFormat(c, <<"str_format", "format">>)
    IN  IF format = None \/ decoded = Failed THEN decoded ELSE Val("str", <<format>>)

\* UTF-8 is what protocols and Python take by default.
Charset(c) == IF c.encoding = "default" THEN "utf8" ELSE c.encoding

\* unicode_to_bytes: % writes what bytes look like.
UnicodeToBytes(c, v) ==
    LET encoded == IF v.form = "str" THEN Val("bytes", <<Charset(c)>>) ELSE v
    IN  CASE "str_format" \in DOMAIN c.formats -> Val("str", <<c.formats["str_format"]>>)
          [] "format" \in DOMAIN c.formats -> Val("str", <<"repr", c.formats["format"]>>)
          [] OTHER -> encoded

\* unicode_from_bytes
UnicodeFromBytes(c, w) ==
    CASE w.form # "bytes" -> w
      [] w.layers = <<Charset(c)>> -> Val("str", <<>>)
      [] Charset(c) = "latin1" -> Val("str", <<"garbled">>)
      [] OTHER -> Failed

\* decimal_to_unicode and its siblings
NumberToUnicode(c) ==
    LET format == FirstFormat(c, <<"str_format", "format">>)
    IN  Val("str", IF format = None THEN <<"digits">> ELSE <<format>>)

\* integer_to_bytes of MessagePack: what has more than 64 bits is written as digits.
IntegerToBytes(c, v) == IF v.layers = <<"huge">> THEN AsBytes(NumberToUnicode(c)) ELSE v

\* integer_from_bytes, double_from_bytes
NumberFromText(w) ==
    CASE w.form = "number" -> w
      [] w.layers = <<"digits">> -> Val("number", <<>>)
      [] OTHER -> Refused

\* decimal_from_unicode: bytes are no argument of Decimal.
DecimalFromUnicode(w) ==
    CASE w.form # "str" -> Failed
      [] w.layers = <<"digits">> -> Val("object", <<>>)
      [] OTHER -> Refused

Only(w, form) == IF w.form = form THEN w ELSE Refused

-----------------------------------------------------------------------------
(* to_unicode, to_bytes and from_unicode.                                    *)

ToUnicode(p, c, v, suggested) ==
    LET h == Handler(ToUnicodeHandlers, c.type)
    IN  CASE h \in Natives(p) -> v
          [] h \in IsoWritten(p) -> Formatted(None)
          [] h \in {"Integer", "Double", "Decimal"} /\ h \notin Natives(p) -> NumberToUnicode(c)
          [] h = "Boolean" /\ h \notin Natives(p) -> Val("str", <<"true">>)
          [] h \in {"Unicode", "AnyUri"} -> UnicodeToUnicode(c, v)
          [] h = "Uuid" -> UuidToUnicode(c, suggested)
          [] h = "ByteArray" -> ByteArrayToUnicode(p, c, v, suggested)
          [] h = "File" -> FileToUnicode(p, c, v, suggested)
          [] h = "DateTime" /\ h \notin IsoWritten(p) -> DateTimeToUnicode(c)
          [] h = "Date" -> DateToUnicode(c)
          [] h = "Time" /\ h \notin IsoWritten(p) -> TimeToUnicode
          [] h = "Duration" -> Val("str", <<"duration">>)
          [] h = "ModelBase" -> Val("str", <<"name">>)

\* A time is no bytes, and what has no handler cannot be made them.
ToBytes(p, c, v, suggested) ==
    LET h == Handler(ToBytesHandlers, c.type)
    IN  CASE h = "Integer" -> IntegerToBytes(c, v)
          [] h \in Natives(p) -> v
          [] h = "Decimal" -> AsBytes(NumberToUnicode(c))
          [] h = "Unicode" -> UnicodeToBytes(c, v)
          [] h = "Uuid" -> AsBytes(UuidToUnicode(c, suggested))
          [] h = "ByteArray" -> ByteArrayToBytes(p, c, v, suggested)
          [] h = "File" -> ByteArrayToBytes(p, c, v, suggested)
          [] h = "DateTime" -> DateTimeToBytes(c)
          [] h = "Date" -> AsBytes(DateToUnicode(c))
          [] h = "Time" -> TimeToUnicode
          [] h = "Duration" -> Val("bytes", <<"duration">>)
          [] h = "ModelBase" -> Failed

FromUnicode(p, c, w, suggested) ==
    LET h == Handler(FromUnicodeHandlers, c.type)
    IN  CASE h \in {"Integer", "Double"} ->
                IF h \in Natives(p) THEN Only(w, "number") ELSE NumberFromText(w)
          [] h = "Boolean" ->
                IF h \in Natives(p) THEN Only(w, "bool")
                ELSE Val("bool", IF w.layers = <<"true">> THEN <<>> ELSE <<"false">>)
          [] h = "Decimal" -> DecimalFromUnicode(w)
          [] h = "Unicode" -> UnicodeFromBytes(c, w)
          [] h = "Uuid" -> UuidFromUnicode(c, w, suggested)
          [] h = "ByteArray" -> ByteArrayFromBytes(c, w, suggested)
          [] h = "File" -> FileFromBytes(c, w, suggested)
          [] h \in IsoRead(p) -> DateFromIso(w)
          [] h = "DateTime" /\ h \notin IsoRead(p) -> DateTimeFromUnicode(c, w)
          [] h = "Date" /\ h \notin IsoRead(p) -> DateFromUnicode(c, w)
          [] h = "Time" -> TimeFromUnicode(w)
          [] h = "Duration" -> IF w.form = "str" THEN Val("object", <<>>) ELSE Failed
          [] h = "EnumBase" -> IF w.form = "str" THEN Val("object", <<>>) ELSE Failed

-----------------------------------------------------------------------------
(* Elements and dicts.                                                      *)

\* byte_array_to_parent, enum_to_parent, modelbase_to_parent
Suggested(p, handlers, type) ==
    IF Handler(handlers, type) = "ByteArray" THEN BinaryEncoding(p) ELSE None
ToElementText(p, c, v) == ToUnicode(p, c, v, Suggested(p, SerializationHandlers, c.type))

\* _to_dict_value.  A file is an object of its own.
ToDictValue(p, c, v) ==
    LET suggested == IF c.type \in {"ByteArray", "Uuid"} THEN BinaryEncoding(p) ELSE None
    IN  CASE c.type = "File" -> v
          [] TextBased(p) -> ToUnicode(p, c, v, suggested)
          [] OTHER -> ToBytes(p, c, v, suggested)

\* What the other side finds in the document.  lxml takes texts and bytes that are
\* ASCII, json makes a list of what it does not know, msgpack has no number of 128
\* bits.
Carry(p, w) ==
    CASE w.form = "failed" -> Failed
      [] XmlBased(p) -> CASE w.form = "str" -> w
                        [] w.form = "bytes" /\ Len(w.layers) > 1 -> AsText(w)
                        [] OTHER -> Failed
      [] p = "json" /\ w.form = "bytes" -> Val("list", Append(w.layers, "numbers"))
      [] p = "msgpack" /\ Is(w, "number", <<"int">>) -> Failed
      [] OTHER -> w

\* unicode_from_element, byte_array_from_element, enum_from_element,
\* base_from_element.
FromElementText(p, c, w, soft) ==
    LET valid == IF soft /\ Subtype(c.type, "Uuid") THEN UuidValidateString(c)
                 ELSE Val("valid", <<>>)
    IN  IF valid.form # "valid" THEN valid
        ELSE FromUnicode(p, c, w, Suggested(p, DeserializationHandlers, c.type))

\* HierDictDocument.validate and that of json
ValidForm(p, c, w) ==
    /\ Subtype(c.type, "Unicode") => w.form \in {"str", "bytes"}
    /\ p = "json" /\ (Subtype(c.type, "DateTime") \/ c.type = "Time") => w.form = "str"

\* _from_dict_value.  The parser of a class is called with one argument, which that
\* of a datetime cannot be.
FromDictValue(p, c, w, soft) ==
    LET valid == IF soft /\ w.form = "str" /\ Subtype(c.type, "Uuid") THEN UuidValidateString(c)
                 ELSE Val("valid", <<>>)
    IN  CASE soft /\ ~ValidForm(p, c, w) -> Refused
          [] c.type = "File" -> w
          [] c.parser -> Failed
          [] valid.form # "valid" -> valid
          [] c.type \in {"ByteArray", "Uuid"} -> FromUnicode(p, c, w, BinaryEncoding(p))
          [] Subtype(c.type, "Unicode") -> UnicodeFromBytes(c, w)
          [] OTHER -> FromUnicode(p, c, w, None)

\* A value is sent to a peer that knows the same class.
SendValue(p, c, v, soft) ==
    LET w == Carry(p, IF XmlBased(p) THEN ToElementText(p, c, v) ELSE ToDictValue(p, c, v))
    IN  CASE w = Failed -> Val("failed", <<"sender">>)
          [] XmlBased(p) -> FromElementText(p, c, w, soft)
          [] OTHER -> FromDictValue(p, c, w, soft)
=============================================================================
