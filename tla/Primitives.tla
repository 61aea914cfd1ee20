----------------------------- MODULE Primitives -----------------------------
(***************************************************************************)
(* Values of simple types: what soft validation and the schema say of        *)
(* integers (spyne/model/primitive/number.py, interface/xml_schema/model.py), *)
(* and durations and datetimes on their way through the conversions of        *)
(* spyne/protocol/_outbase.py and _inbase.py.                                *)
(*                                                                         *)
(* An attribute of a class that may be unset or infinite is a set of at most *)
(* one value.                                                                *)
(***************************************************************************)
EXTENDS Integers

\* The number of decimal digits of a natural number below 10^7.
Digits(n) == CHOOSE d \in 1 .. 7 : n < 10 ^ d /\ (d = 1 \/ n >= 10 ^ (d - 1))

-----------------------------------------------------------------------------
(* Integers.  A class is one of "integer", "nonNegativeInteger",             *)
(* "positiveInteger", "signed" or "unsigned", the last two with a width.     *)

Bounded(c) == c.kind \in {"signed", "unsigned"}
MinBound(c) == IF c.kind = "signed" THEN -(8 * 2 ^ (c.bits - 4)) ELSE 0
MaxBound(c) == IF c.kind = "signed" THEN 8 * 2 ^ (c.bits - 4) - 1 ELSE 2 ^ c.bits - 1

\* math.ceil(math.log(2**num_bits, 10)) is the length of the largest unsigned number.
NewInteger(kind, bits) ==
    [kind |-> kind, bits |-> bits, gt |-> {}, ge |-> {}, lt |-> {}, le |-> {}, total |-> {},
     maxLen |-> IF kind \in {"signed", "unsigned"} THEN {Digits(2 ^ bits)} ELSE {1024}]

\* An upper bound below the lowest number is met by nothing.
BadUnsatisfiable(c, kw) ==
    /\ Bounded(c)
    /\ \/ \E n \in kw.le \cup kw.lt : n < MinBound(c)
       \/ \E n \in kw.ge \cup kw.gt : n > MaxBound(c)

\* _s_customize raises for bounds that no number of the class could meet.
Unsatisfiable(c, kw) ==
    /\ Bounded(c)
    /\ \/ \E n \in kw.le : n < MinBound(c)
       \/ \E n \in kw.lt : n <= MinBound(c)
       \/ \E n \in kw.ge : n > MaxBound(c)
       \/ \E n \in kw.gt : n >= MaxBound(c)

Given(kw, old) == IF kw = {} THEN old ELSE kw

\* customize: the limit of the text is made of the class that is customized, not
\* of its new digits, unless it is given.
CustomizeNumber(c, kw) ==
    [c EXCEPT !.gt = Given(kw.gt, @), !.ge = Given(kw.ge, @),
              !.lt = Given(kw.lt, @), !.le = Given(kw.le, @),
              !.total = Given(kw.total, @),
              !.maxLen = Given(kw.maxLen, {t + 2 : t \in c.total})]

\* A text is a number, with the zeros that precede it.
TextLength(t) == t.zeros + Digits(IF t.n < 0 THEN -t.n ELSE t.n) + IF t.n < 0 THEN 1 ELSE 0

ValidateString(c, t) == \A m \in c.maxLen : TextLength(t) <= m

InRange(c, n) ==
    /\ \A b \in c.gt : n > b
    /\ \A b \in c.ge : n >= b
    /\ \A b \in c.lt : n < b
    /\ \A b \in c.le : n <= b

\* validate_native of the class and of its bases.  The highest unsigned number of a
\* width is not one.
ValidateNative(c, n) ==
    /\ InRange(c, n)
    /\ c.kind \in {"nonNegativeInteger", "unsigned"} => n >= 0
    /\ c.kind = "positiveInteger" => n > 0
    /\ c.kind = "signed" => MinBound(c) <= n /\ n <= MaxBound(c)
    /\ c.kind = "unsigned" => MinBound(c) <= n /\ n < MaxBound(c)

\* base_from_element, from_unicode with integer_from_bytes
FromText(c, t) == ValidateString(c, t) /\ ValidateNative(c, t.n)

\* _from_dict_value for a number that is no string
FromNumber(c, n) == ValidateNative(c, n)

\* The exclusive bounds are taken for inclusive ones.
BadFacets(c) ==
    [minExclusive |-> {}, minInclusive |-> c.ge \cup c.gt,
     maxExclusive |-> {}, maxInclusive |-> c.le \cup c.lt, totalDigits |-> c.total]

\* _get_range_restriction_tag
Facets(c) ==
    [minExclusive |-> c.gt, minInclusive |-> c.ge,
     maxExclusive |-> c.lt, maxInclusive |-> c.le, totalDigits |-> c.total]

\* XML Schema: the values of the base type that meet the facets.
BaseType(c, n) ==
    CASE c.kind = "integer" -> TRUE
      [] c.kind = "nonNegativeInteger" -> n >= 0
      [] c.kind = "positiveInteger" -> n >= 1
      [] c.kind = "signed" -> n \in -(2 ^ (c.bits - 1)) .. 2 ^ (c.bits - 1) - 1
      [] c.kind = "unsigned" -> n \in 0 .. 2 ^ c.bits - 1

SchemaValid(c, n) ==
    LET f == Facets(c)
    IN  /\ BaseType(c, n)
        /\ \A b \in f.minExclusive : n > b
        /\ \A b \in f.minInclusive : n >= b
        /\ \A b \in f.maxExclusive : n < b
        /\ \A b \in f.maxInclusive : n <= b
        /\ \A d \in f.totalDigits : Digits(IF n < 0 THEN -n ELSE n) <= d

-----------------------------------------------------------------------------
(* Strings.  A class has minLen, maxLen, whether it has a pattern, is nillable  *)
(* and takes empty for None; a string has its length and whether it matches    *)
(* the pattern.                                                             *)

HasLength(c, t) == c.minLen <= t.len /\ \A m \in c.maxLen : t.len <= m
Matches(c, t) == c.pattern => t.matches

\* from_unicode and validate_native.
StringValue(c, t) == IF t.len = 0 /\ c.emptyIsNone THEN c.nillable ELSE Matches(c, t)

\* unicode_from_element: the text of an empty element is None when its length is
\* looked at, and only then an empty string.
StringFromElement(c, t) ==
    /\ IF t.len = 0 THEN c.nillable ELSE HasLength(c, t)
    /\ StringValue(c, t)

\* _from_dict_value: None is not looked at before it is converted.
StringFromDict(c, t) ==
    /\ (t.len = 0 /\ c.emptyIsNone) \/ HasLength(c, t)
    /\ StringValue(c, t)

\* A length of exactly one value is taken for none.
BadStringFacets(c) ==
    [minLength |-> IF c.maxLen = {c.minLen} THEN {} ELSE {c.minLen},
     maxLength |-> IF c.maxLen = {c.minLen} THEN {} ELSE c.maxLen,
     pattern |-> c.pattern]

\* unicode_get_restriction_tag: a length is both a shortest and a longest one, and
\* those of all strings are left out.
StringFacets(c) ==
    [minLength |-> IF c.minLen = 0 THEN {} ELSE {c.minLen},
     maxLength |-> c.maxLen, pattern |-> c.pattern]

\* XML Schema: the strings that meet the facets.
StringValid(c, t) ==
    LET f == StringFacets(c)
    IN  /\ \A n \in f.minLength : n <= t.len
        /\ \A n \in f.maxLength : t.len <= n
        /\ f.pattern => t.matches

-----------------------------------------------------------------------------
(* Durations: a sign, days, and less than a day of seconds and microseconds. *)

\* A duration of whole days has no time, one of nothing has its seconds.
BadDurationToUnicode(v) ==
    LET h == v.secs \div 3600
        m == (v.secs \div 60) % 60
        s == v.secs % 60
    IN  [neg |-> v.neg,
         days |-> IF v.days = 0 THEN {} ELSE {v.days},
         hours |-> IF h = 0 THEN {} ELSE {h},
         minutes |-> IF v.secs % 3600 = 0 THEN {} ELSE {m},
         seconds |-> IF s > 0 THEN {s} ELSE {},
         fraction |-> IF s > 0 /\ v.micros > 0 THEN {v.micros} ELSE {}]

\* duration_to_unicode: the microseconds are written without leading zeros.
DurationToUnicode(v) ==
    LET h == v.secs \div 3600
        m == (v.secs \div 60) % 60
        s == v.secs % 60
        nothing == v.days = 0 /\ v.secs = 0
    IN  [neg |-> v.neg,
         days |-> IF v.days = 0 THEN {} ELSE {v.days},
         hours |-> IF h = 0 THEN {} ELSE {h},
         minutes |-> IF m = 0 THEN {} ELSE {m},
         seconds |-> IF s > 0 \/ v.micros > 0 \/ nothing THEN {s} ELSE {},
         fraction |-> IF v.micros > 0 THEN {v.micros} ELSE {}]

One(set) == IF set = {} THEN 0 ELSE CHOOSE n \in set : TRUE

\* duration_from_unicode.  The fraction is a binary one: one microsecond may be lost
\* when it is made an integer.
DurationFromUnicode(t, lost) ==
    [neg |-> t.neg, days |-> One(t.days),
     secs |-> 3600 * One(t.hours) + 60 * One(t.minutes) + One(t.seconds),
     micros |-> IF t.fraction = {} THEN 0
                ELSE LET f == One(t.fraction) IN f * 10 ^ (6 - Digits(f)) - lost]

-----------------------------------------------------------------------------
(* Datetimes: seconds and microseconds of a clock on the wall, and how many   *)
(* minutes it is ahead of UTC, if that is known.  A class has as_timezone,    *)
(* timezone and serialize_as.                                                *)

AsTimezone(v, zone) == [v EXCEPT !.sec = @ + 60 * (zone - One(v.off)), !.off = {zone}]

Converted(c, v) == IF c.asZone = {} \/ v.off = {} THEN v ELSE AsTimezone(v, One(c.asZone))

\* The zone is taken off first.
BadDateTimeToText(c, v) ==
    Converted(c, IF c.timezone THEN v ELSE [v EXCEPT !.off = {}])

\* _datetime_to_unicode
DateTimeToText(c, v) ==
    LET w == Converted(c, v)
    IN  IF c.timezone THEN w ELSE [w EXCEPT !.off = {}]

\* isoformat writes hours and minutes after one sign.
IsoOffset(off) ==
    {[neg |-> m < 0, hr |-> (IF m < 0 THEN -m ELSE m) \div 60,
      min |-> (IF m < 0 THEN -m ELSE m) % 60] : m \in off}

\* tz_hr * 60 + tz_min: the sign belongs to the hours.
ReadOffset(texts) == {(IF t.neg THEN -t.hr ELSE t.hr) * 60 + t.min : t \in texts}

\* datetime_from_unicode_iso
DateTimeFromText(c, v) ==
    LET read == [v EXCEPT !.off = ReadOffset(IsoOffset(@))]
    IN  IF read.off = {} THEN [read EXCEPT !.off = c.asZone] ELSE Converted(c, read)

\* serialize_as: mktime reads the clock and not the zone.
DateTimeToNumber(c, v) ==
    [sec |-> v.sec,
     micro |-> CASE c.serializeAs = "sec" -> 0
                 [] c.serializeAs = "msec" -> 1000 * (v.micro \div 1000)
                 [] OTHER -> v.micro]

\* fromtimestamp; value // 1000 drops the milliseconds.
DateTimeFromNumber(c, t) ==
    [sec |-> t.sec, off |-> {},
     micro |-> IF c.serializeAs \in {"sec", "msec"} THEN 0 ELSE t.micro]
=============================================================================
