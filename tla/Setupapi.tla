------------------------------ MODULE Setupapi ------------------------------
(***************************************************************************)
(* The setupapi log reader of core/src/setupapi.rs: one pass over the      *)
(* lines; a line that is a section header in either grammar and names a    *)
(* device becomes one record, any other line is skipped.                   *)
(*                                                                         *)
(* A line is reduced to what parse_header asks of it:                      *)
(*   bracket  after its marker it starts with a bracket, which is closed   *)
(*   trail    the time its body ends with, or None   (the Vista grammar)   *)
(*   lead     the time its body begins with, or None (the XP grammar)      *)
(*   desc     the device paths among the words of the body                 *)
(*   after    those among the words that follow the bracket                *)
(* A time that does not parse (parse_timestamp, civil_to_epoch) is None; a *)
(* word is a device path when it has a backslash and its first segment is  *)
(* alphanumeric.                                                           *)
(***************************************************************************)
EXTENDS Bus, DeviceIds, FiniteSetsExt

CONSTANTS InstanceIds,   \* device paths, see PathShape
          Serials,       \* serial segments, the empty one included
          AmpSecond,     \* those whose second character is '&'
          Times,         \* epoch seconds
          None           \* Rust's Option::None

Optional(S) == S \cup {None}

ASSUME NoneIsNoSerial == None \notin Serials \cup {""}
ASSUME AmpIsSecond == AmpSecond \subseteq Serials \ {""}
ASSUME NoneIsNoTime == None \notin Times
ASSUME NoneIsNoHeader == None \notin [id : InstanceIds, time : Times]

\* A path split at its backslashes: enumerator, device id, serial segment if
\* there is one; and its length.
ASSUME PathShape ==
    InstanceIds \subseteq [enumerator : STRING, device_id : Seq(Segments), serial : Optional(Serials), len : Nat]

Lines == [bracket : BOOLEAN, trail : Optional(Times), lead : Optional(Times),
          desc : Seq(InstanceIds), after : Seq(InstanceIds)]

VARIABLES text,   \* the lines of the log
          pos,    \* lines consumed so far
          out     \* the records pushed so far

vars == <<text, pos, out>>

-----------------------------------------------------------------------------
\* The longest of the words, the last one of those as long.
extract_instance_id(words) ==
    IF words = <<>> THEN None
    ELSE words[CHOOSE i \in DOMAIN words :
                 \A j \in DOMAIN words \ {i} :
                     \/ words[j].len < words[i].len
                     \/ words[j].len = words[i].len /\ j < i]

Header(words, time) == [id |-> extract_instance_id(words), time |-> time]

\* Mutant: a body that ends in no time is not tried in the other grammar.
parse_headerVista(l) ==
    IF l.bracket /\ l.trail # None /\ l.desc # <<>> THEN Header(l.desc, l.trail) ELSE None

\* The Vista grammar first, the XP grammar when it does not match.
parse_header(l) ==
    LET vista == l.trail # None /\ l.desc # <<>>
        xp    == l.lead # None /\ l.after # <<>> IN
    CASE l.bracket /\ vista         -> Header(l.desc, l.trail)
      [] l.bracket /\ ~vista /\ xp  -> Header(l.after, l.lead)
      [] OTHER                      -> None

\* The number after a tag: of all the digits there, however many zeros lead;
\* none without digits, or when they overflow 16 bits.
hex_prefix(seg) ==
    IF ~seg.plus /\ Width(seg) > 0 /\ seg.digits \in Ids THEN seg.digits ELSE None

\* The last segment of the tag decides, also when it holds no number.
parse_vid_pid(tag, segs) ==
    IF Tagged(tag, segs) = {} THEN None ELSE hex_prefix(segs[Max(Tagged(tag, segs))])

\* By its second character.
is_os_generated_serial(serial) == serial \in AmpSecond

Authoritative(t) == [epoch |-> t, confidence |-> "Authoritative"]

\* Mutant: a serial the system made up is reported as the device's own.
device_serialAny(id) == IF id.serial = "" THEN None ELSE id.serial

\* The device's own serial: not one made up by the system, and not empty.
device_serial(id) ==
    IF is_os_generated_serial(id.serial) \/ id.serial = "" THEN None ELSE id.serial

\* Mutant: every removable bus is a way out for data.
techniquesOfAny(bus) == {"T1052.001"} \cup IF is_dma_capable(bus) THEN {"T1200"} ELSE {}

techniques(bus) ==
    (IF is_dma_capable(bus) THEN {"T1200"} ELSE {})
    \cup (IF is_mass_storage(bus) THEN {"T1052.001"} ELSE {})

\* Mutant: the line's index is recorded as its number.
build_connectionAtIndex(h, n) ==
    LET bus == from_enumerator(h.id.enumerator) IN
    [bus |-> bus,
     vid |-> parse_vid_pid("VID", h.id.device_id), pid |-> parse_vid_pid("PID", h.id.device_id),
     device_serial |-> device_serial(h.id),
     serial_is_os_generated |-> is_os_generated_serial(h.id.serial),
     device_instance_id |-> h.id,
     first_install |-> Authoritative(h.time), last_install |-> Authoritative(h.time),
     dma_capable |-> is_dma_capable(bus), mitre |-> techniques(bus), line |-> n - 1]

\* A header always carries a time: both grammars ask for one that parses.
build_connection(h, n) ==
    LET bus == from_enumerator(h.id.enumerator) IN
    [bus |-> bus,
     vid |-> parse_vid_pid("VID", h.id.device_id), pid |-> parse_vid_pid("PID", h.id.device_id),
     device_serial |-> device_serial(h.id),
     serial_is_os_generated |-> is_os_generated_serial(h.id.serial),
     device_instance_id |-> h.id,
     first_install |-> Authoritative(h.time), last_install |-> Authoritative(h.time),
     dma_capable |-> is_dma_capable(bus), mitre |-> techniques(bus), line |-> n]

Stamps == [epoch : Times, confidence : {"Authoritative"}]

Connections ==
    [bus : Buses, vid : Optional(Ids), pid : Optional(Ids), device_serial : Optional(Serials),
     serial_is_os_generated : BOOLEAN, device_instance_id : InstanceIds,
     first_install : Stamps, last_install : Stamps, dma_capable : BOOLEAN,
     mitre : SUBSET {"T1200", "T1052.001"}, line : Nat \ {0}]

-----------------------------------------------------------------------------
StartReader == pos = 0 /\ out = <<>>

Init == text \in Seq(Lines) /\ StartReader

SkipLine ==
    /\ pos < Len(text)
    /\ parse_header(text[pos + 1]) = None
    /\ pos' = pos + 1
    /\ UNCHANGED <<text, out>>

\* Mutant: a record is put before the ones already there.
ReadHeaderFirst ==
    LET h == parse_header(text[pos + 1]) IN
    /\ pos < Len(text)
    /\ h # None
    /\ out' = <<build_connection(h, pos + 1)>> \o out
    /\ pos' = pos + 1
    /\ UNCHANGED text

ReadHeader ==
    LET h == parse_header(text[pos + 1]) IN
    /\ pos < Len(text)
    /\ h # None
    /\ out' = Append(out, build_connection(h, pos + 1))
    /\ pos' = pos + 1
    /\ UNCHANGED text

Next == SkipLine \/ ReadHeader
Spec == Init /\ [][Next]_vars

Returned == pos = Len(text)

-----------------------------------------------------------------------------
(* Properties *)

\* The reader's variables keep their shapes: every record carries one stamp
\* for both installs, and no record carries a made-up or empty serial.
TypeOK ==
    /\ text \in Seq(Lines)
    /\ pos \in 0..Len(text)
    /\ out \in Seq(Connections)
    /\ \A k \in DOMAIN out : /\ out[k].first_install = out[k].last_install
                             /\ out[k].device_serial # ""

-----------------------------------------------------------------------------
(* The inductive invariant. *)

\* A record is of one line read so far, a header, and says what it says.
RecordsAreHeaders ==
    \A k \in DOMAIN out :
        LET n == out[k].line IN
        /\ n \in 1..pos
        /\ parse_header(text[n]) # None
        /\ out[k] = build_connection(parse_header(text[n]), n)

\* The records are in the order of their lines, one at most for a line.
RecordsInOrder == \A j, k \in DOMAIN out : j < k => out[j].line < out[k].line

\* Every header read so far has a record.
HeadersRecorded ==
    \A n \in 1..pos : parse_header(text[n]) # None => \E k \in DOMAIN out : out[k].line = n

SetupapiInv == TypeOK /\ RecordsAreHeaders /\ RecordsInOrder /\ HeadersRecorded
=============================================================================
