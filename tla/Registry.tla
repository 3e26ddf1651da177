------------------------------ MODULE Registry ------------------------------
(***************************************************************************)
(* The SYSTEM-hive reader of core/src/registry.rs: both control sets and   *)
(* the eight enumerator classes are walked in a fixed order, one record    *)
(* per instance key, and then each MountedDevices value in turn may write  *)
(* its drive letter into the records.                                      *)
(*                                                                         *)
(* A key that cannot be opened or listed is skipped by the code and is an  *)
(* empty class here.  An instance key is its vendor key's name, its own    *)
(* name, whether its Service is the MTP class driver, and its store of     *)
(* device properties.                                                      *)
(***************************************************************************)
EXTENDS Bus, DeviceIds, FiniteSetsExt

CONSTANTS Vendors,      \* names of the <Ven&Prod> keys
          SegmentsOf,   \* vendor key -> the segments of its name
          Instances,    \* names of the instance keys
          AmpSecond,    \* those whose second character is '&'
          WideFirst,    \* those whose first character is more than one byte
          Times,        \* epochs a FILETIME can decode to
          Letters,      \* drive letters
          None          \* Rust's Option::None

ASSUME SpelledInstances == AmpSecond \cup WideFirst \subseteq Instances \ {""}
ASSUME NamesHaveSegments == \A v \in Vendors : SegmentsOf[v] \in Seq(Segments)

Optional(S) == S \cup {None}

Stamps == [epoch : Times, confidence : {"Authoritative", "Inferred"}]

ASSUME NoneIsNoTime == None \notin Times \cup Stamps
ASSUME ShortIsNoTime == "short" \notin Optional(Times)

ENUM_CLASSES == <<"USBSTOR", "USB", "SCSI", "THUNDERBOLT", "1394", "ESATA",
                  "SDBUS", "EXPRESSCARD">>
CONTROL_SETS == <<"ControlSet001", "ControlSet002">>

Classes == {ENUM_CLASSES[i] : i \in DOMAIN ENUM_CLASSES}
ControlSets == {CONTROL_SETS[i] : i \in DOMAIN CONTROL_SETS}

\* Mutant: a row of the table is copied and its bus left as it was.
BusOfCopied(class) ==
    CASE class \in {"USBSTOR", "USB"} -> "Usb"
      [] class \in {"SCSI", "ESATA"} -> "ScsiSas"
      [] class = "THUNDERBOLT" -> "Thunderbolt"
      [] class = "1394"        -> "FireWire"
      [] class = "SDBUS"       -> "SdMmc"
      [] class = "EXPRESSCARD" -> "ExpressCard"

BusOf(class) ==
    CASE class \in {"USBSTOR", "USB"} -> "Usb"
      [] class = "SCSI"        -> "ScsiSas"
      [] class = "THUNDERBOLT" -> "Thunderbolt"
      [] class = "1394"        -> "FireWire"
      [] class = "ESATA"       -> "Esata"
      [] class = "SDBUS"       -> "SdMmc"
      [] class = "EXPRESSCARD" -> "ExpressCard"

\* What a value of the property store holds: "short" is data of fewer than eight
\* bytes or a FILETIME that does not decode, None no value at all.
Raw == Optional(Times \cup {"short"})
Props == {"0064", "0065", "0066", "0067"}

\* A property key: the number its name reads as, whatever its zero-padding; its
\* default value, where Windows 8 keeps the FILETIME; and the Data values of its
\* subkeys numbered 0, where Windows 7 does.  A store lists its keys in the
\* hive's order; those of any other number are passed over and left out.
PropKeys == [num : Props, default : Raw, leaves : Seq(Raw)]

InstanceKeys == [vendor : Vendors, inst : Instances, mtp : BOOLEAN, props : Seq(PropKeys)]

\* A MountedDevices value: the letter if its name is \DosDevices\X:, and the
\* device path it decodes to, None for a 12-byte MBR record or other data.  The
\* instance a path names is split at its backslashes, and is never empty.
Names == Classes \cup Vendors \cup Instances
DevicePaths == [class : Classes, vendor : Vendors, inst : Seq(Names) \ {<<>>, <<"">>}]
MountValues == [letter : Optional(Letters), path : Optional(DevicePaths)]

\* A key has no two subkeys of one name.
KeyLists == {keys \in Seq(InstanceKeys) :
               \A i, j \in DOMAIN keys :
                   keys[i].vendor = keys[j].vendor /\ keys[i].inst = keys[j].inst => i = j}

Hives == [enum : [ControlSets -> [Classes -> KeyLists]], mounts : Seq(MountValues)]

VARIABLES hive,      \* the hive read; never changes
          classes,   \* classes read so far, over both control sets
          out,       \* the records
          joined     \* MountedDevices values applied so far

vars == <<hive, classes, out, joined>>

-----------------------------------------------------------------------------
(* Building one record *)

Numbered(props, num) == {i \in DOMAIN props : props[i].num = num}

\* The first key of that number, however the hive spells it.
find_prop_subkey(props, num) == props[Min(Numbered(props, num))]

Decoded(raw) == IF raw \in Times THEN raw ELSE None

\* Mutant: the Windows 7 layout is not read.
read_filetimeDefaultOnly(props, num) ==
    IF Numbered(props, num) = {} THEN None ELSE Decoded(find_prop_subkey(props, num).default)

\* The default value wins even when it is too short to be a FILETIME; the first
\* nested leaf is read only when there is no default value.
read_filetime(props, num) ==
    IF Numbered(props, num) = {} THEN None
    ELSE LET key == find_prop_subkey(props, num) IN
         Decoded(CASE key.default # None -> key.default
                   [] key.default = None /\ key.leaves # <<>> -> key.leaves[1]
                   [] OTHER -> None)

Stamp(t, confidence) == IF t = None THEN None ELSE [epoch |-> t, confidence |-> confidence]

Authoritative(t) == Stamp(t, "Authoritative")
Inferred(t) == Stamp(t, "Inferred")

first_install(props) ==
    LET install == read_filetime(props, "0064")
    IN  Authoritative(IF install # None THEN install ELSE read_filetime(props, "0065"))

mtp_override(mtp, bus) == IF bus = "Usb" /\ mtp THEN "Mtp" ELSE bus

\* Digits among the first four characters after the tag: a plus sign is one of
\* the four.
Asked(seg) == IF seg.plus THEN 3 ELSE 4

\* The first segment of the tag whose first four characters are a number decides.
hex4(tag, vendor) ==
    LET segs == SegmentsOf[vendor]
        found == {i \in Tagged(tag, segs) : Width(segs[i]) >= Asked(segs[i])}
        seg == segs[Min(found)]
    IN  IF found = {} THEN None ELSE SubSeq(seg.digits, 1, Asked(seg) - seg.zeros)

\* By its second byte, which is no character of its own after a wide one.
serial_is_os_generated(inst) == inst \in AmpSecond \ WideFirst

\* Mutant: a key without a name gives an empty serial.
device_serialUnchecked(inst) == inst

device_serial(inst) == IF inst = "" THEN None ELSE inst

build_connection(cs, class, k) ==
    LET bus == mtp_override(k.mtp, BusOf(class)) IN
    [bus |-> bus,
     vid |-> hex4("VID", k.vendor),
     pid |-> hex4("PID", k.vendor),
     device_serial |-> device_serial(k.inst),
     serial_is_os_generated |-> serial_is_os_generated(k.inst),
     device_instance_id |-> <<class, k.vendor, k.inst>>,
     first_install |-> first_install(k.props),
     last_arrival |-> Inferred(read_filetime(k.props, "0066")),
     last_removal |-> Inferred(read_filetime(k.props, "0067")),
     drive_letter |-> None,
     dma_capable |-> is_dma_capable(bus),
     mitre |-> {},
     key_path |-> <<cs, class, k.vendor, k.inst>>]

-----------------------------------------------------------------------------
StartWalk ==
    /\ classes = 0
    /\ out = <<>>
    /\ joined = 0

Init == hive \in Hives /\ StartWalk

ClassCount == Len(CONTROL_SETS) * Len(ENUM_CLASSES)

\* The control set and class of the n-th class visited, from 0.
ControlSetAt(n) == CONTROL_SETS[(n \div Len(ENUM_CLASSES)) + 1]
ClassAt(n) == ENUM_CLASSES[(n % Len(ENUM_CLASSES)) + 1]

RecordsOf(cs, class) ==
    [i \in DOMAIN hive.enum[cs][class] |->
        build_connection(cs, class, hive.enum[cs][class][i])]

\* Mutant: the second control set is walked from its second class on.
ReadClassFrom1 ==
    /\ classes < ClassCount
    /\ out' = out \o RecordsOf(ControlSetAt(classes), ClassAt(classes))
    /\ classes' = IF classes = 7 THEN classes + 2 ELSE classes + 1
    /\ UNCHANGED <<hive, joined>>

ReadClass ==
    /\ classes < ClassCount
    /\ out' = out \o RecordsOf(ControlSetAt(classes), ClassAt(classes))
    /\ classes' = classes + 1
    /\ UNCHANGED <<hive, joined>>

\* What a device id may end with: its last component, its last two, or all of it.
Endings(id) == {<<id[3]>>, <<id[2], id[3]>>, id}

\* Mutant: records of the same vendor key are joined.
JoinsVendor(v, conn) ==
    /\ v.letter # None
    /\ v.path # None
    /\ conn.device_instance_id[2] = v.path.vendor

\* The instance a value names is the record's id, or its id ends with a backslash
\* and that instance.
Joins(v, conn) ==
    /\ v.letter # None
    /\ v.path # None
    /\ v.path.inst \in Endings(conn.device_instance_id)

\* Mutant: the first letter found is kept.
apply_first_only(v) ==
    [k \in DOMAIN out |->
        IF Joins(v, out[k]) /\ out[k].drive_letter = None
        THEN [out[k] EXCEPT !.drive_letter = v.letter] ELSE out[k]]

apply_mounted_device(v) ==
    [k \in DOMAIN out |->
        IF Joins(v, out[k]) THEN [out[k] EXCEPT !.drive_letter = v.letter] ELSE out[k]]

ApplyMount ==
    /\ classes = ClassCount
    /\ joined < Len(hive.mounts)
    /\ out' = apply_mounted_device(hive.mounts[joined + 1])
    /\ joined' = joined + 1
    /\ UNCHANGED <<hive, classes>>

Next == ReadClass \/ ApplyMount
Spec == Init /\ [][Next]_vars

Returned == classes = ClassCount /\ joined = Len(hive.mounts)

-----------------------------------------------------------------------------
(* Properties *)

Connections ==
    [bus : Buses, vid : Optional(Ids), pid : Optional(Ids),
     device_serial : Optional(Instances \ {""}), serial_is_os_generated : BOOLEAN,
     device_instance_id : Classes \X Vendors \X Instances,
     first_install : Optional(Stamps), last_arrival : Optional(Stamps),
     last_removal : Optional(Stamps), drive_letter : Optional(Letters),
     dma_capable : BOOLEAN, mitre : {{}},
     key_path : ControlSets \X Classes \X Vendors \X Instances]

\* The reader's variables keep their shapes: no record has an empty serial.
TypeOK ==
    /\ hive \in Hives
    /\ classes \in 0..ClassCount
    /\ out \in Seq(Connections)
    /\ joined \in 0..Len(hive.mounts)

\* Every instance key of both control sets becomes one record, whose id and key
\* path are that key's (the four nested loops of parse_registry).
EveryInstanceOnce ==
    classes = ClassCount =>
        \A cs \in ControlSets, class \in Classes :
            \A i \in DOMAIN hive.enum[cs][class] :
                LET key == hive.enum[cs][class][i] IN
                Cardinality({k \in DOMAIN out :
                    /\ out[k].key_path = <<cs, class, key.vendor, key.inst>>
                    /\ out[k].device_instance_id = <<class, key.vendor, key.inst>>}) = 1

\* The values applied so far that carry a letter for that device id.
LettersFor(id) ==
    {m \in 1..joined : /\ hive.mounts[m].letter # None
                       /\ hive.mounts[m].path # None
                       /\ hive.mounts[m].path.inst \in Endings(id)}

\* A record's letter is that of the last value that names its instance, in
\* every record of it: the records of the two control sets never disagree
\* (apply_mounted_devices; a volume name or an MBR record writes nothing).
LetterIsLastMount ==
    \A k \in DOMAIN out :
        LET named == LettersFor(out[k].device_instance_id) IN
        \/ named = {} /\ out[k].drive_letter = None
        \/ \E m \in named : /\ \A n \in named : n <= m
                            /\ out[k].drive_letter = hive.mounts[m].letter

\* The device a value names, as a device id.
PathOf(v) == <<v.path.class, v.path.vendor>> \o v.path.inst

\* A letter comes from a value whose device path is the record's own device
\* ("names a device instance directly ... a drive-letter <-> device join").
LetterOfOwnDevice ==
    \A k \in DOMAIN out : out[k].drive_letter # None =>
        \E m \in 1..joined : /\ hive.mounts[m].letter = out[k].drive_letter
                            /\ hive.mounts[m].path # None
                            /\ PathOf(hive.mounts[m]) = out[k].device_instance_id

\* No two devices of the hive share an instance name, the last part of their ids.
InstancesUnique ==
    LET ids == {out[k].device_instance_id : k \in DOMAIN out}
               \cup {PathOf(hive.mounts[m]) :
                        m \in {n \in DOMAIN hive.mounts : hive.mounts[n].path # None}}
    IN  \A p, q \in ids : p[Len(p)] = q[Len(q)] => p = q

\* The join is right when instance names identify devices: it never moves a
\* letter from one device to another (apply_mounted_devices).
UniqueInstancesJoinRight == InstancesUnique => LetterOfOwnDevice

\* "The OS-generated value is not reported as a real device_serial."
OsSerialNotReported ==
    \A k \in DOMAIN out : out[k].serial_is_os_generated => out[k].device_serial = None

\* The store of the key a record was built from.
PropsOf(k) ==
    LET at == out[k].key_path
        class == hive.enum[at[1]][at[2]] IN
    class[CHOOSE i \in DOMAIN class : class[i].vendor = at[3] /\ class[i].inst = at[4]].props

\* The times a store holds for a property, wherever it holds them.
Values(key) == {key.default} \cup Range(key.leaves)
Held(props, num) == Times \cap UNION {Values(props[i]) : i \in Numbered(props, num)}

\* Those of them that can be seen: a default value that is no FILETIME hides the
\* leaf beside it, against "both value locations are tried".
Seen(props, num) ==
    Times \cap UNION {Values(props[i]) :
                        i \in {j \in Numbered(props, num) : props[j].default # "short"}}

\* A store that has each property once, in one layout, the other or both.
KeptOnce(props) ==
    /\ \A i, j \in DOMAIN props : props[i].num = props[j].num => i = j
    /\ \A i \in DOMAIN props : Len(props[i].leaves) <= 1

\* An install time is never another property's, and in a store that has each
\* property once it is found wherever it is kept: one that 0064 shows, and one of
\* 0065 only where 0064 shows none; a damaged default value hides the leaf beside
\* it and no other property (read_filetime, first_install).
InstallTimeFound ==
    \A k \in DOMAIN out :
        LET props == PropsOf(k)
            shown == IF Seen(props, "0064") # {} THEN Seen(props, "0064")
                                                 ELSE Seen(props, "0065")
            found == IF out[k].first_install = None THEN {} ELSE {out[k].first_install.epoch} IN
        /\ found \subseteq Held(props, "0064") \cup Held(props, "0065")
        /\ KeptOnce(props) => found \subseteq shown /\ (shown # {} => found # {})

-----------------------------------------------------------------------------
(* The inductive invariant. *)

\* The instance keys of the n-th class visited, and the record of the i-th.
KeysAt(n) == hive.enum[ControlSetAt(n)][ClassAt(n)]
Built(n, i) == build_connection(ControlSetAt(n), ClassAt(n), KeysAt(n)[i])

\* A record is what was built from a key, its letter aside.
BuiltFrom(conn, n, i) == conn = [Built(n, i) EXCEPT !.drive_letter = conn.drive_letter]

RecordsAreKeys ==
    \A k \in DOMAIN out : \E n \in 0..(classes - 1) : \E i \in DOMAIN KeysAt(n) :
        BuiltFrom(out[k], n, i)

KeysAreRecords ==
    \A n \in 0..(classes - 1) : \A i \in DOMAIN KeysAt(n) : \E k \in DOMAIN out :
        BuiltFrom(out[k], n, i)

PathsDiffer == \A j, k \in DOMAIN out : out[j].key_path = out[k].key_path => j = k

\* The letters are written when the walk is over.
LettersAreLast == joined = 0 \/ classes = ClassCount

RegistryInv ==
    /\ TypeOK
    /\ RecordsAreKeys
    /\ KeysAreRecords
    /\ PathsDiffer
    /\ LettersAreLast
    /\ LetterIsLastMount
=============================================================================
