----------------------------- MODULE MCRegistry -----------------------------
(***************************************************************************)
(* Hives for TLC, of four families.                                        *)
(*   Join   a USBSTOR class of at most one instance key and a SCSI class   *)
(*          of at most two, and every list of at most MaxMounts            *)
(*          MountedDevices values                                          *)
(*   Audit  at most one instance key in each of USB, where a phone may be, *)
(*          SCSI, storage by its bus, and THUNDERBOLT, DMA by its bus      *)
(*   Prop   one USB instance key with any store of at most MaxProps keys   *)
(*          for its two documented install properties                      *)
(*   Class  one instance key in any one class, phones, malformed ids and   *)
(*          every kind of instance name included                           *)
(* The second control set is empty or a copy of the first.                 *)
(***************************************************************************)
EXTENDS Pipeline

CONSTANTS plain, hid, odd, short,   \* names of vendor keys
          i1, o1, w1, h1,           \* names of instance keys
          t1, t2,                   \* times
          MaxMounts,                \* bound: MountedDevices values
          MaxProps                  \* bound: keys of a property store

Segment(tag, zeros, digits) == [tag |-> tag, plus |-> FALSE, zeros |-> zeros, digits |-> digits]
Signed(tag, zeros, digits) == [tag |-> tag, plus |-> TRUE, zeros |-> zeros, digits |-> digits]

\* A stick, an interface of a keyboard, a name with a tag twice and a plus sign,
\* and one with too few digits and too many.
MCSegmentsOf ==
    [v \in {plain, hid, odd, short} |->
        CASE v = plain -> <<Segment("VID", 1, <<"7", "1">>), Segment("PID", 0, <<"7", "1", "0", "1">>)>>
          [] v = hid -> <<Segment("VID", 2, <<"7", "1">>), Segment("PID", 4, <<>>),
                          Segment("other", 0, <<"7", "1", "0", "1">>)>>
          [] v = odd -> <<Segment("VID", 0, <<"7", "1">>), Segment("VID", 2, <<"1", "0">>),
                          Segment("VID", 0, <<"7">>), Signed("PID", 1, <<"7", "1">>)>>
          [] v = short -> <<Segment("VID", 0, <<"7">>), Segment("PID", 1, <<"7", "1", "0", "1">>)>>]

\* An instance name is a serial, one Windows made up, one that begins with a wide
\* character before its '&', one that holds a HID tag, or empty.
MCInstances == {i1, o1, w1, h1, ""}

WindowsVendors == {plain, hid}

KeyOf(v, i, phone, props) == [vendor |-> v, inst |-> i, mtp |-> phone, props |-> props]

PlainKeys == {KeyOf(v, i, FALSE, <<>>) : v \in WindowsVendors, i \in {i1, o1}}
KeyPairs == {<<k, l>> : k \in PlainKeys, l \in PlainKeys}

AtMostOne(keys) == {<<>>} \cup {<<k>> : k \in keys}

\* The enumerator subtree with these classes in the first control set.
EnumOf(listed, copied) ==
    [cs \in ControlSets |-> [c \in Classes |->
        IF c \in DOMAIN listed /\ (cs = "ControlSet001" \/ copied)
        THEN listed[c] ELSE <<>>]]

JoinEnums ==
    {EnumOf([USBSTOR |-> stor, SCSI |-> scsi], both) :
        stor \in AtMostOne(PlainKeys),
        scsi \in AtMostOne(PlainKeys) \cup {p \in KeyPairs : p[1].vendor # p[2].vendor},
        both \in BOOLEAN}

\* An instance may hold backslashes: then it names a key and its vendor, or all.
MountPaths ==
    [class : {"USBSTOR", "SCSI"}, vendor : WindowsVendors, inst : {<<i1>>, <<o1>>}]
    \cup [class : {"USBSTOR"}, vendor : {plain}, inst : {<<plain, i1>>, <<"SCSI", plain, i1>>}]

\* A letter with a device path or with an MBR record, or a volume name.
Mounts ==
    [letter : Letters, path : MountPaths]
    \cup {[letter |-> CHOOSE l \in Letters : TRUE, path |-> None]}
    \cup {[letter |-> None, path |-> p] : p \in {q \in MountPaths : q.class = "SCSI"}}

MountLists ==
    {m \in UNION {[1..n -> Mounts] : n \in 0..MaxMounts} :
        \A i, j \in DOMAIN m :
            i # j /\ m[i].letter # None => m[i].letter # m[j].letter}

JoinHives == [enum : JoinEnums, mounts : MountLists]

AuditKeys ==
    AtMostOne({KeyOf(v, i, phone, <<>>) :
                  v \in WindowsVendors, i \in {i1, o1, h1}, phone \in BOOLEAN})

AuditHives ==
    {[enum |-> EnumOf([USB |-> usb, SCSI |-> scsi, THUNDERBOLT |-> dma], both),
      mounts |-> <<>>] :
        usb \in AuditKeys, scsi \in AuditKeys, dma \in AuditKeys, both \in BOOLEAN}

\* A key with a default value or none, and leaves with a time, a damaged one or
\* no Data; and every list of such keys.
InstallKeys ==
    [num : {"0064", "0065"}, default : {None, t1, t2, "short"},
     leaves : {<<>>, <<t1>>, <<t2>>, <<"short">>, <<None>>, <<None, t1>>}]
Stores == UNION {[1..n -> InstallKeys] : n \in 0..MaxProps}

PropHives ==
    {[enum |-> EnumOf([USB |-> <<KeyOf(plain, i1, FALSE, props)>>], FALSE), mounts |-> <<>>] :
        props \in Stores}

ClassHives ==
    {[enum |-> EnumOf([c \in {class} |-> <<KeyOf(v, i, phone, <<>>)>>], FALSE),
      mounts |-> <<>>] :
        class \in Classes, v \in Vendors, i \in Instances, phone \in BOOLEAN}

StartIn(hives) == hive \in hives /\ StartWalk /\ A!StartAudit

MCInit == StartIn(JoinHives \cup AuditHives \cup PropHives \cup ClassHives)
MCSpec == MCInit /\ [][ANext]_avars

JoinInit == StartIn(JoinHives)
JoinSpec == JoinInit /\ [][ANext]_avars

ClassInit == StartIn(ClassHives)
ClassSpec == ClassInit /\ [][ANext]_avars
=============================================================================
