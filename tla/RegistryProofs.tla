--------------------------- MODULE RegistryProofs ---------------------------
(***************************************************************************)
(* Proofs about Registry and its compositions, for every hive, any vendor  *)
(* and instance names, and any number of keys and mounts.                  *)
(***************************************************************************)
EXTENDS Pipeline, FiniteSetTheorems, FunctionTheorems, WellFoundedInduction,
        SequenceTheorems, TLAPS

\* The proofs about the auditor, with facts about lists and positions.
P == INSTANCE AuditProofs WITH devices <- out

\* The first of a set of positions is one of them.
LEMMA FirstIsIn ==
    ASSUME NEW T \in SUBSET Nat, T # {}
    PROVE  Min(T) \in T
  <1>1. \E m \in T : \A k \in T : m <= k
    BY P!LeastNat
  <1> QED
    BY <1>1 DEF Min

-----------------------------------------------------------------------------
(***************************************************************************)
(* The order the classes are visited in.                                   *)
(***************************************************************************)

LEMMA SixteenClasses ==
    /\ ClassCount = 16
    /\ \A n \in 0..15 : ControlSetAt(n) \in ControlSets /\ ClassAt(n) \in Classes
  <1>1. Len(ENUM_CLASSES) = 8 /\ Len(CONTROL_SETS) = 2
    BY DEF ENUM_CLASSES, CONTROL_SETS
  <1>2. \A n \in 0..15 : (n \div 8) + 1 \in 1..2 /\ (n % 8) + 1 \in 1..8
    OBVIOUS
  <1>3. DOMAIN ENUM_CLASSES = 1..8 /\ DOMAIN CONTROL_SETS = 1..2
    BY DEF ENUM_CLASSES, CONTROL_SETS
  <1> QED
    BY <1>1, <1>2, <1>3 DEF ClassCount, ControlSetAt, ClassAt, ControlSets, Classes

\* No class is visited twice.
LEMMA VisitedOnce ==
    ASSUME NEW m \in 0..15, NEW n \in 0..15,
           ControlSetAt(m) = ControlSetAt(n), ClassAt(m) = ClassAt(n)
    PROVE  m = n
  <1>1. \A k \in 0..15 : k = 8 * (k \div 8) + (k % 8) /\ k \div 8 \in 0..1 /\ k % 8 \in 0..7
    OBVIOUS
  <1> QED
    BY <1>1, SMT DEF ControlSetAt, ClassAt, ENUM_CLASSES, CONTROL_SETS

\* Every class of either control set is visited.
LEMMA AllVisited ==
    ASSUME NEW cs \in ControlSets, NEW class \in Classes
    PROVE  \E n \in 0..15 : ControlSetAt(n) = cs /\ ClassAt(n) = class
  <1>1. DOMAIN ENUM_CLASSES = 1..8 /\ DOMAIN CONTROL_SETS = 1..2
        /\ Len(ENUM_CLASSES) = 8
    BY DEF ENUM_CLASSES, CONTROL_SETS
  <1>2. PICK i \in 1..2, j \in 1..8 : CONTROL_SETS[i] = cs /\ ENUM_CLASSES[j] = class
    BY <1>1 DEF ControlSets, Classes
  <1> DEFINE n == 8 * (i - 1) + (j - 1)
  <1>3. n \in 0..15 /\ (n \div 8) + 1 = i /\ (n % 8) + 1 = j
    OBVIOUS
  <1> HIDE DEF n
  <1> QED
    BY <1>1, <1>2, <1>3 DEF ControlSetAt, ClassAt

-----------------------------------------------------------------------------
(***************************************************************************)
(* The record of an instance key.                                          *)
(***************************************************************************)

\* A number's first digits are a number.
LEMMA FirstDigits ==
    ASSUME NEW d \in Numbers, NEW m \in Int, m <= 4, m <= Len(d)
    PROVE  SubSeq(d, 1, m) \in Ids
  <1>1. d \in Seq(Digits) /\ (d # <<>> => d[1] # "0") /\ Len(d) \in Nat
    BY DEF Numbers
  <1>2. CASE m < 1
    <2>1. SubSeq(d, 1, m) = <<>>
      BY <1>2, SubSeqEmpty
    <2> QED
      BY <2>1 DEF Ids, Numbers
  <1>3. CASE m >= 1
    <2>1. \A i \in 1..m : d[i] \in Digits
      BY <1>1
    <2>2. /\ SubSeq(d, 1, m) \in Seq(Digits)
          /\ Len(SubSeq(d, 1, m)) = IF 1 <= m THEN m - 1 + 1 ELSE 0
          /\ \A i \in 1..(m - 1 + 1) : SubSeq(d, 1, m)[i] = d[1 + i - 1]
      BY <2>1, SubSeqProperties
    <2>3. Len(SubSeq(d, 1, m)) = m /\ SubSeq(d, 1, m)[1] = d[1]
      BY <1>3, <2>2
    <2>4. d # <<>>
      BY <1>1, <1>3
    <2> QED
      BY <1>1, <2>2, <2>3, <2>4 DEF Ids, Numbers
  <1> QED
    BY <1>2, <1>3

LEMMA Hex4Type ==
    ASSUME NEW tag, NEW v \in Vendors
    PROVE  hex4(tag, v) \in Optional(Ids)
  <1> DEFINE segs == SegmentsOf[v]
             found == {i \in Tagged(tag, segs) : Width(segs[i]) >= Asked(segs[i])}
             seg == segs[Min(found)]
  <1>1. segs \in Seq(Segments)
    BY NamesHaveSegments
  <1>2. found \subseteq DOMAIN segs /\ found \in SUBSET Nat
    BY <1>1 DEF Tagged
  <1>3. CASE found = {}
    BY <1>3 DEF hex4, Optional
  <1>4. CASE found # {}
    <2>1. Min(found) \in found
      BY <1>2, <1>4, FirstIsIn
    <2>2. seg \in Segments /\ Width(seg) >= Asked(seg)
      <3>1. Min(found) \in DOMAIN segs /\ Width(seg) >= Asked(seg)
        BY <1>2, <2>1
      <3> HIDE DEF segs, found
      <3> QED
        BY <1>1, <3>1
    <2>3. hex4(tag, v) = SubSeq(seg.digits, 1, Asked(seg) - seg.zeros)
      BY <1>4 DEF hex4
    <2> HIDE DEF seg, found, segs
    <2>4. seg.digits \in Numbers /\ seg.zeros \in Nat /\ Len(seg.digits) \in Nat
      BY <2>2 DEF Segments, Numbers
    <2>5. Asked(seg) - seg.zeros \in Int /\ Asked(seg) - seg.zeros <= 4
          /\ Asked(seg) - seg.zeros <= Len(seg.digits)
      BY <2>2, <2>4 DEF Asked, Width
    <2> QED
      BY <2>3, <2>4, <2>5, FirstDigits DEF Optional
  <1> QED
    BY <1>3, <1>4

\* A property read is a time the store holds for it, and in a store that has each
\* property once it is one that can be seen, if there is any.
LEMMA FiletimeFound ==
    ASSUME NEW props \in Seq(PropKeys), NEW num
    PROVE  LET t == read_filetime(props, num) IN
           /\ t \in Optional(Times)
           /\ t # None => t \in Held(props, num)
           /\ KeptOnce(props) => (t # None => t \in Seen(props, num))
           /\ KeptOnce(props) => (Seen(props, num) # {} => t # None)
  <1> DEFINE t == read_filetime(props, num)
             N == Numbered(props, num)
             m == Min(N)
             key == props[m]
             raw == CASE key.default # None -> key.default
                      [] key.default = None /\ key.leaves # <<>> -> key.leaves[1]
                      [] OTHER -> None
  <1>1. CASE N = {}
    <2>1. t = None /\ Seen(props, num) = {}
      BY <1>1 DEF read_filetime, Seen
    <2> QED
      BY <2>1 DEF Optional
  <1>2. CASE N # {}
    <2>1. N \subseteq DOMAIN props /\ N \in SUBSET Nat
      BY DEF Numbered
    <2>2. m \in N
      BY <1>2, <2>1, FirstIsIn
    <2>3. key \in PropKeys
      <3>1. m \in DOMAIN props
        BY <2>1, <2>2
      <3> HIDE DEF m
      <3> QED
        BY <3>1
    <2>4. t = Decoded(raw)
      BY <1>2 DEF read_filetime, find_prop_subkey
    <2>5. PICK U : U = UNION {Values(props[j]) : j \in N}
      OBVIOUS
    <2>6. Held(props, num) = Times \cap U
      BY <2>5 DEF Held
    <2>7. Values(key) \subseteq U
      <3>1. \A i \in N : Values(props[i]) \subseteq UNION {Values(props[j]) : j \in N}
        OBVIOUS
      <3>2. \A i \in N : Values(props[i]) \subseteq U
        BY <2>5, <3>1, Zenon
      <3> HIDE DEF N, m
      <3> QED
        BY <2>2, <3>2
    <2>8. KeptOnce(props) => Len(key.leaves) <= 1
      BY <2>1, <2>2 DEF KeptOnce
    <2>9. KeptOnce(props) =>
             Seen(props, num) = IF key.default = "short" THEN {} ELSE Times \cap Values(key)
      <3> HAVE KeptOnce(props)
      <3>1. \A i \in N : i = m
        BY <2>1, <2>2 DEF KeptOnce, Numbered
      <3>2. PICK T : T = {j \in Numbered(props, num) : props[j].default # "short"}
        OBVIOUS
      <3>3. Seen(props, num) = Times \cap UNION {Values(props[i]) : i \in T}
        BY <3>2 DEF Seen
      <3>4. T = IF key.default = "short" THEN {} ELSE {m}
        BY <2>2, <3>1, <3>2
      <3> HIDE DEF N, m
      <3>5. CASE key.default = "short"
        BY <3>3, <3>4, <3>5
      <3>6. CASE key.default # "short"
        <4>1. T = {m}
          BY <3>4, <3>6
        <4>2. UNION {Values(props[i]) : i \in T} = Values(props[m])
          BY <4>1
        <4> QED
          BY <3>3, <3>6, <4>2
      <3> QED
        BY <3>5, <3>6
    <2> HIDE DEF key, t, N, m
    <2>10. /\ key.leaves \in Seq(Raw) /\ key.default \in Raw
           /\ None \notin Times /\ "short" \notin Times
      BY <2>3, NoneIsNoTime, ShortIsNoTime DEF PropKeys, Optional
    <2>11. t \in Optional(Times)
      BY <2>4 DEF Decoded, Optional
    <2>12. t # None => t \in Times \cap Values(key) /\ key.default # "short"
      <3> HAVE t # None
      <3>1. raw \in Times /\ t = raw
        BY <2>4 DEF Decoded
      <3>2. CASE key.default # None
        BY <2>10, <3>1, <3>2 DEF Values
      <3>3. CASE key.default = None
        <4>1. key.leaves # <<>> /\ raw = key.leaves[1]
          BY <2>10, <3>1, <3>3
        <4>2. 1 \in DOMAIN key.leaves
          BY <2>10, <4>1
        <4>3. raw \in Values(key)
          BY <4>1, <4>2 DEF Values, Range
        <4> QED
          BY <3>1, <3>3, <4>3, ShortIsNoTime DEF Optional
      <3> QED
        BY <3>2, <3>3
    <2>13. KeptOnce(props) =>
              (key.default # "short" /\ Times \cap Values(key) # {} => t # None)
      <3> SUFFICES ASSUME KeptOnce(props), key.default # "short",
                          NEW x \in Times \cap Values(key)
                   PROVE  t # None
        OBVIOUS
      <3>1. CASE key.default = None
        <4>1. x \in Range(key.leaves)
          BY <2>10, <3>1 DEF Values
        <4>2. PICK i \in DOMAIN key.leaves : key.leaves[i] = x
          BY <4>1 DEF Range
        <4>3. i = 1 /\ key.leaves # <<>>
          BY <2>8, <2>10, <4>2
        <4>4. raw = x
          BY <3>1, <4>2, <4>3
        <4> QED
          BY <2>4, <2>10, <4>4 DEF Decoded
      <3>2. CASE key.default # None
        <4>1. raw = key.default /\ raw \in Times
          BY <2>10, <3>2 DEF Raw, Optional
        <4> QED
          BY <2>4, <2>10, <4>1 DEF Decoded
      <3> QED
        BY <3>1, <3>2
    <2> QED
      BY <2>6, <2>7, <2>9, <2>11, <2>12, <2>13 DEF t
  <1> QED
    BY <1>1, <1>2

LEMMA KeyType ==
    ASSUME hive \in Hives, NEW n \in 0..15, NEW i \in DOMAIN KeysAt(n)
    PROVE  /\ KeysAt(n) \in Seq(InstanceKeys)
           /\ KeysAt(n)[i] \in InstanceKeys
           /\ \A j \in DOMAIN KeysAt(n) :
                 /\ KeysAt(n)[i].vendor = KeysAt(n)[j].vendor
                 /\ KeysAt(n)[i].inst = KeysAt(n)[j].inst
                 => i = j
  <1>1. KeysAt(n) \in KeyLists
    BY SixteenClasses DEF KeysAt, Hives
  <1> QED
    BY <1>1 DEF KeyLists

LEMMA BuildType ==
    ASSUME NEW cs \in ControlSets, NEW class \in Classes, NEW k \in InstanceKeys
    PROVE  build_connection(cs, class, k) \in Connections
  <1> DEFINE bus == mtp_override(k.mtp, BusOf(class))
  <1>1. bus \in Buses
    <2>1. class \in {"USBSTOR", "USB", "SCSI", "THUNDERBOLT", "1394", "ESATA",
                     "SDBUS", "EXPRESSCARD"}
      BY DEF Classes, ENUM_CLASSES
    <2>2. BusOf(class) \in Buses
      BY <2>1 DEF BusOf, Buses
    <2> QED
      BY <2>2 DEF mtp_override, Buses
  <1>2. k.vendor \in Vendors /\ k.inst \in Instances /\ k.props \in Seq(PropKeys)
    BY DEF InstanceKeys
  <1>3. \A t \in Optional(Times) :
           Authoritative(t) \in Optional(Stamps) /\ Inferred(t) \in Optional(Stamps)
    BY DEF Authoritative, Inferred, Stamp, Stamps, Optional
  <1>4. \A num : read_filetime(k.props, num) \in Optional(Times)
    BY <1>2, FiletimeFound
  <1>5. first_install(k.props) \in Optional(Stamps)
    BY <1>3, <1>4 DEF first_install
  <1>6. /\ Inferred(read_filetime(k.props, "0066")) \in Optional(Stamps)
        /\ Inferred(read_filetime(k.props, "0067")) \in Optional(Stamps)
    BY <1>3, <1>4
  <1>7. hex4("VID", k.vendor) \in Optional(Ids) /\ hex4("PID", k.vendor) \in Optional(Ids)
    BY <1>2, Hex4Type
  <1>8. /\ serial_is_os_generated(k.inst) \in BOOLEAN /\ is_dma_capable(bus) \in BOOLEAN
        /\ device_serial(k.inst) \in Optional(Instances \ {""})
    <2>1. serial_is_os_generated(k.inst) \in BOOLEAN
      BY DEF serial_is_os_generated
    <2>2. is_dma_capable(bus) \in BOOLEAN
      BY DEF is_dma_capable
    <2>3. device_serial(k.inst) \in Optional(Instances \ {""})
      BY <1>2 DEF device_serial, Optional
    <2> QED
      BY <2>1, <2>2, <2>3
  <1>9. None \in Optional(Letters)
    BY DEF Optional
  <1> HIDE DEF bus
  <1> QED
    BY <1>1, <1>2, <1>5, <1>6, <1>7, <1>8, <1>9 DEF build_connection, Connections, bus

\* What a record has of the key it was built from.
LEMMA BuiltFields ==
    ASSUME NEW n, NEW i, NEW conn, BuiltFrom(conn, n, i)
    PROVE  /\ conn.key_path = <<ControlSetAt(n), ClassAt(n), KeysAt(n)[i].vendor, KeysAt(n)[i].inst>>
           /\ conn.device_instance_id = <<ClassAt(n), KeysAt(n)[i].vendor, KeysAt(n)[i].inst>>
           /\ conn.first_install = first_install(KeysAt(n)[i].props)
           /\ conn.bus = mtp_override(KeysAt(n)[i].mtp, BusOf(ClassAt(n)))
           /\ conn.vid = hex4("VID", KeysAt(n)[i].vendor)
           /\ conn.pid = hex4("PID", KeysAt(n)[i].vendor)
           /\ conn.device_serial = device_serial(KeysAt(n)[i].inst)
           /\ conn.serial_is_os_generated = serial_is_os_generated(KeysAt(n)[i].inst)
           /\ conn.dma_capable = is_dma_capable(conn.bus)
  BY DEF BuiltFrom, Built, build_connection

\* A key path leads to one key.
LEMMA OneKey ==
    ASSUME hive \in Hives, NEW m \in 0..15, NEW n \in 0..15,
           NEW i \in DOMAIN KeysAt(m), NEW j \in DOMAIN KeysAt(n),
           NEW c, NEW d, BuiltFrom(c, m, i), BuiltFrom(d, n, j),
           c.key_path = d.key_path
    PROVE  m = n /\ i = j
  <1>1. /\ ControlSetAt(m) = ControlSetAt(n) /\ ClassAt(m) = ClassAt(n)
        /\ KeysAt(m)[i].vendor = KeysAt(n)[j].vendor
        /\ KeysAt(m)[i].inst = KeysAt(n)[j].inst
    BY BuiltFields
  <1>2. m = n
    BY <1>1, VisitedOnce
  <1> QED
    BY <1>1, <1>2, KeyType

-----------------------------------------------------------------------------
(***************************************************************************)
(* The steps of the reader preserve RegistryInv.                           *)
(***************************************************************************)

LEMMA RegistryStarts == Init => RegistryInv
  <1> SUFFICES ASSUME Init
               PROVE  RegistryInv
    OBVIOUS
  <1>1. classes = 0 /\ out = <<>> /\ DOMAIN out = {} /\ joined = 0 /\ hive \in Hives
    BY DEF Init, StartWalk
  <1>2. TypeOK
    <2>1. hive.mounts \in Seq(MountValues)
      BY <1>1 DEF Hives
    <2>2. Len(hive.mounts) \in Nat
      BY <2>1
    <2> QED
      BY <1>1, <2>2, SixteenClasses DEF TypeOK
  <1> QED
    BY <1>1, <1>2
       DEF RegistryInv, RecordsAreKeys, KeysAreRecords, PathsDiffer,
           LettersAreLast, LetterIsLastMount

\* The records of one class.
LEMMA ClassRecords ==
    ASSUME hive \in Hives, NEW n \in 0..15
    PROVE  LET recs == RecordsOf(ControlSetAt(n), ClassAt(n)) IN
           /\ recs \in Seq(Connections)
           /\ DOMAIN recs = DOMAIN KeysAt(n)
           /\ \A i \in DOMAIN recs :
                 /\ recs[i] = Built(n, i)
                 /\ BuiltFrom(recs[i], n, i)
                 /\ recs[i].drive_letter = None
  <1> DEFINE recs == RecordsOf(ControlSetAt(n), ClassAt(n))
  <1>1. recs = [i \in DOMAIN KeysAt(n) |-> Built(n, i)]
    BY DEF RecordsOf, KeysAt, Built
  <1>2. ControlSetAt(n) \in ControlSets /\ ClassAt(n) \in Classes
    BY SixteenClasses
  <1>3. \A i \in DOMAIN KeysAt(n) : Built(n, i) \in Connections
    BY <1>2, KeyType, BuildType DEF Built
  <1>4. CASE DOMAIN KeysAt(n) = {}
    <2>1. recs = <<>>
      BY <1>1, <1>4
    <2> QED
      BY <1>4, <2>1
  <1>5. CASE DOMAIN KeysAt(n) # {}
    <2>1. KeysAt(n) \in Seq(InstanceKeys)
      BY <1>5, KeyType
    <2>2. DOMAIN KeysAt(n) = 1..Len(KeysAt(n)) /\ Len(KeysAt(n)) \in Nat
      BY <2>1
    <2>3. recs \in Seq(Connections)
      BY <1>1, <1>3, <2>2
    <2>4. \A i \in DOMAIN KeysAt(n) : BuiltFrom(Built(n, i), n, i) /\ Built(n, i).drive_letter = None
      BY DEF BuiltFrom, Built, build_connection
    <2> QED
      BY <1>1, <2>3, <2>4
  <1> QED
    BY <1>4, <1>5

\* The keys do not change with the hive unchanged.
LEMMA SameKeys ==
    ASSUME hive' = hive
    PROVE  /\ \A n : KeysAt(n)' = KeysAt(n)
           /\ \A conn, n, i : BuiltFrom(conn, n, i)' <=> BuiltFrom(conn, n, i)
  <1>1. \A n : KeysAt(n)' = KeysAt(n)
    BY DEF KeysAt
  <1>2. \A n, i : Built(n, i)' = Built(n, i)
    BY <1>1 DEF Built
  <1> QED
    BY <1>1, <1>2 DEF BuiltFrom

LEMMA ReadClassStep == RegistryInv /\ ReadClass => RegistryInv'
  <1> SUFFICES ASSUME RegistryInv, ReadClass
               PROVE  RegistryInv'
    OBVIOUS
  <1> DEFINE n == classes
             recs == RecordsOf(ControlSetAt(n), ClassAt(n))
             len == Len(out)
  <1>1. /\ hive \in Hives /\ hive' = hive /\ joined' = joined /\ joined = 0
        /\ n \in 0..15 /\ classes' = n + 1 /\ classes' \in 0..16
        /\ out \in Seq(Connections) /\ out' = out \o recs
    BY SixteenClasses DEF RegistryInv, TypeOK, LettersAreLast, ReadClass
  <1>2. /\ recs \in Seq(Connections)
        /\ DOMAIN recs = DOMAIN KeysAt(n)
        /\ \A i \in DOMAIN recs : BuiltFrom(recs[i], n, i) /\ recs[i].drive_letter = None
    BY <1>1, ClassRecords
  <1> HIDE DEF recs
  <1>3. /\ out' \in Seq(Connections)
        /\ \A k \in DOMAIN out : k \in DOMAIN out' /\ out'[k] = out[k]
        /\ \A i \in DOMAIN recs : len + i \in DOMAIN out' /\ out'[len + i] = recs[i]
        /\ \A k \in DOMAIN out' :
              k \in DOMAIN out \/ \E i \in DOMAIN recs : k = len + i
    <2>1. DOMAIN (out \o recs) = 1..(len + Len(recs)) /\ DOMAIN out = 1..len
          /\ DOMAIN recs = 1..Len(recs) /\ len \in Nat /\ Len(recs) \in Nat
      BY <1>1, <1>2, P!Appended
    <2>2. /\ \A k \in DOMAIN out : k \in DOMAIN (out \o recs)
          /\ \A i \in DOMAIN recs : len + i \in DOMAIN (out \o recs)
      BY <2>1
    <2> QED
      BY <1>1, <1>2, <2>2, P!Appended
  <1> HIDE DEF len
  <1>4. TypeOK'
    BY <1>1, <1>3, SixteenClasses DEF RegistryInv, TypeOK
  <1>5. \A m : m \in 0..(classes' - 1) => m \in 0..(classes - 1) \/ m = n
    BY <1>1
  <1>6. n \in 0..(classes' - 1) /\ 0..(classes - 1) \subseteq 0..(classes' - 1)
        /\ 0..(classes - 1) \subseteq 0..15 /\ n \notin 0..(classes - 1)
    BY <1>1
  <1>7. /\ \A k \in DOMAIN out : \E m \in 0..(classes - 1) : \E i \in DOMAIN KeysAt(m) :
              BuiltFrom(out'[k], m, i)
        /\ \A k \in DOMAIN out' : k \notin DOMAIN out =>
              \E i \in DOMAIN recs : k = len + i /\ BuiltFrom(out'[k], n, i)
    BY <1>2, <1>3 DEF RegistryInv, RecordsAreKeys
  <1> HIDE DEF n
  <1>8. RecordsAreKeys'
    <2>1. \A k \in DOMAIN out' : \E m \in 0..(classes' - 1) : \E i \in DOMAIN KeysAt(m) :
             BuiltFrom(out'[k], m, i)
      BY <1>2, <1>6, <1>7
    <2> QED
      BY <1>1, <2>1, SameKeys DEF RecordsAreKeys
  <1>9. KeysAreRecords'
    <2>1. ASSUME NEW m \in 0..(classes' - 1), NEW i \in DOMAIN KeysAt(m)
          PROVE  \E k \in DOMAIN out' : BuiltFrom(out'[k], m, i)
      <3>1. CASE m \in 0..(classes - 1)
        <4>1. PICK k \in DOMAIN out : BuiltFrom(out[k], m, i)
          BY <3>1 DEF RegistryInv, KeysAreRecords
        <4> QED
          BY <1>3, <4>1
      <3>2. CASE m = n
        BY <1>2, <1>3, <3>2
      <3> QED
        BY <1>5, <3>1, <3>2
    <2> QED
      BY <1>1, <2>1, SameKeys DEF KeysAreRecords
  <1>10. PathsDiffer'
    <2> SUFFICES ASSUME NEW j \in DOMAIN out', NEW k \in DOMAIN out',
                        out'[j].key_path = out'[k].key_path
                 PROVE  j = k
      BY DEF PathsDiffer
    <2>1. CASE j \in DOMAIN out /\ k \in DOMAIN out
      BY <1>3, <2>1 DEF RegistryInv, PathsDiffer
    <2>2. ASSUME NEW a \in DOMAIN out, NEW b \in DOMAIN out', b \notin DOMAIN out,
                 out'[a].key_path = out'[b].key_path
          PROVE  FALSE
      <3>0. PICK m \in 0..(classes - 1) :
               \E i \in DOMAIN KeysAt(m) : BuiltFrom(out'[a], m, i)
        BY <1>7
      <3>1. PICK i \in DOMAIN KeysAt(m) : BuiltFrom(out'[a], m, i)
        BY <3>0
      <3>2. PICK l \in DOMAIN recs : BuiltFrom(out'[b], n, l)
        BY <1>7, <2>2
      <3>3. m \in 0..15 /\ n \in 0..15 /\ l \in DOMAIN KeysAt(n)
        BY <1>1, <1>2, <1>6
      <3>4. m = n
        BY <1>1, <2>2, <3>1, <3>2, <3>3, OneKey
      <3> QED
        BY <1>6, <3>4
    <2>3. CASE j \notin DOMAIN out /\ k \notin DOMAIN out
      <3>1. PICK i \in DOMAIN recs : j = len + i /\ BuiltFrom(out'[j], n, i)
        BY <1>7, <2>3
      <3>2. PICK l \in DOMAIN recs : k = len + l /\ BuiltFrom(out'[k], n, l)
        BY <1>7, <2>3
      <3>3. i = l
        BY <1>1, <1>2, <3>1, <3>2, OneKey
      <3> QED
        BY <3>1, <3>2, <3>3
    <2> QED
      BY <2>1, <2>2, <2>3
  <1>11. LetterIsLastMount'
    <2>1. \A x : LettersFor(x)' = {} /\ LettersFor(x) = {}
      BY <1>1 DEF LettersFor
    <2>2. \A k \in DOMAIN out : out[k].drive_letter = None
      BY <2>1 DEF RegistryInv, LetterIsLastMount
    <2>3. \A k \in DOMAIN out' : out'[k].drive_letter = None
      BY <1>2, <1>3, <2>2
    <2> QED
      BY <2>1, <2>3 DEF LetterIsLastMount
  <1> QED
    BY <1>1, <1>4, <1>8, <1>9, <1>10, <1>11 DEF RegistryInv, LettersAreLast

\* Applying a value changes the letters of the records it names, and no more.
LEMMA Mounted ==
    ASSUME RegistryInv, ApplyMount
    PROVE  LET v == hive.mounts[joined + 1] IN
           /\ hive' = hive /\ classes' = classes /\ classes = ClassCount
           /\ joined \in Nat /\ joined' = joined + 1
           /\ joined' \in 0..Len(hive.mounts)
           /\ v \in MountValues
           /\ out' \in Seq(Connections) /\ DOMAIN out' = DOMAIN out
           /\ \A k \in DOMAIN out :
                 /\ out'[k] = [out[k] EXCEPT !.drive_letter = out'[k].drive_letter]
                 /\ out'[k].key_path = out[k].key_path
                 /\ out'[k].device_instance_id = out[k].device_instance_id
                 /\ out'[k].drive_letter =
                       IF Joins(v, out[k]) THEN v.letter ELSE out[k].drive_letter
  <1> DEFINE v == hive.mounts[joined + 1]
  <1>1. /\ hive' = hive /\ classes' = classes /\ classes = ClassCount
        /\ joined \in Nat /\ joined' = joined + 1
        /\ joined < Len(hive.mounts) /\ hive.mounts \in Seq(MountValues)
        /\ out \in Seq(Connections)
        /\ out' = apply_mounted_device(v)
    BY DEF RegistryInv, TypeOK, Hives, ApplyMount
  <1>2. joined + 1 \in 1..Len(hive.mounts) /\ joined' \in 0..Len(hive.mounts)
    BY <1>1
  <1>3. v \in MountValues
    BY <1>1, <1>2
  <1> HIDE DEF v
  <1>4. ASSUME NEW k \in DOMAIN out
        PROVE  /\ out'[k] \in Connections
               /\ out'[k] = [out[k] EXCEPT !.drive_letter = out'[k].drive_letter]
               /\ out'[k].key_path = out[k].key_path
               /\ out'[k].device_instance_id = out[k].device_instance_id
               /\ out'[k].drive_letter =
                     IF Joins(v, out[k]) THEN v.letter ELSE out[k].drive_letter
    <2>1. out[k] \in Connections
      BY <1>1
    <2>2. out'[k] = IF Joins(v, out[k]) THEN [out[k] EXCEPT !.drive_letter = v.letter]
                                        ELSE out[k]
      BY <1>1 DEF apply_mounted_device
    <2>3. CASE Joins(v, out[k])
      <3>1. v.letter \in Optional(Letters)
        BY <1>3 DEF MountValues
      <3> QED
        BY <2>1, <2>2, <2>3, <3>1 DEF Connections
    <2>4. CASE ~Joins(v, out[k])
      BY <2>1, <2>2, <2>4 DEF Connections
    <2> QED
      BY <2>3, <2>4
  <1>5. DOMAIN out' = DOMAIN out
    BY <1>1 DEF apply_mounted_device
  <1>6. out' \in Seq(Connections)
    <2>1. out' = [k \in DOMAIN out |-> out'[k]]
      BY <1>1 DEF apply_mounted_device
    <2>2. DOMAIN out = 1..Len(out) /\ Len(out) \in Nat
      BY <1>1
    <2> QED
      BY <1>4, <2>1, <2>2
  <1> QED
    BY <1>1, <1>2, <1>3, <1>4, <1>5, <1>6 DEF v

\* A letter written twice is the last one.
LEMMA Relettered ==
    ASSUME NEW B, NEW c, NEW d,
           c = [B EXCEPT !.drive_letter = c.drive_letter],
           d = [c EXCEPT !.drive_letter = d.drive_letter]
    PROVE  d = [B EXCEPT !.drive_letter = d.drive_letter]
  <1> DEFINE x == c.drive_letter
             y == d.drive_letter
  <1>1. c = [B EXCEPT !.drive_letter = x] /\ d = [c EXCEPT !.drive_letter = y]
    OBVIOUS
  <1> HIDE DEF x, y
  <1>2. d = [B EXCEPT !.drive_letter = y]
    BY <1>1
  <1> QED
    BY <1>2 DEF y

LEMMA ApplyMountStep == RegistryInv /\ ApplyMount => RegistryInv'
  <1> SUFFICES ASSUME RegistryInv, ApplyMount
               PROVE  RegistryInv'
    OBVIOUS
  <1> DEFINE v == hive.mounts[joined + 1]
  <1>1. /\ hive' = hive /\ classes' = classes /\ classes = ClassCount
        /\ joined \in Nat /\ joined' = joined + 1
        /\ joined' \in 0..Len(hive.mounts)
        /\ v \in MountValues
        /\ out' \in Seq(Connections) /\ DOMAIN out' = DOMAIN out
        /\ \A k \in DOMAIN out :
              /\ out'[k] = [out[k] EXCEPT !.drive_letter = out'[k].drive_letter]
              /\ out'[k].key_path = out[k].key_path
              /\ out'[k].device_instance_id = out[k].device_instance_id
              /\ out'[k].drive_letter =
                    IF Joins(v, out[k]) THEN v.letter ELSE out[k].drive_letter
    BY Mounted
  <1>2. TypeOK'
    BY <1>1 DEF RegistryInv, TypeOK
  <1>3. \A k \in DOMAIN out : \A n, i : BuiltFrom(out[k], n, i) => BuiltFrom(out'[k], n, i)
    <2> TAKE k \in DOMAIN out
    <2> DEFINE c == out[k]
               d == out'[k]
    <2>1. d = [c EXCEPT !.drive_letter = d.drive_letter]
      BY <1>1
    <2> HIDE DEF c, d
    <2> SUFFICES ASSUME NEW n, NEW i, BuiltFrom(c, n, i)
                 PROVE  BuiltFrom(d, n, i)
      BY DEF c, d
    <2> QED
      BY <2>1, Relettered DEF BuiltFrom
  <1>4. RecordsAreKeys'
    <2>1. \A k \in DOMAIN out' : \E n \in 0..(classes - 1) : \E i \in DOMAIN KeysAt(n) :
             BuiltFrom(out'[k], n, i)
      BY <1>1, <1>3 DEF RegistryInv, RecordsAreKeys
    <2> QED
      BY <1>1, <2>1, SameKeys DEF RecordsAreKeys
  <1>5. KeysAreRecords'
    <2>1. \A n \in 0..(classes - 1) : \A i \in DOMAIN KeysAt(n) :
             \E k \in DOMAIN out' : BuiltFrom(out'[k], n, i)
      BY <1>1, <1>3 DEF RegistryInv, KeysAreRecords
    <2> QED
      BY <1>1, <2>1, SameKeys DEF KeysAreRecords
  <1>6. PathsDiffer'
    BY <1>1 DEF RegistryInv, PathsDiffer
  <1>7. LetterIsLastMount'
    <2> DEFINE Named(n, id) == {m \in 1..n : /\ hive.mounts[m].letter # None
                                            /\ hive.mounts[m].path # None
                                            /\ hive.mounts[m].path.inst \in Endings(id)}
    <2> SUFFICES ASSUME NEW k \in DOMAIN out
                 PROVE  LET named == Named(joined + 1, out[k].device_instance_id) IN
                        \/ named = {} /\ out'[k].drive_letter = None
                        \/ \E m \in named : /\ \A n \in named : n <= m
                                            /\ out'[k].drive_letter = hive.mounts[m].letter
      BY <1>1 DEF LetterIsLastMount, LettersFor
    <2> DEFINE id == out[k].device_instance_id
               before == Named(joined, id)
               after == Named(joined + 1, id)
    <2>1. before \subseteq 1..joined
      OBVIOUS
    <2>2. after = before \cup IF Joins(v, out[k]) THEN {joined + 1} ELSE {}
      BY <1>1 DEF Joins
    <2>3. \/ before = {} /\ out[k].drive_letter = None
          \/ \E m \in before : /\ \A n \in before : n <= m
                               /\ out[k].drive_letter = hive.mounts[m].letter
      BY DEF RegistryInv, LetterIsLastMount, LettersFor
    <2> HIDE DEF before, after
    <2>4. CASE Joins(v, out[k])
      <3>1. joined + 1 \in after /\ out'[k].drive_letter = v.letter
        BY <1>1, <2>2, <2>4
      <3>2. \A n \in after : n <= joined + 1
        BY <1>1, <2>1, <2>2
      <3> QED
        BY <3>1, <3>2 DEF after
    <2>5. CASE ~Joins(v, out[k])
      <3>1. after = before /\ out'[k].drive_letter = out[k].drive_letter
        BY <1>1, <2>2, <2>5
      <3> QED
        BY <2>3, <3>1 DEF after
    <2> QED
      BY <2>4, <2>5
  <1> QED
    BY <1>1, <1>2, <1>4, <1>5, <1>6, <1>7 DEF RegistryInv, LettersAreLast

LEMMA RegistryStep == RegistryInv /\ [Next]_vars => RegistryInv'
  <1> SUFFICES ASSUME RegistryInv, [Next]_vars
               PROVE  RegistryInv'
    OBVIOUS
  <1>1. CASE ReadClass
    BY <1>1, ReadClassStep
  <1>2. CASE ApplyMount
    BY <1>2, ApplyMountStep
  <1>3. CASE UNCHANGED vars
    <2>1. hive' = hive /\ classes' = classes /\ out' = out /\ joined' = joined
      BY <1>3 DEF vars
    <2>2. RecordsAreKeys' /\ KeysAreRecords'
      BY <2>1, SameKeys DEF RegistryInv, RecordsAreKeys, KeysAreRecords
    <2>3. TypeOK' /\ PathsDiffer' /\ LettersAreLast'
      BY <2>1 DEF RegistryInv, TypeOK, PathsDiffer, LettersAreLast
    <2>4. LetterIsLastMount'
      BY <2>1 DEF RegistryInv, LetterIsLastMount, LettersFor
    <2> QED
      BY <2>2, <2>3, <2>4 DEF RegistryInv
  <1> QED
    BY <1>1, <1>2, <1>3 DEF Next

\* The inductive invariant: the records are those of the keys of the classes
\* read, one each, and carry the letters of the values applied.
THEOREM RegistryCorrect == Spec => []RegistryInv
  BY RegistryStarts, RegistryStep, PTL DEF Spec

-----------------------------------------------------------------------------
(***************************************************************************)
(* What follows from the invariant.                                        *)
(***************************************************************************)

\* The reader's variables keep their shapes (parse_registry).
THEOREM TypeCorrect == Spec => []TypeOK
  <1>1. RegistryInv => TypeOK
    BY DEF RegistryInv
  <1> QED
    BY <1>1, RegistryCorrect, PTL

\* A record's letter is that of the last value naming its device, in every
\* record of it (apply_mounted_devices).
THEOREM LettersCorrect == Spec => []LetterIsLastMount
  <1>1. RegistryInv => LetterIsLastMount
    BY DEF RegistryInv
  <1> QED
    BY <1>1, RegistryCorrect, PTL

\* A value that joins a device names it by its last component.
LEMMA LastComponent ==
    ASSUME NEW v, v.path \in DevicePaths, NEW id \in Classes \X Vendors \X Instances,
           v.path.inst \in Endings(id)
    PROVE  PathOf(v)[Len(PathOf(v))] = id[Len(id)]
  <1> DEFINE inst == v.path.inst
             pre == <<v.path.class, v.path.vendor>>
  <1>1. inst \in Seq(Names) /\ pre \in Seq(Names) /\ Len(pre) = 2
    <2>1. v.path.inst \in Seq(Names) \ {<<>>, <<"">>}
      BY DEF DevicePaths
    <2>2. v.path.class \in Names /\ v.path.vendor \in Names
      BY DEF DevicePaths, Names
    <2>3. PICK c, d : c = v.path.class /\ d = v.path.vendor
      OBVIOUS
    <2>4. <<c, d>> \in Seq(Names) /\ Len(<<c, d>>) = 2
      BY <2>2, <2>3
    <2>5. pre = <<c, d>>
      BY <2>3
    <2> HIDE DEF pre
    <2> QED
      BY <2>1, <2>4, <2>5
  <1>2. id = <<id[1], id[2], id[3]>> /\ Len(id) = 3
    OBVIOUS
  <1>3. Len(inst) >= 1 /\ Len(inst) \in Nat /\ inst[Len(inst)] = id[3]
    <2>1. PICK x, y, z : x = id[1] /\ y = id[2] /\ z = id[3]
      OBVIOUS
    <2>2. inst \in {<<z>>, <<y, z>>, <<x, y, z>>}
      BY <1>2, <2>1 DEF Endings
    <2> HIDE DEF inst
    <2>3. CASE inst = <<z>>
      BY <2>1, <2>3
    <2>4. CASE inst = <<y, z>>
      BY <2>1, <2>4
    <2>5. CASE inst = <<x, y, z>>
      BY <2>1, <2>5
    <2> QED
      BY <2>2, <2>3, <2>4, <2>5
  <1>4. PathOf(v) = pre \o inst
    BY DEF PathOf
  <1> HIDE DEF inst, pre
  <1>5. /\ Len(pre \o inst) = Len(pre) + Len(inst)
        /\ \A i \in 1..(Len(pre) + Len(inst)) :
              (pre \o inst)[i] = IF i <= Len(pre) THEN pre[i] ELSE inst[i - Len(pre)]
    BY <1>1, ConcatProperties
  <1>6. Len(pre \o inst) = 2 + Len(inst) /\ (pre \o inst)[2 + Len(inst)] = inst[Len(inst)]
    <2>1. 2 + Len(inst) \in 1..(Len(pre) + Len(inst)) /\ ~(2 + Len(inst) <= Len(pre))
          /\ (2 + Len(inst)) - Len(pre) = Len(inst)
      BY <1>1, <1>3
    <2> QED
      BY <1>1, <1>5, <2>1
  <1> QED
    BY <1>2, <1>3, <1>4, <1>6

LEMMA JoinRightInv == RegistryInv => UniqueInstancesJoinRight
  <1> SUFFICES ASSUME RegistryInv, InstancesUnique,
                      NEW k \in DOMAIN out, out[k].drive_letter # None
               PROVE  \E m \in 1..joined :
                         /\ hive.mounts[m].letter = out[k].drive_letter
                         /\ hive.mounts[m].path # None
                         /\ PathOf(hive.mounts[m]) = out[k].device_instance_id
    BY DEF UniqueInstancesJoinRight, LetterOfOwnDevice
  <1> DEFINE id == out[k].device_instance_id
  <1>1. PICK m \in LettersFor(id) : out[k].drive_letter = hive.mounts[m].letter
    BY DEF RegistryInv, LetterIsLastMount
  <1>2. m \in 1..joined /\ joined \in 0..Len(hive.mounts)
        /\ hive.mounts \in Seq(MountValues)
    BY <1>1 DEF LettersFor, RegistryInv, TypeOK, Hives
  <1>3. m \in DOMAIN hive.mounts
    BY <1>2
  <1> DEFINE v == hive.mounts[m]
  <1>4. v.path # None /\ v.path.inst \in Endings(id)
    BY <1>1 DEF LettersFor
  <1>5. v.path \in DevicePaths
    <2>1. v \in MountValues
      BY <1>2, <1>3
    <2> QED
      BY <1>4, <2>1 DEF MountValues, Optional
  <1>6. id \in Classes \X Vendors \X Instances
    <2>1. out[k] \in Connections
      BY DEF RegistryInv, TypeOK
    <2> QED
      BY <2>1 DEF Connections
  <1> HIDE DEF id, v
  <1>7. PathOf(v)[Len(PathOf(v))] = id[Len(id)]
    BY <1>4, <1>5, <1>6, LastComponent
  <1>8. PathOf(v) = id
    <2> DEFINE ids == {out[j].device_instance_id : j \in DOMAIN out}
                      \cup {PathOf(hive.mounts[l]) :
                               l \in {l \in DOMAIN hive.mounts : hive.mounts[l].path # None}}
    <2>1. \A p, q \in ids : p[Len(p)] = q[Len(q)] => p = q
      BY Zenon DEF InstancesUnique
    <2>2. m \in {l \in DOMAIN hive.mounts : hive.mounts[l].path # None}
      BY <1>3, <1>4 DEF v
    <2>3. id \in ids /\ PathOf(v) \in ids
      BY <2>2, Zenon DEF id, v
    <2> HIDE DEF ids
    <2> QED
      BY <1>7, <2>1, <2>3
  <1> QED
    BY <1>1, <1>2, <1>4, <1>8 DEF id, v

\* When instance names identify devices, the join moves no letter from one
\* device to another (apply_mounted_devices).
THEOREM JoinRight == Spec => []UniqueInstancesJoinRight
  BY JoinRightInv, RegistryCorrect, PTL

\* The key a record was built from.
LEMMA KeyOfRecord ==
    ASSUME RegistryInv, NEW k \in DOMAIN out
    PROVE  \E n \in 0..15 : \E i \in DOMAIN KeysAt(n) :
              n < classes /\ BuiltFrom(out[k], n, i)
  <1>1. classes \in 0..16
    BY SixteenClasses DEF RegistryInv, TypeOK
  <1>2. \A n \in 0..(classes - 1) : n \in 0..15 /\ n < classes
    BY <1>1
  <1> QED
    BY <1>2 DEF RegistryInv, RecordsAreKeys

LEMMA InstancesOnceInv == RegistryInv => EveryInstanceOnce
  <1> SUFFICES ASSUME RegistryInv, classes = ClassCount,
                      NEW cs \in ControlSets, NEW class \in Classes,
                      NEW i \in DOMAIN hive.enum[cs][class]
               PROVE  LET key == hive.enum[cs][class][i] IN
                      Cardinality({k \in DOMAIN out :
                        /\ out[k].key_path = <<cs, class, key.vendor, key.inst>>
                        /\ out[k].device_instance_id = <<class, key.vendor, key.inst>>}) = 1
    BY DEF EveryInstanceOnce
  <1> DEFINE key == hive.enum[cs][class][i]
             Same == {k \in DOMAIN out :
                        /\ out[k].key_path = <<cs, class, key.vendor, key.inst>>
                        /\ out[k].device_instance_id = <<class, key.vendor, key.inst>>}
  <1>1. PICK n \in 0..15 : ControlSetAt(n) = cs /\ ClassAt(n) = class
    BY AllVisited
  <1>2. n \in 0..(classes - 1) /\ i \in DOMAIN KeysAt(n) /\ KeysAt(n)[i] = key
    BY <1>1, SixteenClasses DEF KeysAt
  <1>3. PICK k \in DOMAIN out : BuiltFrom(out[k], n, i)
    BY <1>2 DEF RegistryInv, KeysAreRecords
  <1>4. k \in Same
    BY <1>1, <1>2, <1>3, BuiltFields
  <1>5. \A j \in Same : j = k
    BY <1>4 DEF RegistryInv, PathsDiffer
  <1>6. Same = {k}
    BY <1>4, <1>5
  <1> QED
    BY <1>6, FS_Singleton

\* Every instance key of both control sets becomes one record, with that key's
\* id and path (parse_registry).
THEOREM InstancesOnce == Spec => []EveryInstanceOnce
  BY InstancesOnceInv, RegistryCorrect, PTL

\* The store a record's install time was read from.
LEMMA StoreOfRecord ==
    ASSUME RegistryInv, NEW k \in DOMAIN out
    PROVE  PropsOf(k) \in Seq(PropKeys) /\ out[k].first_install = first_install(PropsOf(k))
  <1>1. PICK n \in 0..15 : \E i \in DOMAIN KeysAt(n) : BuiltFrom(out[k], n, i)
    BY KeyOfRecord
  <1>2. PICK i0 \in DOMAIN KeysAt(n) : BuiltFrom(out[k], n, i0)
    BY <1>1
  <1> DEFINE at == out[k].key_path
             class == hive.enum[at[1]][at[2]]
             Own(i) == class[i].vendor = at[3] /\ class[i].inst = at[4]
  <1>3. class = KeysAt(n) /\ at[3] = KeysAt(n)[i0].vendor /\ at[4] = KeysAt(n)[i0].inst
    BY <1>2, BuiltFields DEF KeysAt
  <1>4. KeysAt(n)[i0] \in InstanceKeys
        /\ \A j \in DOMAIN KeysAt(n) :
             KeysAt(n)[i0].vendor = KeysAt(n)[j].vendor
             /\ KeysAt(n)[i0].inst = KeysAt(n)[j].inst => i0 = j
    BY KeyType DEF RegistryInv, TypeOK
  <1>5. PropsOf(k) = class[CHOOSE i \in DOMAIN class : Own(i)].props
    BY DEF PropsOf
  <1> HIDE DEF class, at
  <1>6. i0 \in DOMAIN class /\ \A j \in DOMAIN class : Own(j) <=> j = i0
    BY <1>3, <1>4
  <1> HIDE DEF Own
  <1>7. (CHOOSE i \in DOMAIN class : Own(i)) = i0
    BY <1>6
  <1>8. PropsOf(k) = KeysAt(n)[i0].props
    BY <1>3, <1>5, <1>7
  <1> QED
    BY <1>2, <1>4, <1>8, BuiltFields DEF InstanceKeys

LEMMA InstallFoundInv == RegistryInv => InstallTimeFound
  <1> SUFFICES ASSUME RegistryInv, NEW k \in DOMAIN out
               PROVE  LET props == PropsOf(k)
                          shown == IF Seen(props, "0064") # {} THEN Seen(props, "0064")
                                                               ELSE Seen(props, "0065")
                          found == IF out[k].first_install = None THEN {}
                                   ELSE {out[k].first_install.epoch} IN
        /\ found \subseteq Held(props, "0064") \cup Held(props, "0065")
        /\ KeptOnce(props) => found \subseteq shown /\ (shown # {} => found # {})
    BY DEF InstallTimeFound
  <1>1. PICK props : props = PropsOf(k)
    OBVIOUS
  <1>2. PICK t1, t2, t : /\ t1 = read_filetime(props, "0064")
                         /\ t2 = read_filetime(props, "0065")
                         /\ t = IF t1 # None THEN t1 ELSE t2
    OBVIOUS
  <1>3. props \in Seq(PropKeys) /\ out[k].first_install = Authoritative(t)
    BY <1>1, <1>2, StoreOfRecord DEF first_install
  <1>4. /\ t1 \in Optional(Times)
        /\ t1 # None => t1 \in Held(props, "0064")
        /\ KeptOnce(props) => (t1 # None => t1 \in Seen(props, "0064"))
        /\ KeptOnce(props) => (Seen(props, "0064") # {} => t1 # None)
    BY <1>2, <1>3, FiletimeFound
  <1>5. /\ t2 \in Optional(Times)
        /\ t2 # None => t2 \in Held(props, "0065")
        /\ KeptOnce(props) => (t2 # None => t2 \in Seen(props, "0065"))
        /\ KeptOnce(props) => (Seen(props, "0065") # {} => t2 # None)
    BY <1>2, <1>3, FiletimeFound
  <1>6. CASE t = None
    <2>1. t1 = None /\ t2 = None /\ out[k].first_install = None
      BY <1>2, <1>3, <1>6 DEF Authoritative, Stamp
    <2> QED
      BY <1>1, <1>4, <1>5, <2>1
  <1>7. CASE t # None
    <2>1. t \in Times
      BY <1>2, <1>4, <1>5, <1>7 DEF Optional
    <2>2. out[k].first_install = [epoch |-> t, confidence |-> "Authoritative"]
      BY <1>3, <1>7 DEF Authoritative, Stamp
    <2>3. out[k].first_install \in Stamps /\ out[k].first_install.epoch = t
      BY <2>1, <2>2 DEF Stamps
    <2>4. out[k].first_install # None
      BY <2>3, NoneIsNoTime
    <2>5. t \in Held(props, "0064") \cup Held(props, "0065")
      BY <1>2, <1>4, <1>5, <1>7
    <2>6. KeptOnce(props) =>
             t \in IF Seen(props, "0064") # {} THEN Seen(props, "0064") ELSE Seen(props, "0065")
      BY <1>2, <1>4, <1>5, <1>7
    <2> QED
      BY <1>1, <2>3, <2>4, <2>5, <2>6
  <1> QED
    BY <1>6, <1>7

\* An install time is one the store holds for a documented property, and in a
\* store that has each property once it is found wherever it can be seen, 0064
\* before 0065 (read_filetime, first_install).
THEOREM InstallFound == Spec => []InstallTimeFound
  BY InstallFoundInv, RegistryCorrect, PTL

-----------------------------------------------------------------------------
(***************************************************************************)
(* The registry reader and the auditor composed (RegistryAudit).           *)
(***************************************************************************)

\* The composition runs the reader: every theorem above holds in it.
THEOREM ReaderRuns == ASpec => Spec
  <1>1. AInit => Init
    BY DEF AInit
  <1>2. [ANext]_avars => [Next]_vars
    BY DEF ANext, ParseHive, AuditNext, avars
  <1> QED
    BY <1>1, <1>2, PTL DEF ASpec, Spec

\* The auditor instantiated here is the one the proofs are about.
LEMMA SameSize == \A Rs : A!Cardinality(Rs) = Cardinality(Rs)
  BY DEF A!Cardinality, Cardinality

LEMMA SameAuditor ==
    /\ P!AuditDevice <=> A!AuditDevice
    /\ \A ids : P!AuditInv(ids) <=> A!AuditInv(ids)
    /\ \A ids : P!AuditInv(ids)' <=> A!AuditInv(ids)'
  <1>1. P!Codes = A!Codes /\ \A ids : P!Anomalies(ids) = A!Anomalies(ids)
    BY DEF P!Codes, A!Codes, P!Anomalies, A!Anomalies, P!Buses, A!Buses, P!severity,
           A!severity, P!category, A!category, P!mitre, A!mitre
  <1>2. \A code, d : P!Anomaly(code, d) = A!Anomaly(code, d)
    BY DEF P!Anomaly, A!Anomaly, P!severity, A!severity, P!category, A!category,
           P!mitre, A!mitre
  <1>3. \A d : P!anomalies(d) = A!anomalies(d)
    BY <1>2 DEF P!anomalies, A!anomalies, P!When, A!When, P!is_hid, A!is_hid,
                P!is_mass_storage, A!is_mass_storage
  <1>4. P!AuditDevice <=> A!AuditDevice
    BY <1>3 DEF P!AuditDevice, A!AuditDevice
  <1>5. \A code, d : P!Holds(code, d) <=> A!Holds(code, d)
    BY DEF P!Holds, A!Holds, P!is_hid, A!is_hid, P!is_mass_storage, A!is_mass_storage
  <1>6. \A code, id : P!FindingsOf(code, id) = A!FindingsOf(code, id)
                      /\ P!AuditedFor(code, id) = A!AuditedFor(code, id)
    BY <1>5 DEF P!FindingsOf, A!FindingsOf, P!AuditedFor, A!AuditedFor
  <1>7. \A Rs : P!Cardinality(Rs) = A!Cardinality(Rs)
    BY DEF P!Cardinality, A!Cardinality
  <1>8. \A ids : P!AuditInv(ids) <=> A!AuditInv(ids)
    BY <1>1, <1>6, <1>7 DEF P!AuditInv, A!AuditInv
  <1>9. \A ids : P!AuditInv(ids)' <=> A!AuditInv(ids)'
    <2>1. \A code, id : P!FindingsOf(code, id)' = A!FindingsOf(code, id)'
                        /\ P!AuditedFor(code, id)' = A!AuditedFor(code, id)'
      BY <1>5 DEF P!FindingsOf, A!FindingsOf, P!AuditedFor, A!AuditedFor
    <2> QED
      BY <1>1, <1>7, <2>1 DEF P!AuditInv, A!AuditInv
  <1> QED
    BY <1>4, <1>8, <1>9

LEMMA AuditStarts == AInit => AuditInv
  <1> SUFFICES ASSUME AInit
               PROVE  AuditInv
    OBVIOUS
  <1>1. audited = 0 /\ findings = <<>> /\ out = <<>>
    BY DEF AInit, Init, StartWalk, A!StartAudit
  <1>2. \A code, id : A!FindingsOf(code, id) = {} /\ A!AuditedFor(code, id) = {}
    BY <1>1 DEF A!FindingsOf, A!AuditedFor
  <1>3. findings \in Seq(A!Anomalies(Classes \X Vendors \X Instances)) /\ audited \in 0..Len(out)
    BY <1>1
  <1> QED
    BY <1>1, <1>2, <1>3 DEF AuditInv, A!AuditInv

\* Nothing is audited before the reader returns, and it has nothing to do after.
LEMMA ParseHiveStep == RegistryInv /\ RegistryInv' /\ AuditInv /\ ParseHive => AuditInv'
  <1> SUFFICES ASSUME RegistryInv, RegistryInv', AuditInv, ParseHive
               PROVE  AuditInv'
    OBVIOUS
  <1>1. ~Returned
    BY SixteenClasses
       DEF ParseHive, Next, ReadClass, ApplyMount, Returned, RegistryInv, TypeOK
  <1>2. audited = 0 /\ audited' = 0 /\ findings' = findings
    BY <1>1 DEF AuditInv, ParseHive
  <1>3. out' \in Seq(Connections)
    BY DEF RegistryInv, TypeOK
  <1>4. Len(out') \in Nat
    BY <1>3
  <1>5. \A code, id : /\ A!AuditedFor(code, id) = {} /\ A!AuditedFor(code, id)' = {}
                      /\ A!FindingsOf(code, id)' = A!FindingsOf(code, id)
    BY <1>2, <1>1 DEF A!AuditedFor, A!FindingsOf, AuditInv, A!AuditInv
  <1>6. audited' \in 0..Len(out') /\ audited' = 0
        /\ findings' \in Seq(A!Anomalies(Classes \X Vendors \X Instances))
    BY <1>2, <1>4 DEF AuditInv, A!AuditInv
  <1>7. \A code \in A!Codes : \A id \in Classes \X Vendors \X Instances :
           A!Cardinality(A!FindingsOf(code, id)') = A!Cardinality(A!AuditedFor(code, id)')
    BY <1>5 DEF AuditInv, A!AuditInv
  <1> QED
    BY <1>6, <1>7 DEF AuditInv, A!AuditInv

LEMMA AuditNextStep == RegistryInv /\ AuditInv /\ AuditNext => AuditInv'
  <1> SUFFICES ASSUME RegistryInv, AuditInv, AuditNext
               PROVE  AuditInv'
    OBVIOUS
  <1> DEFINE ids == Classes \X Vendors \X Instances
  <1>1. /\ Returned /\ A!AuditDevice
        /\ hive' = hive /\ classes' = classes /\ out' = out /\ joined' = joined
    BY DEF AuditNext, vars
  <1>2. out \in Seq(Connections)
    BY DEF RegistryInv, TypeOK
  <1>3. \A k \in 1..Len(out) : P!IsDevice(ids, out[k])
    <2> TAKE k \in 1..Len(out)
    <2>1. out[k] \in Connections
      BY <1>2
    <2>2. out[k].bus \in Buses /\ out[k].device_instance_id \in ids
      BY <2>1 DEF Connections
    <2> QED
      BY <2>2 DEF P!IsDevice, P!Buses, Buses
  <1>4. P!AuditInv(ids) /\ P!AuditDevice
    BY <1>1, SameAuditor DEF AuditInv
  <1> HIDE DEF ids
  <1>5. P!AuditInv(ids)'
    BY <1>1, <1>2, <1>3, <1>4, P!AuditDeviceStep
  <1>6. A!AuditInv(ids)'
    BY <1>5, SameAuditor
  <1>7. Returned'
    BY <1>1 DEF Returned
  <1> QED
    BY <1>6, <1>7 DEF AuditInv, ids

LEMMA AuditStep == RegistryInv /\ RegistryInv' /\ AuditInv /\ [ANext]_avars => AuditInv'
  <1> SUFFICES ASSUME RegistryInv, RegistryInv', AuditInv, [ANext]_avars
               PROVE  AuditInv'
    OBVIOUS
  <1>1. CASE ParseHive
    BY <1>1, ParseHiveStep
  <1>2. CASE AuditNext
    BY <1>2, AuditNextStep
  <1>3. CASE UNCHANGED avars
    <2>1. /\ hive' = hive /\ classes' = classes /\ out' = out /\ joined' = joined
          /\ audited' = audited /\ findings' = findings
      BY <1>3 DEF avars, vars
    <2>2. \A code, id : A!AuditedFor(code, id)' = A!AuditedFor(code, id)
                        /\ A!FindingsOf(code, id)' = A!FindingsOf(code, id)
      BY <2>1 DEF A!AuditedFor, A!FindingsOf
    <2>3. Returned' = Returned
      BY <2>1 DEF Returned
    <2> QED
      BY <2>1, <2>2, <2>3 DEF AuditInv, A!AuditInv
  <1> QED
    BY <1>1, <1>2, <1>3 DEF ANext

\* The inductive invariant of the composition: as many findings of a code for an
\* instance as audited records of it that give the reason.
THEOREM AuditCorrect == ASpec => [](RegistryInv /\ AuditInv)
  <1>1. ASpec => []RegistryInv
    BY ReaderRuns, RegistryCorrect, PTL
  <1> QED
    BY <1>1, AuditStarts, AuditStep, PTL DEF ASpec

-----------------------------------------------------------------------------
(***************************************************************************)
(* Records and keys correspond one to one.                                 *)
(***************************************************************************)

\* A one-to-one correspondence keeps the size.
LEMMA OneToOne ==
    ASSUME NEW D, NEW K, NEW R, IsFiniteSet(D),
           \A d \in D : \E k \in K : <<d, k>> \in R,
           \A k \in K : \E d \in D : <<d, k>> \in R,
           \A d, e \in D : \A k \in K : <<d, k>> \in R /\ <<e, k>> \in R => d = e,
           \A d \in D : \A k, l \in K : <<d, k>> \in R /\ <<d, l>> \in R => k = l
    PROVE  Cardinality(D) = Cardinality(K)
  <1> DEFINE f == [d \in D |-> CHOOSE k \in K : <<d, k>> \in R]
  <1>1. \A d \in D : f[d] \in K /\ <<d, f[d]>> \in R
    OBVIOUS
  <1>2. f \in [D -> K]
    BY <1>1
  <1> HIDE DEF f
  <1>3. \A d, e \in D : f[d] = f[e] => d = e
    <2> TAKE d, e \in D
    <2> HAVE f[d] = f[e]
    <2>1. f[d] \in K /\ <<d, f[d]>> \in R /\ <<e, f[d]>> \in R
      BY <1>1
    <2> QED
      BY <2>1
  <1>4. \A k \in K : \E d \in D : f[d] = k
    <2> TAKE k \in K
    <2>1. PICK d \in D : <<d, k>> \in R
      OBVIOUS
    <2>2. f[d] \in K /\ <<d, f[d]>> \in R
      BY <1>1
    <2>3. f[d] = k
      BY <2>1, <2>2
    <2> QED
      BY <2>3
  <1>5. f \in Bijection(D, K)
    BY <1>2, <1>3, <1>4, Fun_IsBij
  <1>6. ExistsBijection(D, K)
    BY <1>5, Fun_ExistsBij
  <1> QED
    BY <1>6, FS_Bijection

\* A record gives the reason for an anomaly when its key does.
LEMMA SameReason ==
    ASSUME hive \in Hives, NEW n \in 0..15, NEW i \in DOMAIN KeysAt(n),
           NEW conn, BuiltFrom(conn, n, i), NEW code \in A!Codes
    PROVE  /\ A!Holds(code, conn) <=> Reason(code, <<ControlSetAt(n), ClassAt(n), i>>)
           /\ conn.device_instance_id = IdAt(<<ControlSetAt(n), ClassAt(n), i>>)
  <1> DEFINE k == <<ControlSetAt(n), ClassAt(n), i>>
             class == ClassAt(n)
             key == KeysAt(n)[i]
  <1>1. KeyAt(k) = key /\ k[2] = class
    BY DEF KeyAt, KeysAt
  <1>2. key \in InstanceKeys /\ key.mtp \in BOOLEAN
    BY KeyType DEF InstanceKeys
  <1>3. class \in {"USBSTOR", "USB", "SCSI", "THUNDERBOLT", "1394", "ESATA",
                   "SDBUS", "EXPRESSCARD"}
    BY SixteenClasses DEF Classes, ENUM_CLASSES
  <1>4. /\ conn.device_instance_id = <<class, key.vendor, key.inst>>
        /\ conn.bus = mtp_override(key.mtp, BusOf(class))
        /\ conn.serial_is_os_generated = serial_is_os_generated(key.inst)
        /\ conn.dma_capable = is_dma_capable(conn.bus)
    BY BuiltFields
  <1> HIDE DEF k, class, key
  <1>5. conn.device_instance_id = IdAt(k)
    BY <1>1, <1>4 DEF IdAt
  <1>6. A!Holds(code, conn) <=> Reason(code, k)
    <2>1. CASE code = "DmaCapableDevice"
      <3>1. A!Holds(code, conn) <=> is_dma_capable(conn.bus)
        BY <1>4, <2>1 DEF A!Holds
      <3>2. Reason(code, k) <=> class \in {"THUNDERBOLT", "1394", "EXPRESSCARD"}
        BY <1>1, <2>1 DEF Reason
      <3> QED
        BY <1>2, <1>3, <1>4, <3>1, <3>2 DEF mtp_override, BusOf, is_dma_capable
    <2>2. CASE code = "MassStorageConnected"
      <3>1. A!Holds(code, conn) <=> is_mass_storage(conn.bus)
        BY <2>2 DEF A!Holds, A!is_mass_storage, is_mass_storage
      <3>2. Reason(code, k) <=>
               /\ class \in {"USBSTOR", "USB", "SCSI", "ESATA", "SDBUS"}
               /\ ~(key.mtp /\ class \in {"USBSTOR", "USB"})
        BY <1>1, <2>2 DEF Reason
      <3> QED
        BY <1>2, <1>3, <1>4, <3>1, <3>2 DEF mtp_override, BusOf, is_mass_storage
    <2>3. CASE code = "HidDevice"
      <3>1. A!Holds(code, conn) <=> A!is_hid(conn)
        BY <2>3 DEF A!Holds
      <3>2. Reason(code, k) <=> key.vendor \in HidNames \/ key.inst \in HidNames
        BY <1>1, <2>3 DEF Reason
      <3>3. conn.bus # "Bluetooth"
        BY <1>2, <1>3, <1>4 DEF mtp_override, BusOf
      <3>4. NamesHid(conn.device_instance_id)
               <=> key.vendor \in HidNames \/ key.inst \in HidNames
        BY <1>4 DEF NamesHid
      <3> QED
        BY <3>1, <3>2, <3>3, <3>4 DEF A!is_hid
    <2>4. CASE code = "OsGeneratedSerial"
      BY <1>1, <1>4, <2>4 DEF A!Holds, Reason, serial_is_os_generated
    <2> QED
      BY <2>1, <2>2, <2>3, <2>4 DEF A!Codes
  <1> QED
    BY <1>5, <1>6 DEF k

LEMMA ReportedInv == RegistryInv /\ AuditInv => ReportedForItsReasons
  <1> SUFFICES ASSUME RegistryInv, AuditInv, AuditReturned,
                      NEW code \in A!Codes, NEW key \in Keys
               PROVE  Cardinality(A!FindingsOf(code, IdAt(key))) =
                         Cardinality({k \in Keys : IdAt(k) = IdAt(key) /\ Reason(code, k)})
    BY DEF ReportedForItsReasons
  <1> DEFINE id == IdAt(key)
             D == A!AuditedFor(code, id)
             K == {k \in Keys : IdAt(k) = id /\ Reason(code, k)}
             R == {e \in D \X K : \E n \in 0..15 : \E i \in DOMAIN KeysAt(n) :
                      BuiltFrom(out[e[1]], n, i) /\ e[2] = <<ControlSetAt(n), ClassAt(n), i>>}
  <1>1. /\ classes = 16 /\ audited = Len(out) /\ out \in Seq(Connections) /\ hive \in Hives
        /\ DOMAIN out = 1..audited /\ audited \in Nat
    <2>1. classes = 16 /\ audited = Len(out) /\ out \in Seq(Connections) /\ hive \in Hives
      BY SixteenClasses DEF AuditReturned, Returned, RegistryInv, TypeOK
    <2> QED
      BY <2>1
  \* A visited key is a key of the hive, and the other way round.
  <1>2. ASSUME NEW n \in 0..15, NEW i \in DOMAIN KeysAt(n)
        PROVE  <<ControlSetAt(n), ClassAt(n), i>> \in Keys
    <2>1. <<ControlSetAt(n), ClassAt(n)>> \in ControlSets \X Classes
      BY SixteenClasses
    <2> QED
      BY <2>1 DEF Keys, KeysAt
  <1>3. ASSUME NEW k \in Keys
        PROVE  \E n \in 0..15 : \E i \in DOMAIN KeysAt(n) :
                  k = <<ControlSetAt(n), ClassAt(n), i>>
    <2>1. PICK at \in ControlSets \X Classes :
             k \in {<<at[1], at[2], i>> : i \in DOMAIN hive.enum[at[1]][at[2]]}
      BY DEF Keys
    <2>2. PICK i \in DOMAIN hive.enum[at[1]][at[2]] : k = <<at[1], at[2], i>>
      BY <2>1
    <2>3. at[1] \in ControlSets /\ at[2] \in Classes
      OBVIOUS
    <2>4. PICK n \in 0..15 : ControlSetAt(n) = at[1] /\ ClassAt(n) = at[2]
      BY <2>3, AllVisited
    <2> QED
      BY <2>2, <2>4 DEF KeysAt
  <1>4. id \in Classes \X Vendors \X Instances
    <2>1. PICK n \in 0..15 : \E i \in DOMAIN KeysAt(n) :
             key = <<ControlSetAt(n), ClassAt(n), i>>
      BY <1>3
    <2>2. PICK i \in DOMAIN KeysAt(n) : key = <<ControlSetAt(n), ClassAt(n), i>>
      BY <2>1
    <2>3. KeysAt(n)[i] \in InstanceKeys /\ ClassAt(n) \in Classes
      BY <1>1, KeyType, SixteenClasses
    <2> QED
      BY <2>2, <2>3 DEF IdAt, KeyAt, KeysAt, InstanceKeys
  <1>5. Cardinality(A!FindingsOf(code, id)) = Cardinality(D)
    BY <1>4, SameSize DEF AuditInv, A!AuditInv
  <1>6. IsFiniteSet(D)
    <2>1. IsFiniteSet(1..audited)
      BY <1>1, FS_Interval
    <2> QED
      BY <2>1, FS_Subset DEF A!AuditedFor
  <1>7. ASSUME NEW d \in D
        PROVE  \E k \in K : <<d, k>> \in R
    <2>1. d \in DOMAIN out /\ out[d].device_instance_id = id /\ A!Holds(code, out[d])
      BY <1>1 DEF A!AuditedFor
    <2>2. PICK n \in 0..15 : \E i \in DOMAIN KeysAt(n) : BuiltFrom(out[d], n, i)
      BY <2>1, KeyOfRecord
    <2>3. PICK i \in DOMAIN KeysAt(n) : BuiltFrom(out[d], n, i)
      BY <2>2
    <2> DEFINE k == <<ControlSetAt(n), ClassAt(n), i>>
    <2>4. k \in Keys /\ IdAt(k) = id /\ Reason(code, k)
      BY <1>1, <1>2, <2>1, <2>3, SameReason
    <2>5. k \in K
      BY <2>4
    <2>6. <<d, k>> \in R
      BY <2>3, <2>5
    <2> QED
      BY <2>5, <2>6
  <1>8. ASSUME NEW k \in K
        PROVE  \E d \in D : <<d, k>> \in R
    <2>1. PICK n \in 0..15 : \E i \in DOMAIN KeysAt(n) :
             k = <<ControlSetAt(n), ClassAt(n), i>>
      BY <1>3
    <2>2. PICK i \in DOMAIN KeysAt(n) : k = <<ControlSetAt(n), ClassAt(n), i>>
      BY <2>1
    <2>3. n \in 0..(classes - 1)
      BY <1>1
    <2>4. PICK d \in DOMAIN out : BuiltFrom(out[d], n, i)
      BY <2>3 DEF RegistryInv, KeysAreRecords
    <2>5. out[d].device_instance_id = id /\ A!Holds(code, out[d])
      BY <1>1, <2>2, <2>4, SameReason
    <2>6. d \in D
      BY <1>1, <2>5 DEF A!AuditedFor
    <2>7. <<d, k>> \in R
      BY <2>2, <2>4, <2>6
    <2> QED
      BY <2>6, <2>7
  <1>9. ASSUME NEW e \in R, NEW g \in R
        PROVE  /\ e[2] = g[2] => e[1] = g[1]
               /\ e[1] = g[1] => e[2] = g[2]
    <2>1. PICK n \in 0..15 : \E i \in DOMAIN KeysAt(n) :
             BuiltFrom(out[e[1]], n, i) /\ e[2] = <<ControlSetAt(n), ClassAt(n), i>>
      OBVIOUS
    <2>2. PICK i \in DOMAIN KeysAt(n) :
             BuiltFrom(out[e[1]], n, i) /\ e[2] = <<ControlSetAt(n), ClassAt(n), i>>
      BY <2>1
    <2>3. PICK m \in 0..15 : \E j \in DOMAIN KeysAt(m) :
             BuiltFrom(out[g[1]], m, j) /\ g[2] = <<ControlSetAt(m), ClassAt(m), j>>
      OBVIOUS
    <2>4. PICK j \in DOMAIN KeysAt(m) :
             BuiltFrom(out[g[1]], m, j) /\ g[2] = <<ControlSetAt(m), ClassAt(m), j>>
      BY <2>3
    <2>5. e[1] \in DOMAIN out /\ g[1] \in DOMAIN out
      BY <1>1 DEF A!AuditedFor
    <2> HIDE DEF R
    <2>6. e[2] = g[2] => e[1] = g[1]
      <3> HAVE e[2] = g[2]
      <3>1. ControlSetAt(m) = ControlSetAt(n) /\ ClassAt(m) = ClassAt(n) /\ i = j
        <4>1. <<ControlSetAt(n), ClassAt(n), i>> = <<ControlSetAt(m), ClassAt(m), j>>
          BY <2>2, <2>4, Zenon
        <4> QED
          BY <4>1
      <3>2. m = n
        BY <3>1, VisitedOnce
      <3>3. out[e[1]].key_path = out[g[1]].key_path
        BY <2>2, <2>4, <3>1, <3>2, BuiltFields
      <3> QED
        BY <2>5, <3>3 DEF RegistryInv, PathsDiffer
    <2>7. e[1] = g[1] => e[2] = g[2]
      <3> HAVE e[1] = g[1]
      <3>1. BuiltFrom(out[e[1]], n, i) /\ BuiltFrom(out[e[1]], m, j)
        BY <2>2, <2>4
      <3>2. n = m /\ i = j
        <4>1. hive \in Hives /\ out[e[1]].key_path = out[e[1]].key_path
          BY <1>1
        <4>2. PICK c : c = out[e[1]]
          OBVIOUS
        <4>3. BuiltFrom(c, n, i) /\ BuiltFrom(c, m, j) /\ c.key_path = c.key_path
          BY <3>1, <4>2
        <4> QED
          BY <4>1, <4>3, OneKey
      <3> QED
        BY <2>2, <2>4, <3>2
    <2> QED
      BY <2>6, <2>7
  <1> HIDE DEF D, K, R
  <1>10. /\ \A d, e \in D : \A k \in K : <<d, k>> \in R /\ <<e, k>> \in R => d = e
         /\ \A d \in D : \A k, l \in K : <<d, k>> \in R /\ <<d, l>> \in R => k = l
    BY <1>9
  <1>11. Cardinality(D) = Cardinality(K)
    BY <1>6, <1>7, <1>8, <1>10, OneToOne
  <1> QED
    BY <1>5, <1>11 DEF K

\* End to end, for any hive: each anomaly of a device is reported once for each
\* instance key of it that gives the reason, and never without one
\* (parse_registry, then audit).
THEOREM ReportedRight == ASpec => []ReportedForItsReasons
  BY AuditCorrect, ReportedInv, PTL

-----------------------------------------------------------------------------
(***************************************************************************)
(* The two readers of one device (Pipeline).                               *)
(***************************************************************************)

\* The setupapi reader's table of buses agrees with the registry reader's.
LEMMA SameBus ==
    ASSUME NEW class \in Classes
    PROVE  S!from_enumerator(class) = BusOf(class)
  <1>1. class \in {"USBSTOR", "USB", "SCSI", "THUNDERBOLT", "1394", "ESATA",
                   "SDBUS", "EXPRESSCARD"}
    BY DEF Classes, ENUM_CLASSES
  <1>2. DOMAIN S!EnumeratorsOf =
           {"Usb", "FireWire", "Thunderbolt", "Pcie", "ScsiSas", "Nvme", "SdMmc", "Esata",
            "Bluetooth", "ExpressCard", "Mtp"}
    BY DEF S!EnumeratorsOf
  <1>3. BusOf(class) \in DOMAIN S!EnumeratorsOf
    BY <1>1, <1>2 DEF BusOf
  <1>4. \A b \in DOMAIN S!EnumeratorsOf : class \in S!EnumeratorsOf[b] <=> b = BusOf(class)
    <2> TAKE b \in DOMAIN S!EnumeratorsOf
    <2>1. CASE class \in {"USBSTOR", "USB"}
      BY <1>2, <2>1 DEF S!EnumeratorsOf, BusOf
    <2>2. CASE class = "SCSI"
      BY <1>2, <2>2 DEF S!EnumeratorsOf, BusOf
    <2>3. CASE class = "THUNDERBOLT"
      BY <1>2, <2>3 DEF S!EnumeratorsOf, BusOf
    <2>4. CASE class = "1394"
      BY <1>2, <2>4 DEF S!EnumeratorsOf, BusOf
    <2>5. CASE class = "ESATA"
      BY <1>2, <2>5 DEF S!EnumeratorsOf, BusOf
    <2>6. CASE class = "SDBUS"
      BY <1>2, <2>6 DEF S!EnumeratorsOf, BusOf
    <2>7. CASE class = "EXPRESSCARD"
      BY <1>2, <2>7 DEF S!EnumeratorsOf, BusOf
    <2> QED
      BY <1>1, <2>1, <2>2, <2>3, <2>4, <2>5, <2>6, <2>7
  <1> QED
    BY <1>3, <1>4 DEF S!from_enumerator

\* On a name Windows writes, reading the first segment of a tag or the last, four
\* digits or up to four, is the same; with fewer digits the first finds none.
LEMMA SameNumber ==
    ASSUME NEW v \in Vendors, NEW tag, Plain(tag, SegmentsOf[v])
    PROVE  /\ hex4(tag, v) \in {S!parse_vid_pid(tag, SegmentsOf[v]), None}
           /\ WellFormed(tag, SegmentsOf[v]) =>
                 S!parse_vid_pid(tag, SegmentsOf[v]) = hex4(tag, v)
  <1> DEFINE segs == SegmentsOf[v]
             T == Tagged(tag, segs)
             found == {i \in T : Width(segs[i]) >= Asked(segs[i])}
  <1>1. segs \in Seq(Segments)
    BY NamesHaveSegments
  <1>2. T \subseteq Nat /\ T \subseteq DOMAIN segs /\ S!Tagged(tag, segs) = T
    BY <1>1 DEF Tagged, S!Tagged
  <1>3. \A i, j \in T : i = j /\ ~segs[i].plus /\ Width(segs[i]) <= 4
    BY DEF Plain
  <1>4. WellFormed(tag, segs) => \A i \in T : Width(segs[i]) = 4
    BY DEF WellFormed
  <1>5. S!parse_vid_pid(tag, segs) = IF T = {} THEN None ELSE S!hex_prefix(segs[S!Max(T)])
    BY <1>2 DEF S!parse_vid_pid
  <1>6. hex4(tag, v) = IF found = {} THEN None
                       ELSE SubSeq(segs[Min(found)].digits, 1,
                                   Asked(segs[Min(found)]) - segs[Min(found)].zeros)
    BY DEF hex4
  <1> HIDE DEF T, segs
  <1>7. CASE T = {}
    <2>1. found = {}
      BY <1>7
    <2> QED
      BY <1>5, <1>6, <1>7, <2>1 DEF segs
  <1>8. CASE T # {}
    <2>1. PICK x \in T : T = {x}
      BY <1>3, <1>8
    <2>2. PICK seg : seg = segs[x]
      OBVIOUS
    <2>3. x \in Nat /\ seg \in Segments /\ ~seg.plus /\ Width(seg) <= 4
      BY <1>1, <1>2, <1>3, <2>2
    <2>4. /\ seg.digits \in Numbers /\ seg.digits \in Seq(Digits)
          /\ Len(seg.digits) \in Nat /\ seg.zeros \in Nat
          /\ Asked(seg) = 4 /\ Width(seg) = seg.zeros + Len(seg.digits)
      BY <2>3 DEF Segments, Numbers, Asked, Width
    <2>5. S!Max({x}) = x
      BY <2>3 DEF S!Max
    <2>6. Min({x}) = x
      BY <2>3 DEF Min
    <2>7. CASE Width(seg) < 4
      <3>1. found = {}
        BY <2>1, <2>2, <2>4, <2>7
      <3>2. ~WellFormed(tag, segs)
        BY <1>4, <2>2, <2>4, <2>7
      <3> QED
        BY <1>6, <3>1, <3>2 DEF segs
    <2>8. CASE Width(seg) = 4
      <3>1. found = {x}
        BY <2>1, <2>2, <2>4, <2>8
      <3>2. 4 - seg.zeros = Len(seg.digits)
        BY <2>4, <2>8
      <3>3. hex4(tag, v) = seg.digits
        BY <1>6, <2>2, <2>4, <2>6, <3>1, <3>2, SubSeqFull
      <3>4. S!hex_prefix(seg) = seg.digits
        <4>1. S!Width(seg) > 0
          BY <2>4, <2>8 DEF S!Width
        <4>2. seg.digits \in S!Ids
          BY <2>4, <2>8 DEF S!Ids, S!Numbers, Numbers
        <4> QED
          BY <2>3, <4>1, <4>2 DEF S!hex_prefix
      <3> QED
        BY <1>5, <2>1, <2>2, <2>5, <3>3, <3>4 DEF segs
    <2> QED
      BY <2>3, <2>4, <2>7, <2>8
  <1> QED
    BY <1>7, <1>8

\* What Windows writes is nothing but four digits.
LEMMA WellFormedIsPlain ==
    ASSUME NEW tag, NEW segs, WellFormed(tag, segs)
    PROVE  Plain(tag, segs)
  BY DEF WellFormed, Plain

\* The codes of a list of findings.
CodesOf(s) == {s[i].code : i \in DOMAIN s}

LEMMA JoinedCodes ==
    ASSUME NEW X, NEW s \in Seq(X), NEW t \in Seq(X)
    PROVE  s \o t \in Seq(X) /\ CodesOf(s \o t) = CodesOf(s) \cup CodesOf(t)
  <1> DEFINE u == s \o t
             n == Len(s)
  <1>1. /\ u \in Seq(X) /\ DOMAIN s = 1..n /\ DOMAIN t = 1..Len(t)
        /\ n \in Nat /\ Len(t) \in Nat /\ DOMAIN u = 1..(n + Len(t))
        /\ \A i \in DOMAIN s : u[i] = s[i]
        /\ \A i \in DOMAIN t : u[n + i] = t[i]
        /\ \A i \in DOMAIN u : i \in DOMAIN s \/ \E j \in DOMAIN t : i = n + j
    BY P!Appended
  <1>2. \A i \in DOMAIN s : i \in DOMAIN u
    BY <1>1
  <1>3. \A i \in DOMAIN t : n + i \in DOMAIN u
    BY <1>1
  <1> HIDE DEF u, n
  <1>4. CodesOf(u) \subseteq CodesOf(s) \cup CodesOf(t)
    <2> SUFFICES ASSUME NEW i \in DOMAIN u
                 PROVE  u[i].code \in CodesOf(s) \cup CodesOf(t)
      BY DEF CodesOf
    <2>1. CASE i \in DOMAIN s
      BY <1>1, <2>1 DEF CodesOf
    <2>2. CASE i \notin DOMAIN s
      <3>1. PICK j \in DOMAIN t : i = n + j
        BY <1>1, <2>2
      <3> QED
        BY <1>1, <3>1 DEF CodesOf
    <2> QED
      BY <2>1, <2>2
  <1>5. \A i \in DOMAIN s : s[i].code \in CodesOf(u)
    <2> TAKE i \in DOMAIN s
    <2>1. u[i].code = s[i].code /\ i \in DOMAIN u
      BY <1>1, <1>2
    <2> QED
      BY <2>1 DEF CodesOf
  <1>6. \A i \in DOMAIN t : t[i].code \in CodesOf(u)
    <2> TAKE i \in DOMAIN t
    <2>1. u[n + i].code = t[i].code /\ n + i \in DOMAIN u
      BY <1>1, <1>3
    <2> HIDE <1>1, <1>3
    <2> QED
      BY <2>1 DEF CodesOf
  <1>7. CodesOf(s) \cup CodesOf(t) \subseteq CodesOf(u)
    BY <1>5, <1>6 DEF CodesOf
  <1>8. u \in Seq(X)
    BY <1>1
  <1> QED
    BY <1>4, <1>7, <1>8 DEF u

\* The auditor reports a code of a record when it has the reason.
LEMMA CodesAre ==
    ASSUME NEW d
    PROVE  Codes(d) = (IF d.dma_capable THEN {"DmaCapableDevice"} ELSE {})
                      \cup (IF is_mass_storage(d.bus) THEN {"MassStorageConnected"} ELSE {})
                      \cup (IF A!is_hid(d) THEN {"HidDevice"} ELSE {})
                      \cup (IF d.serial_is_os_generated THEN {"OsGeneratedSerial"} ELSE {})
  <1> DEFINE X == {A!Anomaly(c, d) : c \in A!Codes}
  <1>1. ASSUME NEW c \in A!Codes, NEW w \in {<<>>, <<A!Anomaly(c, d)>>}
        PROVE  w \in Seq(X) /\ CodesOf(w) = IF w = <<>> THEN {} ELSE {c}
    <2>1. A!Anomaly(c, d) \in X /\ A!Anomaly(c, d).code = c
      BY DEF A!Anomaly
    <2> HIDE DEF X
    <2>2. PICK a : a = A!Anomaly(c, d)
      OBVIOUS
    <2>3. a \in X /\ a.code = c /\ (w = <<>> \/ w = <<a>>)
      BY <2>1, <2>2
    <2>4. CASE w = <<>>
      BY <2>4 DEF CodesOf
    <2>5. CASE w = <<a>>
      <3>1. DOMAIN w = {1} /\ w[1] = a /\ w # <<>> /\ w \in Seq(X)
        BY <2>3, <2>5
      <3>2. CodesOf(w) = {w[1].code}
        BY <3>1 DEF CodesOf
      <3> QED
        BY <2>3, <3>1, <3>2
    <2> QED
      BY <2>3, <2>4, <2>5
  <1>2. PICK w1, w2, w3, w4 :
           /\ w1 = A!When(d.dma_capable, "DmaCapableDevice", d)
           /\ w2 = A!When(is_mass_storage(d.bus), "MassStorageConnected", d)
           /\ w3 = A!When(A!is_hid(d), "HidDevice", d)
           /\ w4 = A!When(d.serial_is_os_generated, "OsGeneratedSerial", d)
    OBVIOUS
  <1>3. A!anomalies(d) = ((w1 \o w2) \o w3) \o w4
    BY <1>2 DEF A!anomalies, A!is_mass_storage, is_mass_storage
  <1>4. /\ w1 \in {<<>>, <<A!Anomaly("DmaCapableDevice", d)>>}
        /\ w2 \in {<<>>, <<A!Anomaly("MassStorageConnected", d)>>}
        /\ w3 \in {<<>>, <<A!Anomaly("HidDevice", d)>>}
        /\ w4 \in {<<>>, <<A!Anomaly("OsGeneratedSerial", d)>>}
    BY <1>2 DEF A!When
  <1>5. /\ w1 = <<>> <=> ~d.dma_capable
        /\ w2 = <<>> <=> ~is_mass_storage(d.bus)
        /\ w3 = <<>> <=> ~A!is_hid(d)
        /\ w4 = <<>> <=> ~d.serial_is_os_generated
    BY <1>2 DEF A!When
  <1>6. "DmaCapableDevice" \in A!Codes /\ "MassStorageConnected" \in A!Codes
        /\ "HidDevice" \in A!Codes /\ "OsGeneratedSerial" \in A!Codes
    BY DEF A!Codes
  <1> HIDE DEF X
  <1>7. w1 \in Seq(X) /\ CodesOf(w1) = IF w1 = <<>> THEN {} ELSE {"DmaCapableDevice"}
    BY <1>1, <1>4, <1>6, Zenon
  <1>8. w2 \in Seq(X) /\ CodesOf(w2) = IF w2 = <<>> THEN {} ELSE {"MassStorageConnected"}
    BY <1>1, <1>4, <1>6, Zenon
  <1>9. w3 \in Seq(X) /\ CodesOf(w3) = IF w3 = <<>> THEN {} ELSE {"HidDevice"}
    BY <1>1, <1>4, <1>6, Zenon
  <1>10. w4 \in Seq(X) /\ CodesOf(w4) = IF w4 = <<>> THEN {} ELSE {"OsGeneratedSerial"}
    BY <1>1, <1>4, <1>6, Zenon
  <1>11. PICK x, y : x = w1 \o w2 /\ y = x \o w3
    OBVIOUS
  <1>12. x \in Seq(X) /\ CodesOf(x) = CodesOf(w1) \cup CodesOf(w2)
    BY <1>7, <1>8, <1>11, JoinedCodes
  <1>13. y \in Seq(X) /\ CodesOf(y) = CodesOf(x) \cup CodesOf(w3)
    <2>1. x \in Seq(X) /\ w3 \in Seq(X)
      BY <1>9, <1>12
    <2>2. CodesOf(x \o w3) = CodesOf(x) \cup CodesOf(w3)
      BY <2>1, JoinedCodes
    <2>3. x \o w3 \in Seq(X)
      BY <2>1, ConcatProperties
    <2> QED
      BY <1>11, <2>2, <2>3
  <1>14. CodesOf(y \o w4) = CodesOf(y) \cup CodesOf(w4)
    BY <1>10, <1>13, JoinedCodes
  <1>15. Codes(d) = CodesOf(y \o w4)
    BY <1>3, <1>11, Zenon DEF Codes, CodesOf
  <1> QED
    BY <1>5, <1>7, <1>8, <1>9, <1>10, <1>12, <1>13, <1>14, <1>15

LEMMA SourcesAgreeInv == RegistryInv => SourcesAgree
  <1> SUFFICES ASSUME RegistryInv, NEW k \in DOMAIN out
               PROVE  LET conn == out[k]
                          logged == Logged(conn)
                          name == LoggedPath(conn).device_id IN
        /\ logged.bus = IF IsPhone(conn) THEN "Usb" ELSE conn.bus
        /\ logged.dma_capable = conn.dma_capable
        /\ logged.serial_is_os_generated = (conn.serial_is_os_generated \/ IsWide(conn))
        /\ logged.device_serial =
              IF logged.serial_is_os_generated THEN None ELSE conn.device_serial
        /\ WellFormed("VID", name) => logged.vid = conn.vid
        /\ WellFormed("PID", name) => logged.pid = conn.pid
        /\ Plain("VID", name) => conn.vid \in {logged.vid, None}
        /\ Plain("PID", name) => conn.pid \in {logged.pid, None}
        /\ Codes(logged) = Codes(conn) \cup When(IsPhone(conn), "MassStorageConnected")
                                       \cup When(IsWide(conn), "OsGeneratedSerial")
    BY DEF SourcesAgree
  <1>1. PICK n \in 0..15 : \E i \in DOMAIN KeysAt(n) : BuiltFrom(out[k], n, i)
    BY KeyOfRecord
  <1>2. PICK i \in DOMAIN KeysAt(n) : BuiltFrom(out[k], n, i)
    BY <1>1
  <1>3. PICK conn, logged, class, key :
           conn = out[k] /\ logged = Logged(conn) /\ class = ClassAt(n) /\ key = KeysAt(n)[i]
    OBVIOUS
  <1>4. /\ conn.device_instance_id = <<class, key.vendor, key.inst>>
        /\ conn.bus = mtp_override(key.mtp, BusOf(class))
        /\ conn.vid = hex4("VID", key.vendor)
        /\ conn.pid = hex4("PID", key.vendor)
        /\ conn.device_serial = device_serial(key.inst)
        /\ conn.serial_is_os_generated = serial_is_os_generated(key.inst)
        /\ conn.dma_capable = is_dma_capable(conn.bus)
    BY <1>2, <1>3, BuiltFields
  <1>5. key \in InstanceKeys /\ class \in Classes
    BY <1>3, KeyType, SixteenClasses DEF RegistryInv, TypeOK
  <1>6. key.vendor \in Vendors /\ key.inst \in Instances /\ key.mtp \in BOOLEAN
    BY <1>5 DEF InstanceKeys
  <1>7. LoggedPath(conn) = [enumerator |-> class, device_id |-> SegmentsOf[key.vendor],
                            serial |-> key.inst, len |-> 1]
    BY <1>4 DEF LoggedPath
  <1>8. /\ logged.bus = S!from_enumerator(class)
        /\ logged.vid = S!parse_vid_pid("VID", SegmentsOf[key.vendor])
        /\ logged.pid = S!parse_vid_pid("PID", SegmentsOf[key.vendor])
        /\ logged.device_serial = S!device_serial(LoggedPath(conn))
        /\ logged.serial_is_os_generated = S!is_os_generated_serial(key.inst)
        /\ logged.device_instance_id = conn.device_instance_id
        /\ logged.dma_capable = S!is_dma_capable(S!from_enumerator(class))
    BY <1>3, <1>7 DEF Logged, S!build_connection
  <1>9. logged.bus = BusOf(class)
    BY <1>5, <1>8, SameBus
  <1>10. class \in {"USBSTOR", "USB", "SCSI", "THUNDERBOLT", "1394", "ESATA",
                    "SDBUS", "EXPRESSCARD"}
    BY <1>5 DEF Classes, ENUM_CLASSES
  <1>11. logged.bus = IF IsPhone(conn) THEN "Usb" ELSE conn.bus
    BY <1>4, <1>6, <1>9, <1>10 DEF IsPhone, mtp_override, BusOf
  <1>12. logged.dma_capable = is_dma_capable(logged.bus)
    BY <1>8 DEF S!is_dma_capable, is_dma_capable
  <1>13. logged.dma_capable = conn.dma_capable
    BY <1>4, <1>11, <1>12 DEF is_dma_capable, IsPhone
  <1>14. IsWide(conn) <=> key.inst \in AmpSecond \cap WideFirst
    BY <1>4 DEF IsWide
  <1>15. logged.serial_is_os_generated = (conn.serial_is_os_generated \/ IsWide(conn))
    <2>1. logged.serial_is_os_generated <=> key.inst \in AmpSecond
      BY <1>8 DEF S!is_os_generated_serial
    <2>2. conn.serial_is_os_generated <=> key.inst \in AmpSecond \ WideFirst
      BY <1>4 DEF serial_is_os_generated
    <2>3. logged.serial_is_os_generated \in BOOLEAN
      BY <1>8 DEF S!is_os_generated_serial
    <2> QED
      BY <1>14, <2>1, <2>2, <2>3
  <1>16. logged.device_serial =
            IF logged.serial_is_os_generated THEN None ELSE conn.device_serial
    <2>1. LoggedPath(conn).serial = key.inst
      BY <1>7
    <2> QED
      BY <1>4, <1>8, <2>1 DEF S!device_serial, device_serial
  <1>17. LoggedPath(conn).device_id = SegmentsOf[key.vendor]
    BY <1>7
  <1>18. ASSUME NEW tag
         PROVE  LET mine == hex4(tag, key.vendor)
                    logs == S!parse_vid_pid(tag, SegmentsOf[key.vendor]) IN
                /\ WellFormed(tag, SegmentsOf[key.vendor]) => logs = mine
                /\ Plain(tag, SegmentsOf[key.vendor]) => mine \in {logs, None}
    BY <1>6, SameNumber, WellFormedIsPlain
  <1>19. /\ WellFormed("VID", LoggedPath(conn).device_id) => logged.vid = conn.vid
         /\ WellFormed("PID", LoggedPath(conn).device_id) => logged.pid = conn.pid
         /\ Plain("VID", LoggedPath(conn).device_id) => conn.vid \in {logged.vid, None}
         /\ Plain("PID", LoggedPath(conn).device_id) => conn.pid \in {logged.pid, None}
    BY <1>4, <1>8, <1>17, <1>18
  <1>20. conn.bus # "Bluetooth" /\ logged.bus # "Bluetooth"
    BY <1>4, <1>9, <1>10 DEF mtp_override, BusOf
  <1>21. A!is_hid(conn) <=> A!is_hid(logged)
    BY <1>8, <1>20 DEF A!is_hid
  <1>22. is_mass_storage(logged.bus) <=> is_mass_storage(conn.bus) \/ IsPhone(conn)
    BY <1>11 DEF IsPhone, is_mass_storage
  <1>23. Codes(logged) = Codes(conn) \cup When(IsPhone(conn), "MassStorageConnected")
                                     \cup When(IsWide(conn), "OsGeneratedSerial")
    BY <1>13, <1>15, <1>21, <1>22, CodesAre DEF When
  <1> QED
    BY <1>3, <1>11, <1>13, <1>15, <1>16, <1>19, <1>23, Zenon

\* The registry reader and the setupapi reader describe one device alike but for
\* phones, serials that begin with a wide character and ids not of four digits,
\* and for these it is said how they differ (registry.rs, setupapi.rs, audit).
THEOREM SourcesAgreeAlways == ASpec => []SourcesAgree
  BY AuditCorrect, SourcesAgreeInv, PTL
=============================================================================
