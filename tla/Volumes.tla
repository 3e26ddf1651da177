------------------------------- MODULE Volumes -------------------------------
(***************************************************************************)
(* What the four volume readers say together of the hives Windows wrote.   *)
(*                                                                         *)
(* Windows is external.  It mounts volumes at letters and remembers every  *)
(* mount: MountedDevices keeps the last volume of each letter and one GUID *)
(* per volume, EMDMgmt every volume it saw, VolumeInfoCache the label that *)
(* was at a letter when the search indexer last looked, MountPoints2 when  *)
(* the user last opened a volume.  A volume is known to Windows by its     *)
(* data in MountedDevices alone: two disks cloned from one image are one   *)
(* volume to it, which is why it never mounts both at once.                *)
(*                                                                         *)
(* The readers are of one key each; they run here in a fixed order, since  *)
(* none looks at what another did.                                         *)
(***************************************************************************)
EXTENDS MountedVolumes, MountPoints2, VolumeInfo, SequencesExt

CONSTANTS Disks,       \* the volumes of the machine
          Letters,
          Serials,     \* volume serials
          IdOf,        \* volume -> its data in MountedDevices
          LabelOf,     \* volume -> its label
          PrefixOf,    \* volume -> the device prefix of its EMDMgmt subkey
          SerialOf,    \* volume -> its serial
          StrayMounts, \* MountedDevices values the hive was installed with
          StrayUser,   \* MountPoints2 subkeys that name no volume
          StrayLabels, \* VolumeInfoCache subkeys without a letter or a label
          StrayEmd,    \* EMDMgmt subkeys without a serial
          MaxMounts    \* bound: mounts

E == INSTANCE EmdMgmt

VARIABLES hive,        \* the entries of the four keys
          at,          \* letter -> the volume mounted there
          past,        \* history: the mounts, in order
          cached,      \* history: letter -> the mount its cached label is of
          collected,   \* the hives were taken
          mountedRead, volumes,      \* MountedDevices scan
          userRead, userMounts,      \* MountPoints2 scan
          cacheRead, labels,         \* VolumeInfoCache scan
          emdRead, emdVolumes        \* EMDMgmt scan

windows == <<hive, at, past, cached, collected>>
scans == <<mountedRead, volumes, userRead, userMounts, cacheRead, labels,
           emdRead, emdVolumes>>
vars == <<windows, scans>>

Mounted == INSTANCE KeyScan WITH
    Decode <- MountedVolume, entries <- hive.mounted, read <- mountedRead, out <- volumes
User == INSTANCE KeyScan WITH
    Decode <- UserMount, entries <- hive.user, read <- userRead, out <- userMounts
Cached == INSTANCE KeyScan WITH
    Decode <- VolumeLabel, entries <- hive.cache, read <- cacheRead, out <- labels
Emd == INSTANCE KeyScan WITH
    Decode <- E!parse_emd_name, entries <- hive.emd, read <- emdRead, out <- emdVolumes

Optional(S) == S \cup {None}

Ids == {IdOf[v] : v \in Disks}

Characters == STRING

Upper(l) == [of |-> l, case |-> "upper"]
Guid(id) == [of |-> id, case |-> "lower"]

\* The records of the four readers.
VolumeRecords ==
    [drive_letter : Optional({Upper(l) : l \in Letters}),
     volume_guid : Optional({Guid(id) : id \in Ids}),
     disk_signature : {i.sig : i \in Ids}, partition_offset : {i.offset : i \in Ids}]
UserRecords == [volume_guid : {Guid(id) : id \in Ids}, last_mounted : 0..MaxMounts]
LabelRecords ==
    [drive_letter : {Upper(l) : l \in Letters}, volume_label : {LabelOf[v] : v \in Disks} \ {<<>>}]
EmdRecords == [volume_label : Seq(Characters), volume_serial : Serials]

ASSUME NoneIsNoData ==
    /\ None \notin Disks \cup Serials
    /\ None \notin [of : Letters \cup Ids, case : {"upper", "lower"}]
    /\ None \notin [sig : {i.sig : i \in Ids}, offset : {i.offset : i \in Ids}]
    /\ None \notin Seq(Characters)
    /\ None \notin VolumeRecords \cup UserRecords \cup LabelRecords
    /\ None \notin EmdRecords

ASSUME BoundIsNat == MaxMounts \in Nat

\* Volumes have labels and prefixes of characters, and a serial is no underscore.
ASSUME NamesAreText ==
    /\ "_" \in Characters
    /\ LabelOf \in [Disks -> Seq(Characters)]
    /\ PrefixOf \in [Disks -> Seq(Characters)]
    /\ Serials \subseteq Characters \ {"_"}
    /\ SerialOf \in [Disks -> Serials]

\* Data of twelve bytes is a signature and an offset, and no more.
ASSUME MbrIsSignatureAndOffset ==
    \A a, b \in Ids : a.len = 12 /\ b.len = 12 /\ a.sig = b.sig /\ a.offset = b.offset => a = b

-----------------------------------------------------------------------------
(* Windows *)

\* Two entries of a key have one name when they differ in case at most.
SameName(n, m) == n.kind = m.kind /\ n.spelled.of = m.spelled.of

\* A key holds one entry of a name.
Once(entries) ==
    \A i, j \in DOMAIN entries : SameName(entries[i].name, entries[j].name) => i = j

IsList(s) == s \in Seq(Range(s))

\* Names are spelled so that every reader has to normalise them.
Name(kind, of, case) == [kind |-> kind, spelled |-> [of |-> of, case |-> case]]

MountNames ==
    {Name("dos", l, "lower") : l \in Letters} \cup {Name("volume", id, "mixed") : id \in Ids}

\* What the keys held before Windows wrote to them names no volume.
ASSUME StraysAreNoVolumes ==
    /\ \A stray \in {StrayMounts, StrayUser, StrayLabels, StrayEmd} : IsList(stray)
    /\ Once(StrayMounts)
    /\ \A e \in Range(StrayMounts) :
           MountedVolume(e) = None /\ \A n \in MountNames : ~SameName(e.name, n)
    /\ \A e \in Range(StrayUser) : e.name.kind # "braced"
    /\ \A e \in Range(StrayLabels) :
           VolumeLabel(e) = None /\ \A l \in Letters : ~SameName(e.name, Name("letter", l, "lower"))
    /\ \A e \in Range(StrayEmd) : E!parse_emd_name(e) = None

\* An entry with this name is overwritten and keeps its spelling.
Write(entries, new) ==
    LET old == {i \in DOMAIN entries : SameName(entries[i].name, new.name)} IN
    IF old = {} THEN Append(entries, new)
    ELSE [i \in DOMAIN entries |->
            IF i \in old THEN [new EXCEPT !.name = entries[i].name] ELSE entries[i]]

WriteOnce(entries, new) == IF Contains(entries, new) THEN entries ELSE Append(entries, new)

LetterEntry(l, v) == [name |-> Name("dos", l, "lower"), raw |-> IdOf[v]]
VolumeEntry(id) == [name |-> Name("volume", id, "mixed"), raw |-> id]
UserEntry(id, n) == [name |-> Name("braced", id, "upper"), last_written |-> n]
CacheEntry(l, v) == [name |-> Name("letter", l, "lower"), label |-> LabelOf[v]]
EmdName(v) == PrefixOf[v] \o <<"_", "_">> \o LabelOf[v] \o <<"_", SerialOf[v]>>

InUse(v) == \E l \in Letters : at[l] # None /\ IdOf[at[l]] = IdOf[v]

Mount(v, l) ==
    /\ ~collected
    /\ Len(past) < MaxMounts
    /\ at[l] = None
    /\ ~InUse(v)
    /\ at' = [at EXCEPT ![l] = v]
    /\ past' = Append(past, [volume |-> v, letter |-> l])
    /\ hive' = [hive EXCEPT
         !.mounted = Write(Write(@, LetterEntry(l, v)), VolumeEntry(IdOf[v])),
         !.emd = WriteOnce(@, EmdName(v))]
    /\ UNCHANGED <<cached, collected, scans>>

Unmount(l) ==
    /\ ~collected
    /\ at[l] # None
    /\ at' = [at EXCEPT ![l] = None]
    /\ UNCHANGED <<hive, past, cached, collected, scans>>

\* The user opens the volume; the subkey's time is that of the mount.
Browse(l) ==
    /\ ~collected
    /\ at[l] # None
    /\ hive' = [hive EXCEPT !.user = Write(@, UserEntry(IdOf[at[l]], Len(past)))]
    /\ UNCHANGED <<at, past, cached, collected, scans>>

MountsAt(l) == {i \in DOMAIN past : past[i].letter = l}
LastMount(l) == E!Max(MountsAt(l))

\* The indexer looks at a letter, at any time or never.
Cache(l) ==
    /\ ~collected
    /\ at[l] # None
    /\ hive' = [hive EXCEPT !.cache = Write(@, CacheEntry(l, at[l]))]
    /\ cached' = [cached EXCEPT ![l] = LastMount(l)]
    /\ UNCHANGED <<at, past, collected, scans>>

\* The hives are taken from a machine that was switched off.
Collect ==
    /\ ~collected
    /\ collected' = TRUE
    /\ at' = [l \in Letters |-> None]
    /\ UNCHANGED <<hive, past, cached, scans>>

-----------------------------------------------------------------------------
(* The readers *)

ReadMounted ==
    /\ collected
    /\ UNCHANGED windows
    /\ Mounted!ReadEntry
    /\ UNCHANGED <<userRead, userMounts, cacheRead, labels, emdRead, emdVolumes>>

ReadUser ==
    /\ collected /\ Mounted!Finished
    /\ UNCHANGED windows
    /\ User!ReadEntry
    /\ UNCHANGED <<mountedRead, volumes, cacheRead, labels, emdRead, emdVolumes>>

ReadCache ==
    /\ collected /\ Mounted!Finished /\ User!Finished
    /\ UNCHANGED windows
    /\ Cached!ReadEntry
    /\ UNCHANGED <<mountedRead, volumes, userRead, userMounts, emdRead, emdVolumes>>

ReadEmd ==
    /\ collected /\ Mounted!Finished /\ User!Finished /\ Cached!Finished
    /\ UNCHANGED windows
    /\ Emd!ReadEntry
    /\ UNCHANGED <<mountedRead, volumes, userRead, userMounts, cacheRead, labels>>

Init ==
    /\ hive = [mounted |-> StrayMounts, user |-> StrayUser, cache |-> StrayLabels,
               emd |-> StrayEmd]
    /\ at = [l \in Letters |-> None]
    /\ past = <<>>
    /\ cached = [l \in Letters |-> 0]
    /\ collected = FALSE
    /\ Mounted!StartScan /\ User!StartScan /\ Cached!StartScan /\ Emd!StartScan

Next ==
    \/ \E v \in Disks, l \in Letters : Mount(v, l)
    \/ \E l \in Letters : Unmount(l) \/ Browse(l) \/ Cache(l)
    \/ Collect
    \/ ReadMounted \/ ReadUser \/ ReadCache \/ ReadEmd

Spec == Init /\ [][Next]_vars

-----------------------------------------------------------------------------
(* Properties *)

\* The records of the four readers have their documented spellings: letters
\* upper-cased, GUIDs lower-cased, labels never empty where the field says so.
TypeOK ==
    /\ Range(volumes) \subseteq VolumeRecords
    /\ Range(userMounts) \subseteq UserRecords
    /\ Range(labels) \subseteq LabelRecords
    /\ Range(emdVolumes) \subseteq EmdRecords

LastAt(l) == IF MountsAt(l) = {} THEN None ELSE past[LastMount(l)].volume

HasMbr(v) == v # None /\ IdOf[v].len = 12

\* Once MountedDevices is read there is one record of each letter whose last
\* volume has an MBR record, which is that volume's, and none of any other
\* letter: a letter that passed from one volume to another has left the first.
LetterNamesLastVolume ==
    collected /\ Mounted!Finished =>
        \A l \in Letters :
            LET lettered == {i \in DOMAIN volumes : volumes[i].drive_letter = Upper(l)}
                last == LastAt(l) IN
            IF HasMbr(last)
            THEN \E i \in lettered :
                    /\ lettered = {i}
                    /\ volumes[i].disk_signature = IdOf[last].sig
                    /\ volumes[i].partition_offset = IdOf[last].offset
            ELSE lettered = {}

\* The bridge: letters of the records that share signature and offset with a
\* record of this GUID.
LettersOf(guid) ==
    {l \in Letters : \E a, b \in Range(volumes) :
        /\ a.volume_guid = guid
        /\ b.drive_letter = Upper(l)
        /\ <<a.disk_signature, a.partition_offset>> = <<b.disk_signature, b.partition_offset>>}

UserScanned == collected /\ Mounted!Finished /\ User!Finished

\* The bridge takes a user's mount to the letters its volume was the last at,
\* and to no other letter: another partition of the same disk, or a volume
\* without an MBR record, is never met ("the bridge the correlation layer uses").
BridgeIsExact ==
    UserScanned =>
        \A u \in Range(userMounts) :
            LettersOf(u.volume_guid) =
                {l \in Letters : HasMbr(LastAt(l)) /\ IdOf[LastAt(l)] = u.volume_guid.of}

\* The volumes that were ever mounted under an id: several when disks are clones.
Owners(id) == {past[i].volume : i \in DOMAIN past} \cap {v \in Disks : IdOf[v] = id}

\* Followed from a user's mount over the bridge to a letter and its cached
\* label, the label is that of the volume the user opened (or of a clone of it),
\* provided the cache was written after the letter's last mount.
BridgedLabelIsVolumes ==
    UserScanned =>
        \A u \in Range(userMounts), x \in Range(labels) :
            \A l \in LettersOf(u.volume_guid) :
                x.drive_letter = Upper(l) /\ cached[l] = LastMount(l) =>
                    x.volume_label \in {LabelOf[v] : v \in Owners(u.volume_guid.of)}

\* A label was at its letter: it may be stale, when the letter has passed on and
\* the cache was not written again, but it is never that of a volume which was
\* not mounted there, and a fresh one that is not empty is there.
LabelsWereAtTheirLetters ==
    collected /\ Cached!Finished =>
        /\ \A x \in Range(labels) : \E i \in DOMAIN past :
              /\ x.drive_letter = Upper(past[i].letter)
              /\ x.volume_label = LabelOf[past[i].volume]
              /\ i = cached[past[i].letter]
        /\ \A l \in Letters : cached[l] # 0 /\ LabelOf[past[cached[l]].volume] # <<>> =>
              \E x \in Range(labels) : x.drive_letter = Upper(l)

\* A label that the split of an EMDMgmt name gets back.
Separable(lab) == E!Doubles(lab) = {} /\ (lab # <<>> => lab[1] # "_")

\* Every volume Windows saw is recorded with its serial, and with its label
\* exactly when the label holds no double underscore and does not begin with
\* one; else with the end of it.  The prefix may end as it likes (parse_emd_name).
EmdLabelsRecovered ==
    collected /\ Emd!Finished =>
        \A i \in DOMAIN past :
            LET v == past[i].volume IN
            \E x \in Range(emdVolumes) :
                /\ x.volume_serial = SerialOf[v]
                /\ IsSuffix(x.volume_label, LabelOf[v])
                /\ (x.volume_label = LabelOf[v]) = Separable(LabelOf[v])

-----------------------------------------------------------------------------
(* The inductive invariant. *)

MountedIds == {IdOf[past[i].volume] : i \in DOMAIN past}

\* What the four keys hold, beside what they held before.
MountedHolds ==
    {LetterEntry(l, LastAt(l)) : l \in {l \in Letters : LastAt(l) # None}}
    \cup {VolumeEntry(id) : id \in MountedIds}
UserMayHold == {UserEntry(id, n) : id \in MountedIds, n \in 0..MaxMounts}
CacheHolds ==
    {CacheEntry(l, past[cached[l]].volume) : l \in {l \in Letters : cached[l] # 0}}
EmdHolds == {EmdName(past[i].volume) : i \in DOMAIN past}

KeysAreWritten ==
    /\ hive = [mounted |-> hive.mounted, user |-> hive.user, cache |-> hive.cache, emd |-> hive.emd]
    /\ IsList(hive.mounted) /\ IsList(hive.user) /\ IsList(hive.cache) /\ IsList(hive.emd)
    /\ Range(hive.mounted) = Range(StrayMounts) \cup MountedHolds
    /\ Range(hive.user) \subseteq Range(StrayUser) \cup UserMayHold
    /\ Range(hive.cache) = Range(StrayLabels) \cup CacheHolds
    /\ Range(hive.emd) = Range(StrayEmd) \cup EmdHolds
    /\ Once(hive.mounted)

WindowsInv ==
    /\ past \in Seq([volume : Disks, letter : Letters]) /\ Len(past) <= MaxMounts
    /\ at \in [Letters -> Optional(Disks)]
    /\ \A l \in Letters : at[l] # None => at[l] = LastAt(l)
    /\ cached \in [Letters -> 0..Len(past)]
    /\ \A l \in Letters : cached[l] # 0 => past[cached[l]].letter = l
    /\ collected \in BOOLEAN
    /\ KeysAreWritten

ReadersInv ==
    /\ IsList(volumes) /\ IsList(userMounts) /\ IsList(labels) /\ IsList(emdVolumes)
    /\ Mounted!Scanning /\ User!Scanning /\ Cached!Scanning /\ Emd!Scanning
    /\ ~collected => Mounted!StartScan /\ User!StartScan /\ Cached!StartScan /\ Emd!StartScan

VolumesInv == WindowsInv /\ ReadersInv
=============================================================================
