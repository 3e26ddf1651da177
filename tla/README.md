# peripheral-forensic in TLA+

Models, model checks and machine-checked proofs for the two crates of this
repository: `peripheral-core`, whose readers turn device traces (logs and
registry hives) into `DeviceConnection` records, and `peripheral-forensic`,
whose auditor grades those records.

The program is sequential: no threads, no network, nothing persisted. What is
hard about it is *input order and input shape*. Every reader is one pass with a
little state over evidence somebody else wrote, interleaved, rotated, cut off
or cyclic; a record that says something of the wrong device, or of none, is
wrong evidence and looks exactly like right evidence. So each reader is a state
machine over its input, and where the input has a writer with an order of its
own (the kernel, Windows), that writer is modelled too and the two are composed.

## Inventory

| Component | State it keeps | Operations | Hard part | What makes it right |
|---|---|---|---|---|
| Bus classification (`core/src/lib.rs`) | none | `from_enumerator`, `is_dma_capable`, `is_mass_storage` | shared by all readers and by the auditor, which must agree | the pipelines below |
| Linux kernel-log reader (`linux_syslog.rs`) | one open block, the records | announcement, follow-up, orphan line, flush at the end | buses interleave, logs rotate, the last block has no successor | a record is its block; nobody else's serial; nothing announced is lost |
| setupapi reader (`setupapi.rs`) | the records | skip a line, read a header in either grammar | two grammars with a fall-through, reinstalls, sections that install nothing | every install is recorded, once, with its time |
| Calendar arithmetic (`civil_to_epoch`) | none | date and time to epoch seconds | leap years, years of any number of digits | the calendar's day number; no overflow |
| Registry reader (`registry.rs`) | the records | read a class of a control set, apply a `MountedDevices` value | one device in two control sets, two property layouts under names of any zero-padding, a join by name suffix | each instance key once; the letter of the last value that names it |
| ShellBags reader (`shellbag.rs`) | a stack of keys, a visited set, the entries | open a root, pop a key, read a slot | key graphs with cycles, shared, broken and stray keys | it ends; it reads what can be reached, once; entries are real paths, no more of them than the lists have places |
| USB id table (`usb_ids.rs`) | the vendor in scope, two maps | parse a line; look up a vendor or product | scopes closed and reopened, sections that are no vendor | a product is listed under its vendor or nowhere |
| Auditor (`forensic/src/lib.rs`) | the findings | audit one connection | trusts a flag of the reader and derives the rest itself | each anomaly once for each record that gives the reason |
| Kernel timestamps (`bsd_epoch`) | none | month name and year-less stamp to epoch seconds | New Year, leap days, the wrong reference year | only what the missing year hides is misdated |
| Volume readers (`mounted_volumes.rs`, `mountpoints2.rs`, `emdmgmt.rs`, `volume_info.rs`) | the records | decode or skip one value or subkey | the joins a consumer makes over them: spellings, letters passed on, stale labels, clones | a join reaches the volume the user had, and no other |
| `DeviceConnection` (`core/src/lib.rs`) | none | name lookups | one device described by two readers | a consumer knows where the descriptions agree |

Interactions are calls and values: every reader returns a list of records;
`registry.rs` changes its list again in the join; all text readers with
timestamps call `civil_to_epoch`; the records of the four volume readers are
joined by a consumer over letter, volume GUID and signature with offset; the auditor takes any reader's list; the
lookups of `DeviceConnection` read the USB id table. Opening a hive and decoding
its cells (`winreg_core`), decoding shell items (`shellitem`) and the finding
type (`forensicnomicon`) are other crates.

`PROJECT.json` lists every component with its status and, under `hazards`, what
can go wrong at which line and which property would notice.

## Modules

| Module | Models | Notes |
|---|---|---|
| `Bus` | bus classification | extended by the readers and by `Audit` |
| `LinuxSyslog` | `parse_linux_syslog` and `Partial` | `text` is any sequence of lines; `pos`, `current`, `out` are the loop index, the open block and the vector |
| `KernelSyslog` | the same reader on logs a kernel wrote | the kernel is external; `Parse` is the reader's step |
| `Setupapi` | `parse_setupapi`, `parse_header`, `build_connection` | a line is the parts the header grammars ask of it |
| `SetupLog` | the same reader on logs Windows wrote | Windows is external |
| `DeviceIds` | what a `VID_`/`PID_` name is made of | the two readers take it apart differently |
| `Registry` | `parse_registry`, `read_filetime`, `parse_vid_pid`, `apply_mounted_devices` | one action per class of a control set, one per mounted value |
| `Shellbags` | `parse_shellbags`, `walk`, `volume_entry` | `key`/`nth` are the loop over the subkey list of the key in hand |
| `HiveCover` | what the walk promises: expand any pending cell once | the abstract specification `Shellbags` implements |
| `UsbIds` | `UsbIdDb::parse`, `parse_id_line` and the lookups | `Kind` is the branch a line takes |
| `Audit` | `audit`, `is_hid`, the grading | instantiated, never run alone |
| `RegistryAudit`, `SetupapiAudit` | reader and auditor composed | `Audit` with `devices <- out` |
| `Pipeline` | one device in the registry and in setupapi | `Setupapi` instantiated over the registry's records |
| `CivilTime` | `civil_to_epoch` | next to a calendar that turns day by day and knows nothing of it |
| `BsdTime` | `bsd_epoch`, `month_number` | a log of two lines, written while that calendar turns |
| `HiveNames` | names and their case | extended by the four readers below |
| `KeyScan` | the loop the four volume readers share | `Decode` is a parameter |
| `MountedVolumes`, `MountPoints2`, `VolumeInfo`, `EmdMgmt` | how one entry is decoded | |
| `Volumes` | the four readers on hives Windows wrote | Windows is external; `KeyScan` is instantiated four times |
| `MC...` | small instances | initial states and bounds only |
| `LinuxSyslogProofs` | theorems about `LinuxSyslog` and `KernelSyslog` | |
| `ShellbagsProofs` | about `Shellbags` and `HiveCover` | |
| `CivilTimeProofs` | about `CivilTime` and `BsdTime` | |
| `RegistryProofs` | about `Registry`, `RegistryAudit`, `Pipeline` | |
| `SetupLogProofs` | about `Setupapi`, `SetupLog`, `SetupapiAudit` | |
| `UsbIdsProofs` | about `UsbIds` | |
| `VolumesProofs` | about `Volumes`, and `KeyScan` in it | |
| `AuditProofs` | lemmas about `Audit` for any reader | instantiated by the proofs of the two that are audited |

An action is one iteration of the loop it models, with every branch and early
exit; where one iteration has an inner loop over records (the letter join) the
inner loop is part of the action. Data is reduced to what the code tells apart:
a log line is its kind, bus id and value; a device path is its segments; a
registry key is a cell. Some reductions deserve a word.

* **Words and times.** `parse_header` tries a body's last two words, then its
  first two; a line of `Setupapi` carries both results (`trail`, `lead`) and the
  device paths among its words. `extract_instance_id` picks the longest of them,
  so paths have a length.
* **Names.** The registry join tests whether an id is the instance of a mounted
  value or ends with a backslash and that instance. Ids are triples here, and an
  instance is a sequence, split at the backslashes it may hold: `Endings` are the
  last component of an id, its last two, and all of it.
* **Made-up serials.** `registry.rs:190` looks at the second *byte* of a name and
  `setupapi.rs:262` at its second *character*. Names are told apart by `AmpSecond`
  (the second character is an ampersand) and `WideFirst` (the first character
  takes more than one byte), and each reader has its own test over the two.
* **Ids.** After `VID_` or `PID_` a name has an optional plus sign, zeros, and
  digits. `Registry!hex4` reads four characters, a sign among them, of the first
  segment that has four; `Setupapi!hex_prefix` all digits of the last segment,
  however many zeros lead, and rejects what overflows 16 bits.
* **Property stores.** A store is a list of keys in the hive's order, by the
  number their names read as: `0064` and `00000064` are two keys of one number,
  and `find_prop_subkey` takes the first. A key has a default value, or none, and
  the `Data` of its numbered leaves; either may be no `FILETIME` (`"short"`).
* **Spelling.** Hives compare names without case and keep the first spelling, so
  a name of the volume readers is what it names and its case. `Volumes` spells
  letters and GUIDs so that each reader has to normalise them. In an `EMDMgmt`
  name only underscores and numbers matter, so it is a sequence of characters,
  with a whole decimal number as one of them.
* **Cells.** `walk` identifies keys by cell offset. A hive is a graph of cells
  in which any cell may link to any other, through a list that may name a cell
  more than once; `broken` cells have unreadable subkeys and cells outside
  `slots` have names that are no number.

Operators whose comment starts with "Mutant" are not part of the model: each is
one definition with a plausible slip in it, kept to show that a property would
notice.

## Runs

| Run | Instance | Shows |
|---|---|---|
| `kernel_log` | 2 buses, 3 devices, 6 lines written, one of them lost | records are the blocks of the log, in order, none lost; a foreign serial only from a device whose announcement the log lost; an uninterrupted one is kept |
| `kernel_log_interleaved` | 5 lines | **violation** `BlocksStitchedBack` |
| `shellbags` | every graph of 3 cells with 1 or 2 roots, every tree of 4 | the walk ends, reads exactly what can be reached, reports a link at most once for each time its list names it; in a tree one entry per node below a volume; it implements `HiveCover` |
| `registry` | keys of 2 vendors and 3 instances in up to three classes and both control sets, 2 mounted values; any store of up to 2 keys for the install properties; a key with any of 4 names and 5 instances in any one class | each key once; last letter wins; the join is right if instance names are unique; the install time is found where a property has one key and no damaged default value; findings for their reasons only; where the setupapi reader and the auditor see a device alike |
| `registry_foreign_letter` | the join hives | **violation** `LetterOfOwnDevice` |
| `registry_os_serial` | the class hives | **violation** `OsSerialNotReported` |
| `setupapi_audit` | 4 devices, 3 lines written, 2 times, a clock set forward and back | nothing installed is missed; an earlier time betrays a clock set back; what reader and auditor say of a device's techniques and serial |
| `setupapi_other_section` | 2 lines | **violation** `OnlyInstallsRecorded` |
| `civil_time` | every day of the years 1590 to 2410; logs of two lines up to 400 days apart, begun in 6 years, under a reference year one off at most | day numbers are the calendar's; year-less stamps are right in their year, keep distances, and go backwards only over New Year or from a leap day |
| `civil_time_impossible` | years 0, 1 and 9999, months 0 to 13, days 0 to 32 | **violation** `OnlyRealDates` |
| `volumes` | 3 mounts of 5 volumes at 2 letters, stray entries in every key | letters name their last volume; the bridge from a user's mount is exact; joined labels are of the right volume when the cache is fresh; which `EMDMgmt` labels come back |
| `usb_ids` | every file of up to 5 lines, 2 ids, 2 names | lookups answer what the file lists |

**Why the bounds are enough.** A block of the kernel log is decided by three
lines (announcement, follow-up, next announcement) of two buses; six written
lines leave room for a replug, an interleaving and a rotation, and the proofs
cover every log besides. One lost line is enough to hide a device. A walk over three cells has self-loops, two-cycles, a
cell with two parents, and a second root that is the first, below the first, or
apart. Two mounted values are the least that can disagree. Three setupapi lines
hold an install, another section and a reinstall, before or after a roll-over.
Five `usb.ids` lines leave a vendor's scope, enter a section and come back.
Eight hundred years hold two full Gregorian cycles, so every kind of century.
Logs begin around the end of February, New Year and midsummer of common and leap
years; TLC counts in 32 bits, so seconds since 1970 confine these years to 1902
to 2037. A log spans 400 days at most, which is more than a year.
Three mounts let a letter pass to another volume and back, or a volume move on
while another takes its letter. A store of two keys holds one property
twice, in both orders, each in either layout. The clock of the setupapi log goes
forward and back between any two lines. The five volumes are two partitions of a disk, a
clone of the first, and two sticks whose data is a device path and begins with
the same twelve bytes; their labels and device prefixes have underscores in
every position that matters.

The violation runs are disagreements between code and documentation, each
quoted under `findings` in `PROJECT.json`:

1. With two buses enumerating at once, the block of the first is closed by the
   announcement of the second, and its serial is dropped. No record is *wrong*
   on a log without losses (`ForeignOnlyIfUnannounced` holds); one is incomplete.
2. A drive letter goes to every record that ends in the same instance name,
   whatever its class and vendor.
3. The registry reader reports made-up serials, which the README says is not
   done and which the setupapi reader does not do (`AttributedOrWarned`).
4. Any section that names a device counts as an install of it.
5. Days a month does not have are accepted.

More limits show in the shape of passing properties:

* Of two property keys with one number only the first is read: `InstallTimeFound`
  promises the time of a store that has each property once, in one location or in
  both, and of any other store only that no property's time is taken for
  another's. A default value that is no `FILETIME` hides the leaf beside it (what
  is left is `Seen`), although the comment at `registry.rs:251` says that "both
  value locations are tried".
* Every reinstall is stamped as an authoritative *first* install. Stamps are the
  host's local time, so neither the first record of a device nor the one with the
  earliest time need be its first install; the list order is the order of the
  installs, and an earlier time in a later record means that the clock was set
  back between the two, and nothing else (`EarlierOnlyIfSetBack`).
* The two crates keep their lists of techniques apart. The reader attaches T1200
  and T1052.001; the auditor narrates both, T1200 also for an input device, and
  T1091 for mass storage, which no connection carries (`TechniquesAccounted`).
* A list of subkeys that names a cell twice has its link reported twice: the
  entry is pushed before the cell is looked up among the visited ones
  (`LinkReportedPerMention`).
* If the log lost an announcement, the serial of the unannounced device goes to
  the open block of the same bus (`ForeignOnlyIfUnannounced`).
* A February 29 under a reference year without one is the first of March, and a
  line of the real first of March may then precede it (`BackwardsOnlyOverNewYear`
  fails without that exception).
* A name with two `VID_` segments, or with a segment of more or fewer than four
  digits, is read differently by the two Windows readers: `SourcesAgree` asks
  for equal ids only of well-formed names; of names with fewer digits, that the
  registry reader may miss an id and reads no other one; of the rest, nothing. A
  phone is `Mtp` in the registry and `Usb` in the log, so only the log's record of
  it is graded as storage. A made-up serial that begins with a character of more
  than one byte passes the registry reader's test and not the log reader's.
* An `EMDMgmt` label that holds two underscores in a row, or begins with one, is
  cut: `EmdLabelsRecovered` says exactly which labels come back. The comment at
  `emdmgmt.rs:60` says that the split "cleanly separates" prefix and label.
* A cached label may be stale (`LabelsWereAtTheirLetters`), so the join over a
  letter is right only if the cache was written after the letter's last mount
  (`BridgedLabelIsVolumes`). Neither reader has a time to tell by.
* Clones of one image share signature and offset: the readers cannot tell them
  apart, and neither can Windows. `Owners` is a set for that reason.
* The id of a kernel-log record is its port (`usb/<busid>`), which devices share
  over time, although `lib.rs` calls the field the primary key. The properties
  tell records apart by the line of their announcement.

**Deadlock.** Readers return and logs have an end, so every configuration allows
a last state without successor. What a reader must have done by then is asked by
properties of finished runs (`done`, `Finished`, `AuditReturned`), and that the
walk gets there by `WalkEnds`.

**Fairness.** The only liveness property is `WalkEnds`. It assumes weak fairness
of the walk's next step, which a sequential loop that is neither blocked nor
preempted forever has. The writers get no fairness: they may stop at any time,
and no property needs them to go on.

## Proofs

TLAPS checks these for every value of the constants: logs and tables of every
length, hives of every size and shape, any set of devices and volumes, every
bound, every year the code accepts. Every safety property that a run checks is
stated by a theorem; `PROJECT.json` pairs them under `theorems`.

An inductive invariant stands at the end of the module it is about, in named
parts, and TLC has checked each one on the instance of that module's run (one
that quantifies over all paths, over the paths of a bounded length). What
follows says why each is needed.

* **The kernel log** (`LinuxSyslogProofs`). `RecordsAreTheirBlocks`,
  `RecordsOrdered` and `AnnouncementsKept` speak of records; they are not
  inductive, because a record is built over many steps in `current`. In
  `ReaderInv`, `OpenBlock` says the same of the open block: it is the *last*
  announcement, and its fields are what the log says of it *so far*. A follow-up
  line extends "so far" by one (`absorb`); an announcement ends the block, after
  which "so far" can no longer change. `ForeignUnannounced` and `SerialsKept`
  are about the kernel too: `KernelInv` adds that the device in a port is the
  one the bus last announced, unless that line was lost or rotated away
  (`PortsAnnounced`), and that each follow-up line was true of its bus when it
  was written (`FollowUpsAnnounced`). Rotation shifts the lines and keeps both.
* **The walk** (`ShellbagsProofs`). `WalkInv` says of every frame on the stack
  what `EntriesAreReal` says of entries. `WalkImplementsCover` maps the visited
  set to `seen` and the cells on the stack or still unread in the loop to
  `frontier`; popping a visited cell, skipping a stray one and pushing a slot
  are stutters, taking a key out for the first time is `Visit`. `HiveCover` is
  closed under its steps, which gives `WalkReachesExactly`. `LinksCounted` needs
  `LinkInv`: a link has been reported at most as often as the part of its list
  that is behind the walk names it (`LinksBehind`), and a root that is pending
  belongs to no entry yet.
  `VolumeNodesOnce` needs `TreeInv`, which says that in a tree each path behind
  the walk has been reported. A path is followed to the stack by the first of
  its cells that is not yet behind, which is where a least element is taken.
* **The calendar** (`CivilTimeProofs`). `DaysCorrect`: the calendar turns a page
  at a time; over the first of March `year_start` grows by 365 or 366, because
  the quotients by 4, 100 and 400 move exactly in leap years. `EpochFits` bounds
  the result for arbitrary integers, which is the overflow a fuzzer once found.
  `BsdInv` adds that the first line's day number is the calendar's and not later
  than this page. `StampsCorrect` is then the day number itself; for
  `IntervalsCorrect` the number of a date is the start of its year and a day of
  the year that depends on leap years alone; `BackwardsCorrect` compares the two
  under one wrong year, month by month.
* **The registry** (`RegistryProofs`). `RegistryInv`: the records are the keys
  of the classes visited, each once, and letters are written when the walk is
  over. `InstancesOnce`, `LettersCorrect`, `JoinRight` and `InstallFound` follow
  from it, and so does `SourcesAgreeAlways`, which reads the same key as a line
  of the other reader's log; a first number read from four characters is the one
  read from all digits when there are no more than four (`FirstDigits`). `ReportedRight` counts: `AuditInv` holds that the
  findings of a code and a device are as many as the connections audited that
  give the reason, and a bijection carries connections over to instance keys.
* **The setupapi log** (`SetupLogProofs`). `SetupapiInv` is about any text: the
  records are the headers read so far. `LogInv` adds what Windows writes and
  that its stamps are in order but for the places at which the clock was set
  back, also after a roll-over (`StampsInOrder`). An install line has a
  header that names its device (the longest path among the words, as `Phrases`
  are shorter), so `InstallsInRecords`; and by the order of lines and stamps
  `EarlierIsSetBack`. `TechniquesCorrect` and `AttributionCorrect` compare reader
  and auditor with the same `AuditInv`.
* **The auditor** (`AuditProofs`). One step of `audit` adds at most one finding
  of a code for the connection's device, exactly if it gives the reason, and
  none for any other device; so the counts stay equal. The lemmas are stated for
  connections of any reader.
* **The id table** (`UsbIdsProofs`). `ParserInv` ties `current_vendor` to the
  file: it is the vendor of the last line at column 0, or none if that line is
  no vendor. A scope closed and opened again is then a line like any other.
* **The volumes** (`VolumesProofs`). `WindowsInv` says what the four keys hold:
  `MountedDevices` and `EMDMgmt` exactly what the mounts so far put there,
  `VolumeInfoCache` the label of the mount each letter was cached at,
  `MountPoints2` at most entries of mounted volumes; under one name each, and
  beside the strays. A write overwrites the entry of that name (`WriteKeeps`),
  which is how a letter passes from one volume to the next. `ReadersInv` holds
  that some increasing map takes each record to the entry it is decoded from and
  meets every entry read that decodes: a skipped entry leaves the map as it is, a
  pushed record extends it (`ScansFaithful`, for any entries and any decoder).
  `LettersCorrect`: two records of one letter would be of one entry.
  `BridgeCorrect`: the records that meet are of one data, since twelve bytes are
  a signature and an offset and no more (`MbrIsSignatureAndOffset`).
  `BridgedLabelsCorrect` and `LabelsCorrect` follow a label to its mount.
  `EmdLabelsCorrect` computes the split for names of any length: the last
  underscore is the one before the serial, the last double underscore lies k
  places after the prefix, and k is 0 exactly for a label that is `Separable`.

**Where induction over data would be used**, the proofs take a least element of
a set of numbers instead (`LeastNat`), which follows from the well-foundedness
of strict inclusion on finite sets.

**Assumptions** are the named `ASSUME`s, and a run evaluates each of them. Most
say that `None` lies outside the data it marks the absence of, or that a bound is
a number, or that a damaged value is no time (`ShortIsNoTime`). The others: the years are ones the code accepts (`YearsAccepted`,
`LogYearsAccepted`); a hive has finitely many cells (`CellsAreFinite`); a
name that is spelled in some way is a name, and an empty one in none
(`SpelledInstances`, `AmpIsSecond`), as are those that hold a HID tag
(`HidAreNames`); zero is a digit (`ZeroIsADigit`);
Windows writes paths, and phrases shorter than a path (`DevicesArePaths`,
`PhrasesAreShort`); a name has segments (`NamesHaveSegments`); labels are texts
and a serial is no underscore (`NamesAreText`); what a key held before Windows
wrote to it names no volume (`StraysAreNoVolumes`).

**Only model-checked:** `WalkEnds`, which is liveness under fairness and out of
the prover's reach. The five violations are counterexamples TLC finds. That the
mutants break their properties is shown by TLC as well.

## Plan

1. *Done.* Kernel log, walk, registry, id table, auditor, setupapi, calendar.
2. *Done.* The four volume readers, alone and composed with their writer.
3. *Done.* One device in two sources. The kernel log names a device by its port
   and the volume readers name volumes, so the two Windows readers are the only
   ones whose records meet in one key.
4. *Done.* Lines lost from the middle of a log; year-less stamps over New Year.
5. *Done.* A theorem for every safety property the runs check.
6. Next: abstract specifications for the readers that have none, which the
   invariants above already amount to. A keyed table that `UsbIds` implements, a
   map from letters to volumes that the scan of `MountedDevices` implements; and
   a ranking for the walk, as a safety property that bounds its steps.

## Not modelled

Tests, fuzz targets, the oracle script, CI and documentation have no behaviour
of their own. The decoding of hive cells and shell items belongs to other
crates. The wording of notes, the strings copied into a record unread
(`FriendlyName`, `ParentIdPrefix`), fields that no reader fills, and the
built-in vendor table are data. `audit_findings` converts the list of `audit`
one by one and is covered by it.
