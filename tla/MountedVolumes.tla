--------------------------- MODULE MountedVolumes ---------------------------
(***************************************************************************)
(* A MountedDevices value as core/src/mounted_volumes.rs decodes it.  A    *)
(* value's data is its length, its first four bytes and the eight after    *)
(* them; longer data (a device path, a GPT partition id) has such bytes    *)
(* too, which mean nothing.                                                *)
(***************************************************************************)
EXTENDS HiveNames, Naturals

\* Mutant: the letter is kept as it is spelled.
dos_drive_letterAsIs(name) == IF name.kind = "dos" THEN name.spelled ELSE None

\* The letter of a \DosDevices\X: name.
dos_drive_letter(name) ==
    IF name.kind = "dos" THEN to_ascii_uppercase(name.spelled) ELSE None

\* The GUID of a \??\Volume{GUID} name.
volume_guid(name) ==
    IF name.kind = "volume" THEN to_ascii_lowercase(name.spelled) ELSE None

\* Mutant: data that is long enough is taken for an MBR record.
decode_mbrLonger(raw) ==
    IF raw.len >= 12 THEN [sig |-> raw.sig, offset |-> raw.offset] ELSE None

\* Mutant: the offset is not decoded.
decode_mbrDisk(raw) == IF raw.len = 12 THEN [sig |-> raw.sig, offset |-> 0] ELSE None

decode_mbr(raw) ==
    IF raw.len = 12 THEN [sig |-> raw.sig, offset |-> raw.offset] ELSE None

\* None for a name of neither kind and for data that is no MBR record.
MountedVolume(value) ==
    LET letter == dos_drive_letter(value.name)
        guid == volume_guid(value.name)
        mbr == decode_mbr(value.raw)
    IN  IF (letter = None /\ guid = None) \/ mbr = None
        THEN None
        ELSE [drive_letter |-> letter, volume_guid |-> guid,
              disk_signature |-> mbr.sig, partition_offset |-> mbr.offset]
=============================================================================
