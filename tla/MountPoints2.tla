---------------------------- MODULE MountPoints2 ----------------------------
(***************************************************************************)
(* A MountPoints2 subkey as core/src/mountpoints2.rs decodes it: a volume  *)
(* GUID in braces, or another name (a network share).                      *)
(***************************************************************************)
EXTENDS HiveNames

\* Mutant: the GUID is kept as it is spelled.
UserMountAsIs(sub) ==
    IF sub.name.kind # "braced" THEN None
    ELSE [volume_guid |-> sub.name.spelled, last_mounted |-> sub.last_written]

\* last_written is None when the hive recorded none.
UserMount(sub) ==
    IF sub.name.kind # "braced" THEN None
    ELSE [volume_guid |-> to_ascii_lowercase(sub.name.spelled),
          last_mounted |-> sub.last_written]
=============================================================================
