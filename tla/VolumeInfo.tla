----------------------------- MODULE VolumeInfo -----------------------------
(***************************************************************************)
(* A VolumeInfoCache subkey as core/src/volume_info.rs decodes it.  A      *)
(* label is a sequence of characters; it is None when the subkey has no    *)
(* VolumeLabel or one that is no string.                                   *)
(***************************************************************************)
EXTENDS HiveNames, Sequences

\* Mutant: the letter is kept as it is spelled.
drive_letterAsIs(name) == IF name.kind = "letter" THEN name.spelled ELSE None

drive_letter(name) ==
    IF name.kind = "letter" THEN to_ascii_uppercase(name.spelled) ELSE None

string_value(label) == IF label = <<>> THEN None ELSE label

VolumeLabel(sub) ==
    LET letter == drive_letter(sub.name)
        label == string_value(sub.label)
    IN  IF letter = None \/ label = None THEN None
        ELSE [drive_letter |-> letter, volume_label |-> label]
=============================================================================
