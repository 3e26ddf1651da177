------------------------------- MODULE EmdMgmt -------------------------------
(***************************************************************************)
(* An EMDMgmt subkey name as core/src/emdmgmt.rs splits it.  A name is a   *)
(* sequence of characters; a number in decimal that fits 32 bits counts as *)
(* one character, a serial.                                                *)
(***************************************************************************)
EXTENDS Naturals, Sequences, FiniteSetsExt

CONSTANTS Serials,      \* numbers of 32 bits
          None

Underscores(s) == {i \in DOMAIN s : s[i] = "_"}

\* The places where two underscores start.
Doubles(s) == {i \in Underscores(s) : i + 1 \in Underscores(s)}

After(s, i) == SubSeq(s, i + 1, Len(s))
Before(s, i) == SubSeq(s, 1, i - 1)

\* Mutant: the first double underscore ends the prefix.
labelFirst(rest) == IF Doubles(rest) = {} THEN rest ELSE After(rest, Min(Doubles(rest)) + 1)

\* What follows the last double underscore, or all of it.
label(rest) == IF Doubles(rest) = {} THEN rest ELSE After(rest, Max(Doubles(rest)) + 1)

parse_serial(s) == IF Len(s) = 1 /\ s[1] \in Serials THEN s[1] ELSE None

parse_emd_name(name) ==
    IF Underscores(name) = {} THEN None
    ELSE LET last == Max(Underscores(name))
             serial == parse_serial(After(name, last))
         IN  IF serial = None THEN None
             ELSE [volume_label |-> label(Before(name, last)), volume_serial |-> serial]
=============================================================================
