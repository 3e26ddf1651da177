------------------------------- MODULE KeyScan -------------------------------
(***************************************************************************)
(* The loop of the four volume readers: the values or subkeys of one hive  *)
(* key in the order the hive lists them, each decoded into one record or   *)
(* skipped.  A key that is missing or cannot be listed has no entries.     *)
(***************************************************************************)
EXTENDS Naturals, Sequences

CONSTANTS Decode(_),   \* the record of an entry, or None
          None

VARIABLES entries,     \* of the key; never changes during the scan
          read,        \* entries read so far
          out          \* the records

StartScan == read = 0 /\ out = <<>>

Skip == /\ Decode(entries[read + 1]) = None
        /\ out' = out

Push == /\ Decode(entries[read + 1]) # None
        /\ out' = Append(out, Decode(entries[read + 1]))

ReadEntry ==
    /\ read < Len(entries)
    /\ Skip \/ Push
    /\ read' = read + 1
    /\ UNCHANGED entries

Finished == read = Len(entries)

-----------------------------------------------------------------------------
(* Properties *)

\* What each entry decodes to.
Decoded == [i \in 1..Len(entries) |-> Decode(entries[i])]

\* from says, of each record, which of the first n entries it was decoded from.
IsDecoding(from, n) ==
    /\ \A i, j \in 1..Len(out) : i < j => from[i] < from[j]
    /\ \A i \in 1..Len(out) : out[i] = Decoded[from[i]]
    /\ \A e \in 1..n : Decoded[e] # None => \E i \in 1..Len(out) : from[i] = e

\* The records are those of the entries read that decode, in the hive's order:
\* an entry that does not decode hides no other, and none is read twice (the
\* "continue" branches of the four parse functions).
ScanIsFaithful == \E from \in [1..Len(out) -> 1..read] : IsDecoding(from, read)

-----------------------------------------------------------------------------
(* The inductive invariant. *)

Scanning ==
    /\ read \in 0..Len(entries)
    /\ \A i \in DOMAIN out : out[i] # None
    /\ ScanIsFaithful
=============================================================================
