------------------------------ MODULE DeviceIds ------------------------------
(***************************************************************************)
(* A device id such as VID_0781&PID_5583, split at its ampersands.  Of the *)
(* text after a segment's tag the readers ask for a plus sign at its       *)
(* front, and for the hexadecimal digits that follow: so many zeros, and   *)
(* from the first other digit on all of them.                              *)
(***************************************************************************)
EXTENDS Naturals, Sequences

CONSTANT Digits   \* hexadecimal digits

ASSUME ZeroIsADigit == "0" \in Digits

\* A number is its digits without leading zeros: zero has none.
Numbers == {d \in Seq(Digits) : d # <<>> => d[1] # "0"}

\* The numbers that fit 16 bits.
Ids == {d \in Numbers : Len(d) <= 4}

Tags == {"VID", "PID", "other"}
Segments == [tag : Tags, plus : BOOLEAN, zeros : Nat, digits : Numbers]

Tagged(tag, segs) == {i \in DOMAIN segs : segs[i].tag = tag}
Width(seg) == seg.zeros + Len(seg.digits)

\* At most one segment of the tag, and nothing but up to four digits in it.
Plain(tag, segs) ==
    \A i, j \in Tagged(tag, segs) : i = j /\ ~segs[i].plus /\ Width(segs[i]) <= 4

\* What Windows writes: at most one segment of the tag, and four digits in it.
WellFormed(tag, segs) ==
    \A i, j \in Tagged(tag, segs) : i = j /\ ~segs[i].plus /\ Width(segs[i]) = 4
=============================================================================
