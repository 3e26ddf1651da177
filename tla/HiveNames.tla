------------------------------ MODULE HiveNames ------------------------------
(***************************************************************************)
(* Names as registry hives hold them.  Windows compares names without case *)
(* and keeps the spelling they were first written in, so a name here is    *)
(* what it names ("of") and its case, which is "lower", "upper" or, for    *)
(* letters in either, "mixed".  Two readers that name the same thing must  *)
(* have agreed on a spelling.                                              *)
(***************************************************************************)

CONSTANT None   \* Rust's Option::None

to_ascii_uppercase(s) == [s EXCEPT !.case = "upper"]
to_ascii_lowercase(s) == [s EXCEPT !.case = "lower"]
=============================================================================
