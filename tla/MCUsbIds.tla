------------------------------ MODULE MCUsbIds ------------------------------
(***************************************************************************)
(* Every file of at most MaxLines lines over the constants.                *)
(***************************************************************************)
EXTENDS UsbIds

CONSTANT MaxLines   \* bound: the longest file

SomeId == CHOOSE i \in Ids : TRUE
SomeName == CHOOSE n \in Names : TRUE

\* Every line that lists an id, one that only has an id, and one for each place
\* that has none.
LinesHere ==
    {l \in Lines :
        \/ l.place # "skipped" /\ l.id # None /\ l.name # ""
        \/ l.place # "skipped" /\ l.id = SomeId /\ l.name = ""
        \/ l.place # "tabbed" /\ l.id = None /\ l.name = SomeName}

MCInit == text \in UNION {[1..n -> LinesHere] : n \in 0..MaxLines} /\ StartParser
MCSpec == MCInit /\ [][Next]_vars
=============================================================================
