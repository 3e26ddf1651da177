---------------------------- MODULE MCShellbags ----------------------------
(***************************************************************************)
(* Hives for TLC.  In a Graph hive each of three cells lists any two of    *)
(* them, itself included and a cell twice included, or fewer, or all three *)
(* in order, and cell 2 may be unreadable; in a Tree hive of all cells the *)
(* parent of a cell has a smaller number, which is every tree up to        *)
(* renaming.  The volumes carry different letters, one of them none.       *)
(***************************************************************************)
EXTENDS Shellbags, SequencesExt

LetterOf(c) == CASE c = 2 -> "E" [] c = 3 -> "F" [] OTHER -> None

SlotValue(c, volumes) == IF c \in volumes THEN [letter |-> LetterOf(c)] ELSE None

HiveOf(roots, subkeys, broken, slots, volumes) ==
    [roots |-> roots, subkeys |-> subkeys, broken |-> broken, slots |-> slots,
     items |-> [p \in Cells |-> [c \in Cells |-> SlotValue(c, volumes)]]]

GraphCells == {1, 2, 3}
GraphLists == BoundedSeq(GraphCells, 2) \cup {<<1, 2, 3>>}

\* One root and any graph, or two roots and any graph of slots without
\* unreadable cells.
GraphHive ==
    \E g \in [GraphCells -> GraphLists] :
        LET subkeys == [c \in Cells |-> IF c \in GraphCells THEN g[c] ELSE <<>>] IN
        \/ \E b \in {{}, {2}}, s \in {Cells, Cells \ {3}} :
              hive = HiveOf(<<1, None>>, subkeys, b, s, {2})
        \/ hive = HiveOf(<<1, 2>>, subkeys, {}, Cells, {3})

Parents == {p \in [Cells \ {1} -> Cells] : \A c \in Cells \ {1} : p[c] < c}

Children(p, c) == SelectSeq(<<2, 3, 4>>, LAMBDA d : p[d] = c)

TreeHive ==
    \E r \in {<<1, None>>, <<None, 1>>}, p \in Parents,
      s \in SUBSET (Cells \ {1}), v \in SUBSET (Cells \ {1}) :
        hive = HiveOf(r, [c \in Cells |-> Children(p, c)], {}, s, v)

MCInit == (GraphHive \/ TreeHive) /\ StartWalk
MCSpec == MCInit /\ [][Next]_vars /\ WF_vars(Next)
=============================================================================
