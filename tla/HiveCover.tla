----------------------------- MODULE HiveCover -----------------------------
(***************************************************************************)
(* What a walk of a BagMRU hive promises, whatever order it takes: from    *)
(* each root in turn, every cell reachable through slot subkeys is         *)
(* expanded, once, and no other.                                           *)
(*                                                                         *)
(* A hive is a graph of cells: a key lists its subkeys' cells, and nothing *)
(* in the file format stops two keys from listing the same cell, a list    *)
(* from naming a cell twice, or a cell from listing an ancestor.  The      *)
(* subkey list of a broken cell cannot be read.  A cell's name is stored   *)
(* in the cell; hive.slots are the cells whose name is a slot number.      *)
(***************************************************************************)
EXTENDS Sequences, Functions

CONSTANTS Cells, None

VARIABLES hive,      \* the graph being walked; never changes
          pending,   \* root cells still to walk, None for a root that is absent
          root,      \* the root being walked, None before the first
          seen,      \* cells expanded in this walk
          frontier   \* cells known of in this walk and not yet expanded

vars == <<hive, pending, root, seen, frontier>>

\* The slot subkeys that a walk follows from cell c.
SlotsOf(c) == IF c \in hive.broken THEN {} ELSE Range(hive.subkeys[c]) \cap hive.slots

-----------------------------------------------------------------------------
Init ==
    /\ pending = hive.roots
    /\ root = None
    /\ seen = {}
    /\ frontier = {}

SkipRoot ==
    /\ frontier = {}
    /\ pending # <<>>
    /\ Head(pending) = None
    /\ pending' = Tail(pending)
    /\ UNCHANGED <<hive, root, seen, frontier>>

StartRoot ==
    /\ frontier = {}
    /\ pending # <<>>
    /\ Head(pending) # None
    /\ pending' = Tail(pending)
    /\ root' = Head(pending)
    /\ seen' = {}
    /\ frontier' = {Head(pending)}
    /\ UNCHANGED hive

Visit(c) ==
    /\ c \in frontier
    /\ seen' = seen \cup {c}
    /\ frontier' = (frontier \cup SlotsOf(c)) \ seen'
    /\ UNCHANGED <<hive, pending, root>>

Next == SkipRoot \/ StartRoot \/ \E c \in Cells : Visit(c)

Spec == Init /\ [][Next]_vars

-----------------------------------------------------------------------------
\* A set of cells that holds the root and every slot subkey of its members.
Closed(S) == root \in S /\ \A c \in S : SlotsOf(c) \subseteq S

\* When the frontier is empty the walk has expanded exactly the cells
\* reachable from the root: the least closed set.
ReachedExactly ==
    root # None /\ frontier = {} =>
        Closed(seen) /\ \A S \in SUBSET Cells : Closed(S) => seen \subseteq S

\* The inductive invariant behind it: what is known of is what is reachable so
\* far, and lies in every closed set.
CoverInv ==
    IF root = None THEN frontier = {}
    ELSE /\ root \in seen \cup frontier
         /\ seen \cup frontier \subseteq Cells
         /\ \A c \in seen : SlotsOf(c) \subseteq seen \cup frontier
         /\ \A S \in SUBSET Cells : Closed(S) => seen \cup frontier \subseteq S
=============================================================================
