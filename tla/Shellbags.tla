----------------------------- MODULE Shellbags -----------------------------
(***************************************************************************)
(* The BagMRU walk of core/src/shellbag.rs over any hive graph, cyclic and *)
(* shared cells included: an explicit stack of frames, a visited set of    *)
(* cell offsets that starts empty for each of the two roots, and one entry *)
(* per slot subkey whose path holds a volume item.                         *)
(*                                                                         *)
(* A frame holds the key, the shell items collected from the root to it    *)
(* and its key path.  The path is kept as the sequence of cells.  Of shell *)
(* items the walk asks one thing, the first volume among them and the      *)
(* letter its name carries, so a slot value stands for its first volume    *)
(* item (None: it has none, or is missing) and a frame's items for theirs. *)
(***************************************************************************)
EXTENDS Naturals, Sequences, FiniteSets, Functions

CONSTANTS Cells,     \* cell offsets of the hive
          Letters,   \* drive letters
          None       \* Rust's Option::None

ASSUME NoneIsNoCell == None \notin Cells

\* Offsets are 32 bits wide and the hive is a finite file.
ASSUME CellsAreFinite == IsFiniteSet(Cells)

Optional(S) == S \cup {None}

\* A volume item: its letter, or None if its name is not a drive string.
Volumes == [letter : Optional(Letters)]

\* The two BagMRU paths name different keys.  A list of subkeys is what the file
\* says it is: it may name a cell twice.
HiveShape == [roots   : Seq(Optional(Cells)),
              subkeys : [Cells -> Seq(Cells)],
              broken  : SUBSET Cells,
              slots   : SUBSET Cells,
              items   : [Cells -> [Cells -> Optional(Volumes)]]]

Hives == {h \in HiveShape :
            \A i, j \in DOMAIN h.roots :
                i # j /\ h.roots[i] # None => h.roots[i] # h.roots[j]}

RootsOf(h) == {h.roots[i] : i \in DOMAIN h.roots} \ {None}

Frames == [cell : Cells, volume : Optional(Volumes), path : Seq(Cells)]

ASSUME NoneIsNoRecord == None \notin Volumes \cup Frames

VARIABLES hive,      \* the hive read; never changes
          pending,   \* roots still to open
          root,      \* the root of this walk
          stack,     \* frames to visit, the top last
          visited,   \* offsets visited in this walk
          key,       \* the frame whose subkeys are being read, or None
          nth,       \* the place in its list of the subkey read next
          out        \* the entries found so far

vars == <<hive, pending, root, stack, visited, key, nth, out>>

Top == stack[Len(stack)]
Popped == SubSeq(stack, 1, Len(stack) - 1)

RootFrame(c) == [cell |-> c, volume |-> None, path |-> <<c>>]

\* A child's items are its parent's followed by those of the parent's value
\* named by the child's slot.
ChildFrame(f, c) ==
    [cell   |-> c,
     volume |-> IF f.volume # None THEN f.volume ELSE hive.items[f.cell][c],
     path   |-> Append(f.path, c)]

\* last_write is the time kept in the cell: the cell stands for it.
volume_entry(f) ==
    [path |-> f.path, drive_letter |-> f.volume.letter, last_write |-> f.cell]

Entries == [path : Seq(Cells), drive_letter : Optional(Letters), last_write : Cells]

-----------------------------------------------------------------------------
StartWalk ==
    /\ pending = hive.roots
    /\ root = None
    /\ stack = <<>>
    /\ visited = {}
    /\ key = None
    /\ nth = 1
    /\ out = <<>>

Init == hive \in Hives /\ StartWalk

Idle == key = None /\ stack = <<>>

MissingRoot ==
    /\ Idle
    /\ pending # <<>>
    /\ Head(pending) = None
    /\ pending' = Tail(pending)
    /\ UNCHANGED <<hive, root, stack, visited, key, nth, out>>

\* Mutant: one visited set for both roots.
OpenRootSameVisited ==
    /\ Idle
    /\ pending # <<>>
    /\ Head(pending) # None
    /\ pending' = Tail(pending)
    /\ root' = Head(pending)
    /\ stack' = <<RootFrame(Head(pending))>>
    /\ UNCHANGED <<hive, visited, key, nth, out>>

\* Mutant: an absent root is walked too.
OpenRootUnchecked ==
    /\ Idle
    /\ pending # <<>>
    /\ pending' = Tail(pending)
    /\ root' = Head(pending)
    /\ stack' = <<RootFrame(Head(pending))>>
    /\ visited' = {}
    /\ UNCHANGED <<hive, key, nth, out>>

OpenRoot ==
    /\ Idle
    /\ pending # <<>>
    /\ Head(pending) # None
    /\ pending' = Tail(pending)
    /\ root' = Head(pending)
    /\ stack' = <<RootFrame(Head(pending))>>
    /\ visited' = {}
    /\ UNCHANGED <<hive, key, nth, out>>

\* Mutant: a visited frame is looked at and left on the stack.
PeekVisited ==
    /\ key = None
    /\ stack # <<>>
    /\ Top.cell \in visited
    /\ UNCHANGED vars

PopVisited ==
    /\ key = None
    /\ stack # <<>>
    /\ Top.cell \in visited
    /\ stack' = Popped
    /\ UNCHANGED <<hive, pending, root, visited, key, nth, out>>

PopUnreadable ==
    /\ key = None
    /\ stack # <<>>
    /\ Top.cell \notin visited
    /\ Top.cell \in hive.broken
    /\ stack' = Popped
    /\ visited' = visited \cup {Top.cell}
    /\ UNCHANGED <<hive, pending, root, key, nth, out>>

\* Mutant: keys are expanded whether or not they were visited.
PopKeyAgain ==
    /\ key = None
    /\ stack # <<>>
    /\ Top.cell \notin hive.broken
    /\ stack' = Popped
    /\ visited' = visited \cup {Top.cell}
    /\ key' = Top
    /\ nth' = 1
    /\ UNCHANGED <<hive, pending, root, out>>

PopKey ==
    /\ key = None
    /\ stack # <<>>
    /\ Top.cell \notin visited
    /\ Top.cell \notin hive.broken
    /\ stack' = Popped
    /\ visited' = visited \cup {Top.cell}
    /\ key' = Top
    /\ nth' = 1
    /\ UNCHANGED <<hive, pending, root, out>>

\* The subkey list of the open key, and the subkey read next.
Listed == hive.subkeys[key.cell]
IsNext(c) == key # None /\ nth \in DOMAIN Listed /\ Listed[nth] = c

SkipStray(c) ==
    /\ IsNext(c)
    /\ c \notin hive.slots
    /\ nth' = nth + 1
    /\ UNCHANGED <<hive, pending, root, stack, visited, key, out>>

\* Mutant: the parent's items are extended in place, not in a copy.
ReadSlotInPlace(c) ==
    LET f == ChildFrame(key, c) IN
    /\ IsNext(c)
    /\ c \in hive.slots
    /\ nth' = nth + 1
    /\ out' = IF f.volume # None THEN Append(out, volume_entry(f)) ELSE out
    /\ stack' = Append(stack, f)
    /\ key' = [key EXCEPT !.volume = f.volume]
    /\ UNCHANGED <<hive, pending, root, visited>>

\* Mutant: only the folders of a volume are walked further.
ReadSlotPruned(c) ==
    LET f == ChildFrame(key, c) IN
    /\ IsNext(c)
    /\ c \in hive.slots
    /\ nth' = nth + 1
    /\ out' = IF f.volume # None THEN Append(out, volume_entry(f)) ELSE out
    /\ stack' = IF f.volume # None THEN Append(stack, f) ELSE stack
    /\ UNCHANGED <<hive, pending, root, visited, key>>

\* The entry is pushed when the slot is found, before its cell is visited.
ReadSlot(c) ==
    LET f == ChildFrame(key, c) IN
    /\ IsNext(c)
    /\ c \in hive.slots
    /\ nth' = nth + 1
    /\ out' = IF f.volume # None THEN Append(out, volume_entry(f)) ELSE out
    /\ stack' = Append(stack, f)
    /\ UNCHANGED <<hive, pending, root, visited, key>>

LeaveKey ==
    /\ key # None
    /\ nth \notin DOMAIN Listed
    /\ key' = None
    /\ nth' = 1
    /\ UNCHANGED <<hive, pending, root, stack, visited, out>>

Next ==
    \/ MissingRoot
    \/ OpenRoot
    \/ PopVisited
    \/ PopUnreadable
    \/ PopKey
    \/ \E c \in Cells : SkipStray(c) \/ ReadSlot(c)
    \/ LeaveKey

Spec == Init /\ [][Next]_vars

Returned == Idle /\ pending = <<>>

-----------------------------------------------------------------------------
(* The walk implements HiveCover: the frontier is what is on the stack or  *)
(* still unread in the open key, less what this walk has visited already.  *)

OnStack == {stack[i].cell : i \in DOMAIN stack}
Unread ==
    IF key = None THEN {} ELSE {Listed[i] : i \in nth..Len(Listed)} \cap hive.slots

Cover == INSTANCE HiveCover
         WITH seen <- visited, frontier <- (OnStack \cup Unread) \ visited

-----------------------------------------------------------------------------
(* Properties *)

\* The walk's variables keep their shapes.
TypeOK ==
    /\ hive \in Hives
    /\ pending \in Seq(Optional(Cells))
    /\ root \in Optional(Cells)
    /\ stack \in Seq(Frames)
    /\ visited \subseteq Cells
    /\ key \in Optional(Frames)
    /\ nth \in Nat \ {0}
    /\ out \in Seq(Entries)

\* The stack discipline, whatever the graph, visits exactly what is reachable
\* from each root, each cell once (the visited check at the top of the loop).
ImplementsCover == Cover!Spec

\* When nothing unvisited is left on the stack, the walk has visited every cell
\* reachable from its root through slot subkeys and no other: the visited check
\* never cuts off a branch that another path would have reached (walk).
ReachedExactly == Cover!ReachedExactly

\* What a hive h says of paths, apart from any walk.
SlotsIn(h, c) == IF c \in h.broken THEN {} ELSE Range(h.subkeys[c]) \cap h.slots

\* A browsed path: from root r down, each cell a slot subkey of the one before.
RealPath(h, r, path) ==
    /\ path # <<>>
    /\ path[1] = r
    /\ \A i \in 1..(Len(path) - 1) : path[i + 1] \in SlotsIn(h, path[i])

\* What the slot value that leads to the path's next cell says of a volume.
VolumeAt(h, path, i) == h.items[path[i]][path[i + 1]]

\* v is the first volume among the items on the path, None if there is none.
IsFirstVolume(h, v, path) ==
    \/ v = None /\ \A i \in 1..(Len(path) - 1) : VolumeAt(h, path, i) = None
    \/ \E i \in 1..(Len(path) - 1) :
          /\ v # None
          /\ v = VolumeAt(h, path, i)
          /\ \A j \in 1..(i - 1) : VolumeAt(h, path, j) = None

EntryIsReal(h, e) ==
    /\ e.path[1] \in RootsOf(h)
    /\ RealPath(h, e.path[1], e.path)
    /\ e.last_write = e.path[Len(e.path)]
    /\ \E v \in Volumes : IsFirstVolume(h, v, e.path) /\ e.drive_letter = v.letter

\* An entry never mixes the items of two branches: its path exists in the hive,
\* from one of the two roots, and its letter is that of the first volume on it
\* (the clone-and-extend of parent_items in walk, the find in volume_entry).
EntriesAreReal == \A k \in DOMAIN out : EntryIsReal(hive, out[k])

\* The key a slot hangs from, and the slot, with the root of the walk.
LinkOf(e) == <<e.path[1], e.path[Len(e.path) - 1], e.path[Len(e.path)]>>

\* The places of key c's list that name d.
Mentions(c, d) == {i \in DOMAIN hive.subkeys[c] : hive.subkeys[c][i] = d}

ReportsOf(link) == {k \in DOMAIN out : LinkOf(out[k]) = link}

\* A link from a key to a slot is reported at most once for each place of the
\* key's list that names the slot, however many paths lead to the key: the output
\* is no longer than the hive's lists, although shared cells can give it
\* exponentially many paths (visited, in walk).  The entry is pushed before its
\* cell is looked up in visited, so a list that names a cell twice gets two.
LinkReportedPerMention ==
    \A k \in DOMAIN out :
        LET link == LinkOf(out[k]) IN
        Cardinality(ReportsOf(link)) <= Cardinality(Mentions(link[2], link[3]))

\* No key but the root is listed twice, as in every hive Windows writes.
IsTree ==
    /\ \A c, d \in Cells :
          c # d => Range(hive.subkeys[c]) \cap Range(hive.subkeys[d]) = {}
    /\ \A c \in Cells : IsInjective(hive.subkeys[c])
    /\ \A c \in Cells : RootsOf(hive) \cap Range(hive.subkeys[c]) = {}

SimplePaths ==
    {p \in UNION {[1..n -> Cells] : n \in 2..Cardinality(Cells)} :
        \A i, j \in DOMAIN p : p[i] = p[j] => i = j}

\* In a tree the walk reports every node whose path holds a volume, once
\* ("surfaces one ShellbagEntry per drive-letter-referencing node").
EveryVolumeNodeOnce ==
    Returned /\ IsTree =>
        \A r \in RootsOf(hive) : \A p \in SimplePaths :
            RealPath(hive, r, p) /\ ~IsFirstVolume(hive, None, p) =>
                Cardinality({k \in DOMAIN out : out[k].path = p}) = 1

\* The walk ends on every hive, cyclic ones included: the loop is sequential
\* code that nothing blocks, so a step that can be taken is taken.
FairSpec == Spec /\ WF_vars(Next)
WalkEnds == <>Returned

-----------------------------------------------------------------------------
(* The inductive invariant. *)

FrameIsReal(h, r, f) ==
    /\ RealPath(h, r, f.path)
    /\ f.cell = f.path[Len(f.path)]
    /\ IsFirstVolume(h, f.volume, f.path)

\* Whatever is on the stack was reached from the root of this walk.
FramesAreReal ==
    /\ stack # <<>> \/ key # None => root \in RootsOf(hive)
    /\ \A i \in DOMAIN stack : FrameIsReal(hive, root, stack[i])
    /\ key # None => FrameIsReal(hive, root, key)

\* The open key is a readable one, and its list is read from the front.
OpenKey ==
    IF key = None THEN nth = 1
    ELSE key.cell \notin hive.broken /\ nth \in 1..(Len(Listed) + 1)

PendingAreRoots ==
    \A i \in DOMAIN pending : pending[i] # None => pending[i] \in RootsOf(hive)

WalkInv ==
    /\ TypeOK
    /\ PendingAreRoots
    /\ FramesAreReal
    /\ OpenKey
    /\ EntriesAreReal

\* No root is walked twice: a pending one is neither the root of this walk nor
\* that of an entry, nor pending a second time.
RootsApart ==
    \A i \in DOMAIN pending : pending[i] # None =>
        /\ pending[i] # root
        /\ \A j \in DOMAIN pending : i # j => pending[i] # pending[j]
        /\ \A k \in DOMAIN out : out[k].path[1] # pending[i]

\* A slot whose key was expanded in this walk and which is not still to be read.
LinkIsBehind(c, d) ==
    /\ c \in visited
    /\ key # None /\ key.cell = c => d \notin {Listed[i] : i \in nth..Len(Listed)}

\* The mentions of d in c's list that the walk of root r has read: before the walk
\* gets to c none, while c is open those before nth, and from then on all.
MentionsBehind(r, c, d) ==
    {i \in Mentions(c, d) :
        r = root => c \in visited /\ (key # None /\ key.cell = c => i < nth)}

\* Every report has a mention of its own that was read.
LinksBehind ==
    \A r, c, d \in Cells :
        Cardinality(ReportsOf(<<r, c, d>>)) <= Cardinality(MentionsBehind(r, c, d))

OpenKeyVisited == key # None => key.cell \in visited

LinkInv ==
    /\ RootsApart
    /\ LinksBehind
    /\ OpenKeyVisited

\* A path from root r that an entry must be made of.
VolumePath(r, p) ==
    /\ Len(p) > 1
    /\ RealPath(hive, r, p)
    /\ ~IsFirstVolume(hive, None, p)

Reported(p) == \E k \in DOMAIN out : out[k].path = p

\* In a tree: of the paths, those that this walk has behind it are reported, and
\* all those from the roots of earlier walks.
ReportedBehind(paths) ==
    IsTree => \A p \in paths :
        VolumePath(root, p) /\ LinkIsBehind(p[Len(p) - 1], p[Len(p)]) => Reported(p)

ReportedBefore(paths) ==
    IsTree => \A r \in RootsOf(hive) \ {root} : \A p \in paths :
        VolumePath(r, p) /\ (\A i \in DOMAIN pending : pending[i] # r) => Reported(p)

TreeInv ==
    /\ ReportedBehind(Seq(Cells))
    /\ ReportedBefore(Seq(Cells))
=============================================================================
