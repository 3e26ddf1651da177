-------------------------- MODULE ShellbagsProofs --------------------------
(***************************************************************************)
(* Proofs about Shellbags, for every hive graph and all constants.         *)
(***************************************************************************)
EXTENDS Shellbags, FiniteSetTheorems, WellFoundedInduction, TLAPS

(***************************************************************************)
(* Sequences used as a stack.                                              *)
(***************************************************************************)

\* What is left of a stack when its top is popped.
LEMMA PopStack ==
    ASSUME NEW S, NEW s \in Seq(S), s # <<>>
    PROVE  /\ Len(s) \in Nat \ {0}
           /\ s[Len(s)] \in S
           /\ SubSeq(s, 1, Len(s) - 1) \in Seq(S)
           /\ DOMAIN SubSeq(s, 1, Len(s) - 1) = 1..(Len(s) - 1)
           /\ \A i \in 1..(Len(s) - 1) : SubSeq(s, 1, Len(s) - 1)[i] = s[i]
           /\ DOMAIN s = 1..Len(s)
  OBVIOUS

\* What is on a stack when an element was pushed.
LEMMA PushStack ==
    ASSUME NEW S, NEW s \in Seq(S), NEW e \in S
    PROVE  /\ Append(s, e) \in Seq(S)
           /\ Append(s, e) # <<>>
           /\ DOMAIN Append(s, e) = DOMAIN s \cup {Len(s) + 1}
           /\ DOMAIN s = 1..Len(s)
           /\ Len(s) \in Nat
           /\ Len(Append(s, e)) = Len(s) + 1
           /\ \A i \in DOMAIN s : Append(s, e)[i] = s[i]
           /\ Append(s, e)[Len(s) + 1] = e
  OBVIOUS

\* The roots still pending after one is taken are roots.
LEMMA TakeRoot ==
    ASSUME NEW S, NEW s \in Seq(S), s # <<>>
    PROVE  /\ Head(s) \in S
           /\ Head(s) = s[1]
           /\ 1 \in DOMAIN s
           /\ Tail(s) \in Seq(S)
           /\ \A i \in DOMAIN Tail(s) : i + 1 \in DOMAIN s /\ Tail(s)[i] = s[i + 1]
  OBVIOUS

-----------------------------------------------------------------------------
(***************************************************************************)
(* Extending a path by one slot.                                           *)
(***************************************************************************)

LEMMA ChildIsReal ==
    ASSUME hive \in Hives, NEW r, NEW f \in Frames, FrameIsReal(hive, r, f),
           NEW c \in Cells, c \in SlotsIn(hive, f.cell)
    PROVE  /\ ChildFrame(f, c) \in Frames
           /\ FrameIsReal(hive, r, ChildFrame(f, c))
  <1> DEFINE g == ChildFrame(f, c)
             p == f.path
             n == Len(p)
  <1>1. /\ p \in Seq(Cells) /\ f.cell \in Cells /\ f.volume \in Optional(Volumes)
        /\ p # <<>> /\ p[1] = r /\ f.cell = p[n]
    BY DEF Frames, FrameIsReal, RealPath
  <1>2. /\ g.path = Append(p, c)
        /\ g.cell = c
        /\ g.volume = IF f.volume # None THEN f.volume ELSE hive.items[f.cell][c]
    BY DEF ChildFrame
  <1>3. /\ n \in Nat \ {0}
        /\ g.path \in Seq(Cells)
        /\ g.path # <<>>
        /\ Len(g.path) = n + 1
        /\ \A i \in 1..n : g.path[i] = p[i]
        /\ g.path[n + 1] = c
    BY <1>1, <1>2
  <1>4. hive.items[f.cell][c] \in Optional(Volumes)
    BY <1>1 DEF Hives, HiveShape
  <1>5. g \in Frames
    BY <1>1, <1>2, <1>3, <1>4 DEF ChildFrame, Frames
  <1>6. RealPath(hive, r, g.path)
    <2>1. \A i \in 1..n : g.path[i + 1] \in SlotsIn(hive, g.path[i])
      <3>1. ASSUME NEW i \in 1..(n - 1)
            PROVE  g.path[i + 1] \in SlotsIn(hive, g.path[i])
        <4>1. i \in 1..n /\ i + 1 \in 1..n
          BY <1>3
        <4>2. p[i + 1] \in SlotsIn(hive, p[i])
          BY DEF FrameIsReal, RealPath
        <4> QED
          BY <1>3, <4>1, <4>2
      <3>2. g.path[n + 1] \in SlotsIn(hive, g.path[n])
        BY <1>1, <1>3
      <3> QED
        BY <1>3, <3>1, <3>2
    <2> QED
      BY <1>1, <1>3, <2>1 DEF RealPath
  <1>7. IsFirstVolume(hive, g.volume, g.path)
    <2>1. \A i \in 1..(n - 1) : VolumeAt(hive, g.path, i) = VolumeAt(hive, p, i)
      BY <1>3 DEF VolumeAt
    <2>2. VolumeAt(hive, g.path, n) = hive.items[f.cell][c]
      BY <1>1, <1>3 DEF VolumeAt
    <2>3. IsFirstVolume(hive, f.volume, p)
      BY DEF FrameIsReal
    <2>4. Len(g.path) - 1 = n /\ n \in 1..n
      BY <1>3
    <2>5. CASE f.volume # None
      <3>1. PICK i \in 1..(n - 1) :
                /\ f.volume = VolumeAt(hive, p, i)
                /\ \A j \in 1..(i - 1) : VolumeAt(hive, p, j) = None
        BY <2>3, <2>5 DEF IsFirstVolume
      <3>2. i \in 1..n /\ \A j \in 1..(i - 1) : j \in 1..(n - 1)
        BY <1>3
      <3> QED
        BY <1>2, <2>1, <2>4, <2>5, <3>1, <3>2 DEF IsFirstVolume
    <2>6. CASE f.volume = None
      <3>1. \A j \in 1..(n - 1) : VolumeAt(hive, g.path, j) = None
        BY <2>1, <2>3, <2>6 DEF IsFirstVolume
      <3>2. g.volume = VolumeAt(hive, g.path, n)
        BY <1>2, <2>2, <2>6
      <3>3. \A j \in 1..n : j \in 1..(n - 1) \/ j = n
        BY <1>3
      <3> QED
        BY <2>4, <3>1, <3>2, <3>3 DEF IsFirstVolume
    <2> QED
      BY <2>5, <2>6
  <1> QED
    BY <1>2, <1>3, <1>5, <1>6, <1>7 DEF FrameIsReal

\* The frame of a root is the path of length one.
LEMMA RootIsReal ==
    ASSUME NEW h, NEW c \in Cells
    PROVE  RootFrame(c) \in Frames /\ FrameIsReal(h, c, RootFrame(c))
  <1> DEFINE f == RootFrame(c)
  <1>1. f.path = <<c>> /\ f.cell = c /\ f.volume = None
    BY DEF RootFrame
  <1>2. Len(f.path) = 1 /\ f.path[1] = c /\ f.path # <<>> /\ f.path \in Seq(Cells)
    BY <1>1
  <1>3. 1..(Len(f.path) - 1) = {}
    BY <1>2
  <1> QED
    BY <1>1, <1>2, <1>3
       DEF RootFrame, Frames, Optional, FrameIsReal, RealPath, IsFirstVolume

\* The entry of a frame that holds a volume.
LEMMA EntryOfFrame ==
    ASSUME NEW h, NEW r \in RootsOf(h), NEW f \in Frames, FrameIsReal(h, r, f),
           f.volume # None
    PROVE  volume_entry(f) \in Entries /\ EntryIsReal(h, volume_entry(f))
  <1> DEFINE e == volume_entry(f)
  <1>1. f.volume \in Volumes /\ f.path \in Seq(Cells) /\ f.cell \in Cells
    BY DEF Frames, Optional
  <1>2. e.path = f.path /\ e.drive_letter = f.volume.letter /\ e.last_write = f.cell
    BY DEF volume_entry
  <1>3. e \in Entries
    BY <1>1 DEF volume_entry, Entries, Volumes
  <1>4. f.path[1] = r
    BY DEF FrameIsReal, RealPath
  <1> QED
    BY <1>1, <1>2, <1>3, <1>4 DEF FrameIsReal, EntryIsReal

-----------------------------------------------------------------------------
(***************************************************************************)
(* The steps of the walk preserve WalkInv.                                 *)
(***************************************************************************)

LEMMA WalkInit == Init => WalkInv
  <1> SUFFICES ASSUME Init
               PROVE  WalkInv
    OBVIOUS
  <1> USE DEF Init, StartWalk
  <1>1. /\ hive \in HiveShape
        /\ hive.roots \in Seq(Optional(Cells))
    BY DEF Hives, HiveShape
  <1>2. /\ stack \in Seq(Frames) /\ DOMAIN stack = {}
        /\ out \in Seq(Entries) /\ DOMAIN out = {}
    OBVIOUS
  <1>3. TypeOK
    BY <1>1, <1>2 DEF TypeOK, Optional
  <1>4. PendingAreRoots
    BY DEF PendingAreRoots, RootsOf
  <1> QED
    BY <1>2, <1>3, <1>4 DEF WalkInv, FramesAreReal, OpenKey, EntriesAreReal

\* Taking a root off the list leaves roots.
LEMMA PendingTail ==
    ASSUME WalkInv, pending # <<>>
    PROVE  /\ Tail(pending) \in Seq(Optional(Cells))
           /\ \A i \in DOMAIN Tail(pending) :
                 Tail(pending)[i] # None => Tail(pending)[i] \in RootsOf(hive)
           /\ Head(pending) # None =>
                 Head(pending) \in Cells /\ Head(pending) \in RootsOf(hive)
  BY TakeRoot DEF WalkInv, TypeOK, PendingAreRoots, Optional

LEMMA MissingRootStep == WalkInv /\ MissingRoot => WalkInv'
  <1> SUFFICES ASSUME WalkInv, MissingRoot
               PROVE  WalkInv'
    OBVIOUS
  <1>1. TypeOK' /\ PendingAreRoots'
    BY PendingTail DEF MissingRoot, WalkInv, TypeOK, PendingAreRoots
  <1> QED
    BY <1>1 DEF MissingRoot, WalkInv, FramesAreReal, OpenKey, Listed, EntriesAreReal

LEMMA OpenRootStep == WalkInv /\ OpenRoot => WalkInv'
  <1> SUFFICES ASSUME WalkInv, OpenRoot
               PROVE  WalkInv'
    OBVIOUS
  <1> DEFINE c == Head(pending)
  <1>1. c \in Cells /\ c \in RootsOf(hive)
    BY PendingTail DEF OpenRoot
  <1>2. RootFrame(c) \in Frames /\ FrameIsReal(hive, c, RootFrame(c))
    BY <1>1, RootIsReal
  <1>3. /\ stack' \in Seq(Frames)
        /\ DOMAIN stack' = {1}
        /\ stack'[1] = RootFrame(c)
    BY <1>2 DEF OpenRoot
  <1>4. TypeOK' /\ PendingAreRoots'
    BY <1>1, <1>3, PendingTail
       DEF OpenRoot, WalkInv, TypeOK, PendingAreRoots, Optional
  <1>5. FramesAreReal'
    BY <1>1, <1>2, <1>3 DEF OpenRoot, Idle, FramesAreReal
  <1> QED
    BY <1>4, <1>5 DEF OpenRoot, Idle, WalkInv, OpenKey, EntriesAreReal

\* The top of the stack is a real frame, and so are the others.
LEMMA TopIsReal ==
    ASSUME WalkInv, stack # <<>>
    PROVE  /\ Top \in Frames
           /\ Top.cell \in Cells
           /\ root \in RootsOf(hive)
           /\ FrameIsReal(hive, root, Top)
           /\ Popped \in Seq(Frames)
           /\ \A i \in DOMAIN Popped : FrameIsReal(hive, root, Popped[i])
  <1>1. stack \in Seq(Frames)
    BY DEF WalkInv, TypeOK
  <1>2. root \in RootsOf(hive) /\ \A i \in DOMAIN stack : FrameIsReal(hive, root, stack[i])
    BY DEF WalkInv, FramesAreReal
  <1>3. Top \in Frames /\ Popped \in Seq(Frames)
    BY <1>1, PopStack DEF Top, Popped
  <1>4. Len(stack) \in DOMAIN stack
    BY <1>1, PopStack
  <1>5. \A i \in DOMAIN Popped : i \in DOMAIN stack /\ Popped[i] = stack[i]
    BY <1>1, PopStack DEF Popped
  <1> QED
    BY <1>2, <1>3, <1>4, <1>5 DEF Top, Frames

LEMMA PopVisitedStep == WalkInv /\ PopVisited => WalkInv'
  <1> SUFFICES ASSUME WalkInv, PopVisited
               PROVE  WalkInv'
    OBVIOUS
  <1>1. TypeOK' /\ FramesAreReal'
    BY TopIsReal DEF PopVisited, WalkInv, TypeOK, FramesAreReal
  <1> QED
    BY <1>1 DEF PopVisited, WalkInv, PendingAreRoots, OpenKey, EntriesAreReal

LEMMA PopUnreadableStep == WalkInv /\ PopUnreadable => WalkInv'
  <1> SUFFICES ASSUME WalkInv, PopUnreadable
               PROVE  WalkInv'
    OBVIOUS
  <1>1. TypeOK' /\ FramesAreReal'
    BY TopIsReal DEF PopUnreadable, WalkInv, TypeOK, FramesAreReal
  <1> QED
    BY <1>1 DEF PopUnreadable, WalkInv, PendingAreRoots, OpenKey, EntriesAreReal

LEMMA PopKeyStep == WalkInv /\ PopKey => WalkInv'
  <1> SUFFICES ASSUME WalkInv, PopKey
               PROVE  WalkInv'
    OBVIOUS
  <1>1. hive.subkeys[Top.cell] \in Seq(Cells)
    BY TopIsReal DEF PopKey, WalkInv, TypeOK, Hives, HiveShape
  <1>2. TypeOK'
    BY TopIsReal DEF PopKey, WalkInv, TypeOK, Optional
  <1>3. FramesAreReal'
    BY TopIsReal DEF PopKey, FramesAreReal
  <1>4. OpenKey'
    BY <1>1, TopIsReal, NoneIsNoRecord DEF PopKey, OpenKey, Listed
  <1> QED
    BY <1>2, <1>3, <1>4 DEF PopKey, WalkInv, PendingAreRoots, EntriesAreReal

\* The subkey read next is one of the open key's list.
LEMMA NextSubkey ==
    ASSUME WalkInv, NEW c, IsNext(c)
    PROVE  /\ key # None /\ key \in Frames /\ key.cell \in Cells
           /\ key.cell \notin hive.broken
           /\ Listed \in Seq(Cells) /\ Listed = hive.subkeys[key.cell]
           /\ nth \in 1..Len(Listed) /\ Listed[nth] = c
           /\ nth + 1 \in 1..(Len(Listed) + 1)
           /\ nth..Len(Listed) = {nth} \cup (nth + 1)..Len(Listed)
           /\ c \in Range(hive.subkeys[key.cell])
  <1>1. /\ key # None /\ nth \in DOMAIN Listed /\ Listed[nth] = c
        /\ key.cell \notin hive.broken
    BY DEF IsNext, WalkInv, OpenKey
  <1>2. key \in Frames /\ key.cell \in Cells
    BY <1>1 DEF WalkInv, TypeOK, Optional, Frames
  <1>3. Listed \in Seq(Cells)
    BY <1>2 DEF Listed, WalkInv, TypeOK, Hives, HiveShape
  <1>4. nth \in 1..Len(Listed) /\ Len(Listed) \in Nat
    BY <1>1, <1>3
  <1>5. nth..Len(Listed) = {nth} \cup (nth + 1)..Len(Listed)
    BY <1>4
  <1> QED
    BY <1>1, <1>2, <1>3, <1>4, <1>5 DEF Listed, Range

LEMMA SkipStrayStep ==
    ASSUME WalkInv, NEW c \in Cells, SkipStray(c)
    PROVE  WalkInv'
  <1>1. TypeOK' /\ OpenKey'
    BY NextSubkey DEF SkipStray, WalkInv, TypeOK, OpenKey, Listed
  <1> QED
    BY <1>1 DEF SkipStray, WalkInv, PendingAreRoots, FramesAreReal, EntriesAreReal

LEMMA ReadSlotStep ==
    ASSUME WalkInv, NEW c \in Cells, ReadSlot(c)
    PROVE  WalkInv'
  <1> DEFINE f == ChildFrame(key, c)
  <1>1. IsNext(c) /\ c \in hive.slots /\ stack' = Append(stack, f)
    BY DEF ReadSlot
  <1>2. key # None /\ key \in Frames /\ c \in SlotsIn(hive, key.cell)
    BY <1>1, NextSubkey DEF SlotsIn
  <1>3. root \in RootsOf(hive) /\ FrameIsReal(hive, root, key)
    BY <1>2 DEF WalkInv, FramesAreReal
  <1>4. f \in Frames /\ FrameIsReal(hive, root, f)
    BY <1>2, <1>3, ChildIsReal DEF WalkInv, TypeOK
  <1>5. /\ stack' \in Seq(Frames)
        /\ \A i \in DOMAIN stack' : FrameIsReal(hive, root, stack'[i])
    <2>1. stack \in Seq(Frames)
      BY DEF WalkInv, TypeOK
    <2>2. \A i \in DOMAIN stack : FrameIsReal(hive, root, stack[i])
      BY DEF WalkInv, FramesAreReal
    <2> QED
      BY <1>1, <1>4, <2>1, <2>2, PushStack
  <1>6. /\ out' \in Seq(Entries)
        /\ \A k \in DOMAIN out' : EntryIsReal(hive, out'[k])
    <2>1. out \in Seq(Entries) /\ \A k \in DOMAIN out : EntryIsReal(hive, out[k])
      BY DEF WalkInv, TypeOK, EntriesAreReal
    <2>2. CASE f.volume = None
      BY <2>1, <2>2 DEF ReadSlot
    <2>3. CASE f.volume # None
      <3>1. out' = Append(out, volume_entry(f))
        BY <2>3 DEF ReadSlot
      <3>2. volume_entry(f) \in Entries /\ EntryIsReal(hive, volume_entry(f))
        BY <1>3, <1>4, <2>3, EntryOfFrame
      <3> QED
        BY <2>1, <3>1, <3>2, PushStack
    <2> QED
      BY <2>2, <2>3
  <1>7. TypeOK'
    BY <1>1, <1>5, <1>6, NextSubkey DEF ReadSlot, WalkInv, TypeOK
  <1>8. FramesAreReal'
    BY <1>3, <1>5 DEF ReadSlot, FramesAreReal
  <1>9. OpenKey'
    BY <1>1, NextSubkey DEF ReadSlot, OpenKey, Listed
  <1>10. EntriesAreReal'
    BY <1>6 DEF ReadSlot, EntriesAreReal
  <1> QED
    BY <1>7, <1>8, <1>9, <1>10 DEF ReadSlot, WalkInv, PendingAreRoots

LEMMA LeaveKeyStep == WalkInv /\ LeaveKey => WalkInv'
  BY DEF LeaveKey, WalkInv, TypeOK, Optional, PendingAreRoots, FramesAreReal,
         OpenKey, EntriesAreReal

LEMMA WalkStep == WalkInv /\ [Next]_vars => WalkInv'
  <1> SUFFICES ASSUME WalkInv, [Next]_vars
               PROVE  WalkInv'
    OBVIOUS
  <1>1. CASE UNCHANGED vars
    BY <1>1 DEF vars, WalkInv, TypeOK, PendingAreRoots, FramesAreReal, OpenKey,
                Listed, EntriesAreReal
  <1>2. CASE Next
    BY <1>2, MissingRootStep, OpenRootStep, PopVisitedStep, PopUnreadableStep,
       PopKeyStep, SkipStrayStep, ReadSlotStep, LeaveKeyStep DEF Next
  <1> QED
    BY <1>1, <1>2

-----------------------------------------------------------------------------
\* Whatever the hive: the walk's inductive invariant holds in every state.
THEOREM WalkCorrect == Spec => []WalkInv
  BY WalkInit, WalkStep, PTL DEF Spec

\* Type correctness of the walk, for every hive.
THEOREM TypeCorrect == Spec => []TypeOK
  BY WalkCorrect, PTL DEF WalkInv

\* Every entry names a path of the hive from one of its roots and the letter of
\* the first volume on it: no items of another branch ever leak into an entry.
THEOREM EntriesReal == Spec => []EntriesAreReal
  BY WalkCorrect, PTL DEF WalkInv

-----------------------------------------------------------------------------
(***************************************************************************)
(* The walk implements HiveCover.  Opening a root and visiting a cell are  *)
(* the abstract steps; reading a slot moves its cell from the unread ones  *)
(* to the stack, which the frontier does not tell apart.                   *)
(***************************************************************************)

Frontier == (OnStack \cup Unread) \ visited

\* Popping takes one cell off the stack, and only that one.
LEMMA PoppedCells ==
    ASSUME WalkInv, stack # <<>>, stack' = Popped
    PROVE  OnStack = OnStack' \cup {Top.cell}
  <1>1. stack \in Seq(Frames)
    BY DEF WalkInv, TypeOK
  <1>2. /\ Len(stack) \in Nat \ {0}
        /\ DOMAIN stack = 1..Len(stack)
        /\ DOMAIN stack' = 1..(Len(stack) - 1)
        /\ \A i \in DOMAIN stack' : stack'[i] = stack[i]
    BY <1>1, PopStack DEF Popped
  <1>3. OnStack' = {stack'[i].cell : i \in DOMAIN stack'}
    BY DEF OnStack
  <1>4. DOMAIN stack = DOMAIN stack' \cup {Len(stack)}
    BY <1>2
  <1> QED
    BY <1>2, <1>3, <1>4 DEF OnStack, Top

\* Visiting the popped cell moves it from the frontier to the visited ones and
\* its slots into the frontier.
LEMMA VisitCells ==
    ASSUME NEW S, NEW T, NEW c, NEW V, NEW L, c \notin V, S = T \cup {c}
    PROVE  /\ c \in S \ V
           /\ (T \cup L) \ (V \cup {c}) = ((S \ V) \cup L) \ (V \cup {c})
  OBVIOUS

\* Reading on takes the subkey read off the unread ones.
LEMMA ReadOne ==
    ASSUME WalkInv, NEW c, IsNext(c), key' = key, hive' = hive, nth' = nth + 1
    PROVE  /\ {Listed[i] : i \in nth..Len(Listed)}
                  = {Listed'[i] : i \in nth'..Len(Listed')} \cup {c}
           /\ Unread = (Unread' \cup {c}) \cap hive.slots
  <1>1. Listed' = Listed
    BY DEF Listed
  <1>2. {Listed[i] : i \in nth..Len(Listed)}
            = {Listed[i] : i \in (nth + 1)..Len(Listed)} \cup {c}
    BY NextSubkey
  <1> QED
    BY <1>1, <1>2, NextSubkey DEF Unread

\* A key is left when its list is read to the end.
LEMMA DoneReading ==
    ASSUME WalkInv, LeaveKey
    PROVE  /\ key # None /\ key' = None
           /\ key.cell \in Cells /\ Listed \in Seq(Cells)
           /\ nth..Len(Listed) = {}
           /\ \A i \in DOMAIN Listed : i < nth
  <1>1. key # None /\ nth \notin DOMAIN Listed /\ key' = None
    BY DEF LeaveKey
  <1>2. key.cell \in Cells /\ nth \in 1..(Len(Listed) + 1)
    BY <1>1 DEF WalkInv, TypeOK, Optional, Frames, OpenKey
  <1>3. Listed \in Seq(Cells)
    BY <1>2 DEF Listed, WalkInv, TypeOK, Hives, HiveShape
  <1> QED
    BY <1>1, <1>2, <1>3

LEMMA CoverStep == WalkInv /\ [Next]_vars => [Cover!Next]_(Cover!vars)
  <1> SUFFICES ASSUME WalkInv, [Next]_vars
               PROVE  [Cover!Next]_(Cover!vars)
    OBVIOUS
  <1> USE DEF Frontier
  <1>1. ASSUME UNCHANGED <<hive, pending, root, visited>>, Frontier' = Frontier
        PROVE  UNCHANGED Cover!vars
    BY <1>1 DEF Cover!vars
  <1>2. CASE UNCHANGED vars
    BY <1>1, <1>2 DEF vars, OnStack, Unread, Listed
  <1>3. ASSUME Idle
        PROVE  Frontier = {}
    BY <1>3 DEF Idle, OnStack, Unread
  <1>4. CASE MissingRoot
    <2>1. Frontier = {} /\ Frontier' = Frontier
      BY <1>3, <1>4 DEF MissingRoot, OnStack, Unread, Listed
    <2> QED
      BY <1>4, <2>1 DEF MissingRoot, Cover!Next, Cover!SkipRoot
  <1>5. CASE OpenRoot
    <2>1. DOMAIN stack' = {1} /\ stack'[1].cell = Head(pending)
      BY <1>5 DEF OpenRoot, RootFrame
    <2>2. OnStack' = {Head(pending)}
      BY <2>1 DEF OnStack
    <2>3. Unread' = {} /\ visited' = {}
      BY <1>5 DEF OpenRoot, Idle, Unread
    <2>4. Frontier' = {Head(pending)}
      BY <2>2, <2>3
    <2> QED
      BY <1>3, <1>5, <2>4 DEF OpenRoot, Cover!Next, Cover!StartRoot
  <1>6. CASE PopVisited
    <2>1. OnStack = OnStack' \cup {Top.cell} /\ Unread' = Unread
      BY <1>6, PoppedCells DEF PopVisited, Unread, Listed
    <2>2. Frontier' = Frontier
      BY <1>6, <2>1 DEF PopVisited
    <2> QED
      BY <1>1, <1>6, <2>2 DEF PopVisited
  <1>7. ASSUME stack # <<>>, key = None, Top.cell \notin visited,
               stack' = Popped, visited' = visited \cup {Top.cell},
               Unread' = SlotsIn(hive, Top.cell),
               UNCHANGED <<hive, pending, root>>
        PROVE  Cover!Next
    <2> DEFINE c == Top.cell
    <2>1. c \in Cells /\ OnStack = OnStack' \cup {c} /\ Unread = {}
      BY <1>7, TopIsReal, PoppedCells DEF Unread
    <2>2. Cover!SlotsOf(c) = SlotsIn(hive, c)
      BY DEF Cover!SlotsOf, SlotsIn, Range, Cover!Range
    <2>3. /\ c \in Frontier
          /\ Frontier' = (Frontier \cup SlotsIn(hive, c)) \ (visited \cup {c})
      BY <1>7, <2>1, VisitCells
    <2>4. Cover!Visit(c)
      BY <1>7, <2>2, <2>3 DEF Cover!Visit
    <2> QED
      BY <2>1, <2>4 DEF Cover!Next
  <1>8. CASE PopUnreadable
    <2>1. Unread' = SlotsIn(hive, Top.cell)
      BY <1>8 DEF PopUnreadable, Unread, SlotsIn
    <2> QED
      BY <1>7, <1>8, <2>1 DEF PopUnreadable
  <1>9. CASE PopKey
    <2>1. key' = Top /\ Top # None /\ nth' = 1 /\ hive' = hive
          /\ Top.cell \notin hive.broken
          /\ hive.subkeys[Top.cell] \in Seq(Cells)
      BY <1>9, TopIsReal, NoneIsNoRecord
         DEF PopKey, WalkInv, TypeOK, Hives, HiveShape
    <2>2. Listed' = hive.subkeys[Top.cell]
      BY <2>1 DEF Listed
    <2>3. {Listed'[i] : i \in nth'..Len(Listed')} = Range(hive.subkeys[Top.cell])
      BY <2>1, <2>2 DEF Range
    <2>4. Unread' = SlotsIn(hive, Top.cell)
      BY <2>1, <2>3 DEF Unread, SlotsIn
    <2> QED
      BY <1>7, <1>9, <2>4 DEF PopKey
  <1>10. ASSUME NEW c \in Cells, SkipStray(c)
         PROVE  UNCHANGED Cover!vars
    <2>1. OnStack' = OnStack /\ c \notin hive.slots
      BY <1>10 DEF SkipStray, OnStack
    <2>2. Unread = (Unread' \cup {c}) \cap hive.slots
      BY <1>10, ReadOne DEF SkipStray
    <2>3. Unread' \subseteq hive.slots /\ hive' = hive
      BY <1>10 DEF SkipStray, Unread
    <2>4. Unread' = Unread
      BY <2>1, <2>2, <2>3
    <2> QED
      BY <1>1, <1>10, <2>1, <2>4 DEF SkipStray
  <1>11. ASSUME NEW c \in Cells, ReadSlot(c)
         PROVE  UNCHANGED Cover!vars
    <2> DEFINE f == ChildFrame(key, c)
    <2>1. c \in hive.slots /\ stack' = Append(stack, f)
      BY <1>11 DEF ReadSlot
    <2>2. stack \in Seq(Frames)
      BY DEF WalkInv, TypeOK
    <2>3. /\ DOMAIN stack' = DOMAIN stack \cup {Len(stack) + 1}
          /\ \A i \in DOMAIN stack : stack'[i] = stack[i]
          /\ stack'[Len(stack) + 1] = f
      BY <2>1, <2>2
    <2>4. f.cell = c
      BY DEF ChildFrame
    <2>5. OnStack' = {stack'[i].cell : i \in DOMAIN stack'}
      BY DEF OnStack
    <2>6. OnStack' = OnStack \cup {c}
      BY <2>3, <2>4, <2>5 DEF OnStack
    <2>7. Unread = Unread' \cup {c}
      <3>1. Unread = (Unread' \cup {c}) \cap hive.slots
        BY <1>11, ReadOne DEF ReadSlot
      <3>2. Unread' \subseteq hive.slots
        BY <1>11 DEF ReadSlot, Unread
      <3> QED
        BY <2>1, <3>1, <3>2
    <2>8. Frontier' = Frontier
      BY <1>11, <2>6, <2>7 DEF ReadSlot
    <2> QED
      BY <1>1, <1>11, <2>8 DEF ReadSlot
  <1>12. CASE LeaveKey
    <2>1. OnStack' = OnStack /\ Unread' = {} /\ Unread = {}
      BY <1>12, DoneReading DEF LeaveKey, OnStack, Unread
    <2> QED
      BY <1>1, <1>12, <2>1 DEF LeaveKey
  <1> QED
    BY <1>2, <1>4, <1>5, <1>6, <1>8, <1>9, <1>10, <1>11, <1>12 DEF Next

\* The detailed walk is an implementation of the abstract one: it visits what is
\* reachable from each root, each cell once, and nothing else.
THEOREM WalkImplementsCover == Spec => ImplementsCover
  <1>1. Init => Cover!Init
    BY DEF Init, StartWalk, Cover!Init, OnStack, Unread
  <1>2. WalkInv /\ [Next]_vars => [Cover!Next]_(Cover!vars)
    BY CoverStep
  <1> QED
    BY <1>1, <1>2, WalkCorrect, PTL DEF Spec, ImplementsCover, Cover!Spec

-----------------------------------------------------------------------------
(***************************************************************************)
(* What the abstract walk has found, and so what the detailed one has.     *)
(***************************************************************************)

LEMMA CoverStarts == Cover!Init => Cover!CoverInv
  BY DEF Cover!Init, Cover!CoverInv

LEMMA CoverKeeps ==
    ASSUME hive \in Hives, pending \in Seq(Optional(Cells)), Cover!CoverInv,
           [Cover!Next]_(Cover!vars)
    PROVE  Cover!CoverInv'
  <1>1. CASE UNCHANGED Cover!vars
    BY <1>1 DEF Cover!vars, Cover!CoverInv, Cover!Closed, Cover!SlotsOf
  <1>2. CASE Cover!SkipRoot
    BY <1>2 DEF Cover!SkipRoot, Cover!CoverInv, Cover!Closed, Cover!SlotsOf
  <1>3. CASE Cover!StartRoot
    <2>1. Head(pending) \in Cells
      BY <1>3, TakeRoot DEF Cover!StartRoot, Optional
    <2> QED
      BY <1>3, <2>1, NoneIsNoCell DEF Cover!StartRoot, Cover!CoverInv, Cover!Closed, Cover!SlotsOf
  <1>4. ASSUME NEW c \in Cells, Cover!Visit(c)
        PROVE  Cover!CoverInv'
    <2> DEFINE known == visited \cup Frontier
               slots == Cover!SlotsOf(c)
    <2>1. /\ c \in Frontier /\ root # None
          /\ visited' = visited \cup {c}
          /\ Frontier' = (Frontier \cup slots) \ visited'
          /\ hive' = hive /\ root' = root
      BY <1>4 DEF Cover!Visit, Cover!CoverInv, Frontier
    <2>2. visited' \cup Frontier' = known \cup slots
      BY <2>1
    <2>3. slots \subseteq Cells
      <3>1. hive.subkeys[c] \in Seq(Cells)
        BY DEF Hives, HiveShape
      <3>2. Cover!Range(hive.subkeys[c]) \subseteq Cells
        BY <3>1 DEF Cover!Range
      <3> QED
        BY <3>2 DEF Cover!SlotsOf
    <2>4. \A S \in SUBSET Cells : Cover!Closed(S) => known \cup slots \subseteq S
      BY <2>1 DEF Cover!CoverInv, Cover!Closed, Frontier
    <2>5. \A d \in visited' : Cover!SlotsOf(d) \subseteq known \cup slots
      BY <2>1 DEF Cover!CoverInv, Frontier
    <2>6. \A d : Cover!SlotsOf(d)' = Cover!SlotsOf(d)
      BY <2>1 DEF Cover!SlotsOf
    <2>7. \A S : Cover!Closed(S)' <=> Cover!Closed(S)
      BY <2>1, <2>6 DEF Cover!Closed
    <2> QED
      BY <2>1, <2>2, <2>3, <2>4, <2>5, <2>6, <2>7 DEF Cover!CoverInv, Frontier
  <1> QED
    BY <1>1, <1>2, <1>3, <1>4 DEF Cover!Next

LEMMA CoverFound == Cover!CoverInv => ReachedExactly
  BY DEF Cover!CoverInv, ReachedExactly, Cover!ReachedExactly, Cover!Closed

\* When nothing unvisited is on the stack the walk has visited exactly the cells
\* reachable from its root: the least set that holds the root and, with a cell,
\* its slot subkeys.
THEOREM WalkReachesExactly == Spec => []ReachedExactly
  <1>1. WalkInv => hive \in Hives /\ pending \in Seq(Optional(Cells))
    BY DEF WalkInv, TypeOK
  <1>2. Init => Cover!CoverInv
    BY CoverStarts DEF Init, StartWalk, Cover!Init, OnStack, Unread
  <1>3. WalkInv /\ [Next]_vars => [Cover!Next]_(Cover!vars)
    BY CoverStep
  <1>4. WalkInv /\ Cover!CoverInv /\ [Next]_vars => Cover!CoverInv'
    BY <1>1, <1>3, CoverKeeps
  <1> QED
    BY <1>2, <1>4, CoverFound, WalkCorrect, PTL DEF Spec

-----------------------------------------------------------------------------
(***************************************************************************)
(* A link is reported at most as often as its key's list mentions it.  A   *)
(* key is opened once in a walk, so every report has a mention of its own  *)
(* among those read; entries of earlier walks have another root.           *)
(***************************************************************************)

\* An entry's path has a last link.
LEMMA EntryPath ==
    ASSUME WalkInv, NEW k \in DOMAIN out
    PROVE  /\ out[k].path \in Seq(Cells)
           /\ Len(out[k].path) \in Nat
           /\ Len(out[k].path) > 1
           /\ out[k].path[1] \in RootsOf(hive)
           /\ RealPath(hive, out[k].path[1], out[k].path)
  <1> DEFINE p == out[k].path
  <1>1. out[k] \in Entries /\ EntryIsReal(hive, out[k])
    BY DEF WalkInv, TypeOK, EntriesAreReal
  <1>2. p \in Seq(Cells)
    BY <1>1 DEF Entries
  <1>3. PICK v \in Volumes : IsFirstVolume(hive, v, p)
    BY <1>1 DEF EntryIsReal
  <1>4. v # None
    BY NoneIsNoRecord
  <1>5. PICK i \in 1..(Len(p) - 1) : TRUE
    BY <1>3, <1>4 DEF IsFirstVolume
  <1>6. Len(p) \in Nat /\ Len(p) > 1
    BY <1>2, <1>5
  <1> QED
    BY <1>1, <1>2, <1>6 DEF EntryIsReal

\* A link's reports and its mentions are finitely many.
LEMMA FinitelyMany ==
    ASSUME WalkInv, NEW c \in Cells, NEW d
    PROVE  /\ \A link : /\ IsFiniteSet(ReportsOf(link))
                        /\ Cardinality(ReportsOf(link)) \in Nat
           /\ IsFiniteSet(Mentions(c, d))
           /\ Cardinality(Mentions(c, d)) \in Nat
           /\ \A r : /\ IsFiniteSet(MentionsBehind(r, c, d))
                     /\ MentionsBehind(r, c, d) \subseteq Mentions(c, d)
                     /\ Cardinality(MentionsBehind(r, c, d)) \in Nat
  <1>1. out \in Seq(Entries) /\ hive.subkeys[c] \in Seq(Cells)
    BY DEF WalkInv, TypeOK, Hives, HiveShape
  <1>2. IsFiniteSet(DOMAIN out) /\ IsFiniteSet(DOMAIN hive.subkeys[c])
    <2>1. /\ DOMAIN out = 1..Len(out) /\ Len(out) \in Nat
          /\ DOMAIN hive.subkeys[c] = 1..Len(hive.subkeys[c])
          /\ Len(hive.subkeys[c]) \in Nat
      BY <1>1
    <2>2. \A n \in Nat : IsFiniteSet(1..n)
      BY FS_Interval
    <2> QED
      BY <2>1, <2>2
  <1>3. \A link : ReportsOf(link) \subseteq DOMAIN out
    BY DEF ReportsOf
  <1>4. Mentions(c, d) \subseteq DOMAIN hive.subkeys[c]
    BY DEF Mentions
  <1>5. \A r : MentionsBehind(r, c, d) \subseteq Mentions(c, d)
    BY DEF MentionsBehind
  <1>6. IsFiniteSet(Mentions(c, d))
    BY <1>2, <1>4, FS_Subset
  <1> QED
    BY <1>2, <1>3, <1>5, <1>6, FS_Subset, FS_CardinalityType

\* A step that reports nothing and takes no mention from behind the walk.
LEMMA LinksKept ==
    ASSUME WalkInv, LinksBehind, hive' = hive, out' = out,
           \A r, c, d \in Cells :
              MentionsBehind(r, c, d) \subseteq MentionsBehind(r, c, d)'
    PROVE  LinksBehind'
  <1> SUFFICES ASSUME NEW r \in Cells, NEW c \in Cells, NEW d \in Cells
               PROVE  Cardinality(ReportsOf(<<r, c, d>>)')
                         <= Cardinality(MentionsBehind(r, c, d)')
    BY DEF LinksBehind
  <1>1. ReportsOf(<<r, c, d>>)' = ReportsOf(<<r, c, d>>)
    BY DEF ReportsOf
  <1>2. Cardinality(ReportsOf(<<r, c, d>>)) <= Cardinality(MentionsBehind(r, c, d))
    BY DEF LinksBehind
  <1>3. MentionsBehind(r, c, d)' \subseteq Mentions(c, d)
    BY DEF MentionsBehind, Mentions
  <1>4. /\ IsFiniteSet(MentionsBehind(r, c, d)')
        /\ Cardinality(MentionsBehind(r, c, d)') \in Nat
    BY <1>3, FinitelyMany, FS_Subset, FS_CardinalityType
  <1>5. Cardinality(MentionsBehind(r, c, d)) <= Cardinality(MentionsBehind(r, c, d)')
    BY <1>4, FS_Subset
  <1>6. /\ Cardinality(ReportsOf(<<r, c, d>>)) \in Nat
        /\ Cardinality(MentionsBehind(r, c, d)) \in Nat
    BY FinitelyMany
  <1> DEFINE a == Cardinality(ReportsOf(<<r, c, d>>))
             m == Cardinality(MentionsBehind(r, c, d))
             n == Cardinality(MentionsBehind(r, c, d)')
  <1>7. a <= n
    <2> HIDE DEF a, m, n
    <2>1. a \in Nat /\ m \in Nat /\ n \in Nat /\ a <= m /\ m <= n
      BY <1>2, <1>4, <1>5, <1>6 DEF a, m, n
    <2> QED
      BY <2>1
  <1> QED
    BY <1>1, <1>7

LEMMA LinkInit == Init => LinkInv
  <1> SUFFICES ASSUME Init
               PROVE  LinkInv
    OBVIOUS
  <1>1. out = <<>> /\ DOMAIN out = {} /\ key = None /\ root = None
    BY DEF Init, StartWalk
  <1>2. RootsApart
    BY <1>1 DEF Init, StartWalk, Hives, RootsApart
  <1>3. LinksBehind
    <2> SUFFICES ASSUME NEW r \in Cells, NEW c \in Cells, NEW d \in Cells
                 PROVE  Cardinality(ReportsOf(<<r, c, d>>))
                           <= Cardinality(MentionsBehind(r, c, d))
      BY DEF LinksBehind
    <2>1. ReportsOf(<<r, c, d>>) = {}
      BY <1>1 DEF ReportsOf
    <2>2. Cardinality(ReportsOf(<<r, c, d>>)) = 0
      BY <2>1, FS_EmptySet
    <2>3. Cardinality(MentionsBehind(r, c, d)) \in Nat
      BY FinitelyMany, WalkInit
    <2> QED
      BY <2>2, <2>3
  <1> QED
    BY <1>1, <1>2, <1>3 DEF LinkInv, OpenKeyVisited

LEMMA LinkMissingRoot == WalkInv /\ LinkInv /\ MissingRoot => LinkInv'
  <1> SUFFICES ASSUME WalkInv, LinkInv, MissingRoot
               PROVE  LinkInv'
    OBVIOUS
  <1>1. \A i \in DOMAIN pending' :
           i \in Nat /\ i + 1 \in DOMAIN pending /\ pending'[i] = pending[i + 1]
    BY TakeRoot DEF WalkInv, TypeOK, MissingRoot
  <1>2. RootsApart'
    BY <1>1 DEF LinkInv, RootsApart, MissingRoot
  <1>3. \A r, c, d \in Cells : MentionsBehind(r, c, d)' = MentionsBehind(r, c, d)
    BY DEF MissingRoot, MentionsBehind, Mentions
  <1>4. LinksBehind'
    BY <1>3, LinksKept DEF MissingRoot, LinkInv
  <1> QED
    BY <1>2, <1>4 DEF MissingRoot, LinkInv, OpenKeyVisited

\* The new root has no reports yet; those of the others keep their mentions.
LEMMA LinkOpenRoot == WalkInv /\ LinkInv /\ OpenRoot => LinkInv'
  <1> SUFFICES ASSUME WalkInv, LinkInv, OpenRoot
               PROVE  LinkInv'
    OBVIOUS
  <1>1. /\ 1 \in DOMAIN pending /\ root' = pending[1] /\ pending[1] # None
        /\ \A i \in DOMAIN pending' :
              i \in Nat \ {0} /\ i + 1 \in DOMAIN pending /\ pending'[i] = pending[i + 1]
    BY TakeRoot DEF WalkInv, TypeOK, OpenRoot
  <1>2. RootsApart'
    BY <1>1 DEF LinkInv, RootsApart, OpenRoot
  <1>3. \A k \in DOMAIN out : out[k].path[1] # root'
    BY <1>1 DEF LinkInv, RootsApart
  <1>4. LinksBehind'
    <2> SUFFICES ASSUME NEW r \in Cells, NEW c \in Cells, NEW d \in Cells
                 PROVE  Cardinality(ReportsOf(<<r, c, d>>)')
                           <= Cardinality(MentionsBehind(r, c, d)')
      BY DEF LinksBehind
    <2>1. /\ ReportsOf(<<r, c, d>>)' = ReportsOf(<<r, c, d>>)
          /\ Mentions(c, d)' = Mentions(c, d)
      BY DEF OpenRoot, ReportsOf, Mentions
    <2>2. CASE r = root'
      <3>1. ReportsOf(<<r, c, d>>) = {}
        BY <1>3, <2>2 DEF ReportsOf, LinkOf
      <3>2. MentionsBehind(r, c, d)' \subseteq Mentions(c, d)
        BY <2>1 DEF MentionsBehind
      <3>3. Cardinality(MentionsBehind(r, c, d)') \in Nat
        BY <3>2, FinitelyMany, FS_Subset, FS_CardinalityType
      <3> QED
        BY <2>1, <3>1, <3>3, FS_EmptySet
    <2>3. CASE r # root'
      <3>1. MentionsBehind(r, c, d)' = Mentions(c, d)
        BY <2>1, <2>3 DEF MentionsBehind
      <3>2. Cardinality(MentionsBehind(r, c, d)) <= Cardinality(Mentions(c, d))
        BY FinitelyMany, FS_Subset
      <3>3. Cardinality(ReportsOf(<<r, c, d>>)) <= Cardinality(MentionsBehind(r, c, d))
        BY DEF LinkInv, LinksBehind
      <3> QED
        BY <2>1, <3>1, <3>2, <3>3, FinitelyMany
    <2> QED
      BY <2>2, <2>3
  <1> QED
    BY <1>2, <1>4 DEF OpenRoot, Idle, LinkInv, OpenKeyVisited

LEMMA LinkPop == WalkInv /\ LinkInv /\ (PopVisited \/ PopUnreadable) => LinkInv'
  <1> SUFFICES ASSUME WalkInv, LinkInv, PopVisited \/ PopUnreadable
               PROVE  LinkInv'
    OBVIOUS
  <1>1. /\ hive' = hive /\ pending' = pending /\ root' = root /\ key' = key
        /\ nth' = nth /\ out' = out /\ visited \subseteq visited'
    BY DEF PopVisited, PopUnreadable
  <1>2. \A r, c, d \in Cells : MentionsBehind(r, c, d) \subseteq MentionsBehind(r, c, d)'
    BY <1>1 DEF MentionsBehind, Mentions
  <1>3. LinksBehind'
    BY <1>1, <1>2, LinksKept DEF LinkInv
  <1> QED
    BY <1>1, <1>3 DEF LinkInv, RootsApart, OpenKeyVisited

LEMMA LinkPopKey == WalkInv /\ LinkInv /\ PopKey => LinkInv'
  <1> SUFFICES ASSUME WalkInv, LinkInv, PopKey
               PROVE  LinkInv'
    OBVIOUS
  <1>1. /\ hive' = hive /\ pending' = pending /\ root' = root /\ out' = out
        /\ key = None /\ key' = Top /\ Top.cell \notin visited
        /\ visited' = visited \cup {Top.cell}
    BY DEF PopKey
  <1>2. \A r, c, d \in Cells : MentionsBehind(r, c, d) \subseteq MentionsBehind(r, c, d)'
    BY <1>1 DEF MentionsBehind, Mentions
  <1>3. LinksBehind'
    BY <1>1, <1>2, LinksKept DEF LinkInv
  <1> QED
    BY <1>1, <1>3 DEF LinkInv, RootsApart, OpenKeyVisited

\* The mentions behind a walk that reads on in its open key.
LEMMA MentionRead ==
    ASSUME WalkInv, OpenKeyVisited, NEW c, IsNext(c),
           key' = key, hive' = hive, root' = root, visited' = visited,
           nth' = nth + 1
    PROVE  /\ \A r, b, d : MentionsBehind(r, b, d) \subseteq MentionsBehind(r, b, d)'
           /\ nth \notin MentionsBehind(root, key.cell, c)
           /\ MentionsBehind(root, key.cell, c)'
                 = MentionsBehind(root, key.cell, c) \cup {nth}
  <1>1. /\ key # None /\ nth \in DOMAIN hive.subkeys[key.cell]
        /\ hive.subkeys[key.cell][nth] = c /\ nth \in Nat
        /\ hive.subkeys[key.cell] \in Seq(Cells)
    BY NextSubkey
  <1>2. key.cell \in visited
    BY <1>1 DEF OpenKeyVisited
  <1>3. \A b, d : /\ Mentions(b, d)' = Mentions(b, d)
    BY DEF Mentions
  <1>4. \A d : Mentions(key.cell, d) \subseteq Nat
    BY <1>1 DEF Mentions
  <1>5. nth \in Mentions(key.cell, c)
    BY <1>1 DEF Mentions
  <1>6. \A i \in Nat : i < nth + 1 <=> i < nth \/ i = nth
    BY <1>1
  <1>7. ~(nth < nth)
    BY <1>1
  <1> QED
    BY <1>1, <1>2, <1>3, <1>4, <1>5, <1>6, <1>7 DEF MentionsBehind

LEMMA LinkSkipStray ==
    ASSUME WalkInv, LinkInv, NEW c \in Cells, SkipStray(c)
    PROVE  LinkInv'
  <1>1. \A r, b, d : MentionsBehind(r, b, d) \subseteq MentionsBehind(r, b, d)'
    BY MentionRead DEF SkipStray, LinkInv
  <1>2. LinksBehind'
    BY <1>1, LinksKept DEF SkipStray, LinkInv
  <1> QED
    BY <1>2 DEF SkipStray, LinkInv, RootsApart, OpenKeyVisited

\* What reading a slot adds to the output, if anything.
LEMMA SlotEntry ==
    ASSUME WalkInv, NEW c \in Cells, ReadSlot(c)
    PROVE  /\ key # None /\ key \in Frames /\ IsNext(c)
           /\ root \in RootsOf(hive)
           /\ FrameIsReal(hive, root, key)
           /\ c \in SlotsIn(hive, key.cell)
           /\ ChildFrame(key, c) \in Frames
           /\ FrameIsReal(hive, root, ChildFrame(key, c))
           /\ ChildFrame(key, c).path = Append(key.path, c)
           /\ Len(Append(key.path, c)) \in Nat
           /\ Len(Append(key.path, c)) > 1
           /\ Append(key.path, c)[1] = root
           /\ Append(key.path, c)[Len(Append(key.path, c)) - 1] = key.cell
           /\ Append(key.path, c)[Len(Append(key.path, c))] = c
           /\ \A k \in DOMAIN out : k \in DOMAIN out' /\ out'[k] = out[k]
           /\ \A k \in DOMAIN out' : k \notin DOMAIN out =>
                 /\ k = Len(out) + 1
                 /\ out'[k].path = Append(key.path, c)
           /\ ChildFrame(key, c).volume # None =>
                 /\ Len(out) + 1 \in DOMAIN out'
                 /\ out'[Len(out) + 1].path = Append(key.path, c)
  <1> DEFINE f == ChildFrame(key, c)
             p == Append(key.path, c)
  <1>1. IsNext(c) /\ c \in hive.slots
    BY DEF ReadSlot
  <1>2. key # None /\ key \in Frames /\ c \in SlotsIn(hive, key.cell)
    BY <1>1, NextSubkey DEF SlotsIn
  <1>3. root \in RootsOf(hive) /\ FrameIsReal(hive, root, key)
    BY <1>2 DEF WalkInv, FramesAreReal
  <1>4. /\ key.path \in Seq(Cells) /\ key.path # <<>> /\ key.path[1] = root
        /\ key.path[Len(key.path)] = key.cell
    BY <1>2, <1>3 DEF Frames, FrameIsReal, RealPath
  <1>5. f.path = p
    BY DEF ChildFrame
  <1>6. /\ Len(p) \in Nat /\ Len(p) > 1 /\ p[1] = root
        /\ p[Len(p) - 1] = key.cell /\ p[Len(p)] = c
    BY <1>4
  <1>7. f \in Frames /\ FrameIsReal(hive, root, f)
    BY <1>2, <1>3, ChildIsReal DEF WalkInv, TypeOK
  <1>8. CASE f.volume = None
    BY <1>1, <1>2, <1>3, <1>5, <1>6, <1>7, <1>8 DEF ReadSlot
  <1>9. CASE f.volume # None
    <2>1. out' = Append(out, volume_entry(f)) /\ out \in Seq(Entries)
      BY <1>9 DEF ReadSlot, WalkInv, TypeOK
    <2>2. volume_entry(f) \in Entries /\ volume_entry(f).path = p
      BY <1>3, <1>5, <1>7, <1>9, EntryOfFrame DEF volume_entry
    <2>3. /\ DOMAIN out' = DOMAIN out \cup {Len(out) + 1}
          /\ \A k \in DOMAIN out : out'[k] = out[k]
          /\ out'[Len(out) + 1] = volume_entry(f)
      BY <2>1, <2>2, PushStack
    <2> QED
      BY <1>1, <1>2, <1>3, <1>5, <1>6, <1>7, <2>2, <2>3
  <1> QED
    BY <1>8, <1>9

\* At most one more element.
LEMMA OneMore ==
    ASSUME NEW R, IsFiniteSet(R), NEW x, NEW S, S \subseteq R \cup {x}
    PROVE  Cardinality(S) \in Nat /\ Cardinality(S) <= Cardinality(R) + 1
  <1>1. Cardinality(R) \in Nat
    BY FS_CardinalityType
  <1>2. /\ IsFiniteSet(R \cup {x})
        /\ Cardinality(R \cup {x}) = Cardinality(R) \/ Cardinality(R \cup {x}) = Cardinality(R) + 1
    BY FS_AddElement
  <1>3. /\ Cardinality(S) \in Nat /\ Cardinality(R \cup {x}) \in Nat
        /\ Cardinality(S) <= Cardinality(R \cup {x})
    BY <1>2, FS_Subset, FS_CardinalityType
  <1> QED
    BY <1>1, <1>2, <1>3

\* The entry that is pushed, if any, has the mention just read.
LEMMA LinkReadSlot ==
    ASSUME WalkInv, LinkInv, NEW c \in Cells, ReadSlot(c)
    PROVE  LinkInv'
  <1> DEFINE p == Append(key.path, c)
             link == <<root, key.cell, c>>
  <1>1. /\ key' = key /\ root' = root /\ visited' = visited /\ pending' = pending
        /\ hive' = hive /\ nth' = nth + 1 /\ IsNext(c)
    BY DEF ReadSlot
  <1>2. /\ key # None /\ key \in Frames /\ root \in RootsOf(hive)
        /\ p[1] = root /\ p[Len(p) - 1] = key.cell /\ p[Len(p)] = c
        /\ \A k \in DOMAIN out : k \in DOMAIN out' /\ out'[k] = out[k]
        /\ \A k \in DOMAIN out' : k \notin DOMAIN out => k = Len(out) + 1 /\ out'[k].path = p
    BY SlotEntry
  <1> HIDE DEF p
  <1>3. RootsApart'
    BY <1>1, <1>2 DEF LinkInv, RootsApart
  <1>4. OpenKeyVisited'
    BY <1>1 DEF LinkInv, OpenKeyVisited
  <1>5. ASSUME NEW k \in DOMAIN out', k \notin DOMAIN out
        PROVE  k = Len(out) + 1 /\ LinkOf(out'[k]) = link
    BY <1>2, <1>5 DEF LinkOf
  <1>6. ASSUME NEW l
        PROVE  /\ l # link => ReportsOf(l)' = ReportsOf(l)
               /\ ReportsOf(l)' \subseteq ReportsOf(l) \cup {Len(out) + 1}
    <2>1. ReportsOf(l) \subseteq ReportsOf(l)'
      BY <1>2 DEF ReportsOf, LinkOf
    <2>2. ASSUME NEW k \in ReportsOf(l)', k \notin ReportsOf(l)
          PROVE  k = Len(out) + 1 /\ l = link
      <3>1. k \in DOMAIN out' /\ LinkOf(out'[k]) = l
        BY DEF ReportsOf, LinkOf
      <3>2. k \notin DOMAIN out
        BY <1>2, <2>2, <3>1 DEF ReportsOf
      <3> QED
        BY <1>5, <3>1, <3>2
    <2> QED
      BY <2>1, <2>2
  <1>7. /\ \A r, b, d : MentionsBehind(r, b, d) \subseteq MentionsBehind(r, b, d)'
        /\ nth \notin MentionsBehind(root, key.cell, c)
        /\ MentionsBehind(root, key.cell, c)'
              = MentionsBehind(root, key.cell, c) \cup {nth}
    BY <1>1, MentionRead DEF LinkInv
  <1>8. ASSUME NEW r \in Cells, NEW b \in Cells, NEW d \in Cells
        PROVE  Cardinality(ReportsOf(<<r, b, d>>)')
                  <= Cardinality(MentionsBehind(r, b, d)')
    <2> DEFINE l == <<r, b, d>>
               R == ReportsOf(l)
               M == MentionsBehind(r, b, d)
    <2>1. /\ Cardinality(R) <= Cardinality(M)
          /\ IsFiniteSet(R) /\ IsFiniteSet(M)
          /\ Cardinality(R) \in Nat /\ Cardinality(M) \in Nat
      BY FinitelyMany DEF LinkInv, LinksBehind
    <2>2. /\ M' \subseteq Mentions(b, d) /\ IsFiniteSet(Mentions(b, d))
      BY <1>1, FinitelyMany DEF MentionsBehind, Mentions
    <2>3. IsFiniteSet(M') /\ Cardinality(M') \in Nat
      BY <2>2, FS_Subset, FS_CardinalityType
    <2>4. CASE l # link
      <3>1. R' = R /\ M \subseteq M'
        BY <1>6, <1>7, <2>4
      <3>2. Cardinality(M) <= Cardinality(M')
        BY <2>3, <3>1, FS_Subset
      <3> QED
        BY <2>1, <2>3, <3>1, <3>2
    <2>6. l = link => r = root /\ b = key.cell /\ d = c
      OBVIOUS
    <2>5. CASE l = link
      <3>1. M' = M \cup {nth} /\ nth \notin M
        BY <1>1, <1>7, <2>5, <2>6 DEF MentionsBehind, Mentions
      <3>2. R' \subseteq R \cup {Len(out) + 1}
        BY <1>6
      <3> HIDE DEF R, M
      <3>3. Cardinality(M') = Cardinality(M) + 1
        BY <2>1, <3>1, FS_AddElement
      <3>4. Cardinality(R') <= Cardinality(R) + 1 /\ Cardinality(R') \in Nat
        BY <2>1, <3>2, OneMore
      <3> QED
        BY <2>1, <3>3, <3>4 DEF R, M
    <2> QED
      BY <2>4, <2>5
  <1>9. LinksBehind'
    BY <1>8 DEF LinksBehind
  <1> QED
    BY <1>3, <1>4, <1>9 DEF LinkInv

\* The list was read to its end: every mention is behind.
LEMMA LinkLeaveKey == WalkInv /\ LinkInv /\ LeaveKey => LinkInv'
  <1> SUFFICES ASSUME WalkInv, LinkInv, LeaveKey
               PROVE  LinkInv'
    OBVIOUS
  <1>1. /\ hive' = hive /\ pending' = pending /\ root' = root /\ out' = out
        /\ visited' = visited /\ key' = None
    BY DEF LeaveKey
  <1>2. \A r, c, d \in Cells : MentionsBehind(r, c, d) \subseteq MentionsBehind(r, c, d)'
    BY <1>1 DEF MentionsBehind, Mentions
  <1>3. LinksBehind'
    BY <1>1, <1>2, LinksKept DEF LinkInv
  <1> QED
    BY <1>1, <1>3 DEF LinkInv, RootsApart, OpenKeyVisited

LEMMA LinkStep == WalkInv /\ LinkInv /\ [Next]_vars => LinkInv'
  <1> SUFFICES ASSUME WalkInv, LinkInv, [Next]_vars
               PROVE  LinkInv'
    OBVIOUS
  <1>1. CASE UNCHANGED vars
    <2>1. \A r, c, d \in Cells : MentionsBehind(r, c, d)' = MentionsBehind(r, c, d)
      BY <1>1 DEF vars, MentionsBehind, Mentions
    <2>2. LinksBehind'
      BY <1>1, <2>1, LinksKept DEF vars, LinkInv
    <2> QED
      BY <1>1, <2>2 DEF vars, LinkInv, RootsApart, OpenKeyVisited
  <1>2. CASE Next
    BY <1>2, LinkMissingRoot, LinkOpenRoot, LinkPop, LinkPopKey, LinkSkipStray,
       LinkReadSlot, LinkLeaveKey DEF Next
  <1> QED
    BY <1>1, <1>2

\* What the invariant says of the link of an entry.
LEMMA LinkCounted ==
    ASSUME WalkInv, LinkInv, NEW k \in DOMAIN out
    PROVE  LET link == LinkOf(out[k]) IN
           /\ link[2] \in Cells
           /\ Cardinality(ReportsOf(link)) <= Cardinality(Mentions(link[2], link[3]))
  <1> DEFINE p == out[k].path
             r == p[1]
             c == p[Len(p) - 1]
             d == p[Len(p)]
  <1>1. r \in Cells /\ c \in Cells /\ d \in Cells
    BY EntryPath
  <1>2. LinkOf(out[k]) = <<r, c, d>>
    BY DEF LinkOf
  <1> HIDE DEF r, c, d
  <1>3. Cardinality(ReportsOf(<<r, c, d>>)) <= Cardinality(MentionsBehind(r, c, d))
    BY <1>1 DEF LinkInv, LinksBehind
  <1>4. Cardinality(MentionsBehind(r, c, d)) <= Cardinality(Mentions(c, d))
    BY <1>1, FinitelyMany, FS_Subset
  <1>5. Cardinality(ReportsOf(<<r, c, d>>)) <= Cardinality(Mentions(c, d))
    BY <1>1, <1>3, <1>4, FinitelyMany
  <1> QED
    BY <1>1, <1>2, <1>5

\* A link from a key to a slot is reported at most once for each place of the
\* key's list that names the slot, whatever the hive.
THEOREM LinksCounted == Spec => []LinkReportedPerMention
  <1>1. WalkInv /\ LinkInv => LinkReportedPerMention
    BY LinkCounted DEF LinkReportedPerMention
  <1> QED
    BY <1>1, LinkInit, LinkStep, WalkCorrect, PTL DEF Spec

-----------------------------------------------------------------------------
(***************************************************************************)
(* In a tree every volume node is reported once.  Paths have any length,   *)
(* so their facts are proved by least counterexample.                      *)
(***************************************************************************)

\* The least element principle: the sets 1..k, ordered by strict inclusion, are
\* well founded.
LEMMA LeastNat ==
    ASSUME NEW T \in SUBSET Nat, T # {}
    PROVE  \E m \in T : \A k \in T : m <= k
  <1> DEFINE U == {1..k : k \in T}
  <1>1. U \subseteq FiniteSubsetsOf(Nat) /\ U # {}
    <2>1. ASSUME NEW k \in T
          PROVE  1..k \in FiniteSubsetsOf(Nat)
      <3>1. k \in Int /\ 1 \in Int /\ 1..k \in SUBSET Nat
        OBVIOUS
      <3>2. IsFiniteSet(1..k)
        BY <3>1, FS_Interval
      <3> QED
        BY <3>1, <3>2 DEF FiniteSubsetsOf
    <2>2. U # {}
      BY DEF U
    <2> QED
      BY <2>1, <2>2
  <1>2. IsWellFoundedOn(StrictSubsetOrdering(Nat), FiniteSubsetsOf(Nat))
    BY FS_StrictSubsetOrderingWellFounded
  <1>3. PICK x \in U : \A y \in U : ~(<<y, x>> \in StrictSubsetOrdering(Nat))
    <2> HIDE DEF U
    <2> QED
      BY <1>1, <1>2, WFMin, Zenon
  <1>4. PICK m \in T : x = 1..m
    OBVIOUS
  <1>5. ASSUME NEW k \in T, k < m
        PROVE  FALSE
    <2>1. 1..k \subseteq 1..m /\ m \in 1..m /\ m \notin 1..k
      BY <1>5
    <2>2. <<1..k, 1..m>> \in StrictSubsetOrdering(Nat)
      BY <2>1 DEF StrictSubsetOrdering
    <2> QED
      BY <1>3, <1>4, <2>2
  <1> QED
    BY <1>5

\* In a tree one path leads to a cell: read from their ends, two real paths
\* with the same last cell agree as far as both go, and a root is nobody's
\* subkey.
LEMMA OnePath ==
    ASSUME hive \in Hives, IsTree,
           NEW r \in RootsOf(hive), NEW s \in RootsOf(hive),
           NEW p \in Seq(Cells), NEW q \in Seq(Cells),
           RealPath(hive, r, p), RealPath(hive, s, q),
           p[Len(p)] = q[Len(q)]
    PROVE  p = q
  <1> DEFINE m == Len(p)
             n == Len(q)
             Differ == {k \in Nat : k < m /\ k < n /\ p[m - k] # q[n - k]}
  <1>1. /\ m \in Nat \ {0} /\ n \in Nat \ {0}
        /\ DOMAIN p = 1..m /\ DOMAIN q = 1..n
        /\ \A i \in 1..m : p[i] \in Cells
        /\ \A i \in 1..n : q[i] \in Cells
    BY DEF RealPath
  <1>2. /\ \A i \in 1..(m - 1) : p[i + 1] \in Range(hive.subkeys[p[i]])
        /\ \A i \in 1..(n - 1) : q[i + 1] \in Range(hive.subkeys[q[i]])
    BY DEF RealPath, SlotsIn
  <1>3. Differ = {}
    <2> SUFFICES ASSUME Differ # {}
                 PROVE  FALSE
      OBVIOUS
    <2>1. PICK k \in Differ : \A l \in Differ : k <= l
      BY LeastNat
    <2>2. k \in Nat \ {0} /\ k < m /\ k < n /\ p[m - k] # q[n - k]
      BY <2>1
    <2>3. k - 1 \in Nat /\ k - 1 < m /\ k - 1 < n /\ k - 1 \notin Differ
      <3> HIDE DEF Differ, m, n
      <3>1. k - 1 \in Nat /\ k - 1 < m /\ k - 1 < n /\ ~(k <= k - 1)
        BY <1>1, <2>2
      <3> QED
        BY <2>1, <3>1
    <2>4. p[m - (k - 1)] = q[n - (k - 1)]
      BY <2>3
    <2> DEFINE i == m - k
               j == n - k
    <2>5. /\ i \in 1..(m - 1) /\ j \in 1..(n - 1)
          /\ i + 1 = m - (k - 1) /\ j + 1 = n - (k - 1)
          /\ i \in 1..m /\ j \in 1..n
      BY <1>1, <2>2
    <2>6. p[i + 1] \in Range(hive.subkeys[p[i]]) \cap Range(hive.subkeys[q[j]])
      BY <1>2, <2>4, <2>5
    <2>7. p[i] \in Cells /\ q[j] \in Cells
      BY <1>1, <2>5
    <2>8. p[i] # q[j]
      BY <2>2
    <2> HIDE DEF i, j
    <2> QED
      BY <2>6, <2>7, <2>8 DEF IsTree
  <1>4. \A k \in Nat : k < m /\ k < n => p[m - k] = q[n - k]
    BY <1>3
  <1> HIDE DEF Differ
  <1>5. p[1] = r /\ q[1] = s
    BY DEF RealPath
  <1>6. ~(m < n)
    <2> SUFFICES ASSUME m < n
                 PROVE  FALSE
      OBVIOUS
    <2> DEFINE j == n - m
    <2>1. /\ m - 1 \in Nat /\ m - 1 < m /\ m - 1 < n
          /\ m - (m - 1) = 1 /\ n - (m - 1) = j + 1
          /\ j \in 1..(n - 1) /\ j \in 1..n
      BY <1>1
    <2>2. q[j + 1] = r
      BY <1>4, <1>5, <2>1
    <2>3. r \in Range(hive.subkeys[q[j]]) /\ q[j] \in Cells
      BY <1>1, <1>2, <2>1, <2>2
    <2> QED
      BY <2>3 DEF IsTree
  <1>7. ~(n < m)
    <2> SUFFICES ASSUME n < m
                 PROVE  FALSE
      OBVIOUS
    <2> DEFINE i == m - n
    <2>1. /\ n - 1 \in Nat /\ n - 1 < m /\ n - 1 < n
          /\ n - (n - 1) = 1 /\ m - (n - 1) = i + 1
          /\ i \in 1..(m - 1) /\ i \in 1..m
      BY <1>1
    <2>2. p[i + 1] = s
      BY <1>4, <1>5, <2>1
    <2>3. s \in Range(hive.subkeys[p[i]]) /\ p[i] \in Cells
      BY <1>1, <1>2, <2>1, <2>2
    <2> QED
      BY <2>3 DEF IsTree
  <1>8. m = n
    <2> HIDE DEF m, n
    <2> QED
      BY <1>1, <1>6, <1>7
  <1>9. \A i \in 1..m : p[i] = q[i]
    <2> TAKE i \in 1..m
    <2>1. m - i \in Nat /\ m - i < m /\ m - (m - i) = i
      BY <1>1
    <2> QED
      BY <1>4, <1>8, <2>1
  <1> QED
    BY <1>1, <1>8, <1>9

\* A set that holds the root and the slots of its members holds every real path.
LEMMA ClosedHoldsPath ==
    ASSUME Cover!Closed(visited), NEW p \in Seq(Cells), RealPath(hive, root, p)
    PROVE  \A i \in 1..Len(p) : p[i] \in visited
  <1> DEFINE Missed == {i \in 1..Len(p) : p[i] \notin visited}
  <1> SUFFICES ASSUME Missed # {}
               PROVE  FALSE
    OBVIOUS
  <1>1. Missed \in SUBSET Nat
    OBVIOUS
  <1>2. PICK i \in Missed : \A j \in Missed : i <= j
    BY <1>1, LeastNat
  <1>3. i \in 1..Len(p) /\ p[i] \notin visited /\ Len(p) \in Nat
    BY <1>2
  <1>4. root \in visited /\ p[1] = root
    BY DEF RealPath, Cover!Closed
  <1>5. i # 1
    BY <1>3, <1>4
  <1> DEFINE j == i - 1
  <1>6. j \in 1..(Len(p) - 1) /\ j \in 1..Len(p) /\ j < i /\ j + 1 = i
    BY <1>3, <1>5
  <1>7. p[j] \in visited
    BY <1>2, <1>6
  <1>8. p[i] \in SlotsIn(hive, p[j])
    BY <1>6 DEF RealPath
  <1>9. SlotsIn(hive, p[j]) = Cover!SlotsOf(p[j])
    BY DEF SlotsIn, Cover!SlotsOf, Range, Cover!Range
  <1> QED
    BY <1>3, <1>7, <1>8, <1>9 DEF Cover!Closed

\* A walk that is done with its root has every link below it behind it.
LEMMA IdleIsBehind ==
    ASSUME Cover!CoverInv, Idle, root # None, NEW p \in Seq(Cells),
           VolumePath(root, p)
    PROVE  LinkIsBehind(p[Len(p) - 1], p[Len(p)])
  <1>1. Frontier = {}
    BY DEF Idle, OnStack, Unread, Frontier
  <1>2. Cover!Closed(visited)
    BY <1>1, CoverFound DEF ReachedExactly, Cover!ReachedExactly, Frontier
  <1>3. RealPath(hive, root, p) /\ Len(p) \in Nat /\ Len(p) > 1
    BY DEF VolumePath
  <1>4. Len(p) - 1 \in 1..Len(p)
    BY <1>3
  <1>5. p[Len(p) - 1] \in visited
    BY <1>2, <1>3, <1>4, ClosedHoldsPath
  <1> QED
    BY <1>5 DEF Idle, LinkIsBehind

LEMMA TreeInit == Init => TreeInv
  <1> SUFFICES ASSUME Init
               PROVE  TreeInv
    OBVIOUS
  <1>1. ReportedBehind(Seq(Cells))
    BY DEF Init, StartWalk, ReportedBehind, LinkIsBehind
  <1>2. ReportedBefore(Seq(Cells))
    BY DEF Init, StartWalk, RootsOf, ReportedBefore
  <1> QED
    BY <1>1, <1>2 DEF TreeInv

\* A step of a walk that reports no less and puts no new link behind it.
LEMMA TreeKept ==
    ASSUME TreeInv, hive' = hive, root' = root, pending' = pending,
           \A k \in DOMAIN out : k \in DOMAIN out' /\ out'[k] = out[k],
           \A p \in Seq(Cells) :
              /\ VolumePath(root, p)
              /\ LinkIsBehind(p[Len(p) - 1], p[Len(p)])'
              => LinkIsBehind(p[Len(p) - 1], p[Len(p)])
    PROVE  TreeInv'
  <1>1. \A p : Reported(p) => Reported(p)'
    BY DEF Reported
  <1>2. IsTree' <=> IsTree
    BY DEF IsTree, RootsOf
  <1>3. \A r, p : VolumePath(r, p)' <=> VolumePath(r, p)
    BY DEF VolumePath
  <1>4. RootsOf(hive') = RootsOf(hive)
    OBVIOUS
  <1>5. ReportedBehind(Seq(Cells))'
    BY <1>1, <1>2, <1>3 DEF TreeInv, ReportedBehind
  <1>6. ReportedBefore(Seq(Cells))'
    BY <1>1, <1>2, <1>3, <1>4 DEF TreeInv, ReportedBefore
  <1> QED
    BY <1>5, <1>6 DEF TreeInv

\* The last link of a path that must be reported.
LEMMA LastLink ==
    ASSUME NEW r, NEW p \in Seq(Cells), VolumePath(r, p)
    PROVE  /\ Len(p) \in Nat
           /\ p[Len(p)] \in SlotsIn(hive, p[Len(p) - 1])
  <1>1. /\ Len(p) \in Nat /\ Len(p) - 1 \in 1..(Len(p) - 1)
        /\ (Len(p) - 1) + 1 = Len(p)
    BY DEF VolumePath
  <1> QED
    BY <1>1 DEF VolumePath, RealPath

\* What is neither the head nor in the tail is not in the list.
LEMMA NotPending ==
    ASSUME NEW S, NEW s \in Seq(S), s # <<>>, NEW r, r # Head(s),
           \A i \in DOMAIN Tail(s) : Tail(s)[i] # r
    PROVE  \A i \in DOMAIN s : s[i] # r
  <1> SUFFICES ASSUME NEW i \in DOMAIN s
               PROVE  s[i] # r
    OBVIOUS
  <1>1. CASE i = 1
    BY <1>1
  <1>2. CASE i # 1
    <2>1. i - 1 \in DOMAIN Tail(s) /\ Tail(s)[i - 1] = s[i]
      BY <1>2
    <2> QED
      BY <2>1
  <1> QED
    BY <1>1, <1>2

LEMMA TreeMissingRoot == WalkInv /\ TreeInv /\ MissingRoot => TreeInv'
  <1> SUFFICES ASSUME WalkInv, TreeInv, MissingRoot
               PROVE  TreeInv'
    OBVIOUS
  <1>1. /\ pending \in Seq(Optional(Cells)) /\ pending # <<>>
        /\ pending' = Tail(pending) /\ Head(pending) = None
    BY DEF WalkInv, TypeOK, MissingRoot
  <1>2. ASSUME NEW r, r # None, \A i \in DOMAIN pending' : pending'[i] # r
        PROVE  \A i \in DOMAIN pending : pending[i] # r
    BY <1>1, <1>2, NotPending
  <1>3. \A r \in RootsOf(hive) : r # None
    BY DEF RootsOf
  <1>4. ReportedBehind(Seq(Cells))'
    BY DEF TreeInv, MissingRoot, ReportedBehind, VolumePath, LinkIsBehind, Reported,
           Listed, IsTree, RootsOf
  <1>5. /\ IsTree' <=> IsTree
        /\ \A r, p : VolumePath(r, p)' <=> VolumePath(r, p)
        /\ \A p : Reported(p)' <=> Reported(p)
        /\ root' = root /\ RootsOf(hive') = RootsOf(hive)
    BY DEF MissingRoot, IsTree, RootsOf, VolumePath, Reported
  <1>6. ReportedBefore(Seq(Cells))'
    BY <1>2, <1>3, <1>5 DEF TreeInv, ReportedBefore
  <1> QED
    BY <1>4, <1>6 DEF TreeInv

\* The walk of a root ends with all its paths reported.
LEMMA TreeOpenRoot ==
    WalkInv /\ Cover!CoverInv /\ TreeInv /\ OpenRoot => TreeInv'
  <1> SUFFICES ASSUME WalkInv, Cover!CoverInv, TreeInv, OpenRoot
               PROVE  TreeInv'
    OBVIOUS
  <1>1. /\ pending \in Seq(Optional(Cells)) /\ pending # <<>>
        /\ pending' = Tail(pending) /\ root' = Head(pending) /\ Idle
        /\ visited' = {}
    BY DEF WalkInv, TypeOK, OpenRoot
  <1>2. ASSUME NEW r, r # root', \A i \in DOMAIN pending' : pending'[i] # r
        PROVE  \A i \in DOMAIN pending : pending[i] # r
    BY <1>1, <1>2, NotPending
  <1>3. /\ IsTree' <=> IsTree
        /\ \A r, p : VolumePath(r, p)' <=> VolumePath(r, p)
        /\ \A p : Reported(p)' <=> Reported(p)
        /\ RootsOf(hive') = RootsOf(hive)
    BY DEF OpenRoot, IsTree, RootsOf, VolumePath, Reported
  <1>4. ReportedBehind(Seq(Cells))'
    BY <1>1 DEF ReportedBehind, LinkIsBehind
  <1>5. ReportedBefore(Seq(Cells))'
    <2> SUFFICES ASSUME IsTree, NEW r \in RootsOf(hive), r # root',
                        NEW p \in Seq(Cells), VolumePath(r, p),
                        \A i \in DOMAIN pending' : pending'[i] # r
                 PROVE  Reported(p)
      BY <1>3 DEF ReportedBefore
    <2>1. CASE r = root
      <3>1. root # None
        BY <2>1 DEF RootsOf
      <3>2. LinkIsBehind(p[Len(p) - 1], p[Len(p)])
        BY <1>1, <2>1, <3>1, IdleIsBehind
      <3> QED
        BY <2>1, <3>2 DEF TreeInv, ReportedBehind
    <2>2. CASE r # root
      BY <1>2, <2>2 DEF TreeInv, ReportedBefore
    <2> QED
      BY <2>1, <2>2
  <1> QED
    BY <1>4, <1>5 DEF TreeInv

LEMMA TreePop == WalkInv /\ TreeInv /\ (PopVisited \/ PopUnreadable) => TreeInv'
  <1> SUFFICES ASSUME WalkInv, TreeInv, PopVisited \/ PopUnreadable
               PROVE  TreeInv'
    OBVIOUS
  <1>1. /\ hive' = hive /\ root' = root /\ pending' = pending /\ out' = out
        /\ key' = key /\ nth' = nth
        /\ \A c \in visited' : c \in visited \/ c \in hive.broken
    BY DEF PopVisited, PopUnreadable
  <1>2. ASSUME NEW p \in Seq(Cells), VolumePath(root, p),
               LinkIsBehind(p[Len(p) - 1], p[Len(p)])'
        PROVE  LinkIsBehind(p[Len(p) - 1], p[Len(p)])
    <2>1. p[Len(p) - 1] \notin hive.broken
      BY <1>2, LastLink DEF SlotsIn
    <2> QED
      BY <1>1, <1>2, <2>1 DEF LinkIsBehind, Listed
  <1> QED
    BY <1>1, <1>2, TreeKept

LEMMA TreePopKey == WalkInv /\ TreeInv /\ PopKey => TreeInv'
  <1> SUFFICES ASSUME WalkInv, TreeInv, PopKey
               PROVE  TreeInv'
    OBVIOUS
  <1>1. /\ hive' = hive /\ root' = root /\ pending' = pending /\ out' = out
        /\ key = None /\ key' = Top /\ nth' = 1
        /\ visited' = visited \cup {Top.cell}
        /\ hive.subkeys[Top.cell] \in Seq(Cells)
    BY TopIsReal DEF PopKey, WalkInv, TypeOK, Hives, HiveShape
  <1>2. Top # None
    BY TopIsReal, NoneIsNoRecord DEF PopKey
  <1>3. ASSUME NEW p \in Seq(Cells), VolumePath(root, p),
               LinkIsBehind(p[Len(p) - 1], p[Len(p)])'
        PROVE  LinkIsBehind(p[Len(p) - 1], p[Len(p)])
    <2>1. p[Len(p)] \in Range(hive.subkeys[p[Len(p) - 1]])
      BY <1>3, LastLink DEF SlotsIn
    <2>2. Listed' = hive.subkeys[Top.cell]
      BY <1>1 DEF Listed
    <2>3. {Listed'[i] : i \in nth'..Len(Listed')} = Range(hive.subkeys[Top.cell])
      BY <1>1, <2>2 DEF Range
    <2> QED
      BY <1>1, <1>2, <1>3, <2>1, <2>3 DEF LinkIsBehind
  <1> QED
    BY <1>1, <1>3, TreeKept

LEMMA TreeSkipStray ==
    ASSUME WalkInv, TreeInv, NEW c \in Cells, SkipStray(c)
    PROVE  TreeInv'
  <1>1. /\ hive' = hive /\ root' = root /\ pending' = pending /\ out' = out
        /\ key' = key /\ visited' = visited
        /\ c \notin hive.slots
        /\ {Listed[i] : i \in nth..Len(Listed)}
              = {Listed'[i] : i \in nth'..Len(Listed')} \cup {c}
    BY ReadOne DEF SkipStray
  <1>2. ASSUME NEW p \in Seq(Cells), VolumePath(root, p),
               LinkIsBehind(p[Len(p) - 1], p[Len(p)])'
        PROVE  LinkIsBehind(p[Len(p) - 1], p[Len(p)])
    <2>1. p[Len(p)] # c
      BY <1>1, <1>2, LastLink DEF SlotsIn
    <2> QED
      BY <1>1, <1>2, <2>1 DEF LinkIsBehind
  <1> QED
    BY <1>1, <1>2, TreeKept

\* The only path the slot read puts behind the walk is the open key's, extended.
LEMMA TreeReadSlot ==
    ASSUME WalkInv, TreeInv, NEW c \in Cells, ReadSlot(c)
    PROVE  TreeInv'
  <1> DEFINE f == ChildFrame(key, c)
  <1>1. /\ hive' = hive /\ root' = root /\ pending' = pending
        /\ key' = key /\ visited' = visited
        /\ {Listed[i] : i \in nth..Len(Listed)}
              = {Listed'[i] : i \in nth'..Len(Listed')} \cup {c}
    BY ReadOne DEF ReadSlot
  <1>2. /\ key # None /\ root \in RootsOf(hive)
        /\ f \in Frames /\ FrameIsReal(hive, root, f)
        /\ f.path = Append(key.path, c) /\ f.path[Len(f.path)] = c
        /\ \A k \in DOMAIN out : k \in DOMAIN out' /\ out'[k] = out[k]
        /\ f.volume # None =>
              Len(out) + 1 \in DOMAIN out' /\ out'[Len(out) + 1].path = f.path
    BY SlotEntry
  <1> HIDE DEF f
  <1>3. /\ IsTree' <=> IsTree
        /\ \A r, p : VolumePath(r, p)' <=> VolumePath(r, p)
        /\ \A p : Reported(p) => Reported(p)'
        /\ RootsOf(hive') = RootsOf(hive)
    BY <1>1, <1>2 DEF IsTree, RootsOf, VolumePath, Reported
  <1>4. ReportedBefore(Seq(Cells))'
    BY <1>1, <1>3 DEF TreeInv, ReportedBefore
  <1>5. ReportedBehind(Seq(Cells))'
    <2> SUFFICES ASSUME IsTree, NEW p \in Seq(Cells), VolumePath(root, p),
                        LinkIsBehind(p[Len(p) - 1], p[Len(p)])'
                 PROVE  Reported(p)'
      BY <1>1, <1>3 DEF ReportedBehind
    <2>1. CASE LinkIsBehind(p[Len(p) - 1], p[Len(p)])
      BY <1>3, <2>1 DEF TreeInv, ReportedBehind
    <2>2. CASE ~LinkIsBehind(p[Len(p) - 1], p[Len(p)])
      <3>1. p[Len(p)] = c
        BY <1>1, <2>2 DEF LinkIsBehind
      <3>2. /\ f.path \in Seq(Cells)
            /\ RealPath(hive, root, f.path)
            /\ IsFirstVolume(hive, f.volume, f.path)
        BY <1>2 DEF Frames, FrameIsReal
      <3>3. hive \in Hives /\ RealPath(hive, root, p)
        BY DEF WalkInv, TypeOK, VolumePath
      <3>4. p = f.path
        BY <1>2, <3>1, <3>2, <3>3, OnePath
      <3>5. f.volume # None
        BY <3>2, <3>4 DEF VolumePath
      <3> QED
        BY <1>2, <3>4, <3>5 DEF Reported
    <2> QED
      BY <2>1, <2>2
  <1> QED
    BY <1>4, <1>5 DEF TreeInv

LEMMA TreeLeaveKey == WalkInv /\ TreeInv /\ LeaveKey => TreeInv'
  <1> SUFFICES ASSUME WalkInv, TreeInv, LeaveKey
               PROVE  TreeInv'
    OBVIOUS
  <1>1. /\ hive' = hive /\ root' = root /\ pending' = pending /\ out' = out
        /\ visited' = visited /\ key' = None
        /\ {Listed[i] : i \in nth..Len(Listed)} = {}
    BY DoneReading DEF LeaveKey
  <1> QED
    BY <1>1, TreeKept DEF LinkIsBehind

LEMMA TreeStep ==
    WalkInv /\ Cover!CoverInv /\ TreeInv /\ [Next]_vars => TreeInv'
  <1> SUFFICES ASSUME WalkInv, Cover!CoverInv, TreeInv, [Next]_vars
               PROVE  TreeInv'
    OBVIOUS
  <1>1. CASE UNCHANGED vars
    BY <1>1, TreeKept DEF vars, LinkIsBehind, Listed
  <1>2. CASE Next
    BY <1>2, TreeMissingRoot, TreeOpenRoot, TreePop, TreePopKey, TreeSkipStray,
       TreeReadSlot, TreeLeaveKey DEF Next
  <1> QED
    BY <1>1, <1>2

LEMMA TreeReported ==
    WalkInv /\ Cover!CoverInv /\ LinkInv /\ TreeInv => EveryVolumeNodeOnce
  <1> SUFFICES ASSUME WalkInv, Cover!CoverInv, LinkInv, TreeInv,
                      Returned, IsTree, NEW r \in RootsOf(hive),
                      NEW p \in SimplePaths, RealPath(hive, r, p),
                      ~IsFirstVolume(hive, None, p)
               PROVE  Cardinality({k \in DOMAIN out : out[k].path = p}) = 1
    BY DEF EveryVolumeNodeOnce
  <1>1. Cardinality(Cells) \in Nat
    BY CellsAreFinite, FS_CardinalityType
  <1>2. PICK n \in 2..Cardinality(Cells) : p \in [1..n -> Cells]
    BY DEF SimplePaths
  <1>3. p \in Seq(Cells) /\ Len(p) > 1
    BY <1>1, <1>2
  <1>4. VolumePath(r, p)
    BY <1>3 DEF VolumePath
  <1>5. Reported(p)
    <2>1. CASE r # root
      BY <1>3, <1>4, <2>1 DEF TreeInv, ReportedBefore, Returned
    <2>2. CASE r = root
      <3>1. root # None
        BY <2>2 DEF RootsOf
      <3>2. LinkIsBehind(p[Len(p) - 1], p[Len(p)])
        BY <1>3, <1>4, <2>2, <3>1, IdleIsBehind DEF Returned
      <3> QED
        BY <1>3, <1>4, <2>2, <3>2 DEF TreeInv, ReportedBehind
    <2> QED
      BY <2>1, <2>2
  <1>6. PICK k \in DOMAIN out : out[k].path = p
    BY <1>5 DEF Reported
  <1> DEFINE link == LinkOf(out[k])
             J == {j \in DOMAIN out : out[j].path = p}
             M == Mentions(link[2], link[3])
  <1>7. link[2] \in Cells /\ Cardinality(ReportsOf(link)) <= Cardinality(M)
    BY <1>6, LinkCounted
  <1>8. J \subseteq ReportsOf(link) /\ k \in J
    BY <1>6 DEF ReportsOf, LinkOf
  <1>9. ASSUME NEW i \in M, NEW j \in M
        PROVE  i = j
    BY <1>7 DEF Mentions, IsTree, IsInjective
  <1> HIDE DEF J, M, link
  <1>10. /\ IsFiniteSet(ReportsOf(link)) /\ Cardinality(ReportsOf(link)) \in Nat
         /\ IsFiniteSet(M) /\ Cardinality(M) \in Nat
    BY <1>7, FinitelyMany DEF M
  <1>11. Cardinality(M) <= 1
    <2>1. CASE M = {}
      BY <2>1, FS_EmptySet
    <2>2. CASE M # {}
      <3>1. PICK i \in M : TRUE
        BY <2>2
      <3>2. M = {i}
        BY <1>9, <3>1
      <3> QED
        BY <3>2, FS_Singleton
    <2> QED
      BY <2>1, <2>2
  <1>12. /\ IsFiniteSet(J) /\ Cardinality(J) \in Nat
         /\ Cardinality(J) <= Cardinality(ReportsOf(link))
    BY <1>8, <1>10, FS_Subset, FS_CardinalityType
  <1>13. Cardinality(J) # 0
    BY <1>8, <1>12, FS_EmptySet
  <1>14. Cardinality(J) = 1
    BY <1>7, <1>10, <1>11, <1>12, <1>13
  <1> QED
    BY <1>14 DEF J

\* In a tree, which every hive Windows writes is, the walk reports every node
\* whose path holds a volume, and reports it once.
THEOREM VolumeNodesOnce == Spec => []EveryVolumeNodeOnce
  <1>1. WalkInv => hive \in Hives /\ pending \in Seq(Optional(Cells))
    BY DEF WalkInv, TypeOK
  <1>2. Init => Cover!CoverInv
    BY CoverStarts DEF Init, StartWalk, Cover!Init, OnStack, Unread
  <1>3. WalkInv /\ [Next]_vars => [Cover!Next]_(Cover!vars)
    BY CoverStep
  <1>4. WalkInv /\ Cover!CoverInv /\ [Next]_vars => Cover!CoverInv'
    BY <1>1, <1>3, CoverKeeps
  <1> QED
    BY <1>2, <1>4, LinkInit, LinkStep, TreeInit, TreeStep, TreeReported,
       WalkCorrect, PTL DEF Spec
=============================================================================
