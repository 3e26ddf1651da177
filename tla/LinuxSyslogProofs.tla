------------------------- MODULE LinuxSyslogProofs -------------------------
(***************************************************************************)
(* Proofs about LinuxSyslog, for every log and all constants, and about    *)
(* KernelSyslog: what the reader makes of a log a kernel wrote, for any    *)
(* buses and devices, any number of lines and losses, and any moments of   *)
(* rotation and collection.                                                *)
(***************************************************************************)
EXTENDS KernelSyslog, TLAPS

(***************************************************************************)
(* How what the text says of a block changes when one more line is read.   *)
(***************************************************************************)

\* A line that is not a follow-up of line i of that kind adds nothing to i.
LEMMA NoNewFollowUp ==
    ASSUME NEW t \in Seq(Lines), NEW n \in Nat, NEW i, NEW kind,
           \/ ~InBlock(t, i, n + 1)
           \/ t[n + 1].kind # kind
           \/ t[n + 1].bus # t[i].bus
    PROVE  FollowUps(t, i, kind, n + 1) = FollowUps(t, i, kind, n)
  BY DEF FollowUps

\* A follow-up line of line i is the last one of its kind.
LEMMA NewFollowUp ==
    ASSUME NEW t \in Seq(Lines), NEW n \in Nat, NEW i, NEW kind,
           InBlock(t, i, n + 1),
           t[n + 1].kind = kind,
           t[n + 1].bus = t[i].bus
    PROVE  IsField(t, t[n + 1].val, i, kind, n + 1)
  <1>1. n + 1 \in FollowUps(t, i, kind, n + 1)
    BY DEF FollowUps
  <1>2. \A k \in FollowUps(t, i, kind, n + 1) : k <= n + 1
    BY DEF FollowUps
  <1> QED
    BY <1>1, <1>2 DEF IsField

\* Reading one line adds it to the announcements exactly when it is one.
LEMMA AnnouncementsStep ==
    ASSUME NEW t \in Seq(Lines), NEW n \in Nat
    PROVE  Announcements(t, n + 1) =
             IF t[n + 1].kind = "new" THEN Announcements(t, n) \cup {n + 1}
                                      ELSE Announcements(t, n)
  BY DEF Announcements

\* A block that a later announcement has closed says the same for ever.
LEMMA ClosedBlock ==
    ASSUME NEW t \in Seq(Lines), NEW n \in Nat, NEW r, RecordIsBlock(t, n, r),
           \/ t[n + 1].kind = "new"
           \/ \E m \in Announcements(t, n) : r.line < m
    PROVE  RecordIsBlock(t, n + 1, r)
  <1>1. r.line \in 1..n /\ t[r.line].kind = "new"
    BY DEF RecordIsBlock, IsBlock, Announcements
  <1>2. ASSUME NEW kind \in {"product", "serial"}
        PROVE  FollowUps(t, r.line, kind, n + 1) = FollowUps(t, r.line, kind, n)
    <2>1. CASE t[n + 1].kind = "new"
      BY <2>1, NoNewFollowUp
    <2>2. CASE \E m \in Announcements(t, n) : r.line < m
      <3>1. ~InBlock(t, r.line, n + 1)
        BY <2>2, <1>1 DEF InBlock, Announcements
      <3> QED
        BY <3>1, NoNewFollowUp
    <2> QED
      BY <2>1, <2>2
  <1>3. r.line \in Announcements(t, n + 1)
    BY <1>1 DEF Announcements
  <1> QED
    BY <1>2, <1>3 DEF RecordIsBlock, IsBlock, IsField

-----------------------------------------------------------------------------
(***************************************************************************)
(* The steps of the reader preserve ReaderInv.                             *)
(***************************************************************************)

\* The reader starts with nothing read.
LEMMA ReaderInit == text \in Seq(Lines) /\ StartReader => ReaderInv
  <1> SUFFICES ASSUME text \in Seq(Lines), StartReader
               PROVE  ReaderInv
    OBVIOUS
  <1> USE DEF StartReader
  <1>1. out \in Seq(Records) /\ DOMAIN out = {}
    OBVIOUS
  <1>2. TypeOK
    <2>1. Len(text) \in Nat
      OBVIOUS
    <2>2. pos \in 0..Len(text)
      BY <2>1
    <2>3. current \in Optional(Partial)
      BY DEF Optional
    <2>4. done \in BOOLEAN
      OBVIOUS
    <2> QED
      BY <1>1, <2>2, <2>3, <2>4 DEF TypeOK
  <1>3. Announcements(text, pos) = {}
    BY DEF Announcements
  <1> QED
    BY <1>1, <1>2, <1>3
       DEF ReaderInv, RecordsAreBlocks, RecordsInLogOrder, NoAnnouncementLost,
           OpenBlock, NoOpenBlock, ReturnedAtEnd

\* The record of the open block is a well-formed record and says what the
\* block says.
LEMMA FinishOpen ==
    ASSUME ReaderInv, current # None
    PROVE  /\ finish(current) \in Records
           /\ finish(current).line = current.line
           /\ RecordIsBlock(text, pos, finish(current))
  <1>1. current \in Partial
    BY DEF ReaderInv, TypeOK, Optional
  <1>2. finish(current) \in Records
    <2>1. is_dma_capable("Usb") = FALSE
      BY DEF is_dma_capable
    <2> QED
      BY <1>1, <2>1 DEF finish, Records, Partial
  <1>3. PartialIsBlock(text, pos, current)
    BY DEF ReaderInv, OpenBlock
  <1> QED
    BY <1>2, <1>3 DEF finish, RecordIsBlock, PartialIsBlock

\* Closing the open block, and nothing else, keeps the records in order,
\* each one what the text says of its block.
LEMMA CloseOpen ==
    ASSUME ReaderInv, out' = Close(current)
    PROVE  /\ out' \in Seq(Records)
           /\ \A k \in DOMAIN out' : RecordIsBlock(text, pos, out'[k])
           /\ \A j, k \in DOMAIN out' : j < k => out'[j].line < out'[k].line
           /\ DOMAIN out \subseteq DOMAIN out'
           /\ \A k \in DOMAIN out : out'[k] = out[k]
           /\ current # None =>
                 \E k \in DOMAIN out' : out'[k].line = current.line
  <1>1. CASE current = None
    BY <1>1 DEF Close, ReaderInv, TypeOK, RecordsAreBlocks, RecordsInLogOrder
  <1>2. CASE current # None
    <2>1. out' = Append(out, finish(current))
      BY <1>2 DEF Close
    <2>2. out \in Seq(Records) /\ finish(current) \in Records
      BY <1>2, FinishOpen DEF ReaderInv, TypeOK
    <2>3. /\ out' \in Seq(Records)
          /\ DOMAIN out' = DOMAIN out \cup {Len(out) + 1}
          /\ DOMAIN out = 1..Len(out)
          /\ \A k \in DOMAIN out : out'[k] = out[k]
          /\ out'[Len(out) + 1] = finish(current)
      BY <2>1, <2>2
    <2>4. \A k \in DOMAIN out : out[k].line < finish(current).line
      BY <1>2, FinishOpen DEF ReaderInv, RecordsInLogOrder
    <2>5. \A k \in DOMAIN out' : RecordIsBlock(text, pos, out'[k])
      BY <1>2, <2>3, FinishOpen DEF ReaderInv, RecordsAreBlocks
    <2>6. \A j, k \in DOMAIN out' : j < k => out'[j].line < out'[k].line
      BY <2>2, <2>3, <2>4 DEF ReaderInv, RecordsInLogOrder
    <2> QED
      BY <1>2, <2>3, <2>5, <2>6, FinishOpen
  <1> QED
    BY <1>1, <1>2

\* An announcement closes the open block and opens its own.
LEMMA AnnouncementStep == ReaderInv /\ ReadAnnouncement => ReaderInv'
  <1> SUFFICES ASSUME ReaderInv, ReadAnnouncement
               PROVE  ReaderInv'
    OBVIOUS
  <1> DEFINE n == pos + 1
  <1> USE DEF ReadAnnouncement
  <1>1. text \in Seq(Lines) /\ pos \in Nat /\ pos < Len(text) /\ text' = text
    BY DEF ReaderInv, TypeOK
  <1>2. n \in 1..Len(text) /\ text[n] \in Lines /\ pos' = n
    BY <1>1
  <1>3. Announcements(text, n) = Announcements(text, pos) \cup {n}
    BY <1>1, AnnouncementsStep
  <1>4. current' = start(text[n], n) /\ current' \in Partial /\ current' # None
    BY <1>1, <1>2, NoneIsNoBlock DEF start, Partial, Lines, Optional
  <1>5. /\ current'.line = n
        /\ current'.busid = text[n].bus
        /\ current'.ids = text[n].val
        /\ current'.product = None
        /\ current'.serial = None
    BY <1>4 DEF start
  <1>6. \A k \in DOMAIN out' : out'[k].line \in Announcements(text, pos)
    BY CloseOpen DEF RecordIsBlock, IsBlock
  <1>7. \A i \in Announcements(text, pos) : i \in Nat /\ i < n
    BY <1>1 DEF Announcements
  <1>8. TypeOK'
    BY <1>1, <1>2, <1>4, CloseOpen DEF ReaderInv, TypeOK, Optional
  <1>9. RecordsAreBlocks'
    <2>1. \A k \in DOMAIN out' : RecordIsBlock(text, n, out'[k])
      BY <1>1, CloseOpen, ClosedBlock
    <2> QED
      BY <1>1, <1>2, <2>1 DEF RecordsAreBlocks
  <1>10. RecordsInLogOrder'
    BY <1>5, <1>6, <1>7, CloseOpen DEF RecordsInLogOrder
  <1>11. NoAnnouncementLost'
    <2>1. ASSUME NEW i \in Announcements(text, pos)
          PROVE  \E k \in DOMAIN out' : out'[k].line = i
      BY CloseOpen DEF ReaderInv, NoAnnouncementLost
    <2> QED
      BY <1>1, <1>2, <1>3, <1>4, <1>5, <2>1
         DEF NoAnnouncementLost, Announcements
  <1>12. OpenBlock'
    <2>1. \A kind : FollowUps(text, n, kind, n) = {}
      BY <1>1 DEF FollowUps, InBlock
    <2>2. PartialIsBlock(text, n, current')
      BY <1>3, <1>5, <2>1 DEF PartialIsBlock, IsBlock, IsField
    <2> QED
      BY <1>1, <1>2, <1>3, <1>5, <1>7, <2>2 DEF OpenBlock
  <1>13. NoOpenBlock'
    BY <1>4 DEF NoOpenBlock
  <1>14. ReturnedAtEnd'
    BY DEF ReturnedAtEnd
  <1> QED
    BY <1>8, <1>9, <1>10, <1>11, <1>12, <1>13, <1>14 DEF ReaderInv

\* Any other line is folded into the open block or ignored.
LEMMA FollowUpStep == ReaderInv /\ ReadFollowUp => ReaderInv'
  <1> SUFFICES ASSUME ReaderInv, ReadFollowUp
               PROVE  ReaderInv'
    OBVIOUS
  <1> DEFINE n == pos + 1
             l == text[n]
             i == current.line
  <1> USE DEF ReadFollowUp
  <1>1. text \in Seq(Lines) /\ pos \in Nat /\ pos < Len(text) /\ text' = text
    BY DEF ReaderInv, TypeOK
  <1>2. n \in 1..Len(text) /\ l \in Lines /\ pos' = n
    BY <1>1
  <1>3. Announcements(text, n) = Announcements(text, pos)
    BY <1>1, AnnouncementsStep
  <1>4. current \in Partial /\ PartialIsBlock(text, pos, current)
    BY DEF ReaderInv, TypeOK, Optional, OpenBlock
  <1>5. i \in Announcements(text, pos) /\ i \in 1..pos
    BY <1>4 DEF PartialIsBlock, IsBlock, Announcements
  <1>6. /\ current' \in Partial
        /\ current' # None
        /\ current'.line = i
        /\ current'.busid = current.busid
        /\ current'.ids = current.ids
    <2>1. current' \in Partial /\ current'.line = i
            /\ current'.busid = current.busid /\ current'.ids = current.ids
      BY <1>2, <1>4 DEF absorb, Partial, Lines, Optional
    <2> QED
      BY <2>1, NoneIsNoBlock
  <1>7. InBlock(text, i, n)
    <2>1. \A m \in Announcements(text, n) : m <= i
      BY <1>3 DEF ReaderInv, OpenBlock
    <2> QED
      BY <1>1, <1>5, <2>1 DEF InBlock, Announcements
  <1>8. PartialIsBlock(text, n, current')
    <2>1. IsField(text, current'.product, i, "product", n)
      <3>1. CASE l.bus = text[i].bus /\ l.kind = "product"
        <4>1. current'.product = l.val
          BY <1>4, <3>1 DEF absorb, Partial, PartialIsBlock
        <4> QED
          BY <1>1, <1>7, <3>1, <4>1, NewFollowUp
      <3>2. CASE ~(l.bus = text[i].bus /\ l.kind = "product")
        <4>1. current'.product = current.product
          BY <1>4, <3>2 DEF absorb, Partial, PartialIsBlock
        <4>2. FollowUps(text, i, "product", n) = FollowUps(text, i, "product", pos)
          BY <1>1, <3>2, NoNewFollowUp
        <4> QED
          BY <1>4, <4>1, <4>2 DEF PartialIsBlock, IsBlock, IsField
      <3> QED
        BY <3>1, <3>2
    <2>2. IsField(text, current'.serial, i, "serial", n)
      <3>1. CASE l.bus = text[i].bus /\ l.kind = "serial"
        <4>1. current'.serial = l.val
          BY <1>4, <3>1 DEF absorb, Partial, PartialIsBlock
        <4> QED
          BY <1>1, <1>7, <3>1, <4>1, NewFollowUp
      <3>2. CASE ~(l.bus = text[i].bus /\ l.kind = "serial")
        <4>1. current'.serial = current.serial
          BY <1>4, <3>2 DEF absorb, Partial, PartialIsBlock
        <4>2. FollowUps(text, i, "serial", n) = FollowUps(text, i, "serial", pos)
          BY <1>1, <3>2, NoNewFollowUp
        <4> QED
          BY <1>4, <4>1, <4>2 DEF PartialIsBlock, IsBlock, IsField
      <3> QED
        BY <3>1, <3>2
    <2> QED
      BY <1>3, <1>4, <1>6, <2>1, <2>2 DEF PartialIsBlock, IsBlock
  <1>9. TypeOK'
    BY <1>1, <1>2, <1>6 DEF ReaderInv, TypeOK, Optional
  <1>10. RecordsAreBlocks'
    <2>1. ASSUME NEW k \in DOMAIN out
          PROVE  RecordIsBlock(text, n, out[k])
      <3>1. out[k].line < i /\ RecordIsBlock(text, pos, out[k])
        BY DEF ReaderInv, RecordsInLogOrder, RecordsAreBlocks
      <3> QED
        BY <1>1, <1>5, <3>1, ClosedBlock
    <2> QED
      BY <1>1, <1>2, <2>1 DEF RecordsAreBlocks
  <1>11. RecordsInLogOrder'
    BY <1>6 DEF ReaderInv, RecordsInLogOrder
  <1>12. NoAnnouncementLost'
    BY <1>1, <1>2, <1>3, <1>6 DEF ReaderInv, NoAnnouncementLost
  <1>13. OpenBlock'
    BY <1>1, <1>2, <1>3, <1>6, <1>8 DEF ReaderInv, OpenBlock
  <1>14. NoOpenBlock' /\ ReturnedAtEnd'
    BY <1>6 DEF NoOpenBlock, ReturnedAtEnd
  <1> QED
    BY <1>9, <1>10, <1>11, <1>12, <1>13, <1>14 DEF ReaderInv

\* A line before the first announcement belongs to no block.
LEMMA OrphanStep == ReaderInv /\ ReadOrphan => ReaderInv'
  <1> SUFFICES ASSUME ReaderInv, ReadOrphan
               PROVE  ReaderInv'
    OBVIOUS
  <1> USE DEF ReadOrphan
  <1>1. text \in Seq(Lines) /\ pos \in Nat /\ pos < Len(text) /\ text' = text
    BY DEF ReaderInv, TypeOK
  <1>2. pos' = pos + 1 /\ pos' \in 0..Len(text)
    BY <1>1
  <1>3. Announcements(text, pos + 1) = Announcements(text, pos)
    BY <1>1, AnnouncementsStep
  <1>4. out = <<>> /\ DOMAIN out = {}
    BY DEF ReaderInv, NoOpenBlock
  <1>5. Announcements(text, pos) = {}
    BY <1>4 DEF ReaderInv, NoAnnouncementLost
  <1>6. TypeOK'
    BY <1>1, <1>2 DEF ReaderInv, TypeOK
  <1> QED
    BY <1>1, <1>2, <1>3, <1>4, <1>5, <1>6
       DEF ReaderInv, RecordsAreBlocks, RecordsInLogOrder, NoAnnouncementLost,
           OpenBlock, NoOpenBlock, ReturnedAtEnd

\* The flush after the loop makes the open block a record.
LEMMA EndStep == ReaderInv /\ EndOfText => ReaderInv'
  <1> SUFFICES ASSUME ReaderInv, EndOfText
               PROVE  ReaderInv'
    OBVIOUS
  <1> USE DEF EndOfText
  <1>1. TypeOK'
    BY CloseOpen DEF ReaderInv, TypeOK, Optional
  <1>2. RecordsAreBlocks'
    BY CloseOpen DEF RecordsAreBlocks
  <1>3. RecordsInLogOrder'
    BY CloseOpen DEF RecordsInLogOrder
  <1>4. NoAnnouncementLost'
    BY CloseOpen DEF ReaderInv, NoAnnouncementLost
  <1> QED
    BY <1>1, <1>2, <1>3, <1>4
       DEF ReaderInv, OpenBlock, NoOpenBlock, ReturnedAtEnd

\* A step that does not touch the reader or its text.
LEMMA ReaderStutter == ReaderInv /\ UNCHANGED vars => ReaderInv'
  BY DEF vars, reader, ReaderInv, TypeOK, RecordsAreBlocks, RecordsInLogOrder,
         NoAnnouncementLost, OpenBlock, NoOpenBlock, ReturnedAtEnd

\* Every step of the reader.
LEMMA ReadStep == ReaderInv /\ Read => ReaderInv'
  BY AnnouncementStep, FollowUpStep, OrphanStep, EndStep DEF Read

-----------------------------------------------------------------------------
\* Whatever the log: the reader's inductive invariant holds in every state.
THEOREM ReaderCorrect == Spec => []ReaderInv
  <1>1. Init => ReaderInv
    BY ReaderInit DEF Init
  <1>2. ReaderInv /\ [Next]_vars => ReaderInv'
    BY ReadStep, ReaderStutter DEF Next
  <1> QED
    BY <1>1, <1>2, PTL DEF Spec

\* Type correctness of the reader, for every log.
THEOREM TypeCorrect == Spec => []TypeOK
  BY ReaderCorrect, PTL DEF ReaderInv

\* Every record says exactly what the log says of its block: its own
\* announcement, and the last product and serial lines of the same bus before
\* the next announcement.
THEOREM RecordsAreTheirBlocks == Spec => []RecordsAreBlocks
  BY ReaderCorrect, PTL DEF ReaderInv

\* Records come out in log order and none twice.
THEOREM RecordsOrdered == Spec => []RecordsInLogOrder
  BY ReaderCorrect, PTL DEF ReaderInv

\* No announcement is ever dropped between the log and the records.
THEOREM AnnouncementsKept == Spec => []NoAnnouncementLost
  BY ReaderCorrect, PTL DEF ReaderInv

-----------------------------------------------------------------------------
(***************************************************************************)
(* The kernel and the reader.                                              *)
(***************************************************************************)

LEMMA KernelStarts == KInit => KernelInv
  <1> SUFFICES ASSUME KInit
               PROVE  KernelInv
    OBVIOUS
  <1>1. text = <<>> /\ text \in Seq(Lines) /\ DOMAIN text = {} /\ StartReader
    BY DEF KInit
  <1>2. ReaderInv
    BY <1>1, ReaderInit
  <1>3. lost = <<>> /\ Len(lost) = 0 /\ DOMAIN lost = {} /\ LostLines
    BY DEF KInit, LostLines
  <1>4. KTypeOK
    <2>1. written \in 0..MaxWritten /\ Len(lost) <= MaxLost
      BY <1>3, BoundsAreNat DEF KInit
    <2>2. port \in [BusIds -> Optional(Attached)] /\ collected \in BOOLEAN
      BY DEF KInit, Optional
    <2> QED
      BY <1>2, <1>3, <2>1, <2>2 DEF KTypeOK, ReaderInv
  <1>5. PortsAnnounced /\ FollowUpsAnnounced
    BY <1>1 DEF KInit, PortsAnnounced, FollowUpsAnnounced
  <1> QED
    BY <1>1, <1>2, <1>3, <1>4, <1>5 DEF KernelInv, ReadsCollected

-----------------------------------------------------------------------------
(***************************************************************************)
(* Writing a line.                                                         *)
(***************************************************************************)

\* The reader has not started on a text that still changes.
LEMMA ReaderWaits ==
    ASSUME KernelInv, ~collected, UNCHANGED reader, text' \in Seq(Lines)
    PROVE  ReaderInv' /\ StartReader'
  <1>1. StartReader'
    BY DEF KernelInv, ReadsCollected, StartReader, reader
  <1>2. (text \in Seq(Lines) /\ StartReader => ReaderInv)'
    BY ReaderInit, PTL
  <1> QED
    BY <1>1, <1>2

\* A line is appended to the text, or to the lost ones.
LEMMA LogLine ==
    ASSUME KernelInv, NEW kind \in Kinds, NEW b \in BusIds, NEW d \in Values,
           Log(kind, b, d)
    PROVE  /\ ~collected /\ collected' = collected /\ reader' = reader
           /\ written' \in 0..MaxWritten
           /\ text' \in Seq(Lines) /\ LostLines' /\ Len(lost') <= MaxLost
           /\ Len(text) \in Nat /\ Len(text') \in Nat
           /\ Len(text') = Len(text) \/ Len(text') = Len(text) + 1
           /\ \A j \in 1..Len(text) : text'[j] = text[j]
           /\ \A j \in (Len(text) + 1)..Len(text') :
                 text'[j] = [kind |-> kind, bus |-> b, val |-> d]
           /\ \A n \in DOMAIN lost : n \in DOMAIN lost' /\ lost'[n] = lost[n]
           /\ \A n \in DOMAIN lost' :
                 lost'[n].line \in Lines /\ lost'[n].after \in 0..Len(text')
           /\ \/ Len(text') = Len(text) + 1
              \/ \E n \in DOMAIN lost' :
                    /\ lost'[n].line = [kind |-> kind, bus |-> b, val |-> d]
                    /\ lost'[n].after = Len(text')
  <1> DEFINE line == [kind |-> kind, bus |-> b, val |-> d]
             loss == [line |-> line, after |-> Len(text)]
             Losses == [line : Lines, after : Nat]
  <1>1. line \in Lines
    BY DEF Lines
  <1>2. text \in Seq(Lines) /\ Len(text) \in Nat /\ lost \in Seq(Losses)
    BY DEF KernelInv, ReaderInv, TypeOK, LostLines
  <1>3. loss \in Losses
    BY <1>1, <1>2
  <1>4. /\ ~collected /\ collected' = collected /\ reader' = reader
        /\ written' \in 0..MaxWritten
        /\ Arrive(line) \/ Lose(line)
    BY BoundsAreNat DEF Log, KernelInv, KTypeOK
  <1>5. \A n \in DOMAIN lost : lost[n].line \in Lines /\ lost[n].after \in 0..Len(text)
    BY DEF KernelInv, KTypeOK
  <1>6. CASE Arrive(line)
    <2>1. text' = Append(text, line) /\ lost' = lost
      BY <1>6 DEF Arrive
    <2>2. /\ text' \in Seq(Lines) /\ Len(text') = Len(text) + 1
          /\ \A j \in 1..Len(text) : text'[j] = text[j]
          /\ text'[Len(text) + 1] = line
      BY <1>1, <1>2, <2>1
    <2>3. \A j \in (Len(text) + 1)..Len(text') : text'[j] = line
      BY <1>2, <2>2
    <2>4. LostLines' /\ Len(lost') <= MaxLost
      BY <2>1 DEF KernelInv, LostLines, KTypeOK
    <2> QED
      BY <1>2, <1>4, <1>5, <2>1, <2>2, <2>3, <2>4
  <1>7. CASE Lose(line)
    <2>1. text' = text /\ lost' = Append(lost, loss) /\ Len(lost) < MaxLost
      BY <1>7 DEF Lose
    <2>2. /\ lost' \in Seq(Losses) /\ Len(lost') = Len(lost) + 1
          /\ DOMAIN lost' = DOMAIN lost \cup {Len(lost) + 1}
          /\ \A n \in DOMAIN lost : lost'[n] = lost[n]
          /\ lost'[Len(lost) + 1] = loss
          /\ Len(lost) \in Nat
      BY <1>2, <1>3, <2>1
    <2>3. Len(lost') <= MaxLost
      BY <2>1, <2>2, BoundsAreNat
    <2>4. LostLines'
      BY <2>2 DEF LostLines
    <2>5. \A n \in DOMAIN lost' :
             lost'[n].line \in Lines /\ lost'[n].after \in 0..Len(text')
      BY <1>1, <1>2, <1>5, <2>1, <2>2
    <2> QED
      BY <1>2, <1>4, <2>1, <2>2, <2>3, <2>4, <2>5
  <1> QED
    BY <1>4, <1>6, <1>7

\* What was announced stays announced, and so does the device of a bus that did
\* not write the line, or that wrote a follow-up.
LEMMA StaysAnnounced ==
    ASSUME KernelInv, NEW kind \in Kinds, NEW b \in BusIds, NEW d \in Values,
           Log(kind, b, d), NEW c, NEW e
    PROVE  /\ \A j \in 0..Len(text) : Announced(c, e, j) => Announced(c, e, j)'
           /\ Announced(c, e, Len(text)) /\ (c # b \/ (kind # "new" /\ e = d))
              => Announced(c, e, Len(text))'
  <1>1. /\ Len(text) \in Nat /\ Len(text') \in Nat
        /\ text \in Seq(Lines) /\ text' \in Seq(Lines)
        /\ Len(text') = Len(text) \/ Len(text') = Len(text) + 1
        /\ \A j \in 1..Len(text) : text'[j] = text[j]
        /\ \A j \in (Len(text) + 1)..Len(text') :
              text'[j] = [kind |-> kind, bus |-> b, val |-> d]
        /\ \A n \in DOMAIN lost : n \in DOMAIN lost' /\ lost'[n] = lost[n]
    BY LogLine DEF KernelInv, ReaderInv, TypeOK
  <1>2. \A a : AnnouncedAt(a, c, e) => AnnouncedAt(a, c, e)'
    <2>1. \A a \in DOMAIN text : a \in DOMAIN text' /\ text'[a] = text[a]
      BY <1>1
    <2> QED
      BY <1>1, <2>1 DEF AnnouncedAt
  <1>3. ASSUME NEW j \in 0..Len(text), Announced(c, e, j)
        PROVE  Announced(c, e, j)'
    <2>1. PICK a \in 0..j :
             /\ a = 0 \/ AnnouncedAt(a, c, e)
             /\ \A m \in (a + 1)..j :
                   text[m].bus = c => text[m].kind # "new" /\ text[m].val = e
      BY <1>3 DEF Announced
    <2>2. \A m \in (a + 1)..j : text'[m] = text[m]
      BY <1>1
    <2> QED
      BY <1>2, <2>1, <2>2 DEF Announced
  <1>4. ASSUME Announced(c, e, Len(text)), c # b \/ (kind # "new" /\ e = d)
        PROVE  Announced(c, e, Len(text))'
    <2>1. PICK a \in 0..Len(text) :
             /\ a = 0 \/ AnnouncedAt(a, c, e)
             /\ \A m \in (a + 1)..Len(text) :
                   text[m].bus = c => text[m].kind # "new" /\ text[m].val = e
      BY <1>4 DEF Announced
    <2>2. ASSUME NEW m \in (a + 1)..Len(text')
          PROVE  text'[m].bus = c => text'[m].kind # "new" /\ text'[m].val = e
      <3>1. CASE m \in 1..Len(text)
        BY <1>1, <2>1, <3>1
      <3>2. CASE m \in (Len(text) + 1)..Len(text')
        BY <1>1, <1>4, <3>2
      <3> QED
        BY <1>1, <3>1, <3>2
    <2>3. a \in 0..Len(text') /\ (a = 0 \/ AnnouncedAt(a, c, e)')
      BY <1>1, <1>2, <2>1
    <2> QED
      BY <2>2, <2>3 DEF Announced
  <1> QED
    BY <1>3, <1>4

\* A line is written by the device of its bus: one that announces itself, or one
\* that did.
LEMMA LogStep ==
    ASSUME KernelInv, NEW kind \in Kinds, NEW b \in BusIds, NEW d \in Values,
           NEW p \in Optional(Attached), p # None => p.dev = d,
           kind # "new" => Announced(b, d, Len(text)),
           Log(kind, b, d), port' = [port EXCEPT ![b] = p]
    PROVE  KernelInv'
  <1> DEFINE line == [kind |-> kind, bus |-> b, val |-> d]
  <1>1. /\ ~collected /\ collected' = collected /\ reader' = reader
        /\ written' \in 0..MaxWritten
        /\ text' \in Seq(Lines) /\ LostLines' /\ Len(lost') <= MaxLost
        /\ Len(text) \in Nat /\ Len(text') \in Nat
        /\ Len(text') = Len(text) \/ Len(text') = Len(text) + 1
        /\ \A j \in 1..Len(text) : text'[j] = text[j]
        /\ \A j \in (Len(text) + 1)..Len(text') : text'[j] = line
        /\ \A n \in DOMAIN lost' :
              lost'[n].line \in Lines /\ lost'[n].after \in 0..Len(text')
    BY LogLine
  <1>2. ReaderInv' /\ StartReader'
    BY <1>1, ReaderWaits
  <1>3. port \in [BusIds -> Optional(Attached)] /\ collected \in BOOLEAN
    BY DEF KernelInv, KTypeOK
  <1>4. KTypeOK'
    BY <1>1, <1>2, <1>3 DEF KTypeOK, ReaderInv
  <1>5. Announced(b, d, Len(text))'
    <2>1. CASE kind # "new"
      BY <2>1, StaysAnnounced
    <2>2. CASE kind = "new"
      <3>1. AnnouncedAt(Len(text), b, d)'
        BY <1>1, <2>2, LogLine DEF AnnouncedAt
      <3>2. (Len(text') + 1)..Len(text') = {} /\ Len(text') \in 0..Len(text')
        BY <1>1
      <3> QED
        BY <3>1, <3>2 DEF Announced
    <2> QED
      BY <2>1, <2>2
  <1>6. ASSUME NEW c, NEW e, c # b, Announced(c, e, Len(text))
        PROVE  Announced(c, e, Len(text))'
    BY <1>6, StaysAnnounced
  <1>7. PortsAnnounced'
    <2> SUFFICES ASSUME NEW c \in BusIds, NEW e \in Values,
                        port'[c] # None, port'[c].dev = e
                 PROVE  Announced(c, e, Len(text))'
      BY DEF PortsAnnounced
    <2>1. CASE c = b
      <3>1. c = b /\ e = d
        BY <1>3, <2>1
      <3> QED
        BY <1>5, <3>1 DEF Announced, AnnouncedAt
    <2>2. CASE c # b
      <3>1. port'[c] = port[c]
        BY <1>3, <2>2
      <3>2. Announced(c, e, Len(text))
        BY <3>1 DEF KernelInv, PortsAnnounced
      <3> QED
        BY <1>6, <2>2, <3>2
    <2> QED
      BY <2>1, <2>2
  <1>8. FollowUpsAnnounced'
    <2> SUFFICES ASSUME NEW j \in DOMAIN text', NEW c \in BusIds, NEW e \in Values,
                        text'[j].kind \in {"product", "serial"},
                        text'[j].bus = c, text'[j].val = e
                 PROVE  Announced(c, e, j)'
      BY DEF FollowUpsAnnounced
    <2>1. CASE j \in 1..Len(text)
      <3>1. text'[j] = text[j] /\ j \in DOMAIN text /\ j \in 0..Len(text)
        BY <1>1, <2>1 DEF KernelInv, ReaderInv, TypeOK
      <3>2. Announced(c, e, j)
        BY <3>1 DEF KernelInv, FollowUpsAnnounced
      <3> QED
        BY <3>1, <3>2, StaysAnnounced
    <2>2. CASE j \notin 1..Len(text)
      <3>1. j = Len(text') /\ text'[j] = line
        BY <1>1, <2>2
      <3> QED
        BY <1>5, <3>1 DEF Announced
    <2> QED
      BY <2>1, <2>2
  <1> QED
    BY <1>1, <1>2, <1>4, <1>7, <1>8 DEF KernelInv, ReadsCollected

LEMMA AttachStep ==
    ASSUME KernelInv, NEW b \in BusIds, NEW d \in Values, Attach(b, d)
    PROVE  KernelInv'
  <1> DEFINE p == [dev |-> d, stage |-> "announced"]
  <1>1. p \in Optional(Attached) /\ "new" \in Kinds
    BY DEF Optional, Attached, Stages, Kinds
  <1>2. Log("new", b, d) /\ port' = [port EXCEPT ![b] = p]
    BY DEF Attach, Set
  <1> QED
    BY <1>1, <1>2, LogStep

\* The attached device of a bus has announced itself there.
LEMMA AttachedIsAnnounced ==
    ASSUME KernelInv, NEW b \in BusIds, port[b] # None
    PROVE  /\ port[b] \in Attached
           /\ port[b].dev \in Values
           /\ Announced(b, port[b].dev, Len(text))
  BY DEF KernelInv, KTypeOK, Optional, Attached, PortsAnnounced

LEMMA LogProductStep ==
    ASSUME KernelInv, NEW b \in BusIds, LogProduct(b)
    PROVE  KernelInv'
  <1> DEFINE p == [dev |-> port[b].dev, stage |-> "named"]
  <1>1. port[b].dev \in Values /\ Announced(b, port[b].dev, Len(text))
    BY AttachedIsAnnounced DEF LogProduct
  <1>2. p \in Optional(Attached) /\ p.dev = port[b].dev /\ "product" \in Kinds
    BY <1>1 DEF Optional, Attached, Stages, Kinds
  <1>3. Log("product", b, port[b].dev) /\ port' = [port EXCEPT ![b] = p]
    BY DEF LogProduct, Set
  <1> QED
    BY <1>1, <1>2, <1>3, LogStep

LEMMA LogSerialStep ==
    ASSUME KernelInv, NEW b \in BusIds, LogSerial(b)
    PROVE  KernelInv'
  <1> DEFINE p == [dev |-> port[b].dev, stage |-> "settled"]
  <1>1. port[b].dev \in Values /\ Announced(b, port[b].dev, Len(text))
    BY AttachedIsAnnounced DEF LogSerial
  <1>2. p \in Optional(Attached) /\ p.dev = port[b].dev /\ "serial" \in Kinds
    BY <1>1 DEF Optional, Attached, Stages, Kinds
  <1>3. Log("serial", b, port[b].dev) /\ port' = [port EXCEPT ![b] = p]
    BY DEF LogSerial, Set
  <1> QED
    BY <1>1, <1>2, <1>3, LogStep

LEMMA DetachStep ==
    ASSUME KernelInv, NEW b \in BusIds, Detach(b)
    PROVE  KernelInv'
  <1>1. port[b].dev \in Values /\ Announced(b, port[b].dev, Len(text))
    BY AttachedIsAnnounced DEF Detach
  <1>2. None \in Optional(Attached) /\ "other" \in Kinds
    BY DEF Optional, Kinds
  <1>3. Log("other", b, port[b].dev) /\ port' = [port EXCEPT ![b] = None]
    BY DEF Detach
  <1> QED
    BY <1>1, <1>2, <1>3, LogStep

-----------------------------------------------------------------------------
(***************************************************************************)
(* Rotation drops the oldest line: everything is one line nearer the start.*)
(***************************************************************************)

\* The lines left, and the places of the lost ones.
LEMMA Rotated ==
    ASSUME KernelInv, Rotate
    PROVE  /\ text \in Seq(Lines) /\ text' \in Seq(Lines)
           /\ Len(text) \in Nat \ {0} /\ Len(text') = Len(text) - 1
           /\ \A j \in 1..Len(text') : text'[j] = text[j + 1]
           /\ DOMAIN lost' = DOMAIN lost
           /\ LostLines' /\ Len(lost') <= MaxLost
           /\ \A n \in DOMAIN lost :
                 /\ lost'[n].line = lost[n].line
                 /\ lost[n].after \in Nat
                 /\ lost'[n].after = IF lost[n].after = 0 THEN 0 ELSE lost[n].after - 1
           /\ \A n \in DOMAIN lost' :
                 lost'[n].line \in Lines /\ lost'[n].after \in 0..Len(text')
  <1> DEFINE Losses == [line : Lines, after : Nat]
  <1>1. /\ text \in Seq(Lines) /\ text # <<>> /\ text' = Tail(text)
        /\ lost \in Seq(Losses)
    BY DEF KernelInv, ReaderInv, TypeOK, LostLines, Rotate
  <1>2. /\ text' \in Seq(Lines)
        /\ Len(text) \in Nat \ {0} /\ Len(text') = Len(text) - 1
        /\ \A j \in 1..Len(text') : text'[j] = text[j + 1]
    BY <1>1
  <1>3. /\ DOMAIN lost = 1..Len(lost) /\ Len(lost) \in Nat
        /\ \A n \in DOMAIN lost : lost[n] \in Losses
    <2> HIDE DEF Losses
    <2> QED
      BY <1>1
  <1>4. lost' = [n \in DOMAIN lost |->
                   [lost[n] EXCEPT !.after = IF lost[n].after = 0 THEN 0
                                             ELSE lost[n].after - 1]]
    BY DEF Rotate
  <1>5. ASSUME NEW n \in DOMAIN lost
        PROVE  /\ lost'[n] \in Losses
               /\ lost'[n].line = lost[n].line
               /\ lost[n].after \in Nat
               /\ lost'[n].after = IF lost[n].after = 0 THEN 0 ELSE lost[n].after - 1
    BY <1>3, <1>4
  <1>6. DOMAIN lost' = DOMAIN lost
    BY <1>4
  <1>7. lost' \in [1..Len(lost) -> Losses]
    BY <1>3, <1>4, <1>5
  <1>8. lost' \in Seq(Losses) /\ Len(lost') = Len(lost)
    <2> HIDE DEF Losses
    <2> QED
      BY <1>3, <1>7
  <1>9. LostLines' /\ Len(lost') <= MaxLost
    BY <1>8 DEF LostLines, KernelInv, KTypeOK
  <1>10. \A n \in DOMAIN lost' :
            lost'[n].line \in Lines /\ lost'[n].after \in 0..Len(text')
    BY <1>2, <1>5, <1>6 DEF KernelInv, KTypeOK
  <1> QED
    BY <1>1, <1>2, <1>5, <1>6, <1>9, <1>10

LEMMA AnnouncedRotated ==
    ASSUME KernelInv, Rotate, NEW b, NEW d, NEW j \in 1..Len(text),
           Announced(b, d, j)
    PROVE  Announced(b, d, j - 1)'
  <1>1. PICK a \in 0..j :
           /\ a = 0 \/ AnnouncedAt(a, b, d)
           /\ \A m \in (a + 1)..j :
                 text[m].bus = b => text[m].kind # "new" /\ text[m].val = d
    BY DEF Announced
  <1>2. Len(text) \in Nat \ {0} /\ Len(text') = Len(text) - 1 /\ j \in Nat \ {0}
    BY Rotated
  <1>3. ASSUME NEW z \in 0..(j - 1), a = z + 1 \/ (a = 0 /\ z = 0),
               z = 0 \/ AnnouncedAt(z, b, d)'
        PROVE  Announced(b, d, j - 1)'
    <2>1. ASSUME NEW m \in (z + 1)..(j - 1)
          PROVE  text'[m] = text[m + 1] /\ m + 1 \in (a + 1)..j
      BY <1>2, <1>3, Rotated
    <2> QED
      BY <1>1, <1>3, <2>1 DEF Announced
  <1>4. CASE a = 0
    <2>1. 0 \in 0..(j - 1)
      BY <1>2
    <2> QED
      BY <1>3, <1>4, <2>1
  <1>5. CASE a = 1
    <2>1. 0 \in 0..(j - 1)
      BY <1>2
    <2> QED
      BY <1>3, <1>5, <2>1
  <1>6. CASE a > 1
    <2> DEFINE z == a - 1
    <2>1. z \in 0..(j - 1) /\ a = z + 1 /\ z > 0 /\ AnnouncedAt(a, b, d)
      BY <1>1, <1>6
    <2>2. AnnouncedAt(z, b, d)'
      <3>1. CASE a \in DOMAIN text /\ text[a] = [kind |-> "new", bus |-> b, val |-> d]
        <4>1. z \in 1..Len(text') /\ text'[z] = text[a]
          BY <1>2, <2>1, <3>1, Rotated
        <4>2. DOMAIN text' = 1..Len(text')
          BY Rotated
        <4> QED
          BY <3>1, <4>1, <4>2 DEF AnnouncedAt
      <3>2. CASE \E n \in DOMAIN lost :
                    /\ lost[n].line = [kind |-> "new", bus |-> b, val |-> d]
                    /\ lost[n].after = a
        BY <1>6, <3>2, Rotated DEF AnnouncedAt
      <3> QED
        BY <2>1, <3>1, <3>2 DEF AnnouncedAt
    <2> HIDE DEF z
    <2> QED
      BY <1>3, <2>1, <2>2
  <1> QED
    BY <1>1, <1>4, <1>5, <1>6

LEMMA RotateStep == KernelInv /\ Rotate => KernelInv'
  <1> SUFFICES ASSUME KernelInv, Rotate
               PROVE  KernelInv'
    OBVIOUS
  <1>1. /\ ~collected /\ collected' = collected /\ reader' = reader
        /\ port' = port /\ written' = written
    BY DEF Rotate
  <1>2. ReaderInv' /\ StartReader'
    BY <1>1, Rotated, ReaderWaits
  <1>3. KTypeOK'
    BY <1>1, <1>2, Rotated DEF KernelInv, KTypeOK, ReaderInv
  <1>4. Len(text) \in 1..Len(text) /\ Len(text') = Len(text) - 1
    BY Rotated
  <1>5. PortsAnnounced'
    <2> SUFFICES ASSUME NEW b \in BusIds, NEW d \in Values,
                        port[b] # None, port[b].dev = d
                 PROVE  Announced(b, d, Len(text))'
      BY <1>1 DEF PortsAnnounced
    <2>1. Announced(b, d, Len(text))
      BY DEF KernelInv, PortsAnnounced
    <2>2. PICK j \in 1..Len(text) : j = Len(text)
      BY <1>4
    <2>3. Announced(b, d, j - 1)'
      BY <2>1, <2>2, AnnouncedRotated
    <2> QED
      BY <1>4, <2>2, <2>3 DEF Announced
  <1>6. FollowUpsAnnounced'
    <2> SUFFICES ASSUME NEW i \in DOMAIN text', NEW b \in BusIds, NEW d \in Values,
                        text'[i].kind \in {"product", "serial"},
                        text'[i].bus = b, text'[i].val = d
                 PROVE  Announced(b, d, i)'
      BY DEF FollowUpsAnnounced
    <2>1. i \in 1..Len(text')
      BY Rotated
    <2>2. PICK j \in 1..Len(text) : j = i + 1
      BY <1>4, <2>1, Rotated
    <2>3. text[j] = text'[i] /\ j \in DOMAIN text /\ i = j - 1
      BY <2>1, <2>2, Rotated
    <2>4. Announced(b, d, j)
      BY <2>3 DEF KernelInv, FollowUpsAnnounced
    <2>5. Announced(b, d, j - 1)'
      BY <2>4, AnnouncedRotated
    <2> QED
      BY <2>3, <2>5
  <1> QED
    BY <1>1, <1>2, <1>3, <1>5, <1>6, Rotated DEF KernelInv, ReadsCollected

-----------------------------------------------------------------------------
(***************************************************************************)
(* Collecting and reading leave the text alone.                            *)
(***************************************************************************)

LEMMA TextKept ==
    ASSUME KernelInv, ReaderInv', UNCHANGED <<text, port, written, lost>>,
           collected' \in BOOLEAN, collected'
    PROVE  KernelInv'
  <1>1. KTypeOK'
    BY DEF KernelInv, KTypeOK, ReaderInv
  <1>2. LostLines' /\ PortsAnnounced' /\ FollowUpsAnnounced'
    BY DEF KernelInv, LostLines, PortsAnnounced, FollowUpsAnnounced, Announced,
           AnnouncedAt
  <1> QED
    BY <1>1, <1>2 DEF KernelInv, ReadsCollected

LEMMA CollectStep == KernelInv /\ Collect => KernelInv'
  BY TextKept, ReaderStutter DEF Collect, vars, KernelInv

LEMMA ParseStep == KernelInv /\ Parse => KernelInv'
  <1> SUFFICES ASSUME KernelInv, Parse
               PROVE  KernelInv'
    OBVIOUS
  <1>1. ReaderInv'
    BY ReadStep DEF Parse, KernelInv
  <1>2. UNCHANGED <<text, port, written, lost, collected>> /\ collected
    BY DEF Parse, kernel, Read, ReadAnnouncement, ReadFollowUp, ReadOrphan, EndOfText
  <1> QED
    BY <1>1, <1>2, TextKept

LEMMA KernelStutter == KernelInv /\ UNCHANGED kvars => KernelInv'
  <1> SUFFICES ASSUME KernelInv, UNCHANGED kvars
               PROVE  KernelInv'
    OBVIOUS
  <1>1. ReaderInv' /\ UNCHANGED <<text, reader, port, written, lost, collected>>
    BY ReaderStutter DEF KernelInv, kvars, kernel, vars
  <1>2. KTypeOK'
    BY <1>1 DEF KernelInv, KTypeOK, ReaderInv
  <1>3. LostLines' /\ PortsAnnounced' /\ FollowUpsAnnounced'
    BY <1>1 DEF KernelInv, LostLines, PortsAnnounced, FollowUpsAnnounced, Announced,
                AnnouncedAt
  <1>4. ReadsCollected'
    BY <1>1 DEF KernelInv, ReadsCollected, StartReader, reader
  <1> QED
    BY <1>1, <1>2, <1>3, <1>4 DEF KernelInv

\* For every writer and every log: the kernel's inductive invariant holds.
THEOREM KernelCorrect == KSpec => []KernelInv
  <1>1. KernelInv /\ [KNext]_kvars => KernelInv'
    BY AttachStep, LogProductStep, LogSerialStep, DetachStep, RotateStep,
       CollectStep, ParseStep, KernelStutter DEF KNext
  <1> QED
    BY <1>1, KernelStarts, PTL DEF KSpec

\* Type correctness of the writer and the reader together.
THEOREM KernelTypeCorrect == KSpec => []KTypeOK
  BY KernelCorrect, PTL DEF KernelInv

-----------------------------------------------------------------------------
(***************************************************************************)
(* What the records say of the devices.                                    *)
(***************************************************************************)

\* A follow-up in the block of line i that is not of the device announced there
\* is of one whose announcement was lost in that block.
LEMMA ForeignFollowUp ==
    ASSUME KernelInv, NEW i \in DOMAIN text, NEW j \in DOMAIN text,
           text[i].kind = "new", InBlock(text, i, j),
           text[j].kind \in {"product", "serial"},
           text[j].bus = text[i].bus,
           text[j].val # text[i].val
    PROVE  LostInBlock(i, text[i].bus, text[j].val)
  <1> DEFINE b == text[i].bus
             d == text[j].val
  <1>1. text \in Seq(Lines) /\ i \in Nat \ {0} /\ j \in Nat \ {0} /\ i < j
    BY DEF KernelInv, ReaderInv, TypeOK, InBlock
  <1>2. text[i] \in Lines /\ text[j] \in Lines /\ b \in BusIds /\ d \in Values
    <2>1. text[i] \in Lines /\ text[j] \in Lines
      BY <1>1
    <2> QED
      BY <2>1 DEF Lines
  <1>3. Announced(b, d, j)
    BY <1>2 DEF KernelInv, FollowUpsAnnounced
  <1>4. PICK a \in 0..j :
           /\ a = 0 \/ AnnouncedAt(a, b, d)
           /\ \A m \in (a + 1)..j :
                 text[m].bus = b => text[m].kind # "new" /\ text[m].val = d
    BY <1>3 DEF Announced
  <1>5. i <= a
    <2>1. i \notin (a + 1)..j
      BY <1>4
    <2> QED
      BY <1>1, <2>1
  <1>6. ~(a \in DOMAIN text /\ text[a] = [kind |-> "new", bus |-> b, val |-> d])
    <2>1. CASE a = i
      BY <2>1
    <2>2. CASE a # i
      <3>1. a \in (i + 1)..j
        BY <1>1, <1>5, <2>2
      <3> QED
        BY <3>1 DEF InBlock
    <2> QED
      BY <2>1, <2>2
  <1>7. PICK n \in DOMAIN lost :
           lost[n].line = [kind |-> "new", bus |-> b, val |-> d] /\ lost[n].after = a
    BY <1>1, <1>4, <1>5, <1>6 DEF AnnouncedAt
  <1>8. \A m \in (i + 1)..a : text[m].kind # "new"
    BY <1>1 DEF InBlock
  <1> QED
    BY <1>5, <1>7, <1>8 DEF LostInBlock

\* The line and the fields of a record, in the text.
LEMMA RecordInText ==
    ASSUME KernelInv, NEW k \in DOMAIN out
    PROVE  /\ out[k].line \in DOMAIN text
           /\ out[k].line \in Nat
           /\ text[out[k].line].kind = "new"
           /\ out[k].ids = text[out[k].line].val
           /\ \A v \in {out[k].device_serial, out[k].friendly_name} \ {None} :
                 \E j \in DOMAIN text :
                    /\ v = text[j].val
                    /\ InBlock(text, out[k].line, j)
                    /\ text[j].kind \in {"product", "serial"}
                    /\ text[j].bus = text[out[k].line].bus
  <1>1. text \in Seq(Lines) /\ pos \in 0..Len(text) /\ RecordIsBlock(text, pos, out[k])
    BY DEF KernelInv, ReaderInv, TypeOK, RecordsAreBlocks
  <1> QED
    BY <1>1 DEF RecordIsBlock, IsBlock, IsField, FollowUps, Announcements

LEMMA ForeignLost == KernelInv => ForeignOnlyIfUnannounced
  <1> SUFFICES ASSUME KernelInv, NEW k \in DOMAIN out,
                      NEW v \in {out[k].device_serial, out[k].friendly_name}
                                \ {None, out[k].ids}
               PROVE  LostInBlock(out[k].line, text[out[k].line].bus, v)
    BY DEF ForeignOnlyIfUnannounced
  <1> QED
    BY RecordInText, ForeignFollowUp

\* However the buses' lines interleave: a record carries another device's serial
\* or name only if the log lost that device's announcement, in that very block.
THEOREM ForeignUnannounced == KSpec => []ForeignOnlyIfUnannounced
  BY KernelCorrect, ForeignLost, PTL

\* Two devices' follow-ups in one block: the second device's announcement was
\* lost between them, so in that block.
LEMMA TakenOver ==
    ASSUME KernelInv, NEW i \in DOMAIN text, NEW j \in DOMAIN text,
           NEW k \in DOMAIN text,
           InBlock(text, i, j), InBlock(text, i, k), j < k,
           text[k].kind \in {"product", "serial"},
           text[j].bus = text[i].bus, text[k].bus = text[i].bus,
           text[j].val # text[k].val
    PROVE  LostInBlock(i, text[i].bus, text[k].val)
  <1> DEFINE b == text[i].bus
             d == text[k].val
  <1>1. /\ text \in Seq(Lines) /\ i \in Nat \ {0} /\ j \in Nat \ {0} /\ k \in Nat \ {0}
        /\ i < j
    BY DEF KernelInv, ReaderInv, TypeOK, InBlock
  <1>2. b \in BusIds /\ d \in Values
    <2>1. text[i] \in Lines /\ text[k] \in Lines
      BY <1>1
    <2> QED
      BY <2>1 DEF Lines
  <1>3. PICK a \in 0..k :
           /\ a = 0 \/ AnnouncedAt(a, b, d)
           /\ \A m \in (a + 1)..k :
                 text[m].bus = b => text[m].kind # "new" /\ text[m].val = d
    BY <1>2 DEF KernelInv, FollowUpsAnnounced, Announced
  <1>4. j <= a
    <2>1. j \notin (a + 1)..k
      BY <1>3
    <2> QED
      BY <1>1, <2>1
  <1>5. ~(a \in DOMAIN text /\ text[a] = [kind |-> "new", bus |-> b, val |-> d])
    <2>1. a \in (i + 1)..k
      BY <1>1, <1>4
    <2> QED
      BY <2>1 DEF InBlock
  <1>6. PICK n \in DOMAIN lost :
           lost[n].line = [kind |-> "new", bus |-> b, val |-> d] /\ lost[n].after = a
    BY <1>1, <1>3, <1>4, <1>5 DEF AnnouncedAt
  <1>7. a >= i /\ \A m \in (i + 1)..a : text[m].kind # "new"
    BY <1>1, <1>4 DEF InBlock
  <1> QED
    BY <1>6, <1>7 DEF LostInBlock

LEMMA SerialKept == KernelInv => UninterruptedSerialKept
  <1> SUFFICES ASSUME KernelInv, done, NEW i \in DOMAIN text, NEW j \in DOMAIN text,
                      text[i].kind = "new", text[j].kind = "serial",
                      text[i].bus = text[j].bus, InBlock(text, i, j)
               PROVE  \E k \in DOMAIN out :
                         /\ out[k].line = i
                         /\ \/ out[k].device_serial = text[j].val
                            \/ LostInBlock(i, text[i].bus, out[k].device_serial)
    BY DEF UninterruptedSerialKept
  <1>1. /\ text \in Seq(Lines) /\ pos = Len(text)
        /\ i \in 1..pos /\ j \in 1..pos
    BY DEF KernelInv, ReaderInv, TypeOK, ReturnedAtEnd
  <1>2. PICK k \in DOMAIN out : out[k].line = i
    BY <1>1 DEF KernelInv, ReaderInv, NoAnnouncementLost, Announcements
  <1>3. IsField(text, out[k].device_serial, i, "serial", pos)
    BY <1>2 DEF KernelInv, ReaderInv, RecordsAreBlocks, RecordIsBlock, IsBlock
  <1>4. j \in FollowUps(text, i, "serial", pos)
    BY <1>1 DEF FollowUps
  <1>5. PICK l \in FollowUps(text, i, "serial", pos) :
           /\ out[k].device_serial = text[l].val
           /\ \A m \in FollowUps(text, i, "serial", pos) : m <= l
    BY <1>3, <1>4 DEF IsField
  <1>6. /\ l \in DOMAIN text /\ InBlock(text, i, l) /\ text[l].kind = "serial"
        /\ text[l].bus = text[i].bus /\ j <= l
    BY <1>1, <1>4, <1>5 DEF FollowUps
  <1>7. CASE text[l].val = text[j].val
    BY <1>2, <1>5, <1>7
  <1>8. CASE text[l].val # text[j].val
    <2>1. j < l
      BY <1>1, <1>6, <1>8
    <2>2. LostInBlock(i, text[i].bus, text[l].val)
      BY <1>6, <1>8, <2>1, TakenOver
    <2> QED
      BY <1>2, <1>5, <2>2
  <1> QED
    BY <1>7, <1>8

\* A serial logged in the block of its device's announcement is in the record,
\* unless the log lost the announcement of a device that took the port over.
THEOREM SerialsKept == KSpec => []UninterruptedSerialKept
  BY KernelCorrect, SerialKept, PTL
=============================================================================
