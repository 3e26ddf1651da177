---------------------------- MODULE LinuxSyslog ----------------------------
(***************************************************************************)
(* The kernel-log reader of core/src/linux_syslog.rs: one pass over the    *)
(* lines of a log, a single open block ("current"), one record pushed when *)
(* the block is closed by the next announcement or by the end of the text. *)
(*                                                                         *)
(* A log line is reduced to what the reader tells apart: its kind, the bus *)
(* id it is keyed by, and one value (the ids and time of an announcement,  *)
(* the name of a Product line, the serial of a SerialNumber line).  The    *)
(* kind "other" stands for every line the reader ignores: Manufacturer,    *)
(* disconnects, lines of other subsystems, lines that do not parse.        *)
(***************************************************************************)
EXTENDS Bus, Sequences

CONSTANTS BusIds,   \* kernel bus ids ("2-1")
          Values,   \* what a line can carry
          None      \* Rust's Option::None

ASSUME NoneOutside == None \notin Values

Kinds == {"new", "product", "serial", "other"}
Lines == [kind : Kinds, bus : BusIds, val : Values]

VARIABLES text,      \* the lines of the log
          pos,       \* lines consumed so far
          current,   \* the open block, or None
          out,       \* the records pushed so far
          done       \* the function has returned

reader == <<pos, current, out, done>>
vars == <<text, reader>>

Optional(S) == S \cup {None}

Partial == [busid : BusIds, ids : Values, line : Nat \ {0},
            product : Optional(Values), serial : Optional(Values)]

ASSUME NoneIsNoBlock == None \notin Partial

\* Mutant: lines numbered from 0, the index instead of the line number.
startAtIndex(l, n) == [busid |-> l.bus, ids |-> l.val, line |-> n - 1,
                       product |-> None, serial |-> None]

\* A block begins at an announcement, with no follow-up seen yet.
start(l, n) == [busid |-> l.bus, ids |-> l.val, line |-> n,
                product |-> None, serial |-> None]

\* Mutant: the bus id of the follow-up is not compared.
absorbAnyBus(dev, l) ==
    CASE l.kind = "product" -> [dev EXCEPT !.product = l.val]
      [] l.kind = "serial"  -> [dev EXCEPT !.serial = l.val]
      [] OTHER -> dev

\* A follow-up line is folded into the open block of its own bus only; the
\* last one of a kind wins.
absorb(dev, l) ==
    CASE l.bus = dev.busid /\ l.kind = "product" -> [dev EXCEPT !.product = l.val]
      [] l.bus = dev.busid /\ l.kind = "serial"  -> [dev EXCEPT !.serial = l.val]
      [] OTHER -> dev

finish(dev) ==
    [bus |-> "Usb", ids |-> dev.ids, device_serial |-> dev.serial,
     serial_is_os_generated |-> FALSE, friendly_name |-> dev.product,
     device_instance_id |-> <<"usb", dev.busid>>,
     dma_capable |-> is_dma_capable("Usb"), mitre |-> {}, line |-> dev.line]

Records ==
    [bus : {"Usb"}, ids : Values, device_serial : Optional(Values),
     serial_is_os_generated : {FALSE}, friendly_name : Optional(Values),
     device_instance_id : {"usb"} \X BusIds, dma_capable : {FALSE},
     mitre : {{}}, line : Nat \ {0}]

Close(dev) == IF dev = None THEN out ELSE Append(out, finish(dev))

-----------------------------------------------------------------------------
StartReader ==
    /\ pos = 0
    /\ current = None
    /\ out = <<>>
    /\ done = FALSE

ReadAnnouncement ==
    /\ ~done
    /\ pos < Len(text)
    /\ text[pos + 1].kind = "new"
    /\ out' = Close(current)
    /\ current' = start(text[pos + 1], pos + 1)
    /\ pos' = pos + 1
    /\ UNCHANGED <<text, done>>

\* Mutant: a serial completes the block, which is pushed and not taken out.
ReadFollowUpPushed ==
    LET line == text[pos + 1] IN
    /\ ~done
    /\ pos < Len(text)
    /\ line.kind # "new"
    /\ current # None
    /\ current' = absorb(current, line)
    /\ out' = IF line.kind = "serial" THEN Append(out, finish(current')) ELSE out
    /\ pos' = pos + 1
    /\ UNCHANGED <<text, done>>

ReadFollowUp ==
    /\ ~done
    /\ pos < Len(text)
    /\ text[pos + 1].kind # "new"
    /\ current # None
    /\ current' = absorb(current, text[pos + 1])
    /\ pos' = pos + 1
    /\ UNCHANGED <<text, out, done>>

\* No block is open: the line belongs to nothing the reader knows of.
ReadOrphan ==
    /\ ~done
    /\ pos < Len(text)
    /\ text[pos + 1].kind # "new"
    /\ current = None
    /\ pos' = pos + 1
    /\ UNCHANGED <<text, current, out, done>>

\* Mutant: no flush after the loop.
EndOfTextUnflushed ==
    /\ ~done
    /\ pos = Len(text)
    /\ current' = None
    /\ done' = TRUE
    /\ UNCHANGED <<text, pos, out>>

EndOfText ==
    /\ ~done
    /\ pos = Len(text)
    /\ out' = Close(current)
    /\ current' = None
    /\ done' = TRUE
    /\ UNCHANGED <<text, pos>>

Read == ReadAnnouncement \/ ReadFollowUp \/ ReadOrphan \/ EndOfText

Init == text \in Seq(Lines) /\ StartReader
Next == Read
Spec == Init /\ [][Next]_vars

-----------------------------------------------------------------------------
(* What a block is, said of a text t alone. *)

Announcements(t, n) == {i \in 1..n : t[i].kind = "new"}

\* Line j lies in the block that line i opens: no announcement in between.
InBlock(t, i, j) == i < j /\ \A m \in (i + 1)..j : t[m].kind # "new"

\* The follow-up lines of one kind the block of line i has in the first n lines.
FollowUps(t, i, kind, n) ==
    {j \in 1..n : InBlock(t, i, j) /\ t[j].kind = kind /\ t[j].bus = t[i].bus}

\* v is what the block of line i says of a field: its last follow-up, or nothing.
IsField(t, v, i, kind, n) ==
    \/ v = None /\ FollowUps(t, i, kind, n) = {}
    \/ \E j \in FollowUps(t, i, kind, n) :
          v = t[j].val /\ \A k \in FollowUps(t, i, kind, n) : k <= j

\* A block of these fields is what lines 1..n of t say of announcement i.
IsBlock(t, n, i, ids, product, serial) ==
    /\ i \in Announcements(t, n)
    /\ ids = t[i].val
    /\ IsField(t, product, i, "product", n)
    /\ IsField(t, serial, i, "serial", n)

RecordIsBlock(t, n, r) ==
    /\ IsBlock(t, n, r.line, r.ids, r.friendly_name, r.device_serial)
    /\ r.device_instance_id = <<"usb", t[r.line].bus>>

PartialIsBlock(t, n, dev) ==
    /\ IsBlock(t, n, dev.line, dev.ids, dev.product, dev.serial)
    /\ dev.busid = t[dev.line].bus

-----------------------------------------------------------------------------
(* Properties *)

\* The reader's variables keep their shapes.
TypeOK ==
    /\ text \in Seq(Lines)
    /\ pos \in 0..Len(text)
    /\ current \in Optional(Partial)
    /\ out \in Seq(Records)
    /\ done \in BOOLEAN

\* Every record says exactly what the log says of the block it was opened at:
\* its ids are those of that announcement, and its serial and product are the
\* last ones logged for the same bus before the next announcement of any bus
\* (parse_linux_syslog, start, absorb, finish).
RecordsAreBlocks == \A k \in DOMAIN out : RecordIsBlock(text, pos, out[k])

\* Records come out in log order, one at most for an announcement
\* (the take-and-push of parse_linux_syslog neither repeats nor swaps blocks).
RecordsInLogOrder ==
    /\ \A j, k \in DOMAIN out : j < k => out[j].line < out[k].line
    /\ current # None => \A k \in DOMAIN out : out[k].line < current.line

\* No announcement read is lost: it is a record, or it is the open block, and
\* when the function returns (the flush after the loop) it is a record.
NoAnnouncementLost ==
    \A i \in Announcements(text, pos) :
        \/ \E k \in DOMAIN out : out[k].line = i
        \/ ~done /\ current # None /\ current.line = i

-----------------------------------------------------------------------------
(* The inductive invariant: the properties above and what they rest on. *)

\* The open block is the last announcement read, and it is what the log says
\* of it so far; no record of it exists yet.
OpenBlock ==
    current # None =>
        /\ ~done
        /\ PartialIsBlock(text, pos, current)
        /\ \A i \in Announcements(text, pos) : i <= current.line

\* Without an open block nothing was announced, or everything was pushed.
NoOpenBlock == current = None => done \/ out = <<>>

ReturnedAtEnd == done => pos = Len(text)

ReaderInv ==
    /\ TypeOK
    /\ RecordsAreBlocks
    /\ RecordsInLogOrder
    /\ NoAnnouncementLost
    /\ OpenBlock
    /\ NoOpenBlock
    /\ ReturnedAtEnd
=============================================================================
