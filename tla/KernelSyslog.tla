---------------------------- MODULE KernelSyslog ----------------------------
(***************************************************************************)
(* The reader of LinuxSyslog on logs a kernel wrote.  The kernel is        *)
(* external to the repository: it is modelled from the block format that   *)
(* the reader's header comment and tests quote.  Every bus enumerates its  *)
(* devices on its own, so the lines of two buses interleave; a device may  *)
(* be unplugged, and another plugged into the same port, at any time; a    *)
(* line may be lost on its way into the log (rate limiting, a full ring);  *)
(* log rotation drops the oldest lines; and the log is collected at any    *)
(* moment, mid-block included.                                             *)
(*                                                                         *)
(* A device is the value its lines carry: its ids, its product name and    *)
(* its serial number are those of no other device.                         *)
(***************************************************************************)
EXTENDS LinuxSyslog

CONSTANTS MaxWritten,  \* bound: lines the kernel ever writes
          MaxLost      \* bound: lines of them that are lost

ASSUME BoundsAreNat == MaxWritten \in Nat /\ MaxLost \in Nat

VARIABLES port,        \* per bus, the attached device and what was logged of it
          written,     \* lines written so far (rotation does not lower it)
          lost,        \* history: lost lines, each with the line before it
          collected    \* the log has been handed to the reader

kernel == <<port, written, lost, collected>>
kvars == <<vars, kernel>>

Stages == {"announced", "named", "settled"}
Attached == [dev : Values, stage : Stages]

Arrive(line) ==
    /\ text' = Append(text, line)
    /\ UNCHANGED lost

Lose(line) ==
    /\ Len(lost) < MaxLost
    /\ lost' = Append(lost, [line |-> line, after |-> Len(text)])
    /\ UNCHANGED text

Log(kind, b, d) ==
    /\ ~collected
    /\ written < MaxWritten
    /\ LET line == [kind |-> kind, bus |-> b, val |-> d] IN Arrive(line) \/ Lose(line)
    /\ written' = written + 1
    /\ UNCHANGED <<reader, collected>>

Set(b, d, stage) == port' = [port EXCEPT ![b] = [dev |-> d, stage |-> stage]]

Attach(b, d) ==
    /\ port[b] = None
    /\ \A c \in BusIds : port[c] # None => port[c].dev # d
    /\ Set(b, d, "announced")
    /\ Log("new", b, d)

LogProduct(b) ==
    /\ port[b] # None
    /\ port[b].stage = "announced"
    /\ Set(b, port[b].dev, "named")
    /\ Log("product", b, port[b].dev)

\* A device need not have a product string: its serial may follow at once.
LogSerial(b) ==
    /\ port[b] # None
    /\ port[b].stage # "settled"
    /\ Set(b, port[b].dev, "settled")
    /\ Log("serial", b, port[b].dev)

Detach(b) ==
    /\ port[b] # None
    /\ port' = [port EXCEPT ![b] = None]
    /\ Log("other", b, port[b].dev)

Rotate ==
    /\ ~collected
    /\ text # <<>>
    /\ text' = Tail(text)
    /\ lost' = [i \in DOMAIN lost |-> [lost[i] EXCEPT !.after = IF @ = 0 THEN 0 ELSE @ - 1]]
    /\ UNCHANGED <<reader, port, written, collected>>

Collect ==
    /\ ~collected
    /\ collected' = TRUE
    /\ UNCHANGED <<vars, port, written, lost>>

Parse == collected /\ Read /\ UNCHANGED kernel

KInit ==
    /\ text = <<>>
    /\ StartReader
    /\ port = [b \in BusIds |-> None]
    /\ written = 0
    /\ lost = <<>>
    /\ collected = FALSE

KNext ==
    \/ \E b \in BusIds :
          \/ \E d \in Values : Attach(b, d)
          \/ LogProduct(b)
          \/ LogSerial(b)
          \/ Detach(b)
    \/ Rotate
    \/ Collect
    \/ Parse

KSpec == KInit /\ [][KNext]_kvars

-----------------------------------------------------------------------------
(* Properties *)

\* The writer's variables keep their shapes.
KTypeOK ==
    /\ TypeOK
    /\ port \in [BusIds -> Optional(Attached)]
    /\ written \in 0..MaxWritten
    /\ Len(lost) <= MaxLost
    /\ \A i \in DOMAIN lost : lost[i].line \in Lines /\ lost[i].after \in 0..Len(text)
    /\ collected \in BOOLEAN

\* The announcement of device d on bus b was lost in the block of line i.
LostInBlock(i, b, d) ==
    \E n \in DOMAIN lost :
        /\ lost[n].line = [kind |-> "new", bus |-> b, val |-> d]
        /\ lost[n].after >= i
        /\ \A m \in (i + 1)..lost[n].after : text[m].kind # "new"

\* Attribution: whatever the interleaving, the rotation and the moment the log
\* was collected, a record carries the serial or the name of another device only
\* if that device announced itself on the same bus and the log lost the line,
\* with no announcement after the record's own in between (start, absorb).
ForeignOnlyIfUnannounced ==
    \A k \in DOMAIN out :
        \A v \in {out[k].device_serial, out[k].friendly_name} \ {None, out[k].ids} :
            LostInBlock(out[k].line, text[out[k].line].bus, v)

\* A device whose serial was logged with no other bus in between has it in its
\* record: the reader loses a follow-up only to an interleaved announcement, or
\* to the follow-up of a device whose announcement the log lost.
UninterruptedSerialKept ==
    done => \A i, j \in DOMAIN text :
        /\ text[i].kind = "new"
        /\ text[j].kind = "serial"
        /\ text[i].bus = text[j].bus
        /\ InBlock(text, i, j)
        => \E k \in DOMAIN out :
              /\ out[k].line = i
              /\ \/ out[k].device_serial = text[j].val
                 \/ LostInBlock(i, text[i].bus, out[k].device_serial)

\* "stitches the block back into a DeviceConnection": the block of an
\* enumeration is the lines of its bus up to the next announcement on that bus,
\* and its serial is in its record (linux_syslog.rs header comment).
BlocksStitchedBack ==
    done => \A i, j \in DOMAIN text :
        /\ text[i].kind = "new"
        /\ text[j].kind = "serial"
        /\ text[i].bus = text[j].bus
        /\ i < j
        /\ \A m \in (i + 1)..j : ~(text[m].kind = "new" /\ text[m].bus = text[i].bus)
        => \E k \in DOMAIN out :
              out[k].line = i /\ out[k].device_serial = text[j].val

-----------------------------------------------------------------------------
(* The inductive invariant. *)

\* The announcement of device d on bus b is line a, or was lost right after it.
AnnouncedAt(a, b, d) ==
    LET line == [kind |-> "new", bus |-> b, val |-> d] IN
    \/ a \in DOMAIN text /\ text[a] = line
    \/ \E n \in DOMAIN lost : lost[n].line = line /\ lost[n].after = a

\* The last announcement on bus b in lines 1..j is device d's, lost or not, or
\* was rotated away, and the lines of the bus since then are those of d.
Announced(b, d, j) ==
    \E a \in 0..j :
        /\ a = 0 \/ AnnouncedAt(a, b, d)
        /\ \A m \in (a + 1)..j :
              text[m].bus = b => text[m].kind # "new" /\ text[m].val = d

PortsAnnounced ==
    \A b \in BusIds, d \in Values :
        port[b] # None /\ port[b].dev = d => Announced(b, d, Len(text))

FollowUpsAnnounced ==
    \A j \in DOMAIN text, b \in BusIds, d \in Values :
        /\ text[j].kind \in {"product", "serial"}
        /\ text[j].bus = b
        /\ text[j].val = d
        => Announced(b, d, j)

LostLines == lost \in Seq([line : Lines, after : Nat])

\* The reader gets a finished log: no line is written or dropped once it began.
ReadsCollected == ~collected => StartReader

KernelInv ==
    /\ ReaderInv
    /\ KTypeOK
    /\ LostLines
    /\ PortsAnnounced
    /\ FollowUpsAnnounced
    /\ ReadsCollected
=============================================================================
