------------------------------ MODULE SetupLog ------------------------------
(***************************************************************************)
(* The reader of Setupapi on logs Windows wrote.  The writer is external   *)
(* to the repository: it is modelled from the header grammars the reader   *)
(* quotes and from the logs its tests read.  A machine writes one of the   *)
(* two grammars; a section is headed by the device it is about; the same   *)
(* device is installed again when it moves to another port or gets a new   *)
(* driver; other sections (an uninstall, a driver update) name a device    *)
(* too; sessions name none and the body of a section has no header.  The   *)
(* oldest lines go when the log rolls over, and the log is collected at    *)
(* any moment.                                                             *)
(***************************************************************************)
EXTENDS Setupapi

CONSTANTS Devices,      \* the paths of devices
          MaxWritten    \* bound: lines Windows ever writes

\* The other paths are words of a description; a device's path is longer.
Phrases == InstanceIds \ Devices

ASSUME DevicesArePaths == Devices \subseteq InstanceIds
ASSUME PhrasesAreShort == \A w \in Phrases, d \in Devices : w.len < d.len
ASSUME TimesAreNumbers == Times \subseteq Nat /\ 0 \in Times

VARIABLES grammar,    \* the one the machine writes
          events,     \* per line of text, what Windows meant by it
          clock,      \* the host's local time, which headers are stamped with
          setbacks,   \* the lines after which the clock was set back
          written,    \* lines written so far (rolling over does not lower it)
          collected   \* the log has been handed to the reader

windows == <<grammar, events, clock, setbacks, written, collected>>
lvars == <<vars, windows>>

Events == {"install", "other", "session", "body"}
Line(bracket, trail, lead, desc, after) ==
    [bracket |-> bracket, trail |-> trail, lead |-> lead, desc |-> desc, after |-> after]

\* A header stamped t that holds these words.
HeaderLine(words, t) ==
    IF grammar = "vista" THEN Line(TRUE, t, None, words, <<>>)
                         ELSE Line(TRUE, None, t, <<>>, words)

Write(event, line) ==
    /\ ~collected
    /\ written < MaxWritten
    /\ text' = Append(text, line)
    /\ events' = Append(events, event)
    /\ written' = written + 1
    /\ UNCHANGED <<pos, out, grammar, clock, setbacks, collected>>

\* The device is the last word; the description before it may hold a path.
Install(d) ==
    \E words \in {<<d>>} \cup {<<w, d>> : w \in Phrases} :
        Write("install", HeaderLine(words, clock))

OtherSection(d) == Write("other", HeaderLine(<<d>>, clock))
Session == Write("session", HeaderLine(<<>>, clock))
Body == Write("body", Line(FALSE, None, None, <<>>, <<>>))

\* Time passes, or the clock is set: local time goes back when summer time ends
\* or someone turns it back.
MoveClock(t) ==
    /\ ~collected
    /\ t # clock
    /\ clock' = t
    /\ setbacks' = IF t < clock THEN setbacks \cup ({Len(text)} \ {0}) ELSE setbacks
    /\ UNCHANGED <<vars, grammar, events, written, collected>>

RollOver ==
    /\ ~collected
    /\ text # <<>>
    /\ text' = Tail(text)
    /\ events' = Tail(events)
    /\ setbacks' = {m - 1 : m \in setbacks} \ {0}
    /\ UNCHANGED <<pos, out, grammar, clock, written, collected>>

Collect ==
    /\ ~collected
    /\ collected' = TRUE
    /\ UNCHANGED <<vars, grammar, events, clock, setbacks, written>>

Parse == collected /\ Next /\ UNCHANGED windows

LInit ==
    /\ text = <<>>
    /\ StartReader
    /\ grammar \in {"vista", "xp"}
    /\ events = <<>>
    /\ clock = 0
    /\ setbacks = {}
    /\ written = 0
    /\ collected = FALSE

LNext ==
    \/ \E d \in Devices : Install(d) \/ OtherSection(d)
    \/ Session
    \/ Body
    \/ \E t \in Times : MoveClock(t)
    \/ RollOver
    \/ Collect
    \/ Parse

LSpec == LInit /\ [][LNext]_lvars

LReturned == collected /\ Returned

-----------------------------------------------------------------------------
(* Properties *)

\* The device the section of line i is about, and when Windows headed it.
Named(i) == LET words == text[i].desc \o text[i].after IN words[Len(words)]
Stamped(i) == IF grammar = "vista" THEN text[i].trail ELSE text[i].lead

\* Whatever grammar the machine writes, however the log rolled over and
\* whenever it was collected: each install in the log is in exactly one record,
\* found at its line, with its device and its time (parse_setupapi).
InstallsRecorded ==
    LReturned => \A i \in DOMAIN events : events[i] = "install" =>
        Cardinality({k \in DOMAIN out :
            /\ out[k].line = i
            /\ out[k].device_instance_id = Named(i)
            /\ out[k].first_install = Authoritative(Stamped(i))}) = 1

\* Every install of a device is stamped as its first_install, a reinstall too,
\* and the stamps are local time.  A consumer can still tell the order: the list
\* is in the order of the installs, and a record with an earlier time than one
\* before it tells that the clock was set back between the two, and nothing else
\* (parse_setupapi, build_connection).
EarlierOnlyIfSetBack ==
    LReturned => \A i, k \in DOMAIN out :
        i < k /\ out[k].first_install.epoch < out[i].first_install.epoch =>
            \E m \in setbacks : out[i].line <= m /\ m < out[k].line

\* "one DeviceConnection per device-install section header": a section about a
\* device that is no install of it makes no record (parse_header).
OnlyInstallsRecorded == \A k \in DOMAIN out : events[out[k].line] = "install"

-----------------------------------------------------------------------------
(* The inductive invariant. *)

\* What Windows may write in a section header, by what it means by it.
WordsOf(event) ==
    CASE event = "install" -> UNION {{<<d>>} \cup {<<w, d>> : w \in Phrases} : d \in Devices}
      [] event = "other"   -> {<<d>> : d \in Devices}
      [] event = "session" -> {<<>>}
      [] OTHER             -> {}

\* A line is the body of a section, or a header stamped t.
Written(event, line, t) ==
    \/ event = "body" /\ line = Line(FALSE, None, None, <<>>, <<>>)
    \/ \E words \in WordsOf(event) : line = HeaderLine(words, t)

LinesAreWritten ==
    \A i \in DOMAIN text : \E t \in Times : Written(events[i], text[i], t)

\* The clock was set back after line i was written and before line j was.
SetBackBetween(i, j) == \E m \in setbacks : i <= m /\ m < j

\* Headers are stamped in order but for the clock's setbacks, and rolling over
\* keeps the order.
StampsInOrder ==
    /\ setbacks \subseteq 1..Len(text)
    /\ \A i, j \in DOMAIN text :
          i < j /\ Stamped(i) # None /\ Stamped(j) # None /\ Stamped(j) < Stamped(i)
              => SetBackBetween(i, j)
    /\ \A i \in DOMAIN text :
          Stamped(i) # None /\ clock < Stamped(i) => SetBackBetween(i, Len(text) + 1)

LogInv ==
    /\ SetupapiInv
    /\ grammar \in {"vista", "xp"}
    /\ events \in Seq(Events) /\ Len(events) = Len(text)
    /\ clock \in Times
    /\ collected \in BOOLEAN
    /\ ~collected => StartReader
    /\ LinesAreWritten
    /\ StampsInOrder
=============================================================================
