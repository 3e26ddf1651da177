--------------------------- MODULE SetupLogProofs ---------------------------
(***************************************************************************)
(* Proofs about Setupapi, about the logs Windows writes for it and about   *)
(* the auditor behind it: for logs of any length in either grammar, any    *)
(* devices, and any time at which the log rolls over or is collected.      *)
(***************************************************************************)
EXTENDS SetupapiAudit, FiniteSetTheorems, FunctionTheorems, WellFoundedInduction,
        SequenceTheorems, TLAPS

\* The proofs about the auditor, with facts about lists and positions.
P == INSTANCE AuditProofs WITH devices <- out

-----------------------------------------------------------------------------
(***************************************************************************)
(* The choices of the reader: the last tag of a name, the longest word.    *)
(***************************************************************************)

\* The last of a set of positions is one of them.
LEMMA LastIsIn ==
    ASSUME NEW n \in Nat, NEW T \in SUBSET (1..n), T # {}
    PROVE  Max(T) \in T
  <1> DEFINE U == {n - k : k \in T}
  <1>1. U \in SUBSET Nat /\ U # {}
    <2>1. ASSUME NEW k \in T
          PROVE  n - k \in Nat
      <3>1. k \in 1..n
        OBVIOUS
      <3> QED
        BY <3>1, SMT
    <2> QED
      BY <2>1
  <1>2. PICK m \in U : \A k \in U : m <= k
    <2> HIDE DEF U
    <2> QED
      BY <1>1, P!LeastNat, Zenon
  <1>3. PICK x \in T : m = n - x
    BY <1>2
  <1>4. \A y \in T : x >= y
    <2> TAKE y \in T
    <2>1. n - x <= n - y
      BY <1>2, <1>3
    <2>2. x \in Int /\ y \in Int
      BY SMT
    <2> QED
      BY <2>1, <2>2, SMT
  <1>5. \E z \in T : \A y \in T : z >= y
    BY <1>4
  <1> QED
    BY <1>5, Zenon DEF Max

\* The word at i is the longest of the first n, the last one of those as long.
Longest(words, n, i) ==
    /\ i \in 1..n
    /\ \A j \in 1..n \ {i} :
          words[j].len < words[i].len \/ (words[j].len = words[i].len /\ j < i)

LEMMA ThereIsALongest ==
    ASSUME NEW words \in Seq(InstanceIds), NEW n \in 1..Len(words)
    PROVE  \E i : Longest(words, n, i)
  <1>1. \A i \in 1..Len(words) : words[i].len \in Nat
    <2> TAKE i \in 1..Len(words)
    <2>1. words[i] \in InstanceIds
      BY SMT
    <2> QED
      BY <2>1, PathShape
  <1> DEFINE Bad == {m \in 1..Len(words) : ~\E i : Longest(words, m, i)}
  <1>2. SUFFICES ASSUME Bad # {}
                 PROVE  FALSE
    BY SMT
  <1>3. Bad \in SUBSET Nat
    BY SMT
  <1>4. PICK m \in Bad : \A k \in Bad : m <= k
    <2> HIDE DEF Bad
    <2> QED
      BY <1>2, <1>3, P!LeastNat, Zenon
  <1>5. m \in 1..Len(words) /\ ~\E i : Longest(words, m, i)
    BY <1>4
  <1>6. m # 1
    <2>1. Longest(words, 1, 1)
      BY SMT DEF Longest
    <2> QED
      BY <1>5, <2>1
  <1>7. m - 1 \in 1..Len(words) /\ m - 1 \notin Bad
    <2>1. m - 1 \in 1..Len(words) /\ ~(m <= m - 1)
      BY <1>5, <1>6, SMT
    <2> QED
      BY <1>4, <2>1
  <1>8. PICK i : Longest(words, m - 1, i)
    BY <1>7
  <1>9. CASE words[m].len < words[i].len
    <2>1. Longest(words, m, i)
      BY <1>5, <1>6, <1>8, <1>9, SMT DEF Longest
    <2> QED
      BY <1>5, <2>1
  <1>10. CASE ~(words[m].len < words[i].len)
    <2>1. Longest(words, m, m)
      <3> SUFFICES ASSUME NEW j \in 1..m \ {m}
                   PROVE  words[j].len < words[m].len \/ (words[j].len = words[m].len /\ j < m)
        BY <1>5, SMT DEF Longest
      <3>1. j \in 1..(m - 1) /\ j < m /\ i \in 1..(m - 1)
        BY <1>5, <1>8, SMT DEF Longest
      <3>2. words[j].len \in Nat /\ words[m].len \in Nat /\ words[i].len \in Nat
        BY <1>1, <1>5, <3>1, SMT
      <3>3. words[j].len <= words[i].len
        <4>1. CASE j = i
          BY <3>2, <4>1, SMT
        <4>2. CASE j # i
          <5>1. words[j].len < words[i].len \/ (words[j].len = words[i].len /\ j < i)
            BY <1>8, <3>1, <4>2, Zenon DEF Longest
          <5> QED
            BY <3>2, <5>1, SMT
        <4> QED
          BY <4>1, <4>2
      <3> QED
        BY <1>10, <3>1, <3>2, <3>3, SMT
    <2> QED
      BY <1>5, <2>1
  <1> QED
    BY <1>9, <1>10

\* A word that is chosen is one of the words.
LEMMA WordType ==
    ASSUME NEW words \in Seq(InstanceIds), words # <<>>
    PROVE  extract_instance_id(words) \in InstanceIds
  <1>1. Len(words) \in 1..Len(words) /\ DOMAIN words = 1..Len(words)
    BY SMT
  <1>2. PICK i : Longest(words, Len(words), i)
    BY <1>1, ThereIsALongest
  <1>3. \E k \in DOMAIN words : \A j \in DOMAIN words \ {k} :
           \/ words[j].len < words[k].len
           \/ words[j].len = words[k].len /\ j < k
    BY <1>1, <1>2, Zenon DEF Longest
  <1>4. PICK k \in DOMAIN words : extract_instance_id(words) = words[k]
    BY <1>3, Zenon DEF extract_instance_id
  <1> QED
    BY <1>1, <1>4, SMT

\* The device stands last and is longer than what stands before it.
LEMMA DeviceChosen ==
    ASSUME NEW d \in Devices, NEW words \in {<<d>>} \cup {<<w, d>> : w \in Phrases}
    PROVE  /\ words \in Seq(InstanceIds) /\ words # <<>>
           /\ extract_instance_id(words) = d
           /\ words[Len(words)] = d
  <1>1. d \in InstanceIds
    BY DevicesArePaths
  <1>2. CASE words = <<d>>
    <2>1. words \in Seq(InstanceIds) /\ words # <<>> /\ DOMAIN words = {1} /\ words[1] = d
          /\ Len(words) = 1
      BY <1>1, <1>2, SMT
    <2>2. \A k \in {1} : \A j \in {1} \ {k} :
             words[j].len < words[k].len \/ (words[j].len = words[k].len /\ j < k)
      OBVIOUS
    <2> QED
      BY <2>1, Zenon DEF extract_instance_id
  <1>3. CASE words # <<d>>
    <2>1. PICK w \in Phrases : words = <<w, d>>
      BY <1>3
    <2>2. w \in InstanceIds /\ w.len < d.len /\ w.len \in Nat /\ d.len \in Nat
      BY <1>1, PhrasesAreShort, PathShape DEF Phrases
    <2>3. /\ words \in Seq(InstanceIds) /\ words # <<>> /\ DOMAIN words = {1, 2}
          /\ words[1] = w /\ words[2] = d /\ Len(words) = 2
      BY <1>1, <2>1, <2>2, SMT
    <2>4. \A k \in {1, 2} :
             (\A j \in {1, 2} \ {k} :
                words[j].len < words[k].len \/ (words[j].len = words[k].len /\ j < k))
             <=> k = 2
      BY <2>2, <2>3, SMT
    <2> QED
      BY <2>3, <2>4, SMT DEF extract_instance_id
  <1> QED
    BY <1>2, <1>3

-----------------------------------------------------------------------------
(***************************************************************************)
(* The reader on any log (Setupapi).                                       *)
(***************************************************************************)

Headers == [id : InstanceIds, time : Times]

LEMMA HeaderType ==
    ASSUME NEW l \in Lines, parse_header(l) # None
    PROVE  parse_header(l) \in Headers
  <1>1. /\ l.trail \in Optional(Times) /\ l.lead \in Optional(Times)
        /\ l.desc \in Seq(InstanceIds) /\ l.after \in Seq(InstanceIds)
    BY DEF Lines
  <1>2. ASSUME NEW words \in Seq(InstanceIds), words # <<>>, NEW t \in Times
        PROVE  Header(words, t) \in Headers
    BY <1>2, WordType DEF Header, Headers
  <1>3. CASE l.bracket /\ l.trail # None /\ l.desc # <<>>
    <2>1. parse_header(l) = Header(l.desc, l.trail) /\ l.trail \in Times
      BY <1>1, <1>3 DEF parse_header, Optional
    <2> QED
      BY <1>1, <1>2, <1>3, <2>1
  <1>4. CASE l.bracket /\ ~(l.trail # None /\ l.desc # <<>>) /\ l.lead # None /\ l.after # <<>>
    <2>1. parse_header(l) = Header(l.after, l.lead) /\ l.lead \in Times
      BY <1>1, <1>4 DEF parse_header, Optional
    <2> QED
      BY <1>1, <1>2, <1>4, <2>1
  <1> QED
    BY <1>3, <1>4 DEF parse_header

LEMMA NumberType ==
    ASSUME NEW tag, NEW segs \in Seq(Segments)
    PROVE  parse_vid_pid(tag, segs) \in Optional(Ids)
  <1>1. CASE Tagged(tag, segs) = {}
    BY <1>1 DEF parse_vid_pid, Optional
  <1>2. CASE Tagged(tag, segs) # {}
    <2>1. Len(segs) \in Nat /\ Tagged(tag, segs) \in SUBSET (1..Len(segs))
      BY SMT DEF Tagged
    <2>2. Max(Tagged(tag, segs)) \in 1..Len(segs)
      BY <1>2, <2>1, LastIsIn
    <2>3. segs[Max(Tagged(tag, segs))] \in Segments
      BY <2>2, SMT
    <2> HIDE <1>2
    <2>4. \A seg \in Segments : hex_prefix(seg) \in Optional(Ids)
      BY DEF hex_prefix, Segments, Optional
    <2> QED
      BY <1>2, <2>3, <2>4, Zenon DEF parse_vid_pid
  <1> QED
    BY <1>1, <1>2

\* A record says of its header: the device, and one time for both installs.
LEMMA BuildType ==
    ASSUME NEW h \in Headers, NEW n \in Nat \ {0}
    PROVE  LET conn == build_connection(h, n) IN
           /\ conn \in Connections
           /\ conn.first_install = Authoritative(h.time)
           /\ conn.first_install = conn.last_install
           /\ conn.device_serial # ""
           /\ conn.device_instance_id = h.id
           /\ conn.line = n
  <1> DEFINE bus == from_enumerator(h.id.enumerator)
  <1>1. h.id \in InstanceIds /\ h.time \in Times
    BY DEF Headers
  <1>2. /\ h.id.device_id \in Seq(Segments)
        /\ h.id.serial \in Optional(Serials)
    BY <1>1, PathShape
  <1>3. bus \in Buses
    <2>1. DOMAIN EnumeratorsOf \subseteq Buses /\ "Unknown" \in Buses
      BY DEF EnumeratorsOf, Buses
    <2>2. CASE \E b \in DOMAIN EnumeratorsOf : h.id.enumerator \in EnumeratorsOf[b]
      <3>1. bus \in DOMAIN EnumeratorsOf
        BY <2>2, Zenon DEF from_enumerator
      <3> QED
        BY <2>1, <3>1
    <2> QED
      BY <2>1, <2>2, Zenon DEF from_enumerator
  <1>4. /\ parse_vid_pid("VID", h.id.device_id) \in Optional(Ids)
        /\ parse_vid_pid("PID", h.id.device_id) \in Optional(Ids)
    BY <1>2, NumberType
  <1>5. device_serial(h.id) \in Optional(Serials) /\ device_serial(h.id) # ""
    <2>1. None # ""
      BY NoneIsNoSerial
    <2> QED
      BY <1>2, <2>1, Zenon DEF device_serial, Optional
  <1>6. /\ is_os_generated_serial(h.id.serial) \in BOOLEAN
        /\ is_dma_capable(bus) \in BOOLEAN
        /\ techniques(bus) \in SUBSET {"T1200", "T1052.001"}
    BY DEF is_os_generated_serial, is_dma_capable, techniques
  <1>7. Authoritative(h.time) \in Stamps
    BY <1>1 DEF Authoritative, Stamps
  <1> HIDE DEF bus
  <1> QED
    BY <1>1, <1>3, <1>4, <1>5, <1>6, <1>7 DEF build_connection, Connections, bus

\* A list with one element more.
LEMMA Longer ==
    ASSUME NEW Rs, NEW s \in Seq(Rs), NEW e \in Rs
    PROVE  /\ Append(s, e) \in Seq(Rs)
           /\ Len(Append(s, e)) = Len(s) + 1
           /\ \A k \in 1..Len(s) : Append(s, e)[k] = s[k]
           /\ Append(s, e)[Len(s) + 1] = e
  OBVIOUS

LEMMA ReaderStarts == text \in Seq(Lines) /\ StartReader => SetupapiInv
  BY DEF StartReader, SetupapiInv, TypeOK, RecordsAreHeaders, RecordsInOrder, HeadersRecorded

\* A line that is no header needs no record.
LEMMA SkipLineStep == SetupapiInv /\ SkipLine => SetupapiInv'
  <1> SUFFICES ASSUME SetupapiInv, SkipLine
               PROVE  SetupapiInv'
    OBVIOUS
  <1>1. /\ pos < Len(text) /\ parse_header(text[pos + 1]) = None
        /\ pos' = pos + 1 /\ text' = text /\ out' = out
    BY DEF SkipLine
  <1>2. Len(text) \in Nat /\ pos \in Nat /\ pos + 1 \in 0..Len(text)
        /\ 1..(pos + 1) = 1..pos \cup {pos + 1}
    <2>1. text \in Seq(Lines) /\ pos \in 0..Len(text)
      BY Zenon DEF SetupapiInv, TypeOK
    <2> QED
      BY <1>1, <2>1, SMT
  <1>3. TypeOK'
    BY <1>1, <1>2 DEF SetupapiInv, TypeOK
  <1>4. RecordsAreHeaders'
    BY <1>1, <1>2 DEF SetupapiInv, RecordsAreHeaders
  <1>5. RecordsInOrder'
    BY <1>1 DEF SetupapiInv, RecordsInOrder
  <1>6. HeadersRecorded'
    BY <1>1, <1>2 DEF SetupapiInv, HeadersRecorded
  <1> QED
    BY <1>3, <1>4, <1>5, <1>6 DEF SetupapiInv

\* A header's record comes after all others, and is its own.
LEMMA ReadHeaderStep == SetupapiInv /\ ReadHeader => SetupapiInv'
  <1> SUFFICES ASSUME SetupapiInv, ReadHeader
               PROVE  SetupapiInv'
    OBVIOUS
  <1>1. PICK h : h = parse_header(text[pos + 1])
    OBVIOUS
  <1>2. PICK conn : conn = build_connection(h, pos + 1)
    OBVIOUS
  <1>3. /\ pos < Len(text) /\ h # None
        /\ pos' = pos + 1 /\ text' = text /\ out' = Append(out, conn)
    BY <1>1, <1>2 DEF ReadHeader
  <1>4. /\ Len(text) \in Nat /\ pos \in Nat /\ pos + 1 \in 0..Len(text)
        /\ pos + 1 \in Nat \ {0} /\ pos + 1 \in DOMAIN text
        /\ 1..(pos + 1) = 1..pos \cup {pos + 1}
    <2>1. text \in Seq(Lines) /\ pos \in 0..Len(text)
      BY Zenon DEF SetupapiInv, TypeOK
    <2> QED
      BY <1>3, <2>1, SMT
  <1>5. h \in Headers
    <2>1. text \in Seq(Lines)
      BY Zenon DEF SetupapiInv, TypeOK
    <2>2. text[pos + 1] \in Lines
      BY <1>4, <2>1
    <2> QED
      BY <1>1, <1>3, <2>2, HeaderType
  <1>6. /\ conn \in Connections /\ conn.first_install = conn.last_install
        /\ conn.device_serial # "" /\ conn.line = pos + 1
    BY <1>2, <1>4, <1>5, BuildType
  <1> DEFINE n == Len(out)
  <1>7. out \in Seq(Connections) /\ n \in Nat
    <2>1. out \in Seq(Connections)
      BY Zenon DEF SetupapiInv, TypeOK
    <2> QED
      BY <2>1
  <1>8. /\ out \in Seq(Connections) /\ DOMAIN out = 1..n
        /\ out' \in Seq(Connections) /\ DOMAIN out' = 1..(n + 1)
        /\ out'[n + 1] = conn
        /\ \A k \in 1..n : out'[k] = out[k]
        /\ \A k \in 1..(n + 1) : k \in 1..n \/ k = n + 1
    <2>1. /\ Append(out, conn) \in Seq(Connections)
          /\ Len(Append(out, conn)) = n + 1
          /\ \A k \in 1..n : Append(out, conn)[k] = out[k]
          /\ Append(out, conn)[n + 1] = conn
      BY <1>6, <1>7, Longer
    <2>2. DOMAIN out = 1..n /\ DOMAIN out' = 1..(n + 1)
      BY <1>3, <1>7, <2>1
    <2>3. out' \in Seq(Connections) /\ out'[n + 1] = conn /\ \A k \in 1..n : out'[k] = out[k]
      BY <1>3, <2>1, Zenon
    <2>4. \A k \in 1..(n + 1) : k \in 1..n \/ k = n + 1
      <3> HIDE DEF n
      <3> QED
        BY <1>7, SMT
    <2> QED
      BY <1>7, <2>1, <2>2, <2>3, <2>4
  <1> HIDE DEF n
  <1>9. TypeOK'
    <2>1. \A k \in 1..(n + 1) : out'[k].first_install = out'[k].last_install
                                /\ out'[k].device_serial # ""
      BY <1>6, <1>8 DEF SetupapiInv, TypeOK
    <2> QED
      BY <1>3, <1>4, <1>8, <2>1 DEF SetupapiInv, TypeOK
  <1>10. RecordsAreHeaders'
    <2> SUFFICES ASSUME NEW k \in 1..(n + 1)
                 PROVE  /\ out'[k].line \in 1..(pos + 1)
                        /\ parse_header(text[out'[k].line]) # None
                        /\ out'[k] = build_connection(parse_header(text[out'[k].line]), out'[k].line)
      BY <1>3, <1>8 DEF RecordsAreHeaders
    <2>1. CASE k = n + 1
      BY <1>1, <1>2, <1>3, <1>4, <1>6, <1>8, <2>1
    <2>2. CASE k \in 1..n
      BY <1>4, <1>8, <2>2 DEF SetupapiInv, RecordsAreHeaders
    <2> QED
      BY <1>8, <2>1, <2>2
  <1>11. \A k \in 1..n : out[k].line \in 1..pos
    BY <1>8 DEF SetupapiInv, RecordsAreHeaders
  <1>12. RecordsInOrder'
    <2> SUFFICES ASSUME NEW j \in 1..(n + 1), NEW k \in 1..(n + 1), j < k
                 PROVE  out'[j].line < out'[k].line
      BY <1>8 DEF RecordsInOrder
    <2>1. j \in 1..n
      BY <1>7, SMT
    <2>2. CASE k = n + 1
      <3>1. out[j].line < pos + 1
        BY <1>4, <1>11, <2>1, SMT
      <3> QED
        BY <1>6, <1>8, <2>1, <2>2, <3>1
    <2>3. CASE k \in 1..n
      BY <1>8, <2>1, <2>3 DEF SetupapiInv, RecordsInOrder
    <2> QED
      BY <1>8, <2>2, <2>3
  <1>13. HeadersRecorded'
    <2> SUFFICES ASSUME NEW m \in 1..(pos + 1), parse_header(text[m]) # None
                 PROVE  \E k \in 1..(n + 1) : out'[k].line = m
      BY <1>3, <1>8 DEF HeadersRecorded
    <2>1. CASE m = pos + 1
      <3>1. n + 1 \in 1..(n + 1)
        BY <1>7, SMT
      <3> QED
        BY <1>6, <1>8, <2>1, <3>1
    <2>2. CASE m \in 1..pos
      <3>1. PICK k \in 1..n : out[k].line = m
        BY <1>8, <2>2 DEF SetupapiInv, HeadersRecorded
      <3>2. k \in 1..(n + 1)
        BY <1>7, SMT
      <3> QED
        BY <1>8, <3>1, <3>2
    <2> QED
      BY <1>4, <2>1, <2>2
  <1> QED
    BY <1>9, <1>10, <1>12, <1>13 DEF SetupapiInv

LEMMA ReaderStutters == SetupapiInv /\ UNCHANGED vars => SetupapiInv'
  BY DEF vars, SetupapiInv, TypeOK, RecordsAreHeaders, RecordsInOrder, HeadersRecorded

\* The inductive invariant of the reader: its records are the headers read so
\* far, each once and in order.
THEOREM SetupapiCorrect == Spec => []SetupapiInv
  <1>1. SetupapiInv /\ [Next]_vars => SetupapiInv'
    BY SkipLineStep, ReadHeaderStep, ReaderStutters DEF Next
  <1>2. Init => SetupapiInv
    BY ReaderStarts DEF Init
  <1> QED
    BY <1>1, <1>2, PTL DEF Spec

-----------------------------------------------------------------------------
(***************************************************************************)
(* The reader on the logs Windows writes (SetupLog).                       *)
(***************************************************************************)

\* The reader finds in a header what Windows put there, in either grammar.
LEMMA HeaderRead ==
    ASSUME grammar \in {"vista", "xp"}, NEW words \in Seq(InstanceIds), NEW t \in Times
    PROVE  LET l == HeaderLine(words, t) IN
           /\ l \in Lines
           /\ (IF grammar = "vista" THEN l.trail ELSE l.lead) = t
           /\ words = <<>> => parse_header(l) = None
           /\ words # <<>> => /\ parse_header(l) # None
                              /\ parse_header(l) = Header(words, t)
           /\ l.desc \o l.after = words
  <1> DEFINE l == HeaderLine(words, t)
  <1>1. t # None /\ <<>> \in Seq(InstanceIds) /\ t \in Optional(Times) /\ None \in Optional(Times)
    BY NoneIsNoTime DEF Optional
  <1>2. words # <<>> => Header(words, t) # None
    <2> SUFFICES ASSUME words # <<>>
                 PROVE  Header(words, t) # None
      OBVIOUS
    <2>1. Header(words, t) \in [id : InstanceIds, time : Times]
      BY WordType DEF Header
    <2> QED
      BY <2>1, NoneIsNoHeader
  <1>3. words \o <<>> = words /\ <<>> \o words = words
    BY ConcatEmptySeq
  <1>4. CASE grammar = "vista"
    <2>1. l = [bracket |-> TRUE, trail |-> t, lead |-> None, desc |-> words, after |-> <<>>]
      BY <1>4 DEF HeaderLine, Line
    <2>2. l \in Lines
      BY <1>1, <2>1 DEF Lines
    <2>3. /\ words = <<>> => parse_header(l) = None
          /\ words # <<>> => parse_header(l) = Header(words, t)
      BY <1>1, <2>1 DEF parse_header
    <2> HIDE DEF l
    <2> QED
      BY <1>2, <1>3, <1>4, <2>1, <2>2, <2>3 DEF l
  <1>5. CASE grammar = "xp"
    <2>1. l = [bracket |-> TRUE, trail |-> None, lead |-> t, desc |-> <<>>, after |-> words]
      BY <1>5 DEF HeaderLine, Line
    <2>2. l \in Lines
      BY <1>1, <2>1 DEF Lines
    <2>3. /\ words = <<>> => parse_header(l) = None
          /\ words # <<>> => parse_header(l) = Header(words, t)
      BY <1>1, <2>1 DEF parse_header
    <2> HIDE DEF l
    <2> QED
      BY <1>2, <1>3, <1>5, <2>1, <2>2, <2>3 DEF l
  <1> QED
    BY <1>4, <1>5

LEMMA BodyRead ==
    LET l == Line(FALSE, None, None, <<>>, <<>>) IN
    l \in Lines /\ l.trail = None /\ l.lead = None /\ parse_header(l) = None
  BY DEF Line, Lines, Optional, parse_header

\* What Windows puts into a header is device paths and phrases.
LEMMA WordsType ==
    ASSUME NEW event, NEW words \in WordsOf(event)
    PROVE  words \in Seq(InstanceIds) /\ event \in {"install", "other", "session"}
  <1>1. event \in {"install", "other", "session"}
    BY DEF WordsOf
  <1>2. CASE event = "install"
    <2>1. PICK d \in Devices : words \in {<<d>>} \cup {<<w, d>> : w \in Phrases}
      BY <1>2 DEF WordsOf
    <2> QED
      BY <1>1, <2>1, DeviceChosen
  <1>3. CASE event = "other"
    <2>1. PICK d \in Devices : words = <<d>>
      BY <1>3 DEF WordsOf
    <2>2. d \in InstanceIds
      BY DevicesArePaths
    <2> QED
      BY <1>1, <2>1, <2>2
  <1>4. CASE event = "session"
    BY <1>1, <1>4 DEF WordsOf
  <1> QED
    BY <1>1, <1>2, <1>3, <1>4

\* The stamp in a line, if it is a header.
StampIn(line) == IF grammar = "vista" THEN line.trail ELSE line.lead

LEMMA WrittenLine ==
    ASSUME grammar \in {"vista", "xp"}, NEW t \in Times, NEW event, NEW line,
           Written(event, line, t)
    PROVE  /\ line \in Lines
           /\ event \in Events
           /\ StampIn(line) \in {None, t}
           /\ parse_header(line) # None => StampIn(line) = t /\ parse_header(line).time = t
  <1>1. CASE event = "body" /\ line = Line(FALSE, None, None, <<>>, <<>>)
    BY <1>1, BodyRead DEF StampIn, Events
  <1>2. ASSUME NEW words \in WordsOf(event), line = HeaderLine(words, t)
        PROVE  /\ line \in Lines
               /\ event \in Events
               /\ StampIn(line) \in {None, t}
               /\ parse_header(line) # None => StampIn(line) = t /\ parse_header(line).time = t
    <2>1. words \in Seq(InstanceIds) /\ event \in Events
      BY WordsType DEF Events
    <2>2. /\ line \in Lines /\ StampIn(line) = t
          /\ words = <<>> => parse_header(line) = None
          /\ words # <<>> => parse_header(line) = Header(words, t)
      BY <1>2, <2>1, HeaderRead DEF StampIn
    <2> QED
      BY <2>1, <2>2 DEF Header
  <1> QED
    BY <1>1, <1>2 DEF Written

LEMMA NothingRead ==
    ASSUME text' \in Seq(Lines), pos' = 0, out' = <<>>
    PROVE  SetupapiInv'
  BY DEF SetupapiInv, TypeOK, RecordsAreHeaders, RecordsInOrder, HeadersRecorded

\* What LogInv says of the log, line by line.
Logged(n) ==
    /\ text \in Seq(Lines) /\ events \in Seq(Events)
    /\ n \in Nat /\ n = Len(text) /\ n = Len(events)
    /\ DOMAIN text = 1..n /\ DOMAIN events = 1..n
    /\ \A i \in 1..n : \E t \in Times : Written(events[i], text[i], t)
    /\ setbacks \subseteq 1..n
    /\ \A i, j \in 1..n :
          i < j /\ StampIn(text[i]) # None /\ StampIn(text[j]) # None
             /\ StampIn(text[j]) < StampIn(text[i]) => SetBackBetween(i, j)
    /\ \A i \in 1..n :
          StampIn(text[i]) # None /\ clock < StampIn(text[i]) => SetBackBetween(i, n + 1)

LEMMA LogOfLines ==
    ASSUME LogInv
    PROVE  Logged(Len(text))
  <1>1. text \in Seq(Lines) /\ events \in Seq(Events) /\ Len(events) = Len(text)
    BY DEF LogInv, SetupapiInv, TypeOK
  <1>2. DOMAIN text = 1..Len(text) /\ DOMAIN events = 1..Len(events) /\ Len(text) \in Nat
    BY <1>1
  <1> QED
    BY <1>1, <1>2 DEF Logged, LogInv, LinesAreWritten, StampsInOrder, Stamped, StampIn

LEMMA LinesOfLog ==
    ASSUME NEW n, Logged(n)', SetupapiInv', grammar' \in {"vista", "xp"}, clock' \in Times,
           collected' \in BOOLEAN, collected' = FALSE => StartReader'
    PROVE  LogInv'
  BY DEF Logged, LogInv, LinesAreWritten, StampsInOrder, Stamped, StampIn

\* A line is stamped with a time, or not at all.
LEMMA StampType ==
    ASSUME NEW n, Logged(n), grammar \in {"vista", "xp"}, NEW i \in 1..n,
           StampIn(text[i]) # None
    PROVE  StampIn(text[i]) \in Times
  <1>1. PICK t \in Times : Written(events[i], text[i], t)
    BY DEF Logged
  <1> QED
    BY <1>1, WrittenLine

\* A setback between two lines is one before any later line.
LEMMA SetBackBefore ==
    ASSUME NEW n, Logged(n), NEW i \in 1..n, SetBackBetween(i, n + 1)
    PROVE  SetBackBetween(i, n + 2)
  <1>1. PICK m \in setbacks : i <= m /\ m < n + 1
    BY DEF SetBackBetween
  <1>2. m \in 1..n /\ n \in Nat
    BY DEF Logged
  <1>3. m < n + 2
    BY <1>2, SMT
  <1> QED
    BY <1>1, <1>3 DEF SetBackBetween

\* Windows writes a line, and stamps it with the clock.
LEMMA WriteStep ==
    ASSUME LogInv, NEW event, NEW line, Written(event, line, clock), Write(event, line)
    PROVE  LogInv'
  <1>1. /\ text' = Append(text, line) /\ events' = Append(events, event)
        /\ pos' = pos /\ out' = out /\ grammar' = grammar /\ clock' = clock
        /\ setbacks' = setbacks /\ collected' = collected /\ ~collected
    BY DEF Write
  <1>2. /\ grammar \in {"vista", "xp"} /\ clock \in Times /\ collected \in BOOLEAN
        /\ pos = 0 /\ out = <<>>
    BY <1>1 DEF LogInv, StartReader
  <1>3. line \in Lines /\ event \in Events /\ StampIn(line) \in {None, clock}
    BY <1>2, WrittenLine
  <1>4. PICK n : n = Len(text) /\ Logged(n)
    BY LogOfLines
  <1>5. /\ text' \in Seq(Lines) /\ Len(text') = n + 1
        /\ text'[n + 1] = line /\ \A i \in 1..n : text'[i] = text[i]
    BY <1>1, <1>3, <1>4, Longer DEF Logged
  <1>6. /\ events' \in Seq(Events) /\ Len(events') = n + 1
        /\ events'[n + 1] = event /\ \A i \in 1..n : events'[i] = events[i]
    BY <1>1, <1>3, <1>4, Longer DEF Logged
  <1>7. DOMAIN text' = 1..(n + 1) /\ DOMAIN events' = 1..(n + 1)
    BY <1>5, <1>6
  <1>8. n \in Nat /\ n + 1 \in Nat /\ setbacks \subseteq 1..(n + 1)
    <2>1. n \in Nat /\ setbacks \subseteq 1..n
      BY <1>4 DEF Logged
    <2> QED
      BY <2>1, SMT
  <1>9. \A i \in 1..(n + 1) : i \in 1..n \/ i = n + 1
    BY <1>8, SMT
  <1>10. \A i \in 1..(n + 1) : \E t \in Times : Written(events'[i], text'[i], t)
    <2> TAKE i \in 1..(n + 1)
    <2>1. CASE i \in 1..n
      BY <1>4, <1>5, <1>6, <2>1 DEF Logged
    <2>2. CASE i = n + 1
      BY <1>2, <1>5, <1>6, <2>2
    <2> QED
      BY <1>9, <2>1, <2>2
  <1>11. ASSUME NEW i \in 1..(n + 1), NEW j \in 1..(n + 1), i < j,
                StampIn(text'[i]) # None, StampIn(text'[j]) # None,
                StampIn(text'[j]) < StampIn(text'[i])
         PROVE  SetBackBetween(i, j)
    <2>1. i \in 1..n
      BY <1>8, <1>11, SMT
    <2>2. CASE j \in 1..n
      BY <1>4, <1>5, <1>11, <2>1, <2>2 DEF Logged
    <2>3. CASE j = n + 1
      <3>1. StampIn(text'[j]) = clock /\ text'[i] = text[i]
        BY <1>3, <1>5, <1>11, <2>1, <2>3
      <3>2. StampIn(text[i]) # None /\ clock < StampIn(text[i])
        BY <1>11, <3>1
      <3> QED
        BY <1>4, <2>1, <2>3, <3>2 DEF Logged
    <2> QED
      BY <1>9, <2>2, <2>3
  <1>12. ASSUME NEW i \in 1..(n + 1), StampIn(text'[i]) # None, clock < StampIn(text'[i])
         PROVE  SetBackBetween(i, n + 2)
    <2>1. CASE i \in 1..n
      <3>1. SetBackBetween(i, n + 1)
        BY <1>4, <1>5, <1>12, <2>1 DEF Logged
      <3> QED
        BY <1>4, <2>1, <3>1, SetBackBefore
    <2>2. CASE i = n + 1
      <3>1. clock < clock /\ clock \in Nat
        BY <1>2, <1>3, <1>5, <1>12, <2>2, TimesAreNumbers
      <3> QED
        BY <3>1, SMT
    <2> QED
      BY <1>9, <2>1, <2>2
  <1>13. Logged(n + 1)'
    <2>1. \A i \in 1..(n + 1) : \E t \in Times : Written(events[i], text[i], t)'
      <3> TAKE i \in 1..(n + 1)
      <3>1. PICK t \in Times : Written(events'[i], text'[i], t)
        BY <1>10
      <3>2. Written(events[i], text[i], t)'
        BY <1>1, <3>1 DEF Written, HeaderLine
      <3> QED
        BY <3>2
    <2>2. \A i, j \in 1..(n + 1) :
             i < j /\ StampIn(text[i])' # None /\ StampIn(text[j])' # None
                /\ StampIn(text[j])' < StampIn(text[i])' => SetBackBetween(i, j)'
      BY <1>1, <1>11 DEF StampIn, SetBackBetween
    <2>3. \A i \in 1..(n + 1) :
             StampIn(text[i])' # None /\ clock' < StampIn(text[i])'
             => SetBackBetween(i, n + 1 + 1)'
      <3>1. n + 1 + 1 = n + 2
        BY <1>8
      <3> QED
        BY <1>1, <1>12, <3>1 DEF StampIn, SetBackBetween
    <2> QED
      BY <1>1, <1>5, <1>6, <1>7, <1>8, <2>1, <2>2, <2>3 DEF Logged
  <1>14. SetupapiInv'
    BY <1>1, <1>2, <1>5, NothingRead
  <1> QED
    BY <1>1, <1>2, <1>13, <1>14, LinesOfLog DEF StartReader

\* The oldest line goes; the others move up.
LEMMA RollOverStep == LogInv /\ RollOver => LogInv'
  <1> SUFFICES ASSUME LogInv, RollOver
               PROVE  LogInv'
    OBVIOUS
  <1>1. /\ text' = Tail(text) /\ events' = Tail(events) /\ text # <<>>
        /\ setbacks' = {m - 1 : m \in setbacks} \ {0}
        /\ pos' = pos /\ out' = out /\ grammar' = grammar /\ clock' = clock
        /\ collected' = collected /\ ~collected
    BY DEF RollOver
  <1>2. /\ grammar \in {"vista", "xp"} /\ clock \in Times /\ collected \in BOOLEAN
        /\ pos = 0 /\ out = <<>>
    BY <1>1 DEF LogInv, StartReader
  <1>3. PICK n : n = Len(text) /\ Logged(n)
    BY LogOfLines
  <1>4. n \in Nat /\ n # 0 /\ n - 1 \in Nat /\ Len(text) = n /\ Len(events) = n
        /\ text \in Seq(Lines) /\ events \in Seq(Events)
    BY <1>1, <1>3 DEF Logged
  <1>5. text' \in Seq(Lines) /\ Len(text') = n - 1 /\ \A i \in 1..(n - 1) : text'[i] = text[i + 1]
    BY <1>1, <1>4
  <1>6. /\ events' \in Seq(Events) /\ Len(events') = n - 1
        /\ \A i \in 1..(n - 1) : events'[i] = events[i + 1]
    <2>1. events # <<>>
      BY <1>4
    <2> QED
      BY <1>1, <1>4, <2>1
  <1>7. DOMAIN text' = 1..(n - 1) /\ DOMAIN events' = 1..(n - 1)
    BY <1>5, <1>6
  <1>8. \A i \in 1..(n - 1) : i + 1 \in 1..n
    BY <1>4, SMT
  <1>9. \A i \in 1..(n - 1) : \E t \in Times : Written(events[i], text[i], t)'
    <2> TAKE i \in 1..(n - 1)
    <2>1. PICK t \in Times : Written(events[i + 1], text[i + 1], t)
      BY <1>3, <1>8 DEF Logged
    <2>2. Written(events'[i], text'[i], t)
      BY <1>5, <1>6, <2>1
    <2>3. Written(events[i], text[i], t)'
      BY <1>1, <2>2 DEF Written, HeaderLine
    <2> QED
      BY <2>3
  \* A setback moves up with the lines about it.
  <1>10. ASSUME NEW i \in 1..(n - 1), NEW j \in Nat, SetBackBetween(i + 1, j + 1)
         PROVE  SetBackBetween(i, j)'
    <2>1. PICK m \in setbacks : i + 1 <= m /\ m < j + 1
      BY <1>10 DEF SetBackBetween
    <2>2. m \in 1..n
      BY <1>3 DEF Logged
    <2>3. m - 1 # 0 /\ i <= m - 1 /\ m - 1 < j
      BY <2>1, <2>2, SMT
    <2>4. m - 1 \in setbacks'
      BY <1>1, <2>3
    <2> QED
      BY <2>3, <2>4 DEF SetBackBetween
  <1>11. \A i \in 1..(n - 1) : StampIn(text[i])' = StampIn(text[i + 1])
    BY <1>1, <1>5 DEF StampIn
  <1>12. \A i, j \in 1..(n - 1) :
            i < j /\ StampIn(text[i])' # None /\ StampIn(text[j])' # None
               /\ StampIn(text[j])' < StampIn(text[i])' => SetBackBetween(i, j)'
    <2> SUFFICES ASSUME NEW i \in 1..(n - 1), NEW j \in 1..(n - 1), i < j,
                        StampIn(text[i])' # None, StampIn(text[j])' # None,
                        StampIn(text[j])' < StampIn(text[i])'
                 PROVE  SetBackBetween(i, j)'
      OBVIOUS
    <2>1. i + 1 < j + 1 /\ i + 1 \in 1..n /\ j + 1 \in 1..n /\ j \in Nat
      BY <1>4, <1>8, SMT
    <2>2. /\ StampIn(text[i + 1]) # None /\ StampIn(text[j + 1]) # None
          /\ StampIn(text[j + 1]) < StampIn(text[i + 1])
      BY <1>11
    <2>3. SetBackBetween(i + 1, j + 1)
      BY <1>3, <2>1, <2>2, Zenon DEF Logged
    <2> QED
      BY <1>10, <2>1, <2>3
  <1>13. \A i \in 1..(n - 1) :
            StampIn(text[i])' # None /\ clock' < StampIn(text[i])'
            => SetBackBetween(i, n - 1 + 1)'
    <2> SUFFICES ASSUME NEW i \in 1..(n - 1),
                        StampIn(text[i])' # None, clock' < StampIn(text[i])'
                 PROVE  SetBackBetween(i, n)'
      <3>1. n - 1 + 1 = n
        BY <1>4
      <3> QED
        BY <3>1
    <2>1. StampIn(text[i + 1]) # None /\ clock < StampIn(text[i + 1])
      BY <1>1, <1>11
    <2>2. SetBackBetween(i + 1, n + 1)
      BY <1>3, <1>8, <2>1 DEF Logged
    <2> QED
      BY <1>4, <1>10, <2>2
  <1>14. setbacks' \subseteq 1..(n - 1)
    <2> SUFFICES ASSUME NEW m \in setbacks, m - 1 # 0
                 PROVE  m - 1 \in 1..(n - 1)
      BY <1>1
    <2>1. m \in 1..n
      BY <1>3 DEF Logged
    <2> QED
      BY <1>4, <2>1, SMT
  <1>15. Logged(n - 1)'
    BY <1>4, <1>5, <1>6, <1>7, <1>9, <1>12, <1>13, <1>14 DEF Logged
  <1>16. SetupapiInv'
    BY <1>1, <1>2, <1>5, NothingRead
  <1> QED
    BY <1>1, <1>2, <1>15, <1>16, LinesOfLog DEF StartReader

\* Nothing is written and the clock stands: the log is as it was.
LEMMA LogStands ==
    ASSUME LogInv, SetupapiInv', text' = text, events' = events, grammar' = grammar,
           clock' = clock, setbacks' = setbacks, collected' \in BOOLEAN,
           collected' = FALSE => StartReader'
    PROVE  LogInv'
  <1>1. grammar \in {"vista", "xp"} /\ clock \in Times
    BY DEF LogInv
  <1>2. PICK n : n = Len(text) /\ Logged(n)
    BY LogOfLines
  <1>3. \A i \in 1..n : \E t \in Times : Written(events[i], text[i], t)'
    BY <1>2 DEF Logged, Written, HeaderLine
  <1>4. Logged(n)'
    BY <1>2, <1>3 DEF Logged, StampIn, SetBackBetween
  <1> QED
    BY <1>1, <1>4, LinesOfLog

\* A clock set back is noted after the last line, so for every line there is.
LEMMA MoveClockStep ==
    ASSUME LogInv, NEW t \in Times, MoveClock(t)
    PROVE  LogInv'
  <1>1. /\ text' = text /\ pos' = pos /\ out' = out /\ events' = events
        /\ grammar' = grammar /\ collected' = collected /\ ~collected
        /\ clock' = t /\ t # clock
        /\ setbacks' = IF t < clock THEN setbacks \cup ({Len(text)} \ {0}) ELSE setbacks
    BY DEF MoveClock, vars
  <1>2. /\ grammar \in {"vista", "xp"} /\ clock \in Nat /\ t \in Nat /\ collected \in BOOLEAN
        /\ pos = 0 /\ out = <<>>
    BY <1>1, TimesAreNumbers DEF LogInv, StartReader
  <1>3. PICK n : n = Len(text) /\ Logged(n)
    BY LogOfLines
  <1>4. n \in Nat /\ setbacks \subseteq 1..n
    BY <1>3 DEF Logged
  <1>5. setbacks \subseteq setbacks' /\ setbacks' \subseteq 1..n
    <2>1. {n} \ {0} \subseteq 1..n
      BY <1>4, SMT
    <2> QED
      BY <1>1, <1>3, <1>4, <2>1, Zenon
  <1>6. \A i \in 1..n : \E u \in Times : Written(events[i], text[i], u)'
    BY <1>1, <1>3 DEF Logged, Written, HeaderLine
  <1>7. \A i, j : SetBackBetween(i, j) => SetBackBetween(i, j)'
    BY <1>5 DEF SetBackBetween
  <1>8. ASSUME NEW i \in 1..n, StampIn(text[i]) # None, t < StampIn(text[i])
        PROVE  SetBackBetween(i, n + 1)'
    <2>1. CASE t < clock
      <3>1. n \in setbacks' /\ i <= n /\ n < n + 1
        BY <1>1, <1>3, <1>4, <2>1
      <3> QED
        BY <3>1 DEF SetBackBetween
    <2>2. CASE ~(t < clock)
      <3>1. StampIn(text[i]) \in Nat
        BY <1>2, <1>3, <1>8, StampType, TimesAreNumbers
      <3>2. clock < StampIn(text[i])
        BY <1>1, <1>2, <1>8, <2>2, <3>1, SMT
      <3>3. SetBackBetween(i, n + 1)
        BY <1>3, <1>8, <3>2 DEF Logged
      <3> QED
        BY <1>7, <3>3
    <2> QED
      BY <2>1, <2>2
  <1>9. \A i \in 1..n : StampIn(text[i])' = StampIn(text[i])
    BY <1>1 DEF StampIn
  <1>10. \A i, j \in 1..n :
            i < j /\ StampIn(text[i])' # None /\ StampIn(text[j])' # None
               /\ StampIn(text[j])' < StampIn(text[i])' => SetBackBetween(i, j)'
    <2>1. \A i, j \in 1..n :
             i < j /\ StampIn(text[i]) # None /\ StampIn(text[j]) # None
                /\ StampIn(text[j]) < StampIn(text[i]) => SetBackBetween(i, j)
      BY <1>3 DEF Logged
    <2> QED
      BY <1>7, <1>9, <2>1
  <1>11. \A i \in 1..n : StampIn(text[i])' # None /\ clock' < StampIn(text[i])'
                         => SetBackBetween(i, n + 1)'
    BY <1>1, <1>8, <1>9
  <1>12. Logged(n)'
    BY <1>1, <1>3, <1>5, <1>6, <1>10, <1>11 DEF Logged
  <1>13. SetupapiInv'
    <2>1. text' \in Seq(Lines)
      BY <1>1, <1>3 DEF Logged
    <2> QED
      BY <1>1, <1>2, <2>1, NothingRead
  <1> QED
    BY <1>1, <1>2, <1>12, <1>13, LinesOfLog DEF StartReader

\* The log is handed over, and read.
LEMMA ReadingStep ==
    ASSUME LogInv, text' = text, events' = events, grammar' = grammar, clock' = clock,
           setbacks' = setbacks, collected' = TRUE, [Next]_vars
    PROVE  LogInv'
  <1>1. SetupapiInv'
    BY SkipLineStep, ReadHeaderStep, ReaderStutters DEF Next, LogInv
  <1> QED
    BY <1>1, LogStands

LEMMA LogStep == LogInv /\ [LNext]_lvars => LogInv'
  <1> SUFFICES ASSUME LogInv, [LNext]_lvars
               PROVE  LogInv'
    OBVIOUS
  <1>1. ASSUME NEW d \in Devices, Install(d)
        PROVE  LogInv'
    <2>1. PICK words \in {<<d>>} \cup {<<w, d>> : w \in Phrases} :
             Write("install", HeaderLine(words, clock))
      BY <1>1 DEF Install
    <2>2. words \in WordsOf("install")
      BY DEF WordsOf
    <2>3. Written("install", HeaderLine(words, clock), clock)
      BY <2>2 DEF Written
    <2> QED
      BY <2>1, <2>3, WriteStep
  <1>2. ASSUME NEW d \in Devices, OtherSection(d)
        PROVE  LogInv'
    <2>1. <<d>> \in WordsOf("other")
      BY DEF WordsOf
    <2>2. Written("other", HeaderLine(<<d>>, clock), clock)
      BY <2>1 DEF Written
    <2> QED
      BY <1>2, <2>2, WriteStep DEF OtherSection
  <1>3. CASE Session
    <2>1. <<>> \in WordsOf("session")
      BY DEF WordsOf
    <2>2. Written("session", HeaderLine(<<>>, clock), clock)
      BY <2>1 DEF Written
    <2> QED
      BY <1>3, <2>2, WriteStep DEF Session
  <1>4. CASE Body
    <2>1. Written("body", Line(FALSE, None, None, <<>>, <<>>), clock)
      BY DEF Written
    <2> QED
      BY <1>4, <2>1, WriteStep DEF Body
  <1>5. CASE Collect
    <2>1. /\ text' = text /\ events' = events /\ grammar' = grammar /\ clock' = clock
          /\ setbacks' = setbacks /\ collected' = TRUE /\ UNCHANGED vars
      BY <1>5 DEF Collect, vars
    <2> QED
      BY <2>1, ReadingStep
  <1>6. CASE Parse
    <2>1. text' = text
      BY <1>6 DEF Parse, Next, SkipLine, ReadHeader
    <2> QED
      BY <1>6, <2>1, ReadingStep DEF Parse, windows, LogInv
  <1>7. CASE UNCHANGED lvars
    <2>1. /\ SetupapiInv' /\ clock' = clock /\ setbacks' = setbacks
          /\ text' = text /\ events' = events
          /\ grammar' = grammar /\ collected' = collected /\ pos' = pos /\ out' = out
      BY <1>7, ReaderStutters DEF LogInv, lvars, vars, windows
    <2>2. collected \in BOOLEAN /\ (~collected => StartReader)
      BY DEF LogInv
    <2> QED
      BY <2>1, <2>2, LogStands DEF StartReader
  <1> QED
    BY <1>1, <1>2, <1>3, <1>4, <1>5, <1>6, <1>7, MoveClockStep, RollOverStep DEF LNext

LEMMA LogStarts == LInit => LogInv
  <1> SUFFICES ASSUME LInit
               PROVE  LogInv
    OBVIOUS
  <1>1. /\ text = <<>> /\ events = <<>> /\ clock = 0 /\ setbacks = {}
        /\ collected = FALSE /\ StartReader
        /\ grammar \in {"vista", "xp"}
    BY DEF LInit
  <1>2. SetupapiInv
    <2>1. text \in Seq(Lines)
      BY <1>1
    <2> QED
      BY <1>1, <2>1, ReaderStarts
  <1>3. events \in Seq(Events) /\ Len(events) = Len(text)
    BY <1>1
  <1>4. DOMAIN text = {}
    BY <1>1
  <1>5. LinesAreWritten /\ StampsInOrder
    BY <1>1, <1>4, Zenon DEF LinesAreWritten, StampsInOrder
  <1>6. clock \in Times /\ collected \in BOOLEAN
    BY <1>1, TimesAreNumbers
  <1> QED
    BY <1>1, <1>2, <1>3, <1>5, <1>6 DEF LogInv

\* The inductive invariant of reader and writer: every line is one Windows
\* writes, stamped in order but for the clock's setbacks, and every header read
\* has its record.
THEOREM LogCorrect == LSpec => []LogInv
  BY LogStarts, LogStep, PTL DEF LSpec

LEMMA RecordsCounted ==
    ASSUME SetupapiInv
    PROVE  /\ out \in Seq(Connections) /\ Len(out) \in Nat /\ DOMAIN out = 1..Len(out)
           /\ \A k \in DOMAIN out : k \in Nat /\ k >= 1
  <1>1. out \in Seq(Connections)
    BY Zenon DEF SetupapiInv, TypeOK
  <1>2. Len(out) \in Nat /\ DOMAIN out = 1..Len(out)
    BY <1>1
  <1>3. \A k \in 1..Len(out) : k \in Nat /\ k >= 1
    BY <1>2, SMT
  <1> QED
    BY <1>1, <1>2, <1>3

\* A record says what its line says, and its line is a header read before.
LEMMA LineOfRecord ==
    ASSUME SetupapiInv, NEW k \in DOMAIN out
    PROVE  LET h == parse_header(text[out[k].line]) IN
           /\ out[k].line \in 1..pos /\ out[k].line \in DOMAIN text
           /\ h # None /\ h \in Headers
           /\ out[k].device_instance_id = h.id
           /\ out[k].first_install = Authoritative(h.time)
  <1> DEFINE n == out[k].line
             h == parse_header(text[n])
  <1>1. n \in 1..pos /\ h # None /\ out[k] = build_connection(h, n)
    BY Zenon DEF SetupapiInv, RecordsAreHeaders
  <1>2. text \in Seq(Lines) /\ pos \in 0..Len(text)
    BY Zenon DEF SetupapiInv, TypeOK
  <1> HIDE DEF n, h
  <1>3. n \in DOMAIN text /\ n \in Nat \ {0}
    BY <1>1, <1>2, SMT
  <1>4. h \in Headers
    <2>1. text[n] \in Lines
      BY <1>2, <1>3
    <2> QED
      BY <1>1, <2>1, HeaderType DEF h
  <1>5. build_connection(h, n).device_instance_id = h.id
        /\ build_connection(h, n).first_install = Authoritative(h.time)
    BY <1>3, <1>4, BuildType
  <1> QED
    BY <1>1, <1>3, <1>4, <1>5 DEF n, h

LEMMA InstallsInv == LogInv => InstallsRecorded
  <1> SUFFICES ASSUME LogInv, LReturned, NEW i \in DOMAIN events, events[i] = "install"
               PROVE  Cardinality({k \in DOMAIN out :
                         /\ out[k].line = i
                         /\ out[k].device_instance_id = Named(i)
                         /\ out[k].first_install = Authoritative(Stamped(i))}) = 1
    BY DEF InstallsRecorded
  <1>1. PICK n : n = Len(text) /\ Logged(n)
    BY LogOfLines
  <1>2. i \in 1..n /\ pos = n
    BY <1>1 DEF Logged, LReturned, Returned
  <1>3. PICK t \in Times : Written("install", text[i], t)
    BY <1>1, <1>2 DEF Logged
  <1>4. PICK words \in WordsOf("install") : text[i] = HeaderLine(words, t)
    BY <1>3 DEF Written
  <1>5. PICK d \in Devices : words \in {<<d>>} \cup {<<w, d>> : w \in Phrases}
    BY DEF WordsOf
  <1>6. /\ words \in Seq(InstanceIds) /\ words # <<>>
        /\ extract_instance_id(words) = d /\ words[Len(words)] = d
    BY <1>5, DeviceChosen
  <1>7. /\ parse_header(text[i]) # None
        /\ parse_header(text[i]) = Header(words, t)
        /\ text[i].desc \o text[i].after = words
        /\ (IF grammar = "vista" THEN text[i].trail ELSE text[i].lead) = t
    <2>1. grammar \in {"vista", "xp"}
      BY DEF LogInv
    <2> QED
      BY <1>4, <1>6, <2>1, HeaderRead
  <1>8. Named(i) = d /\ Stamped(i) = t
    BY <1>6, <1>7 DEF Named, Stamped
  <1>9. parse_header(text[i]).id = d /\ parse_header(text[i]).time = t
    BY <1>6, <1>7 DEF Header
  <1>10. SetupapiInv
    BY DEF LogInv
  <1>11. PICK k \in DOMAIN out : out[k].line = i
    BY <1>2, <1>7, <1>10, Zenon DEF SetupapiInv, HeadersRecorded
  <1>12. out[k].device_instance_id = d /\ out[k].first_install = Authoritative(t)
    BY <1>9, <1>10, <1>11, LineOfRecord
  <1>13. \A j \in DOMAIN out : out[j].line = i => j = k
    <2> SUFFICES ASSUME NEW j \in DOMAIN out, out[j].line = i, j # k
                 PROVE  FALSE
      OBVIOUS
    <2>1. j \in Nat /\ k \in Nat
      BY <1>10, RecordsCounted
    <2>2. j < k \/ k < j
      BY <2>1, SMT
    <2>3. out[j].line < out[k].line \/ out[k].line < out[j].line
      BY <1>10, <2>2, Zenon DEF SetupapiInv, RecordsInOrder
    <2>4. i \in Nat
      BY <1>1, <1>2 DEF Logged
    <2> QED
      BY <1>11, <2>3, <2>4, SMT
  <1>14. {e \in DOMAIN out : /\ out[e].line = i
                             /\ out[e].device_instance_id = Named(i)
                             /\ out[e].first_install = Authoritative(Stamped(i))} = {k}
    BY <1>8, <1>11, <1>12, <1>13
  <1> QED
    BY <1>14, FS_Singleton

LEMMA EarlierInv == LogInv => EarlierOnlyIfSetBack
  <1> SUFFICES ASSUME LogInv, NEW i \in DOMAIN out, NEW k \in DOMAIN out, i < k,
                      out[k].first_install.epoch < out[i].first_install.epoch
               PROVE  \E m \in setbacks : out[i].line <= m /\ m < out[k].line
    BY DEF EarlierOnlyIfSetBack
  <1>1. SetupapiInv /\ grammar \in {"vista", "xp"}
    BY DEF LogInv
  <1>2. PICK n : n = Len(text) /\ Logged(n)
    BY LogOfLines
  \* A record's time is the stamp of its line.
  <1>3. ASSUME NEW e \in DOMAIN out
        PROVE  /\ out[e].line \in 1..n
               /\ StampIn(text[out[e].line]) # None
               /\ StampIn(text[out[e].line]) \in Times
               /\ out[e].first_install.epoch = StampIn(text[out[e].line])
    <2> DEFINE m == out[e].line
    <2>1. /\ m \in DOMAIN text /\ parse_header(text[m]) # None
          /\ out[e].first_install = Authoritative(parse_header(text[m]).time)
      BY <1>1, LineOfRecord
    <2>2. m \in 1..n
      BY <1>2, <2>1 DEF Logged
    <2>3. PICK t \in Times : Written(events[m], text[m], t)
      BY <1>2, <2>2 DEF Logged
    <2>4. StampIn(text[m]) = t /\ parse_header(text[m]).time = t
      BY <1>1, <2>1, <2>3, WrittenLine
    <2> HIDE DEF m
    <2> QED
      BY <2>1, <2>2, <2>4, NoneIsNoTime DEF Authoritative, m
  <1>4. out[i].line < out[k].line
    BY <1>1, Zenon DEF SetupapiInv, RecordsInOrder
  <1>5. StampIn(text[out[k].line]) < StampIn(text[out[i].line])
    BY <1>3
  <1>6. SetBackBetween(out[i].line, out[k].line)
    BY <1>2, <1>3, <1>4, <1>5, Zenon DEF Logged
  <1> QED
    BY <1>6 DEF SetBackBetween

-----------------------------------------------------------------------------
(***************************************************************************)
(* Writer, reader and auditor composed (SetupapiAudit).                    *)
(***************************************************************************)

\* The composition runs writer and reader: what holds of them holds in it.
THEOREM LogRuns == PSpec => LSpec
  <1>1. PInit => LInit
    BY DEF PInit
  <1>2. [PNext]_pvars => [LNext]_lvars
    BY DEF PNext, WriteAndParse, AuditNext, pvars
  <1> QED
    BY <1>1, <1>2, PTL DEF PSpec, LSpec

\* The reader's variables keep their shapes, whatever log it is handed.
THEOREM TypeCorrect == PSpec => []TypeOK
  <1>1. LogInv => TypeOK
    BY DEF LogInv, SetupapiInv
  <1> QED
    BY <1>1, LogRuns, LogCorrect, PTL

\* Each install that is in the log when it is collected is in exactly one
\* record, found at its line, with its device and its time (parse_setupapi).
THEOREM InstallsInRecords == PSpec => []InstallsRecorded
  BY InstallsInv, LogRuns, LogCorrect, PTL

\* A record has an earlier time than one before it in the list only when the
\* clock was set back between the two installs (build_connection).
THEOREM EarlierIsSetBack == PSpec => []EarlierOnlyIfSetBack
  BY EarlierInv, LogRuns, LogCorrect, PTL

\* The auditor instantiated here is the one the proofs are about.
LEMMA SameSize == \A Rs : A!Cardinality(Rs) = Cardinality(Rs)
  BY DEF A!Cardinality, Cardinality

LEMMA SameAuditor ==
    /\ P!AuditDevice <=> A!AuditDevice
    /\ \A ids : P!AuditInv(ids) <=> A!AuditInv(ids)
    /\ \A ids : P!AuditInv(ids)' <=> A!AuditInv(ids)'
  <1>1. P!Codes = A!Codes /\ \A ids : P!Anomalies(ids) = A!Anomalies(ids)
    BY DEF P!Codes, A!Codes, P!Anomalies, A!Anomalies, P!Buses, A!Buses, P!severity,
           A!severity, P!category, A!category, P!mitre, A!mitre
  <1>2. \A code, d : P!Anomaly(code, d) = A!Anomaly(code, d)
    BY DEF P!Anomaly, A!Anomaly, P!severity, A!severity, P!category, A!category,
           P!mitre, A!mitre
  <1>3. \A d : P!anomalies(d) = A!anomalies(d)
    BY <1>2 DEF P!anomalies, A!anomalies, P!When, A!When, P!is_hid, A!is_hid,
                P!is_mass_storage, A!is_mass_storage
  <1>4. P!AuditDevice <=> A!AuditDevice
    BY <1>3 DEF P!AuditDevice, A!AuditDevice
  <1>5. \A code, d : P!Holds(code, d) <=> A!Holds(code, d)
    BY DEF P!Holds, A!Holds, P!is_hid, A!is_hid, P!is_mass_storage, A!is_mass_storage
  <1>6. \A code, id : P!FindingsOf(code, id) = A!FindingsOf(code, id)
                      /\ P!AuditedFor(code, id) = A!AuditedFor(code, id)
    BY <1>5 DEF P!FindingsOf, A!FindingsOf, P!AuditedFor, A!AuditedFor
  <1>7. \A Rs : P!Cardinality(Rs) = A!Cardinality(Rs)
    BY DEF P!Cardinality, A!Cardinality
  <1>8. \A ids : P!AuditInv(ids) <=> A!AuditInv(ids)
    BY <1>1, <1>6, <1>7 DEF P!AuditInv, A!AuditInv
  <1>9. \A ids : P!AuditInv(ids)' <=> A!AuditInv(ids)'
    <2>1. \A code, id : P!FindingsOf(code, id)' = A!FindingsOf(code, id)'
                        /\ P!AuditedFor(code, id)' = A!AuditedFor(code, id)'
      BY <1>5 DEF P!FindingsOf, A!FindingsOf, P!AuditedFor, A!AuditedFor
    <2> QED
      BY <1>1, <1>7, <2>1 DEF P!AuditInv, A!AuditInv
  <1> QED
    BY <1>4, <1>8, <1>9

LEMMA AuditStarts == PInit => AuditInv
  <1> SUFFICES ASSUME PInit
               PROVE  AuditInv
    OBVIOUS
  <1>1. audited = 0 /\ findings = <<>> /\ out = <<>>
    BY DEF PInit, LInit, StartReader, A!StartAudit
  <1>2. \A code, id : A!FindingsOf(code, id) = {} /\ A!AuditedFor(code, id) = {}
    BY <1>1 DEF A!FindingsOf, A!AuditedFor
  <1>3. findings \in Seq(A!Anomalies(InstanceIds)) /\ audited \in 0..Len(out)
    BY <1>1
  <1> QED
    BY <1>1, <1>2, <1>3 DEF AuditInv, A!AuditInv

\* Nothing is audited before the log is read, and then nothing else happens.
LEMMA WriteAndParseStep == LogInv /\ LogInv' /\ AuditInv /\ WriteAndParse => AuditInv'
  <1> SUFFICES ASSUME LogInv, LogInv', AuditInv, WriteAndParse
               PROVE  AuditInv'
    OBVIOUS
  <1>1. ~LReturned
    <2> SUFFICES ASSUME collected, pos = Len(text)
                 PROVE  FALSE
      BY DEF LReturned, Returned
    <2>1. Parse
      BY DEF WriteAndParse, LNext, Install, OtherSection, Session, Body, Write, MoveClock,
             RollOver, Collect
    <2>2. pos < Len(text)
      BY <2>1 DEF Parse, Next, SkipLine, ReadHeader
    <2>3. Len(text) \in Nat
      <3>1. text \in Seq(Lines)
        BY DEF LogInv, SetupapiInv, TypeOK
      <3> QED
        BY <3>1
    <2>4. ~(Len(text) < Len(text))
      BY <2>3, SMT
    <2> QED
      BY <2>2, <2>4
  <1>2. audited = 0 /\ audited' = 0 /\ findings' = findings
    BY <1>1 DEF AuditInv, WriteAndParse
  <1>3. out' \in Seq(Connections)
    BY DEF LogInv, SetupapiInv, TypeOK
  <1>4. Len(out') \in Nat
    BY <1>3
  <1>5. \A code, id : /\ A!AuditedFor(code, id) = {} /\ A!AuditedFor(code, id)' = {}
                      /\ A!FindingsOf(code, id)' = A!FindingsOf(code, id)
    BY <1>2, <1>1 DEF A!AuditedFor, A!FindingsOf, AuditInv, A!AuditInv
  <1>6. audited' \in 0..Len(out') /\ audited' = 0
        /\ findings' \in Seq(A!Anomalies(InstanceIds))
    BY <1>2, <1>4 DEF AuditInv, A!AuditInv
  <1>7. \A code \in A!Codes : \A id \in InstanceIds :
           A!Cardinality(A!FindingsOf(code, id)') = A!Cardinality(A!AuditedFor(code, id)')
    BY <1>5 DEF AuditInv, A!AuditInv
  <1> QED
    BY <1>6, <1>7 DEF AuditInv, A!AuditInv

LEMMA AuditNextStep == LogInv /\ AuditInv /\ AuditNext => AuditInv'
  <1> SUFFICES ASSUME LogInv, AuditInv, AuditNext
               PROVE  AuditInv'
    OBVIOUS
  <1>1. /\ LReturned /\ A!AuditDevice
        /\ text' = text /\ pos' = pos /\ out' = out /\ collected' = collected
    BY DEF AuditNext, lvars, vars, windows
  <1>2. out \in Seq(Connections)
    BY DEF LogInv, SetupapiInv, TypeOK
  <1>3. \A k \in 1..Len(out) : P!IsDevice(InstanceIds, out[k])
    <2> TAKE k \in 1..Len(out)
    <2>1. out[k] \in Connections
      BY <1>2
    <2>2. out[k].bus \in Buses /\ out[k].device_instance_id \in InstanceIds
      BY <2>1 DEF Connections
    <2> QED
      BY <2>2 DEF P!IsDevice, P!Buses, Buses
  <1>4. P!AuditInv(InstanceIds) /\ P!AuditDevice
    BY <1>1, SameAuditor DEF AuditInv
  <1>5. P!AuditInv(InstanceIds)'
    BY <1>1, <1>2, <1>3, <1>4, P!AuditDeviceStep
  <1>6. A!AuditInv(InstanceIds)'
    BY <1>5, SameAuditor
  <1>7. LReturned'
    BY <1>1 DEF LReturned, Returned
  <1> QED
    BY <1>6, <1>7 DEF AuditInv

LEMMA AuditStep == LogInv /\ LogInv' /\ AuditInv /\ [PNext]_pvars => AuditInv'
  <1> SUFFICES ASSUME LogInv, LogInv', AuditInv, [PNext]_pvars
               PROVE  AuditInv'
    OBVIOUS
  <1>1. CASE WriteAndParse
    BY <1>1, WriteAndParseStep
  <1>2. CASE AuditNext
    BY <1>2, AuditNextStep
  <1>3. CASE UNCHANGED pvars
    <2>1. /\ text' = text /\ pos' = pos /\ out' = out /\ collected' = collected
          /\ audited' = audited /\ findings' = findings
      BY <1>3 DEF pvars, lvars, vars, windows
    <2>2. \A code, id : A!AuditedFor(code, id)' = A!AuditedFor(code, id)
                        /\ A!FindingsOf(code, id)' = A!FindingsOf(code, id)
      BY <2>1 DEF A!AuditedFor, A!FindingsOf
    <2>3. LReturned' = LReturned
      BY <2>1 DEF LReturned, Returned
    <2> QED
      BY <2>1, <2>2, <2>3 DEF AuditInv, A!AuditInv
  <1> QED
    BY <1>1, <1>2, <1>3 DEF PNext

\* The inductive invariant of the pipeline: on any log Windows wrote, as many
\* findings of a code for a device as audited connections of it give the reason.
THEOREM PipelineCorrect == PSpec => [](LogInv /\ AuditInv)
  <1>1. PSpec => []LogInv
    BY LogRuns, LogCorrect, PTL
  <1> QED
    BY <1>1, AuditStarts, AuditStep, PTL DEF PSpec

-----------------------------------------------------------------------------
\* What a record says of its bus, its techniques and its serial follow from its path.
LEMMA RecordFacts ==
    ASSUME SetupapiInv, NEW k \in DOMAIN out
    PROVE  /\ out[k] \in Connections
           /\ out[k].device_instance_id \in InstanceIds
           /\ out[k].dma_capable <=> is_dma_capable(out[k].bus)
           /\ out[k].mitre = techniques(out[k].bus)
           /\ out[k].device_serial = device_serial(out[k].device_instance_id)
           /\ out[k].serial_is_os_generated
                 <=> is_os_generated_serial(out[k].device_instance_id.serial)
  <1>1. out[k] \in Connections
    BY RecordsCounted
  <1>2. out[k].device_instance_id \in InstanceIds
    BY <1>1 DEF Connections
  <1>3. out[k] = build_connection(parse_header(text[out[k].line]), out[k].line)
    BY Zenon DEF SetupapiInv, RecordsAreHeaders
  <1>4. \A h, n : LET conn == build_connection(h, n) IN
           /\ conn.dma_capable = is_dma_capable(conn.bus)
           /\ conn.mitre = techniques(conn.bus)
           /\ conn.device_serial = device_serial(conn.device_instance_id)
           /\ conn.serial_is_os_generated = is_os_generated_serial(conn.device_instance_id.serial)
    BY DEF build_connection
  <1> QED
    BY <1>1, <1>2, <1>3, <1>4

\* A device has a finding of a code when a connection of it gives the reason.
LEMMA FoundWhenHeld ==
    ASSUME LogInv, AuditInv, AuditReturned, NEW code \in A!Codes, NEW id \in InstanceIds
    PROVE  LET D == {k \in RecordsOf(id) : A!Holds(code, out[k])} IN
           /\ IsFiniteSet(A!FindingsOf(code, id)) /\ IsFiniteSet(D)
           /\ Cardinality(A!FindingsOf(code, id)) = Cardinality(D)
           /\ A!FindingsOf(code, id) = {} <=> D = {}
  <1> DEFINE D == {k \in RecordsOf(id) : A!Holds(code, out[k])}
             F == A!FindingsOf(code, id)
  <1>1. SetupapiInv /\ audited = Len(out)
    BY DEF LogInv, AuditReturned
  <1>2. audited \in Nat /\ DOMAIN out = 1..audited
    BY <1>1, RecordsCounted
  <1>3. A!AuditedFor(code, id) = D
    BY <1>2 DEF A!AuditedFor, RecordsOf
  <1>4. Cardinality(F) = Cardinality(D)
    BY <1>3, SameSize DEF AuditInv, A!AuditInv
  <1>5. IsFiniteSet(D)
    <2>1. IsFiniteSet(1..audited)
      BY <1>2, FS_Interval
    <2>2. D \in SUBSET (1..audited)
      BY <1>2 DEF RecordsOf
    <2> QED
      BY <2>1, <2>2, FS_Subset
  <1>6. IsFiniteSet(F)
    <2>1. findings \in Seq(A!Anomalies(InstanceIds))
      BY DEF AuditInv, A!AuditInv
    <2>2. DOMAIN findings = 1..Len(findings) /\ Len(findings) \in Nat
      BY <2>1
    <2>3. IsFiniteSet(1..Len(findings))
      BY <2>2, FS_Interval
    <2>4. F \in SUBSET (1..Len(findings))
      BY <2>2 DEF A!FindingsOf
    <2> QED
      BY <2>3, <2>4, FS_Subset
  <1> HIDE DEF D, F
  <1>7. F = {} <=> D = {}
    BY <1>4, <1>5, <1>6, FS_EmptySet
  <1> QED
    BY <1>4, <1>5, <1>6, <1>7 DEF D, F

LEMMA AttributedInv == LogInv /\ AuditInv => AttributedOrWarned
  <1> SUFFICES ASSUME LogInv, AuditInv, AuditReturned, NEW k \in DOMAIN out
               PROVE  LET id == out[k].device_instance_id
                          warned == \E n \in FindingsOf(id) :
                                       findings[n].code = "OsGeneratedSerial" IN
                      /\ warned => out[k].device_serial = None
                      /\ out[k].device_serial = None /\ ~warned => id.serial \in {None, ""}
    BY DEF AttributedOrWarned
  <1> DEFINE id == out[k].device_instance_id
             F == A!FindingsOf("OsGeneratedSerial", id)
             D == {e \in RecordsOf(id) : A!Holds("OsGeneratedSerial", out[e])}
  <1>1. SetupapiInv
    BY DEF LogInv
  <1>2. id \in InstanceIds /\ out[k].device_serial = device_serial(id)
    BY <1>1, RecordFacts
  <1>3. "OsGeneratedSerial" \in A!Codes
    BY DEF A!Codes
  <1>4. F = {} <=> D = {}
    BY <1>2, <1>3, FoundWhenHeld
  <1>5. (\E n \in FindingsOf(id) : findings[n].code = "OsGeneratedSerial") <=> F # {}
    BY DEF FindingsOf, A!FindingsOf
  <1>6. \A e \in RecordsOf(id) :
           A!Holds("OsGeneratedSerial", out[e]) <=> is_os_generated_serial(id.serial)
    <2> TAKE e \in RecordsOf(id)
    <2>1. e \in DOMAIN out /\ out[e].device_instance_id = id
      BY DEF RecordsOf
    <2>2. out[e].serial_is_os_generated <=> is_os_generated_serial(id.serial)
      BY <1>1, <2>1, RecordFacts
    <2>3. A!Holds("OsGeneratedSerial", out[e]) = out[e].serial_is_os_generated
      BY DEF A!Holds
    <2> QED
      BY <2>2, <2>3
  <1>7. k \in RecordsOf(id)
    BY DEF RecordsOf
  <1>8. D # {} <=> is_os_generated_serial(id.serial)
    BY <1>6, <1>7
  <1> HIDE DEF F, D
  <1>9. (\E n \in FindingsOf(id) : findings[n].code = "OsGeneratedSerial")
        <=> is_os_generated_serial(id.serial)
    BY <1>4, <1>5, <1>8
  <1> HIDE DEF id
  <1>10. /\ is_os_generated_serial(id.serial) => out[k].device_serial = None
         /\ out[k].device_serial = None /\ ~is_os_generated_serial(id.serial)
               => id.serial \in {None, ""}
    BY <1>2 DEF device_serial
  <1> QED
    BY <1>9, <1>10 DEF id

\* What a finding of a code narrates, a connection that gives the reason carries.
LEMMA NarratedIsCarried ==
    ASSUME LogInv, AuditInv, NEW id \in InstanceIds
    PROVE  /\ {n \in FindingsOf(id) : "T1200" \in findings[n].mitre} =
                 A!FindingsOf("DmaCapableDevice", id) \cup A!FindingsOf("HidDevice", id)
           /\ {n \in FindingsOf(id) : "T1052.001" \in findings[n].mitre} =
                 A!FindingsOf("MassStorageConnected", id)
           /\ {n \in FindingsOf(id) : "T1091" \in findings[n].mitre} =
                 A!FindingsOf("MassStorageConnected", id)
           /\ {k \in RecordsOf(id) : "T1200" \in out[k].mitre} =
                 {k \in RecordsOf(id) : A!Holds("DmaCapableDevice", out[k])}
           /\ {k \in RecordsOf(id) : "T1052.001" \in out[k].mitre} =
                 {k \in RecordsOf(id) : A!Holds("MassStorageConnected", out[k])}
           /\ {k \in RecordsOf(id) : "T1091" \in out[k].mitre} = {}
           /\ {k \in RecordsOf(id) : AuditorOnly("T1200", out[k])} =
                 {k \in RecordsOf(id) : A!Holds("HidDevice", out[k])}
           /\ {k \in RecordsOf(id) : AuditorOnly("T1052.001", out[k])} = {}
           /\ {k \in RecordsOf(id) : AuditorOnly("T1091", out[k])} =
                 {k \in RecordsOf(id) : A!Holds("MassStorageConnected", out[k])}
  <1>1. ASSUME NEW n \in DOMAIN findings
        PROVE  /\ "T1200" \in findings[n].mitre
                     <=> findings[n].code \in {"DmaCapableDevice", "HidDevice"}
               /\ "T1052.001" \in findings[n].mitre <=> findings[n].code = "MassStorageConnected"
               /\ "T1091" \in findings[n].mitre <=> findings[n].code = "MassStorageConnected"
    <2>1. findings \in Seq(A!Anomalies(InstanceIds))
      BY DEF AuditInv, A!AuditInv
    <2>2. findings[n] \in A!Anomalies(InstanceIds)
      BY <2>1
    <2>3. findings[n].code \in A!Codes /\ findings[n].mitre = A!mitre(findings[n].code)
      BY <2>2 DEF A!Anomalies
    <2> QED
      BY <2>3 DEF A!Codes, A!mitre
  <1>2. ASSUME NEW k \in DOMAIN out
        PROVE  /\ "T1200" \in out[k].mitre <=> A!Holds("DmaCapableDevice", out[k])
               /\ "T1052.001" \in out[k].mitre <=> A!Holds("MassStorageConnected", out[k])
               /\ "T1091" \notin out[k].mitre
               /\ AuditorOnly("T1200", out[k]) <=> A!Holds("HidDevice", out[k])
               /\ ~AuditorOnly("T1052.001", out[k])
               /\ AuditorOnly("T1091", out[k]) <=> A!Holds("MassStorageConnected", out[k])
    <2>1. SetupapiInv
      BY DEF LogInv
    <2>2. /\ out[k].dma_capable <=> is_dma_capable(out[k].bus)
          /\ out[k].mitre = techniques(out[k].bus)
      BY <2>1, RecordFacts
    <2>3. A!is_mass_storage(out[k].bus) <=> is_mass_storage(out[k].bus)
      BY DEF A!is_mass_storage, is_mass_storage
    <2>4. /\ "T1200" \in out[k].mitre <=> is_dma_capable(out[k].bus)
          /\ "T1052.001" \in out[k].mitre <=> is_mass_storage(out[k].bus)
          /\ "T1091" \notin out[k].mitre
      BY <2>2 DEF techniques
    <2>6. /\ AuditorOnly("T1200", out[k]) <=> A!is_hid(out[k])
          /\ ~AuditorOnly("T1052.001", out[k])
          /\ AuditorOnly("T1091", out[k]) <=> is_mass_storage(out[k].bus)
      BY DEF AuditorOnly
    <2>5. /\ A!Holds("DmaCapableDevice", out[k]) = out[k].dma_capable
          /\ A!Holds("MassStorageConnected", out[k]) = A!is_mass_storage(out[k].bus)
          /\ A!Holds("HidDevice", out[k]) = A!is_hid(out[k])
      BY DEF A!Holds
    <2> QED
      BY <2>2, <2>3, <2>4, <2>5, <2>6, Zenon
  <1>3. RecordsOf(id) \subseteq DOMAIN out /\ FindingsOf(id) \subseteq DOMAIN findings
    BY DEF RecordsOf, FindingsOf
  <1>4. {n \in FindingsOf(id) : "T1200" \in findings[n].mitre} =
           A!FindingsOf("DmaCapableDevice", id) \cup A!FindingsOf("HidDevice", id)
    BY <1>1 DEF FindingsOf, A!FindingsOf
  <1>5. {n \in FindingsOf(id) : "T1052.001" \in findings[n].mitre} =
           A!FindingsOf("MassStorageConnected", id)
    BY <1>1 DEF FindingsOf, A!FindingsOf
  <1>6. {n \in FindingsOf(id) : "T1091" \in findings[n].mitre} =
           A!FindingsOf("MassStorageConnected", id)
    BY <1>1 DEF FindingsOf, A!FindingsOf
  <1> QED
    BY <1>2, <1>3, <1>4, <1>5, <1>6

LEMMA TechniquesInv == LogInv /\ AuditInv => TechniquesAccounted
  <1> SUFFICES ASSUME LogInv, AuditInv, AuditReturned, NEW id \in Devices,
                      NEW t \in {"T1200", "T1052.001", "T1091"}
               PROVE  Cardinality({n \in FindingsOf(id) : t \in findings[n].mitre}) =
                         Cardinality({k \in RecordsOf(id) : t \in out[k].mitre})
                         + Cardinality({k \in RecordsOf(id) : AuditorOnly(t, out[k])})
    BY DEF TechniquesAccounted
  <1> DEFINE F(code) == A!FindingsOf(code, id)
             D(code) == {k \in RecordsOf(id) : A!Holds(code, out[k])}
             Narrated(u) == {n \in FindingsOf(id) : u \in findings[n].mitre}
             Carried(u) == {k \in RecordsOf(id) : u \in out[k].mitre}
             Extra(u) == {k \in RecordsOf(id) : AuditorOnly(u, out[k])}
  <1>1. id \in InstanceIds
    BY DevicesArePaths
  <1>2. \A code \in A!Codes : /\ IsFiniteSet(F(code)) /\ IsFiniteSet(D(code))
                              /\ Cardinality(F(code)) = Cardinality(D(code))
    BY <1>1, FoundWhenHeld
  <1>3. "DmaCapableDevice" \in A!Codes /\ "HidDevice" \in A!Codes
        /\ "MassStorageConnected" \in A!Codes
    BY DEF A!Codes
  <1>4. F("DmaCapableDevice") \cap F("HidDevice") = {}
    BY DEF A!FindingsOf
  <1>5. /\ Narrated("T1200") = F("DmaCapableDevice") \cup F("HidDevice")
        /\ Narrated("T1052.001") = F("MassStorageConnected")
        /\ Narrated("T1091") = F("MassStorageConnected")
        /\ Carried("T1200") = D("DmaCapableDevice")
        /\ Carried("T1052.001") = D("MassStorageConnected")
        /\ Carried("T1091") = {}
        /\ Extra("T1200") = D("HidDevice")
        /\ Extra("T1052.001") = {}
        /\ Extra("T1091") = D("MassStorageConnected")
    BY <1>1, NarratedIsCarried
  <1> HIDE DEF F, D, Narrated, Carried, Extra
  <1>6. Cardinality(D("MassStorageConnected")) \in Nat /\ Cardinality({}) = 0
    <2>1. Cardinality(D("MassStorageConnected")) \in Nat
      BY <1>2, <1>3, FS_CardinalityType
    <2> QED
      BY <2>1, FS_EmptySet
  <1>7. Cardinality(Narrated(t)) = Cardinality(Carried(t)) + Cardinality(Extra(t))
    <2>1. CASE t = "T1200"
      <3>1. Cardinality(F("DmaCapableDevice") \cup F("HidDevice")) =
               Cardinality(F("DmaCapableDevice")) + Cardinality(F("HidDevice"))
               - Cardinality(F("DmaCapableDevice") \cap F("HidDevice"))
        BY <1>2, <1>3, FS_Union
      <3>2. Cardinality(F("DmaCapableDevice") \cap F("HidDevice")) = 0
        BY <1>4, FS_EmptySet
      <3>3. Cardinality(F("DmaCapableDevice")) \in Nat /\ Cardinality(F("HidDevice")) \in Nat
        BY <1>2, <1>3, FS_CardinalityType
      <3>4. Cardinality(F("DmaCapableDevice") \cup F("HidDevice")) =
               Cardinality(D("DmaCapableDevice")) + Cardinality(D("HidDevice"))
        BY <1>2, <1>3, <3>1, <3>2, <3>3
      <3> QED
        BY <1>5, <2>1, <3>4
    <2>2. CASE t = "T1052.001"
      <3>1. Cardinality(Narrated(t)) = Cardinality(D("MassStorageConnected"))
            /\ Cardinality(Carried(t)) = Cardinality(D("MassStorageConnected"))
            /\ Cardinality(Extra(t)) = 0
        BY <1>2, <1>3, <1>5, <1>6, <2>2
      <3> QED
        BY <1>6, <3>1
    <2>3. CASE t = "T1091"
      <3>1. Cardinality(Narrated(t)) = Cardinality(D("MassStorageConnected"))
            /\ Cardinality(Carried(t)) = 0
            /\ Cardinality(Extra(t)) = Cardinality(D("MassStorageConnected"))
        BY <1>2, <1>3, <1>5, <1>6, <2>3
      <3> QED
        BY <1>6, <3>1
    <2> QED
      BY <2>1, <2>2, <2>3
  <1> QED
    BY <1>7 DEF Narrated, Carried, Extra

\* Reader and auditor do not agree on the techniques of a device, but differ by
\* two rules only: for each connection of an input device the auditor narrates
\* T1200 once more, and for each of mass storage T1091, which no connection
\* carries (build_connection; audit).
THEOREM TechniquesCorrect == PSpec => []TechniquesAccounted
  BY TechniquesInv, PipelineCorrect, PTL

\* A device is attributed by a serial or warned about, never both, and one whose
\* serial Windows made up is warned about (build_connection, audit).
THEOREM AttributionCorrect == PSpec => []AttributedOrWarned
  BY AttributedInv, PipelineCorrect, PTL
=============================================================================
