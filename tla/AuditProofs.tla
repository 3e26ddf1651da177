---------------------------- MODULE AuditProofs ----------------------------
(***************************************************************************)
(* Proofs about Audit, for connections of any reader: what a step of the   *)
(* auditor does to the counts of its findings.  RegistryProofs and         *)
(* SetupLogProofs instantiate them, and the facts about lists and          *)
(* positions the two share.                                                *)
(***************************************************************************)
EXTENDS Audit, FiniteSetTheorems, FunctionTheorems, WellFoundedInduction,
        SequenceTheorems, TLAPS

\* The least element principle: the sets 1..k, ordered by strict inclusion, are
\* well founded.
LEMMA LeastNat ==
    ASSUME NEW T \in SUBSET Nat, T # {}
    PROVE  \E m \in T : \A k \in T : m <= k
  <1> DEFINE U == {1..k : k \in T}
  <1>1. U \subseteq FiniteSubsetsOf(Nat) /\ U # {}
    <2>1. ASSUME NEW k \in T
          PROVE  1..k \in FiniteSubsetsOf(Nat)
      <3>1. k \in Int /\ 1 \in Int /\ 1..k \in SUBSET Nat
        OBVIOUS
      <3>2. IsFiniteSet(1..k)
        BY <3>1, FS_Interval
      <3> QED
        BY <3>1, <3>2 DEF FiniteSubsetsOf
    <2>2. U # {}
      BY DEF U
    <2> QED
      BY <2>1, <2>2
  <1>2. IsWellFoundedOn(StrictSubsetOrdering(Nat), FiniteSubsetsOf(Nat))
    BY FS_StrictSubsetOrderingWellFounded
  <1>3. PICK x \in U : \A y \in U : ~(<<y, x>> \in StrictSubsetOrdering(Nat))
    <2> HIDE DEF U
    <2> QED
      BY <1>1, <1>2, WFMin, Zenon
  <1>4. PICK m \in T : x = 1..m
    OBVIOUS
  <1>5. ASSUME NEW k \in T, k < m
        PROVE  FALSE
    <2>1. 1..k \subseteq 1..m /\ m \in 1..m /\ m \notin 1..k
      BY <1>5
    <2>2. <<1..k, 1..m>> \in StrictSubsetOrdering(Nat)
      BY <2>1 DEF StrictSubsetOrdering
    <2> QED
      BY <1>3, <1>4, <2>2
  <1> QED
    BY <1>5

\* Appending one list of records to another.
LEMMA Appended ==
    ASSUME NEW Rs, NEW s \in Seq(Rs), NEW t \in Seq(Rs)
    PROVE  /\ s \o t \in Seq(Rs)
           /\ DOMAIN s = 1..Len(s) /\ DOMAIN t = 1..Len(t)
           /\ Len(s) \in Nat /\ Len(t) \in Nat
           /\ DOMAIN (s \o t) = 1..(Len(s) + Len(t))
           /\ \A i \in DOMAIN s : (s \o t)[i] = s[i]
           /\ \A i \in DOMAIN t : (s \o t)[Len(s) + i] = t[i]
           /\ \A i \in DOMAIN (s \o t) :
                 i \in DOMAIN s \/ \E j \in DOMAIN t : i = Len(s) + j
  <1>1. /\ s \o t \in Seq(Rs) /\ Len(s \o t) = Len(s) + Len(t)
        /\ \A i \in 1..(Len(s) + Len(t)) :
              (s \o t)[i] = IF i <= Len(s) THEN s[i] ELSE t[i - Len(s)]
    BY ConcatProperties
  <1>2. /\ DOMAIN s = 1..Len(s) /\ DOMAIN t = 1..Len(t)
        /\ Len(s) \in Nat /\ Len(t) \in Nat
        /\ DOMAIN (s \o t) = 1..(Len(s) + Len(t))
    BY <1>1
  <1>3. \A i \in DOMAIN t : (s \o t)[Len(s) + i] = t[i]
    <2> TAKE i \in DOMAIN t
    <2>1. Len(s) + i \in 1..(Len(s) + Len(t)) /\ ~(Len(s) + i <= Len(s))
          /\ (Len(s) + i) - Len(s) = i
      BY <1>2
    <2> QED
      BY <1>1, <2>1
  <1>4. ASSUME NEW i \in DOMAIN (s \o t), i \notin DOMAIN s
        PROVE  \E j \in DOMAIN t : i = Len(s) + j
    <2>1. i - Len(s) \in DOMAIN t /\ i = Len(s) + (i - Len(s))
      BY <1>2, <1>4
    <2> QED
      BY <2>1
  <1>5. \A i \in DOMAIN s : (s \o t)[i] = s[i]
    BY <1>1, <1>2
  <1> QED
    BY <1>1, <1>2, <1>3, <1>4, <1>5

-----------------------------------------------------------------------------
Lists(Ids) == Seq(Anomalies(Ids))
IsDevice(Ids, d) == d.bus \in Buses /\ d.device_instance_id \in Ids

\* The findings of a list with a code and an id.
Of(s, code, id) == {n \in DOMAIN s : s[n].code = code /\ s[n].instance_id = id}

LEMMA FindingsFinite ==
    ASSUME NEW Ids, NEW s \in Lists(Ids), NEW code, NEW id
    PROVE  IsFiniteSet(Of(s, code, id)) /\ Cardinality(Of(s, code, id)) \in Nat
  <1>1. DOMAIN s = 1..Len(s) /\ Len(s) \in Int /\ 1 \in Int
    OBVIOUS
  <1>2. IsFiniteSet(DOMAIN s)
    BY <1>1, FS_Interval
  <1>3. Of(s, code, id) \in SUBSET DOMAIN s
    BY DEF Of
  <1>4. IsFiniteSet(Of(s, code, id))
    BY <1>2, <1>3, FS_Subset
  <1> QED
    BY <1>4, FS_CardinalityType

\* One reason is a list of one finding or of none.
IsReason(t, c, d) == t \in {<<>>, <<Anomaly(c, d)>>}
Adds(t, c, d, code, id) ==
    IF t # <<>> /\ code = c /\ id = d.device_instance_id THEN 1 ELSE 0

LEMMA OneReason ==
    ASSUME NEW Ids, NEW s \in Lists(Ids), NEW c \in Codes, NEW d, IsDevice(Ids, d),
           NEW t, IsReason(t, c, d), NEW code, NEW id
    PROVE  /\ s \o t \in Lists(Ids)
           /\ t \in Lists(Ids)
           /\ Cardinality(Of(s \o t, code, id)) =
                 Cardinality(Of(s, code, id)) + Adds(t, c, d, code, id)
  <1> USE DEF Lists, Adds
  <1> DEFINE a == Anomaly(c, d)
             u == s \o t
             len == Len(s)
  <1>1. a \in Anomalies(Ids) /\ a.code = c /\ a.instance_id = d.device_instance_id
    <2>1. c \in {"DmaCapableDevice", "MassStorageConnected", "HidDevice", "OsGeneratedSerial"}
      BY DEF Codes
    <2>2. severity(c) \in {"High", "Medium", "Low"} /\ category(c) \in {"Integrity", "Threat"}
          /\ mitre(c) \in SUBSET {"T1200", "T1052.001", "T1091"}
      BY <2>1 DEF severity, category, mitre
    <2>3. d.device_instance_id \in Ids /\ d.bus \in Buses
      BY DEF IsDevice
    <2> QED
      BY <2>2, <2>3 DEF Anomaly, Anomalies
  <1>2. t = <<>> \/ t = <<a>>
    BY DEF IsReason
  <1> HIDE DEF a
  <1>3. CASE t = <<>>
    <2>1. u = s
      BY <1>3, ConcatEmptySeq
    <2> QED
      BY <1>3, <2>1, FindingsFinite
  <1>4. CASE t = <<a>>
    <2>1. t \in Lists(Ids) /\ DOMAIN t = {1} /\ t[1] = a /\ t # <<>>
      BY <1>1, <1>4
    <2>2. /\ u \in Lists(Ids) /\ len \in Nat /\ DOMAIN s = 1..len
          /\ \A i \in DOMAIN s : u[i] = s[i]
          /\ u[len + 1] = a
          /\ DOMAIN u = 1..(len + Len(t)) /\ DOMAIN t = 1..Len(t) /\ Len(t) \in Nat
      BY <2>1, Appended
    <2>3. DOMAIN u = DOMAIN s \cup {len + 1} /\ len + 1 \notin DOMAIN s
      <3>1. Len(t) = 1
        BY <2>1, <2>2
      <3> QED
        BY <2>2, <3>1
    <2> HIDE DEF u, len
    <2>4. len + 1 \notin Of(s, code, id)
      BY <2>3 DEF Of
    <2>5. CASE code = c /\ id = d.device_instance_id
      <3>1. Of(u, code, id) = Of(s, code, id) \cup {len + 1}
        BY <1>1, <2>2, <2>3, <2>5 DEF Of
      <3>2. IsFiniteSet(Of(s, code, id))
        BY FindingsFinite
      <3>3. Cardinality(Of(u, code, id)) = Cardinality(Of(s, code, id)) + 1
        BY <2>4, <3>1, <3>2, FS_AddElement
      <3> QED
        BY <2>1, <2>2, <2>5, <3>3 DEF u
    <2>6. CASE ~(code = c /\ id = d.device_instance_id)
      <3>1. Of(u, code, id) = Of(s, code, id)
        BY <1>1, <2>2, <2>3, <2>6 DEF Of
      <3> QED
        BY <2>1, <2>2, <2>6, <3>1, FindingsFinite DEF u
    <2> QED
      BY <2>5, <2>6
  <1> QED
    BY <1>2, <1>3, <1>4

\* Five lists put one after the other.
Regroups(Ids, s, w1, w2, w3, w4) ==
    /\ (((s \o w1) \o w2) \o w3) \o w4 = s \o (((w1 \o w2) \o w3) \o w4)
    /\ ((w1 \o w2) \o w3) \o w4 \in Lists(Ids)

LEMMA Regrouped ==
    ASSUME NEW Ids, NEW s \in Lists(Ids), NEW w1 \in Lists(Ids), NEW w2 \in Lists(Ids),
           NEW w3 \in Lists(Ids), NEW w4 \in Lists(Ids)
    PROVE  Regroups(Ids, s, w1, w2, w3, w4)
  <1> DEFINE Closed(a, b) == a \o b \in Lists(Ids)
             Assoc(a, b, c) == (a \o b) \o c = a \o (b \o c)
  <1>1. \A a, b \in Lists(Ids) : Closed(a, b)
    BY ConcatProperties DEF Lists
  <1>2. \A a, b, c \in Lists(Ids) : Assoc(a, b, c)
    <2> TAKE a, b, c \in Lists(Ids)
    <2> QED
      BY ConcatAssociative, SMTT(60) DEF Lists
  <1>3. PICK x, y : x = w1 \o w2 /\ y = x \o w3
    OBVIOUS
  <1> HIDE DEF Closed, Assoc
  <1>4. Closed(w1, w2) /\ Assoc(s, w1, w2)
    BY <1>1, <1>2, Zenon
  <1>5. x \in Lists(Ids)
    BY <1>3, <1>4 DEF Closed
  <1>6. Closed(x, w3) /\ Assoc(s, x, w3)
    BY <1>1, <1>2, <1>5, Zenon
  <1>7. y \in Lists(Ids)
    BY <1>3, <1>6 DEF Closed
  <1>8. Closed(y, w4) /\ Assoc(s, y, w4)
    BY <1>1, <1>2, <1>7, Zenon
  <1> QED
    BY <1>3, <1>4, <1>6, <1>8, Zenon DEF Closed, Assoc, Regroups

\* Auditing a device adds one finding for each of its reasons.
LEMMA OneDevice ==
    ASSUME NEW Ids, NEW s \in Lists(Ids), NEW d, IsDevice(Ids, d), NEW code \in Codes, NEW id
    PROVE  /\ s \o anomalies(d) \in Lists(Ids)
           /\ anomalies(d) \in Lists(Ids)
           /\ Cardinality(Of(s \o anomalies(d), code, id)) =
                 Cardinality(Of(s, code, id)) +
                 IF Holds(code, d) /\ id = d.device_instance_id THEN 1 ELSE 0
  <1>1. PICK w1, w2, w3, w4 :
           /\ w1 = When(d.dma_capable, "DmaCapableDevice", d)
           /\ w2 = When(is_mass_storage(d.bus), "MassStorageConnected", d)
           /\ w3 = When(is_hid(d), "HidDevice", d)
           /\ w4 = When(d.serial_is_os_generated, "OsGeneratedSerial", d)
    OBVIOUS
  <1>2. anomalies(d) = ((w1 \o w2) \o w3) \o w4
    BY <1>1 DEF anomalies, is_mass_storage
  <1>3. /\ IsReason(w1, "DmaCapableDevice", d)
        /\ IsReason(w2, "MassStorageConnected", d)
        /\ IsReason(w3, "HidDevice", d)
        /\ IsReason(w4, "OsGeneratedSerial", d)
    BY <1>1 DEF When, IsReason
  <1>4. /\ w1 # <<>> <=> d.dma_capable
        /\ w2 # <<>> <=> is_mass_storage(d.bus)
        /\ w3 # <<>> <=> is_hid(d)
        /\ w4 # <<>> <=> d.serial_is_os_generated
    BY <1>1 DEF When
  <1>5. "DmaCapableDevice" \in Codes /\ "MassStorageConnected" \in Codes
        /\ "HidDevice" \in Codes /\ "OsGeneratedSerial" \in Codes
    BY DEF Codes
  <1> DEFINE s1 == s \o w1
             s2 == s1 \o w2
             s3 == s2 \o w3
             s4 == s3 \o w4
             n == Cardinality(Of(s, code, id))
  <1>6. /\ s1 \in Lists(Ids) /\ w1 \in Lists(Ids)
        /\ Cardinality(Of(s1, code, id)) =
              n + Adds(w1, "DmaCapableDevice", d, code, id)
    <2>1. s \o w1 \in Lists(Ids)
      BY <1>3, <1>5, OneReason
    <2>2. w1 \in Lists(Ids)
      BY <1>3, <1>5, OneReason
    <2>3. Cardinality(Of(s \o w1, code, id)) =
             Cardinality(Of(s, code, id)) + Adds(w1, "DmaCapableDevice", d, code, id)
      BY <1>3, <1>5, OneReason
    <2> QED
      BY <2>1, <2>2, <2>3
  <1>7. /\ s2 \in Lists(Ids) /\ w2 \in Lists(Ids)
        /\ Cardinality(Of(s2, code, id)) =
              Cardinality(Of(s1, code, id)) + Adds(w2, "MassStorageConnected", d, code, id)
    <2> HIDE DEF s1
    <2>1. s1 \o w2 \in Lists(Ids)
      BY <1>3, <1>5, <1>6, OneReason
    <2>2. w2 \in Lists(Ids)
      BY <1>3, <1>5, <1>6, OneReason
    <2>3. Cardinality(Of(s1 \o w2, code, id)) =
             Cardinality(Of(s1, code, id)) + Adds(w2, "MassStorageConnected", d, code, id)
      BY <1>3, <1>5, <1>6, OneReason
    <2> QED
      BY <2>1, <2>2, <2>3
  <1>8. /\ s3 \in Lists(Ids) /\ w3 \in Lists(Ids)
        /\ Cardinality(Of(s3, code, id)) =
              Cardinality(Of(s2, code, id)) + Adds(w3, "HidDevice", d, code, id)
    <2> HIDE DEF s2
    <2>1. s2 \o w3 \in Lists(Ids)
      BY <1>3, <1>5, <1>7, OneReason
    <2>2. w3 \in Lists(Ids)
      BY <1>3, <1>5, <1>7, OneReason
    <2>3. Cardinality(Of(s2 \o w3, code, id)) =
             Cardinality(Of(s2, code, id)) + Adds(w3, "HidDevice", d, code, id)
      BY <1>3, <1>5, <1>7, OneReason
    <2> QED
      BY <2>1, <2>2, <2>3
  <1>9. /\ s4 \in Lists(Ids) /\ w4 \in Lists(Ids)
        /\ Cardinality(Of(s4, code, id)) =
              Cardinality(Of(s3, code, id)) + Adds(w4, "OsGeneratedSerial", d, code, id)
    <2> HIDE DEF s3
    <2>1. s3 \o w4 \in Lists(Ids)
      BY <1>3, <1>5, <1>8, OneReason
    <2>2. w4 \in Lists(Ids)
      BY <1>3, <1>5, <1>8, OneReason
    <2>3. Cardinality(Of(s3 \o w4, code, id)) =
             Cardinality(Of(s3, code, id)) + Adds(w4, "OsGeneratedSerial", d, code, id)
      BY <1>3, <1>5, <1>8, OneReason
    <2> QED
      BY <2>1, <2>2, <2>3
  <1>11. s4 = s \o anomalies(d) /\ anomalies(d) \in Lists(Ids)
    <2>1. w1 \in Lists(Ids) /\ w2 \in Lists(Ids) /\ w3 \in Lists(Ids) /\ w4 \in Lists(Ids)
      BY <1>6, <1>7, <1>8, <1>9
    <2>2. Regroups(Ids, s, w1, w2, w3, w4)
      BY <2>1, Regrouped, Zenon
    <2> QED
      BY <1>2, <2>2, Zenon DEF Regroups
  <1>12. n \in Nat
    BY FindingsFinite DEF Lists
  <1>13. Cardinality(Of(s4, code, id)) =
            n + IF Holds(code, d) /\ id = d.device_instance_id THEN 1 ELSE 0
    <2>1. code \in {"DmaCapableDevice", "MassStorageConnected", "HidDevice", "OsGeneratedSerial"}
      BY DEF Codes
    <2> HIDE DEF s1, s2, s3, s4, n
    <2>2. CASE code = "DmaCapableDevice"
      BY <1>4, <1>6, <1>7, <1>8, <1>9, <1>12, <2>2 DEF Holds, Adds
    <2>3. CASE code = "MassStorageConnected"
      BY <1>4, <1>6, <1>7, <1>8, <1>9, <1>12, <2>3 DEF Holds, Adds
    <2>4. CASE code = "HidDevice"
      BY <1>4, <1>6, <1>7, <1>8, <1>9, <1>12, <2>4 DEF Holds, Adds
    <2>5. CASE code = "OsGeneratedSerial"
      BY <1>4, <1>6, <1>7, <1>8, <1>9, <1>12, <2>5 DEF Holds, Adds
    <2> QED
      BY <2>1, <2>2, <2>3, <2>4, <2>5
  <1> HIDE DEF s4, n
  <1> QED
    BY <1>9, <1>11, <1>13 DEF n

-----------------------------------------------------------------------------
\* Auditing the next connection keeps the counts right (audit).
LEMMA AuditDeviceStep ==
    ASSUME NEW Ids, NEW Devices, devices \in Seq(Devices),
           \A k \in 1..Len(devices) : IsDevice(Ids, devices[k]),
           AuditInv(Ids), AuditDevice, devices' = devices
    PROVE  AuditInv(Ids)'
  <1> DEFINE n == audited + 1
             d == devices[n]
  <1>1. /\ audited < Len(devices) /\ audited' = n
        /\ findings' = findings \o anomalies(d)
    BY DEF AuditDevice
  <1>2. Len(devices) \in Nat /\ audited \in Nat /\ findings \in Lists(Ids)
    BY DEF AuditInv, Lists
  <1>3. n \in 1..Len(devices) /\ n \in Nat /\ n \notin 1..audited
        /\ 1..n = 1..audited \cup {n} /\ n \in 0..Len(devices)
    BY <1>1, <1>2
  <1>4. IsDevice(Ids, d)
    BY <1>3
  <1> HIDE DEF d, n
  <1>6. ASSUME NEW code \in Codes, NEW id \in Ids
        PROVE  Cardinality(FindingsOf(code, id))' = Cardinality(AuditedFor(code, id))'
    <2> DEFINE Before == {e \in 1..audited :
                           devices[e].device_instance_id = id /\ Holds(code, devices[e])}
               After == {e \in 1..n :
                          devices[e].device_instance_id = id /\ Holds(code, devices[e])}
    <2>1. AuditedFor(code, id) = Before
      BY DEF AuditedFor
    <2>2. AuditedFor(code, id)' = After
      BY <1>1 DEF AuditedFor
    <2>3. FindingsOf(code, id) = Of(findings, code, id)
          /\ FindingsOf(code, id)' = Of(findings', code, id)
      BY DEF FindingsOf, Of
    <2>4. Cardinality(Of(findings, code, id)) = Cardinality(Before)
      BY <2>1, <2>3 DEF AuditInv
    <2>5. Cardinality(Of(findings', code, id)) =
             Cardinality(Of(findings, code, id)) +
             IF Holds(code, d) /\ id = d.device_instance_id THEN 1 ELSE 0
      BY <1>1, <1>2, <1>4, OneDevice
    <2>6. IsFiniteSet(Before) /\ Cardinality(Before) \in Nat
      <3>1. IsFiniteSet(1..audited)
        BY <1>2, FS_Interval
      <3>2. IsFiniteSet(Before)
        BY <3>1, FS_Subset
      <3> HIDE DEF Before
      <3> QED
        BY <3>2, FS_CardinalityType
    <2>7. n \notin Before
      BY <1>3
    <2>8. After = Before \cup IF Holds(code, d) /\ id = d.device_instance_id THEN {n} ELSE {}
      BY <1>3 DEF d
    <2> HIDE DEF Before, After
    <2>9. Cardinality(After) = Cardinality(Before) +
             IF Holds(code, d) /\ id = d.device_instance_id THEN 1 ELSE 0
      <3>1. CASE Holds(code, d) /\ id = d.device_instance_id
        <4>1. After = Before \cup {n}
          BY <2>8, <3>1
        <4>2. Cardinality(After) = Cardinality(Before) + 1
          BY <2>6, <2>7, <4>1, FS_AddElement
        <4> QED
          BY <3>1, <4>2
      <3>2. CASE ~(Holds(code, d) /\ id = d.device_instance_id)
        <4>1. After = Before
          BY <2>8, <3>2
        <4> QED
          BY <2>6, <3>2, <4>1
      <3> QED
        BY <3>1, <3>2
    <2>10. Cardinality(Of(findings', code, id)) = Cardinality(After)
      BY <2>4, <2>5, <2>9
    <2> QED
      BY <2>2, <2>3, <2>10
  <1>7. findings' \in Lists(Ids)
    BY <1>1, <1>2, <1>4, OneDevice DEF Codes
  <1> QED
    BY <1>1, <1>3, <1>6, <1>7 DEF AuditInv, Lists
=============================================================================
