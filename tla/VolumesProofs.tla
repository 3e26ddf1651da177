---------------------------- MODULE VolumesProofs ----------------------------
(***************************************************************************)
(* Proofs about the four volume readers and about the hives Windows writes *)
(* for them: for any volumes and letters, mounted, opened, cached and      *)
(* collected in any order, and any entries the keys held before.           *)
(***************************************************************************)
EXTENDS Volumes, FiniteSetTheorems, SequenceTheorems, WellFoundedInduction, TLAPS

-----------------------------------------------------------------------------
(***************************************************************************)
(* Positions and lists.                                                    *)
(***************************************************************************)

\* The least element principle: the sets 1..k, ordered by strict inclusion, are
\* well founded.
LEMMA LeastNat ==
    ASSUME NEW T \in SUBSET Nat, T # {}
    PROVE  \E m \in T : \A k \in T : m <= k
  <1> DEFINE U == {1..k : k \in T}
  <1>1. U \subseteq FiniteSubsetsOf(Nat) /\ U # {}
    <2>1. ASSUME NEW k \in T
          PROVE  1..k \in FiniteSubsetsOf(Nat)
      <3>1. k \in Int /\ 1 \in Int /\ 1..k \in SUBSET Nat
        OBVIOUS
      <3>2. IsFiniteSet(1..k)
        BY <3>1, FS_Interval
      <3> QED
        BY <3>1, <3>2 DEF FiniteSubsetsOf
    <2>2. U # {}
      BY DEF U
    <2> QED
      BY <2>1, <2>2
  <1>2. IsWellFoundedOn(StrictSubsetOrdering(Nat), FiniteSubsetsOf(Nat))
    BY FS_StrictSubsetOrderingWellFounded
  <1>3. PICK x \in U : \A y \in U : ~(<<y, x>> \in StrictSubsetOrdering(Nat))
    <2> HIDE DEF U
    <2> QED
      BY <1>1, <1>2, WFMin, Zenon
  <1>4. PICK m \in T : x = 1..m
    OBVIOUS
  <1>5. ASSUME NEW k \in T, k < m
        PROVE  FALSE
    <2>1. 1..k \subseteq 1..m /\ m \in 1..m /\ m \notin 1..k
      BY <1>5
    <2>2. <<1..k, 1..m>> \in StrictSubsetOrdering(Nat)
      BY <2>1 DEF StrictSubsetOrdering
    <2> QED
      BY <1>3, <1>4, <2>2
  <1> QED
    BY <1>5

\* The last of a set of positions is one of them.
LEMMA LastIsIn ==
    ASSUME NEW n \in Nat, NEW T \in SUBSET (1..n), T # {}
    PROVE  E!Max(T) \in T /\ \A y \in T : y <= E!Max(T)
  <1> DEFINE U == {n - k : k \in T}
  <1>1. U \in SUBSET Nat /\ U # {}
    <2>1. ASSUME NEW k \in T
          PROVE  n - k \in Nat
      <3>1. k \in 1..n
        OBVIOUS
      <3> QED
        BY <3>1, SMT
    <2> QED
      BY <2>1
  <1>2. PICK m \in U : \A k \in U : m <= k
    <2> HIDE DEF U
    <2> QED
      BY <1>1, LeastNat, Zenon
  <1>3. PICK x \in T : m = n - x
    BY <1>2
  <1>4. \A y \in T : x >= y
    <2> TAKE y \in T
    <2>1. n - x <= n - y
      BY <1>2, <1>3
    <2>2. x \in Int /\ y \in Int
      BY SMT
    <2> QED
      BY <2>1, <2>2, SMT
  <1>5. \E z \in T : \A y \in T : z >= y
    BY <1>4
  <1> QED
    BY <1>5, Zenon DEF E!Max

\* A list with one element more.
LEMMA Longer ==
    ASSUME NEW Rs, NEW s \in Seq(Rs), NEW e \in Rs
    PROVE  /\ Append(s, e) \in Seq(Rs)
           /\ Len(Append(s, e)) = Len(s) + 1
           /\ \A k \in 1..Len(s) : Append(s, e)[k] = s[k]
           /\ Append(s, e)[Len(s) + 1] = e
  OBVIOUS


-----------------------------------------------------------------------------
(***************************************************************************)
(* The loop the readers share (KeyScan): dec holds, for each entry of a    *)
(* key, what it decodes to, however the reader decodes and whatever the    *)
(* entries are.                                                            *)
(***************************************************************************)

Selects(from, dec, n, out) ==
    /\ \A i, j \in 1..Len(out) : i < j => from[i] < from[j]
    /\ \A i \in 1..Len(out) : out[i] = dec[from[i]]
    /\ \A e \in 1..n : dec[e] # None => \E i \in 1..Len(out) : from[i] = e

Faithful(dec, n, out) == \E from \in [1..Len(out) -> 1..n] : Selects(from, dec, n, out)

\* Before the first entry there is nothing to account for.
LEMMA NothingScanned ==
    ASSUME NEW dec
    PROVE  Faithful(dec, 0, <<>>)
  <1> DEFINE from == [i \in 1..0 |-> 1]
  <1>1. from \in [1..Len(<<>>) -> 1..0] /\ Selects(from, dec, 0, <<>>)
    BY DEF Selects
  <1> QED
    BY <1>1 DEF Faithful

\* A skipped entry: the records stand, and it needs none.
LEMMA Skipped ==
    ASSUME NEW dec, NEW n \in Nat, NEW R, NEW out \in Seq(R), Faithful(dec, n, out),
           dec[n + 1] = None
    PROVE  Faithful(dec, n + 1, out)
  <1>1. PICK from \in [1..Len(out) -> 1..n] : Selects(from, dec, n, out)
    BY DEF Faithful
  <1>2. from \in [1..Len(out) -> 1..(n + 1)]
    BY <1>1, SMT
  <1>3. \A e \in 1..(n + 1) : e \in 1..n \/ e = n + 1
    BY SMT
  <1>4. Selects(from, dec, n + 1, out)
    BY <1>1, <1>3 DEF Selects
  <1> QED
    BY <1>2, <1>4 DEF Faithful

\* A pushed record is decoded from the entry just read.
LEMMA Pushed ==
    ASSUME NEW dec, NEW n \in Nat, NEW R, NEW out \in Seq(R), Faithful(dec, n, out),
           NEW r \in R, r = dec[n + 1]
    PROVE  Faithful(dec, n + 1, Append(out, r))
  <1>1. PICK from \in [1..Len(out) -> 1..n] : Selects(from, dec, n, out)
    BY DEF Faithful
  <1>2. PICK len \in Nat : len = Len(out)
    OBVIOUS
  <1>3. PICK out2 : out2 = Append(out, r)
    OBVIOUS
  <1>4. /\ Len(out2) = len + 1 /\ out2[len + 1] = r
        /\ \A i \in 1..len : out2[i] = out[i]
    BY <1>2, <1>3, Longer
  <1>5. \A i \in 1..len : from[i] \in 1..n
    BY <1>1, <1>2
  <1>6. PICK from2 \in [1..(len + 1) -> 1..(n + 1)] :
          /\ from2[len + 1] = n + 1
          /\ \A i \in 1..len : from2[i] = from[i]
    <2> DEFINE longer == [i \in 1..(len + 1) |-> IF i = len + 1 THEN n + 1 ELSE from[i]]
    <2>1. \A i \in 1..(len + 1) : IF i = len + 1 THEN n + 1 \in 1..(n + 1)
                                                 ELSE from[i] \in 1..(n + 1)
      BY <1>5, SMT
    <2>2. longer \in [1..(len + 1) -> 1..(n + 1)]
      BY <2>1
    <2>3. longer[len + 1] = n + 1 /\ \A i \in 1..len : longer[i] = from[i]
      BY <1>2, SMT
    <2> QED
      BY <2>2, <2>3
  <1>7. \A i \in 1..(len + 1) : i \in 1..len \/ i = len + 1
    BY SMT
  <1>8. ASSUME NEW i \in 1..(len + 1), NEW j \in 1..(len + 1), i < j
        PROVE  from2[i] < from2[j]
    <2>1. i \in 1..len
      BY <1>8, SMT
    <2>2. CASE j = len + 1
      BY <1>5, <1>6, <2>1, <2>2, SMT
    <2>3. CASE j \in 1..len
      BY <1>1, <1>2, <1>6, <1>8, <2>1, <2>3 DEF Selects
    <2> QED
      BY <1>7, <2>2, <2>3
  <1>9. \A i \in 1..(len + 1) : out2[i] = dec[from2[i]]
    BY <1>1, <1>2, <1>4, <1>6, <1>7 DEF Selects
  <1>10. ASSUME NEW e \in 1..(n + 1), dec[e] # None
         PROVE  \E i \in 1..(len + 1) : from2[i] = e
    <2>1. CASE e = n + 1
      <3>1. len + 1 \in 1..(len + 1)
        BY SMT
      <3> QED
        BY <1>6, <2>1, <3>1
    <2>2. CASE e # n + 1
      <3>1. e \in 1..n
        BY <2>2, SMT
      <3>2. PICK i \in 1..len : from[i] = e
        BY <1>1, <1>2, <1>10, <3>1 DEF Selects
      <3>3. i \in 1..(len + 1)
        BY SMT
      <3> QED
        BY <1>6, <3>2, <3>3
    <2> QED
      BY <2>1, <2>2
  <1>11. Selects(from2, dec, n + 1, out2)
    BY <1>4, <1>8, <1>9, <1>10 DEF Selects
  <1>12. from2 \in [1..Len(out2) -> 1..(n + 1)]
    BY <1>4, <1>6
  <1> QED
    BY <1>3, <1>11, <1>12 DEF Faithful

\* A list, as lists of any kind are written below.
LEMMA ListOf ==
    ASSUME NEW S, NEW s \in Seq(S)
    PROVE  IsList(s) /\ Range(s) \subseteq S /\ DOMAIN s = 1..Len(s) /\ Len(s) \in Nat
  BY DEF IsList, Range

\* A scan of len entries, n of them read.
Scan(dec, len, n, out) ==
    /\ n \in 0..len
    /\ IsList(out)
    /\ \A i \in DOMAIN out : out[i] # None
    /\ Faithful(dec, n, out)

Reads(dec, len, n, out, out2) ==
    /\ n < len
    /\ \/ dec[n + 1] = None /\ out2 = out
       \/ dec[n + 1] # None /\ out2 = Append(out, dec[n + 1])

\* Reading one entry more.
LEMMA OneMore ==
    ASSUME NEW dec, NEW len \in Nat, NEW n, NEW out, NEW out2,
           Scan(dec, len, n, out), Reads(dec, len, n, out, out2)
    PROVE  Scan(dec, len, n + 1, out2)
  <1>1. n \in Nat /\ n + 1 \in 0..len
    BY SMT DEF Scan, Reads
  <1> DEFINE r == dec[n + 1]
             R == Range(out) \cup {r}
  <1>2. out \in Seq(R) /\ r \in R
    <2>1. out \in Seq(Range(out))
      BY DEF Scan, IsList
    <2> QED
      BY <2>1
  <1>3. CASE r = None /\ out2 = out
    BY <1>1, <1>2, <1>3, Skipped DEF Scan
  <1>4. CASE r # None /\ out2 = Append(out, r)
    <2> HIDE DEF R
    <2>1. /\ out2 \in Seq(R) /\ Len(out2) = Len(out) + 1 /\ out2[Len(out) + 1] = r
          /\ \A i \in 1..Len(out) : out2[i] = out[i]
      BY <1>2, <1>4, Longer
    <2>2. IsList(out2) /\ DOMAIN out2 = 1..Len(out2)
      BY <2>1, ListOf
    <2>3. Len(out) \in Nat /\ DOMAIN out = 1..Len(out)
      BY <1>2
    <2>4. \A i \in 1..(Len(out) + 1) : i \in 1..Len(out) \/ i = Len(out) + 1
      BY <2>3, SMT
    <2>5. \A i \in DOMAIN out2 : out2[i] # None
      BY <1>4, <2>1, <2>2, <2>3, <2>4 DEF Scan
    <2>6. Faithful(dec, n + 1, out2)
      BY <1>1, <1>2, <1>4, Pushed DEF Scan
    <2> QED
      BY <1>1, <2>2, <2>5, <2>6 DEF Scan
  <1> QED
    BY <1>3, <1>4 DEF Reads

\* The four scans are such scans.
LEMMA MountedAgrees ==
    (IsList(volumes) /\ Mounted!Scanning) <=>
    Scan(Mounted!Decoded, Len(hive.mounted), mountedRead, volumes)
  BY DEF Mounted!Scanning, Mounted!ScanIsFaithful, Mounted!IsDecoding, Scan, Faithful, Selects

\* One entry of MountedDevices is read.
LEMMA MountedStep ==
    ASSUME IsList(hive.mounted), IsList(volumes), Mounted!Scanning, Mounted!ReadEntry,
           hive' = hive
    PROVE  IsList(volumes)' /\ Mounted!Scanning'
  <1>1. /\ mountedRead < Len(hive.mounted) /\ mountedRead' = mountedRead + 1
        /\ Len(hive.mounted) \in Nat /\ mountedRead \in Nat
    BY DEF Mounted!ReadEntry, Mounted!Scanning, IsList
  <1>2. Mounted!Decoded[mountedRead + 1] = MountedVolume(hive.mounted[mountedRead + 1])
    BY <1>1 DEF Mounted!Decoded
  <1>3. Reads(Mounted!Decoded, Len(hive.mounted), mountedRead, volumes, volumes')
    BY <1>1, <1>2 DEF Mounted!ReadEntry, Mounted!Skip, Mounted!Push, Reads
  <1>4. Scan(Mounted!Decoded, Len(hive.mounted), mountedRead + 1, volumes')
    BY <1>1, <1>3, MountedAgrees, OneMore
  <1>5. Mounted!Decoded' = Mounted!Decoded
    BY DEF Mounted!Decoded
  <1> QED
    BY <1>1, <1>4, <1>5
       DEF Mounted!Scanning, Mounted!ScanIsFaithful, Mounted!IsDecoding, Scan, Faithful, Selects

\* That of MountPoints2.
LEMMA UserAgrees ==
    (IsList(userMounts) /\ User!Scanning) <=>
    Scan(User!Decoded, Len(hive.user), userRead, userMounts)
  BY DEF User!Scanning, User!ScanIsFaithful, User!IsDecoding, Scan, Faithful, Selects

\* One entry of MountPoints2 is read.
LEMMA UserStep ==
    ASSUME IsList(hive.user), IsList(userMounts), User!Scanning, User!ReadEntry, hive' = hive
    PROVE  IsList(userMounts)' /\ User!Scanning'
  <1>1. /\ userRead < Len(hive.user) /\ userRead' = userRead + 1
        /\ Len(hive.user) \in Nat /\ userRead \in Nat
    BY DEF User!ReadEntry, User!Scanning, IsList
  <1>2. User!Decoded[userRead + 1] = UserMount(hive.user[userRead + 1])
    BY <1>1 DEF User!Decoded
  <1>3. Reads(User!Decoded, Len(hive.user), userRead, userMounts, userMounts')
    BY <1>1, <1>2 DEF User!ReadEntry, User!Skip, User!Push, Reads
  <1>4. Scan(User!Decoded, Len(hive.user), userRead + 1, userMounts')
    BY <1>1, <1>3, UserAgrees, OneMore
  <1>5. User!Decoded' = User!Decoded
    BY DEF User!Decoded
  <1> QED
    BY <1>1, <1>4, <1>5
       DEF User!Scanning, User!ScanIsFaithful, User!IsDecoding, Scan, Faithful, Selects

\* That of VolumeInfoCache.
LEMMA CachedAgrees ==
    (IsList(labels) /\ Cached!Scanning) <=>
    Scan(Cached!Decoded, Len(hive.cache), cacheRead, labels)
  BY DEF Cached!Scanning, Cached!ScanIsFaithful, Cached!IsDecoding, Scan, Faithful, Selects

\* One entry of VolumeInfoCache is read.
LEMMA CachedStep ==
    ASSUME IsList(hive.cache), IsList(labels), Cached!Scanning, Cached!ReadEntry, hive' = hive
    PROVE  IsList(labels)' /\ Cached!Scanning'
  <1>1. /\ cacheRead < Len(hive.cache) /\ cacheRead' = cacheRead + 1
        /\ Len(hive.cache) \in Nat /\ cacheRead \in Nat
    BY DEF Cached!ReadEntry, Cached!Scanning, IsList
  <1>2. Cached!Decoded[cacheRead + 1] = VolumeLabel(hive.cache[cacheRead + 1])
    BY <1>1 DEF Cached!Decoded
  <1>3. Reads(Cached!Decoded, Len(hive.cache), cacheRead, labels, labels')
    BY <1>1, <1>2 DEF Cached!ReadEntry, Cached!Skip, Cached!Push, Reads
  <1>4. Scan(Cached!Decoded, Len(hive.cache), cacheRead + 1, labels')
    BY <1>1, <1>3, CachedAgrees, OneMore
  <1>5. Cached!Decoded' = Cached!Decoded
    BY DEF Cached!Decoded
  <1> QED
    BY <1>1, <1>4, <1>5
       DEF Cached!Scanning, Cached!ScanIsFaithful, Cached!IsDecoding, Scan, Faithful, Selects

\* That of EMDMgmt.
LEMMA EmdAgrees ==
    (IsList(emdVolumes) /\ Emd!Scanning) <=>
    Scan(Emd!Decoded, Len(hive.emd), emdRead, emdVolumes)
  BY DEF Emd!Scanning, Emd!ScanIsFaithful, Emd!IsDecoding, Scan, Faithful, Selects

\* One entry of EMDMgmt is read.
LEMMA EmdStep ==
    ASSUME IsList(hive.emd), IsList(emdVolumes), Emd!Scanning, Emd!ReadEntry, hive' = hive
    PROVE  IsList(emdVolumes)' /\ Emd!Scanning'
  <1>1. /\ emdRead < Len(hive.emd) /\ emdRead' = emdRead + 1
        /\ Len(hive.emd) \in Nat /\ emdRead \in Nat
    BY DEF Emd!ReadEntry, Emd!Scanning, IsList
  <1>2. Emd!Decoded[emdRead + 1] = E!parse_emd_name(hive.emd[emdRead + 1])
    BY <1>1 DEF Emd!Decoded
  <1>3. Reads(Emd!Decoded, Len(hive.emd), emdRead, emdVolumes, emdVolumes')
    BY <1>1, <1>2 DEF Emd!ReadEntry, Emd!Skip, Emd!Push, Reads
  <1>4. Scan(Emd!Decoded, Len(hive.emd), emdRead + 1, emdVolumes')
    BY <1>1, <1>3, EmdAgrees, OneMore
  <1>5. Emd!Decoded' = Emd!Decoded
    BY DEF Emd!Decoded
  <1> QED
    BY <1>1, <1>4, <1>5
       DEF Emd!Scanning, Emd!ScanIsFaithful, Emd!IsDecoding, Scan, Faithful, Selects

AtStart ==
    /\ IsList(hive.mounted) /\ IsList(hive.user) /\ IsList(hive.cache) /\ IsList(hive.emd)
    /\ Mounted!StartScan /\ User!StartScan /\ Cached!StartScan /\ Emd!StartScan

\* Where no reader has read an entry, all is accounted for.
LEMMA ScansStart == AtStart => ReadersInv
  <1> SUFFICES ASSUME AtStart
               PROVE  ReadersInv
    OBVIOUS
  <1>1. ASSUME NEW dec, NEW len \in Nat
        PROVE  Scan(dec, len, 0, <<>>)
    BY NothingScanned DEF Scan, IsList
  <1>2. /\ Len(hive.mounted) \in Nat /\ Len(hive.user) \in Nat
        /\ Len(hive.cache) \in Nat /\ Len(hive.emd) \in Nat
    BY DEF AtStart, IsList
  <1>3. IsList(volumes) /\ Mounted!Scanning
    BY <1>1, <1>2, MountedAgrees DEF AtStart, Mounted!StartScan
  <1>4. IsList(userMounts) /\ User!Scanning
    BY <1>1, <1>2, UserAgrees DEF AtStart, User!StartScan
  <1>5. IsList(labels) /\ Cached!Scanning
    BY <1>1, <1>2, CachedAgrees DEF AtStart, Cached!StartScan
  <1>6. IsList(emdVolumes) /\ Emd!Scanning
    BY <1>1, <1>2, EmdAgrees DEF AtStart, Emd!StartScan
  <1> QED
    BY <1>3, <1>4, <1>5, <1>6 DEF ReadersInv, AtStart

-----------------------------------------------------------------------------
(***************************************************************************)
(* Windows writes an entry.                                                *)
(***************************************************************************)

\* The entries of one key after a write: all of another name, and the new one.
LEMMA WriteKeeps ==
    ASSUME NEW entries, IsList(entries), NEW new, new = [new EXCEPT !.name = new.name],
           \A e \in Range(entries) : SameName(e.name, new.name) => e.name = new.name
    PROVE  /\ IsList(Write(entries, new))
           /\ Range(Write(entries, new)) =
                 {e \in Range(entries) : ~SameName(e.name, new.name)} \cup {new}
           /\ Once(entries) => Once(Write(entries, new))
  <1> DEFINE old == {i \in DOMAIN entries : SameName(entries[i].name, new.name)}
             R == Range(entries) \cup {new}
  <1>1. PICK w : w = Write(entries, new)
    OBVIOUS
  <1>2. PICK n \in Nat : n = Len(entries)
    BY DEF IsList
  <1>3. entries \in Seq(R) /\ new \in R /\ DOMAIN entries = 1..n
    <2>1. entries \in Seq(Range(entries))
      BY DEF IsList
    <2> QED
      BY <1>2, <2>1
  <1>4. SameName(new.name, new.name)
    BY DEF SameName
  <1>5. CASE old = {}
    <2>1. w = Append(entries, new)
      BY <1>1, <1>5 DEF Write
    <2> HIDE DEF R, old
    <2>2. /\ w \in Seq(R) /\ Len(w) = n + 1 /\ w[n + 1] = new
          /\ \A i \in 1..n : w[i] = entries[i]
      BY <1>2, <1>3, <2>1, Longer
    <2>3. DOMAIN w = 1..(n + 1) /\ IsList(w)
      BY <2>2, ListOf
    <2>4. \A i \in 1..(n + 1) : i \in 1..n \/ i = n + 1
      BY SMT
    <2>5. \A i \in 1..n : i \in 1..(n + 1)
      BY SMT
    <2>6. \A i \in 1..n : ~SameName(entries[i].name, new.name)
      BY <1>3, <1>5 DEF old
    <2>7. Range(w) = {e \in Range(entries) : ~SameName(e.name, new.name)} \cup {new}
      <3>1. Range(w) = {w[i] : i \in 1..(n + 1)} /\ Range(entries) = {entries[i] : i \in 1..n}
        BY <1>3, <2>3 DEF Range
      <3>2. n + 1 \in 1..(n + 1)
        BY SMT
      <3> QED
        BY <2>2, <2>4, <2>5, <2>6, <3>1, <3>2
    <2>8. Once(entries) => Once(w)
      BY <1>3, <2>2, <2>3, <2>4, <2>6 DEF Once, SameName
    <2> QED
      BY <1>1, <2>3, <2>7, <2>8
  <1>6. CASE old # {}
    <2>1. w = [i \in 1..n |-> IF i \in old THEN [new EXCEPT !.name = entries[i].name]
                                            ELSE entries[i]]
      BY <1>1, <1>3, <1>6 DEF Write
    <2>2. \A i \in 1..n : i \in old => entries[i].name = new.name
      BY <1>3 DEF Range
    <2>3. /\ DOMAIN w = 1..n
          /\ \A i \in 1..n : w[i] = IF i \in old THEN new ELSE entries[i]
      BY <2>1, <2>2
    <2>4. w \in Seq(R)
      <3>1. w \in [1..n -> R]
        BY <1>3, <2>1, <2>2
      <3> QED
        BY <3>1
    <2> HIDE DEF R
    <2>5. IsList(w)
      BY <2>4, ListOf
    <2>6. Range(w) = {e \in Range(entries) : ~SameName(e.name, new.name)} \cup {new}
      <3>1. Range(w) = {w[i] : i \in 1..n} /\ Range(entries) = {entries[i] : i \in 1..n}
        BY <1>3, <2>3 DEF Range
      <3> QED
        BY <1>3, <1>6, <2>3, <3>1
    <2>7. Once(entries) => Once(w)
      BY <1>3, <2>2, <2>3 DEF Once
    <2> QED
      BY <1>1, <2>5, <2>6, <2>7
  <1> QED
    BY <1>5, <1>6

\* The same where an entry is all name, as in EMDMgmt.
LEMMA WriteOnceKeeps ==
    ASSUME NEW entries, IsList(entries), NEW new
    PROVE  /\ IsList(WriteOnce(entries, new))
           /\ Range(WriteOnce(entries, new)) = Range(entries) \cup {new}
  <1> DEFINE R == Range(entries) \cup {new}
  <1>1. PICK n \in Nat : n = Len(entries) /\ DOMAIN entries = 1..n
    BY DEF IsList
  <1>2. Contains(entries, new) <=> new \in Range(entries)
    BY <1>1 DEF Contains, Range
  <1>3. CASE Contains(entries, new)
    BY <1>2, <1>3 DEF WriteOnce
  <1>4. CASE ~Contains(entries, new)
    <2>1. PICK w : w = WriteOnce(entries, new) /\ w = Append(entries, new)
      BY <1>4 DEF WriteOnce
    <2>2. entries \in Seq(R)
      <3>1. entries \in Seq(Range(entries))
        BY DEF IsList
      <3> QED
        BY <3>1
    <2> HIDE DEF R
    <2>3. new \in R
      BY DEF R
    <2>4. /\ w \in Seq(R) /\ Len(w) = n + 1 /\ w[n + 1] = new
          /\ \A i \in 1..n : w[i] = entries[i]
      BY <1>1, <2>1, <2>2, <2>3, Longer
    <2>5. IsList(w) /\ DOMAIN w = 1..(n + 1)
      BY <2>4, ListOf
    <2>6. \A i \in 1..(n + 1) : i \in 1..n \/ i = n + 1
      BY SMT
    <2>7. (\A i \in 1..n : i \in 1..(n + 1)) /\ n + 1 \in 1..(n + 1)
      BY SMT
    <2>8. Range(w) = Range(entries) \cup {new}
      BY <1>1, <2>4, <2>5, <2>6, <2>7 DEF Range
    <2> QED
      BY <2>1, <2>5, <2>8
  <1> QED
    BY <1>3, <1>4

-----------------------------------------------------------------------------
(***************************************************************************)
(* The mounts so far.                                                      *)
(***************************************************************************)

Mounts == [volume : Disks, letter : Letters]

\* The greatest of a set of positions is its last.
LEMMA LastIs ==
    ASSUME NEW n \in Nat, NEW T \in SUBSET (1..n), NEW m \in T, \A k \in T : k <= m
    PROVE  E!Max(T) = m
  <1>1. E!Max(T) \in T /\ \A k \in T : k <= E!Max(T)
    BY LastIsIn
  <1>2. m <= E!Max(T) /\ E!Max(T) <= m
    BY <1>1
  <1>3. m \in 1..n /\ E!Max(T) \in 1..n
    BY <1>1
  <1> QED
    BY <1>2, <1>3, SMT

\* The last volume of a letter is one that was mounted there, if any was.
LEMMA LastAtIs ==
    ASSUME past \in Seq(Mounts), NEW l
    PROVE  /\ MountsAt(l) = {} => LastAt(l) = None
           /\ MountsAt(l) # {} => /\ LastMount(l) \in DOMAIN past
                                  /\ LastAt(l) = past[LastMount(l)].volume
                                  /\ past[LastMount(l)].letter = l
                                  /\ LastAt(l) \in Disks
                                  /\ LastAt(l) # None
  <1>1. CASE MountsAt(l) = {}
    BY <1>1 DEF LastAt
  <1>2. CASE MountsAt(l) # {}
    <2>1. Len(past) \in Nat /\ MountsAt(l) \in SUBSET (1..Len(past)) /\ DOMAIN past = 1..Len(past)
      BY DEF MountsAt
    <2>2. LastMount(l) \in MountsAt(l)
      BY <1>2, <2>1, LastIsIn DEF LastMount
    <2>3. LastMount(l) \in DOMAIN past /\ past[LastMount(l)].letter = l
      BY <2>2 DEF MountsAt
    <2>4. past[LastMount(l)] \in Mounts
      BY <2>1, <2>3
    <2>5. past[LastMount(l)].volume \in Disks
      BY <2>4 DEF Mounts
    <2> QED
      BY <1>2, <2>3, <2>5, NoneIsNoData DEF LastAt
  <1> QED
    BY <1>1, <1>2

\* A mount is its letter's last one, and changes no other letter's.
LEMMA MountIsLast ==
    ASSUME past \in Seq(Mounts), NEW v \in Disks, NEW l \in Letters,
           past' = Append(past, [volume |-> v, letter |-> l])
    PROVE  /\ past' \in Seq(Mounts)
           /\ Len(past') = Len(past) + 1
           /\ \A i \in DOMAIN past : i \in DOMAIN past' /\ past'[i] = past[i]
           /\ DOMAIN past' = DOMAIN past \cup {Len(past) + 1}
           /\ past'[Len(past) + 1].volume = v
           /\ LastAt(l)' = v
           /\ \A k \in Letters \ {l} : LastAt(k)' = LastAt(k) /\ LastMount(k)' = LastMount(k)
           /\ MountedIds' = MountedIds \cup {IdOf[v]}
  <1>1. PICK m \in Mounts : m = [volume |-> v, letter |-> l]
    BY DEF Mounts
  <1>2. PICK n \in Nat : n = Len(past)
    OBVIOUS
  <1>3. /\ past' \in Seq(Mounts) /\ Len(past') = n + 1 /\ past'[n + 1] = m
        /\ \A i \in 1..n : past'[i] = past[i]
    BY <1>1, <1>2, Longer
  <1>4. DOMAIN past = 1..n /\ DOMAIN past' = 1..(n + 1) /\ 1..(n + 1) = 1..n \cup {n + 1}
    <2>1. 1..(n + 1) = 1..n \cup {n + 1}
      BY SMT
    <2> QED
      BY <1>2, <1>3, <2>1
  <1>5. MountsAt(l)' = MountsAt(l) \cup {n + 1}
    BY <1>1, <1>3, <1>4 DEF MountsAt
  <1>6. \A k \in Letters \ {l} : MountsAt(k)' = MountsAt(k)
    BY <1>1, <1>3, <1>4 DEF MountsAt
  <1>7. LastAt(l)' = v
    <2>1. MountsAt(l)' \in SUBSET (1..(n + 1)) /\ n + 1 \in MountsAt(l)'
      BY <1>4, <1>5 DEF MountsAt
    <2>2. \A k \in MountsAt(l)' : k <= n + 1
      BY <2>1, SMT
    <2>3. n + 1 \in Nat
      OBVIOUS
    <2>4. LastMount(l)' = n + 1
      BY <2>1, <2>2, <2>3, LastIs DEF LastMount
    <2>5. LastAt(l)' = past'[n + 1].volume
      BY <2>1, <2>4 DEF LastAt
    <2> QED
      BY <1>1, <1>3, <2>5
  <1>8. ASSUME NEW k \in Letters \ {l}
        PROVE  LastAt(k)' = LastAt(k) /\ LastMount(k)' = LastMount(k)
    <2>1. LastMount(k)' = LastMount(k)
      BY <1>6 DEF LastMount
    <2>2. CASE MountsAt(k) = {}
      BY <1>6, <2>1, <2>2 DEF LastAt
    <2>3. CASE MountsAt(k) # {}
      <3>1. LastMount(k) \in 1..n /\ LastAt(k) = past[LastMount(k)].volume
        BY <1>4, <2>3, LastAtIs
      <3>2. LastAt(k)' = past'[LastMount(k)].volume
        BY <1>6, <2>1, <2>3 DEF LastAt
      <3> QED
        BY <1>3, <2>1, <3>1, <3>2
    <2> QED
      BY <2>2, <2>3
  <1>9. MountedIds' = MountedIds \cup {IdOf[v]}
    BY <1>1, <1>3, <1>4 DEF MountedIds
  <1> QED
    BY <1>1, <1>2, <1>3, <1>4, <1>7, <1>8, <1>9

-----------------------------------------------------------------------------
(***************************************************************************)
(* Windows.                                                                *)
(***************************************************************************)

\* Entries Windows wrote have one spelling, so equal names are the same.
LEMMA NamesApart ==
    ASSUME past \in Seq(Mounts)
    PROVE  /\ MountedIds \subseteq Ids
           /\ \A n, m \in MountNames : SameName(n, m) => n = m
           /\ \A e \in MountedHolds : e.name \in MountNames
           /\ \A l \in Letters, v \in Disks : LetterEntry(l, v).name \in MountNames
           /\ \A id \in Ids : VolumeEntry(id).name \in MountNames
  <1>1. \A n, m \in MountNames : SameName(n, m) => n = m
    BY DEF MountNames, Name, SameName
  <1>2. \A l \in Letters : \A v : LetterEntry(l, v).name \in MountNames
    BY DEF LetterEntry, MountNames
  <1>3. \A id \in Ids : VolumeEntry(id).name \in MountNames
    BY DEF VolumeEntry, MountNames
  <1>4. MountedIds \subseteq Ids
    <2> SUFFICES ASSUME NEW i \in DOMAIN past
                 PROVE  IdOf[past[i].volume] \in Ids
      BY DEF MountedIds
    <2>1. past[i] \in Mounts
      OBVIOUS
    <2> QED
      BY <2>1 DEF Mounts, Ids
  <1> QED
    BY <1>1, <1>2, <1>3, <1>4 DEF MountedHolds

\* The hive is a record of four keys.
LEMMA HiveFields ==
    ASSUME KeysAreWritten, NEW m, NEW u, NEW c, NEW e
    PROVE  /\ [hive EXCEPT !.mounted = m, !.emd = e] =
                 [mounted |-> m, user |-> hive.user, cache |-> hive.cache, emd |-> e]
           /\ [hive EXCEPT !.user = u] =
                 [mounted |-> hive.mounted, user |-> u, cache |-> hive.cache, emd |-> hive.emd]
           /\ [hive EXCEPT !.cache = c] =
                 [mounted |-> hive.mounted, user |-> hive.user, cache |-> c, emd |-> hive.emd]
  <1>1. PICK m0, u0, c0, e0 : hive = [mounted |-> m0, user |-> u0, cache |-> c0, emd |-> e0]
    <2>1. hive = [mounted |-> hive.mounted, user |-> hive.user, cache |-> hive.cache,
                  emd |-> hive.emd]
      BY Zenon DEF KeysAreWritten
    <2> QED
      BY <2>1, Zenon
  <1>2. hive.mounted = m0 /\ hive.user = u0 /\ hive.cache = c0 /\ hive.emd = e0
    BY <1>1
  <1>3. [hive EXCEPT !.mounted = m, !.emd = e] =
            [mounted |-> m, user |-> u0, cache |-> c0, emd |-> e]
    <2>1. PICK h : h = [mounted |-> m, user |-> u0, cache |-> c0, emd |-> e0]
      OBVIOUS
    <2>2. [hive EXCEPT !.mounted = m] = h
      BY <1>1, <2>1
    <2>3. [h EXCEPT !.emd = e] = [mounted |-> m, user |-> u0, cache |-> c0, emd |-> e]
      BY <2>1
    <2>4. [hive EXCEPT !.mounted = m, !.emd = e] = [[hive EXCEPT !.mounted = m] EXCEPT !.emd = e]
      OBVIOUS
    <2> QED
      BY <2>2, <2>3, <2>4
  <1>4. [hive EXCEPT !.user = u] = [mounted |-> m0, user |-> u, cache |-> c0, emd |-> e0]
    BY <1>1
  <1>5. [hive EXCEPT !.cache = c] = [mounted |-> m0, user |-> u0, cache |-> c, emd |-> e0]
    BY <1>1
  <1> QED
    BY <1>2, <1>3, <1>4, <1>5

\* What is left to say of a step: what each key holds now.
LEMMA WrittenAgain ==
    ASSUME NEW m, NEW u, NEW c, NEW e,
           hive' = [mounted |-> m, user |-> u, cache |-> c, emd |-> e],
           IsList(m), Once(m), Range(m) = Range(StrayMounts) \cup MountedHolds',
           IsList(u), Range(u) \subseteq Range(StrayUser) \cup UserMayHold',
           IsList(c), Range(c) = Range(StrayLabels) \cup CacheHolds',
           IsList(e), Range(e) = Range(StrayEmd) \cup EmdHolds'
    PROVE  KeysAreWritten'
  <1>1. hive'.mounted = m /\ hive'.user = u /\ hive'.cache = c /\ hive'.emd = e
    OBVIOUS
  <1>2. (hive = [mounted |-> hive.mounted, user |-> hive.user, cache |-> hive.cache,
                 emd |-> hive.emd])'
    BY <1>1
  <1> QED
    BY <1>1, <1>2, Zenon DEF KeysAreWritten, IsList, Once, Range

\* One write to MountedDevices.
Others(held, new) == {e \in held : ~SameName(e.name, new.name)} \cup {new}

\* MountedDevices after it: the strays stand, no name is twice.
LEMMA MountedWrite ==
    ASSUME NEW held, \A e \in held : e.name \in MountNames,
           past \in Seq(Mounts),
           NEW entries, IsList(entries), Once(entries),
           Range(entries) = Range(StrayMounts) \cup held,
           NEW new, new.name \in MountNames, new = [new EXCEPT !.name = new.name]
    PROVE  /\ IsList(Write(entries, new)) /\ Once(Write(entries, new))
           /\ Range(Write(entries, new)) = Range(StrayMounts) \cup Others(held, new)
           /\ \A e \in Others(held, new) : e.name \in MountNames
  <1>1. \A e \in Range(StrayMounts) : ~SameName(e.name, new.name)
    BY StraysAreNoVolumes
  <1>2. \A e \in held : SameName(e.name, new.name) => e.name = new.name
    BY NamesApart
  <1>3. /\ IsList(Write(entries, new)) /\ Once(Write(entries, new))
        /\ Range(Write(entries, new)) =
              {e \in Range(entries) : ~SameName(e.name, new.name)} \cup {new}
    BY <1>1, <1>2, WriteKeeps
  <1> QED
    BY <1>1, <1>3 DEF Others

\* What MountedDevices holds after a mount.
LEMMA MountHolds ==
    ASSUME past \in Seq(Mounts), NEW v \in Disks, NEW l \in Letters,
           past' = Append(past, [volume |-> v, letter |-> l])
    PROVE  MountedHolds' =
              Others(Others(MountedHolds, LetterEntry(l, v)), VolumeEntry(IdOf[v]))
  <1>1. /\ LastAt(l)' = v
        /\ \A k \in Letters \ {l} : LastAt(k)' = LastAt(k)
        /\ MountedIds' = MountedIds \cup {IdOf[v]}
    BY MountIsLast
  <1>2. v # None
    BY NoneIsNoData
  <1>3. \A k, u : /\ SameName(LetterEntry(k, u).name, LetterEntry(l, v).name) <=> k = l
                  /\ ~SameName(LetterEntry(k, u).name, VolumeEntry(IdOf[v]).name)
    BY DEF SameName, LetterEntry, VolumeEntry, Name
  <1>4. \A id : /\ SameName(VolumeEntry(id).name, VolumeEntry(IdOf[v]).name) <=> id = IdOf[v]
                /\ ~SameName(VolumeEntry(id).name, LetterEntry(l, v).name)
    BY DEF SameName, LetterEntry, VolumeEntry, Name
  <1>5. MountedHolds' = {LetterEntry(k, LastAt(k)') : k \in {k \in Letters : LastAt(k)' # None}}
                        \cup {VolumeEntry(id) : id \in MountedIds'}
    BY DEF MountedHolds, LetterEntry, VolumeEntry, Name
  <1>6. ASSUME NEW e \in MountedHolds'
        PROVE  e \in Others(Others(MountedHolds, LetterEntry(l, v)), VolumeEntry(IdOf[v]))
    <2>1. CASE \E k \in Letters : LastAt(k)' # None /\ e = LetterEntry(k, LastAt(k)')
      <3>1. PICK k \in Letters : LastAt(k)' # None /\ e = LetterEntry(k, LastAt(k)')
        BY <2>1
      <3>2. CASE k = l
        BY <1>1, <1>3, <3>1, <3>2 DEF Others
      <3>3. CASE k # l
        <4>1. LastAt(k) # None /\ e = LetterEntry(k, LastAt(k))
          BY <1>1, <3>1, <3>3
        <4>2. e \in MountedHolds
          BY <4>1 DEF MountedHolds
        <4> QED
          BY <1>3, <3>3, <4>1, <4>2 DEF Others
      <3> QED
        BY <3>2, <3>3
    <2>2. CASE \E id \in MountedIds' : e = VolumeEntry(id)
      <3>1. PICK id \in MountedIds' : e = VolumeEntry(id)
        BY <2>2
      <3>2. CASE id = IdOf[v]
        BY <3>1, <3>2 DEF Others
      <3>3. CASE id # IdOf[v]
        <4>1. e \in MountedHolds
          BY <1>1, <3>1, <3>3 DEF MountedHolds
        <4> QED
          BY <1>4, <3>1, <3>3, <4>1 DEF Others
      <3> QED
        BY <3>2, <3>3
    <2> QED
      BY <1>5, <2>1, <2>2
  <1>7. ASSUME NEW e \in Others(Others(MountedHolds, LetterEntry(l, v)), VolumeEntry(IdOf[v]))
        PROVE  e \in MountedHolds'
    <2>1. CASE e = VolumeEntry(IdOf[v])
      BY <1>1, <1>5, <2>1
    <2>2. CASE e = LetterEntry(l, v)
      BY <1>1, <1>2, <1>5, <2>2
    <2>3. CASE e \in MountedHolds /\ ~SameName(e.name, LetterEntry(l, v).name)
      <3>1. CASE \E k \in Letters : LastAt(k) # None /\ e = LetterEntry(k, LastAt(k))
        <4>1. PICK k \in Letters : LastAt(k) # None /\ e = LetterEntry(k, LastAt(k))
          BY <3>1
        <4>2. k # l
          BY <1>3, <2>3, <4>1
        <4> QED
          BY <1>1, <1>5, <4>1, <4>2
      <3>2. CASE \E id \in MountedIds : e = VolumeEntry(id)
        BY <1>1, <1>5, <3>2
      <3> QED
        BY <2>3, <3>1, <3>2 DEF MountedHolds
    <2> QED
      BY <2>1, <2>2, <2>3 DEF Others
  <1> QED
    BY <1>6, <1>7

\* A mount writes MountedDevices twice, and EMDMgmt.
LEMMA MountStep ==
    ASSUME WindowsInv, NEW v \in Disks, NEW l \in Letters, Mount(v, l)
    PROVE  WindowsInv'
  <1>1. /\ ~collected /\ Len(past) < MaxMounts
        /\ at' = [at EXCEPT ![l] = v]
        /\ past' = Append(past, [volume |-> v, letter |-> l])
        /\ hive' = [hive EXCEPT
             !.mounted = Write(Write(hive.mounted, LetterEntry(l, v)), VolumeEntry(IdOf[v])),
             !.emd = WriteOnce(hive.emd, EmdName(v))]
        /\ cached' = cached /\ collected' = collected
    BY DEF Mount
  <1>2. past \in Seq(Mounts) /\ KeysAreWritten
    BY DEF WindowsInv, Mounts
  <1>3. PICK n \in Nat : n = Len(past)
    BY <1>2
  <1>4. /\ past' \in Seq(Mounts) /\ Len(past') = n + 1
        /\ DOMAIN past = 1..n
        /\ \A i \in DOMAIN past : i \in DOMAIN past' /\ past'[i] = past[i]
        /\ DOMAIN past' = DOMAIN past \cup {n + 1}
        /\ past'[n + 1].volume = v
        /\ LastAt(l)' = v
        /\ \A k \in Letters \ {l} : LastAt(k)' = LastAt(k)
        /\ MountedIds' = MountedIds \cup {IdOf[v]}
    <2>1. DOMAIN past = 1..n
      BY <1>2, <1>3
    <2> QED
      BY <1>1, <1>2, <1>3, <2>1, MountIsLast
  <1>5. at' \in [Letters -> Optional(Disks)]
    BY <1>1 DEF WindowsInv, Optional
  <1>6. \A k \in Letters : at'[k] # None => at'[k] = LastAt(k)'
    BY <1>1, <1>4 DEF WindowsInv
  <1>7. cached' \in [Letters -> 0..(n + 1)]
    <2>1. cached \in [Letters -> 0..n]
      BY <1>3 DEF WindowsInv
    <2>2. \A k \in Letters : cached[k] \in 0..(n + 1)
      <3> TAKE k \in Letters
      <3>1. cached[k] \in 0..n
        BY <2>1
      <3> QED
        BY <3>1, SMT
    <2> QED
      BY <1>1, <2>1, <2>2
  <1>8. \A k \in Letters : cached[k] # 0 => cached[k] \in DOMAIN past
    <2> SUFFICES ASSUME NEW k \in Letters, cached[k] # 0
                 PROVE  cached[k] \in 1..n
      BY <1>4
    <2>1. cached[k] \in 0..n
      BY <1>3 DEF WindowsInv
    <2> QED
      BY <2>1, SMT
  <1>9. \A k \in Letters : cached'[k] # 0 => past'[cached'[k]].letter = k
    BY <1>1, <1>4, <1>8 DEF WindowsInv
  <1>10. Len(past') <= MaxMounts
    BY <1>1, <1>3, <1>4, BoundIsNat, SMT
  <1>11. PICK m, e : /\ m = Write(Write(hive.mounted, LetterEntry(l, v)), VolumeEntry(IdOf[v]))
                     /\ e = WriteOnce(hive.emd, EmdName(v))
    OBVIOUS
  <1>12. hive' = [mounted |-> m, user |-> hive.user, cache |-> hive.cache, emd |-> e]
    BY <1>1, <1>2, <1>11, HiveFields
  <1>13. IsList(m) /\ Once(m) /\ Range(m) = Range(StrayMounts) \cup MountedHolds'
    <2>1. /\ IsList(hive.mounted) /\ Once(hive.mounted)
          /\ Range(hive.mounted) = Range(StrayMounts) \cup MountedHolds
      BY <1>2 DEF KeysAreWritten
    <2>2. /\ \A h \in MountedHolds : h.name \in MountNames
          /\ LetterEntry(l, v).name \in MountNames
          /\ VolumeEntry(IdOf[v]).name \in MountNames
      BY <1>2, NamesApart DEF Ids
    <2>3. /\ LetterEntry(l, v) = [LetterEntry(l, v) EXCEPT !.name = LetterEntry(l, v).name]
          /\ VolumeEntry(IdOf[v]) =
                [VolumeEntry(IdOf[v]) EXCEPT !.name = VolumeEntry(IdOf[v]).name]
      BY DEF LetterEntry, VolumeEntry
    <2>4. PICK w : w = Write(hive.mounted, LetterEntry(l, v))
      OBVIOUS
    <2>5. PICK held : held = Others(MountedHolds, LetterEntry(l, v))
      OBVIOUS
    <2>6. /\ IsList(w) /\ Once(w) /\ Range(w) = Range(StrayMounts) \cup held
          /\ \A h \in held : h.name \in MountNames
      BY <1>2, <2>1, <2>2, <2>3, <2>4, <2>5, MountedWrite
    <2>7. /\ IsList(m) /\ Once(m)
          /\ Range(m) = Range(StrayMounts) \cup Others(held, VolumeEntry(IdOf[v]))
      BY <1>2, <1>11, <2>2, <2>3, <2>4, <2>6, MountedWrite
    <2>8. MountedHolds' = Others(held, VolumeEntry(IdOf[v]))
      BY <1>1, <1>2, <2>5, MountHolds
    <2> QED
      BY <2>7, <2>8
  <1>14. IsList(e) /\ Range(e) = Range(StrayEmd) \cup EmdHolds'
    <2>1. IsList(hive.emd) /\ Range(hive.emd) = Range(StrayEmd) \cup EmdHolds
      BY <1>2 DEF KeysAreWritten
    <2>2. IsList(e) /\ Range(e) = Range(hive.emd) \cup {EmdName(v)}
      BY <1>11, <2>1, WriteOnceKeeps
    <2>3. EmdHolds' = {EmdName(past'[i].volume) : i \in DOMAIN past'}
      BY DEF EmdHolds, EmdName
    <2>4. EmdHolds' = EmdHolds \cup {EmdName(v)}
      BY <1>4, <2>3 DEF EmdHolds
    <2> QED
      BY <2>1, <2>2, <2>4
  <1>15. IsList(hive.user) /\ Range(hive.user) \subseteq Range(StrayUser) \cup UserMayHold'
    <2>1. UserMayHold \subseteq UserMayHold'
      BY <1>4 DEF UserMayHold, UserEntry
    <2> QED
      BY <1>2, <2>1 DEF KeysAreWritten
  <1>16. IsList(hive.cache) /\ Range(hive.cache) = Range(StrayLabels) \cup CacheHolds'
    <2>1. CacheHolds' = CacheHolds
      BY <1>1, <1>4, <1>8 DEF CacheHolds, CacheEntry
    <2> QED
      BY <1>2, <2>1 DEF KeysAreWritten
  <1>17. KeysAreWritten'
    BY <1>13, <1>14, <1>15, <1>16, <1>12, WrittenAgain
  <1> QED
    BY <1>1, <1>4, <1>5, <1>6, <1>7, <1>9, <1>10, <1>17 DEF WindowsInv, Mounts

\* The steps that write no key.
LEMMA UnmountStep ==
    ASSUME WindowsInv, Collect \/ \E l \in Letters : Unmount(l)
    PROVE  WindowsInv'
  <1>1. hive' = hive /\ past' = past /\ cached' = cached /\ collected' \in BOOLEAN
    BY DEF Unmount, Collect, WindowsInv
  <1>2. /\ at' \in [Letters -> Optional(Disks)]
        /\ \A k \in Letters : at'[k] # None => at'[k] = at[k]
    BY DEF Unmount, Collect, WindowsInv, Optional
  <1>3. \A k : LastAt(k)' = LastAt(k)
    BY <1>1 DEF LastAt, LastMount, MountsAt
  <1>4. KeysAreWritten'
    <2>1. MountedHolds' = MountedHolds /\ UserMayHold' = UserMayHold
      BY <1>1, <1>3
         DEF MountedHolds, MountedIds, UserMayHold, LetterEntry, VolumeEntry, UserEntry, Name
    <2>2. CacheHolds' = CacheHolds /\ EmdHolds' = EmdHolds
      BY <1>1 DEF CacheHolds, EmdHolds, CacheEntry, EmdName, Name
    <2>3. KeysAreWritten
      BY DEF WindowsInv
    <2> QED
      BY <1>1, <2>1, <2>2, <2>3 DEF KeysAreWritten, IsList, Once, Range
  <1> QED
    BY <1>1, <1>2, <1>3, <1>4 DEF WindowsInv

\* The volume at a letter is of a mount, its last one.
LEMMA AtIsLast ==
    ASSUME WindowsInv, NEW l \in Letters, at[l] # None
    PROVE  /\ past \in Seq(Mounts) /\ Len(past) \in 0..MaxMounts
           /\ LastMount(l) \in DOMAIN past
           /\ at[l] = past[LastMount(l)].volume /\ past[LastMount(l)].letter = l
           /\ IdOf[at[l]] \in MountedIds
  <1>1. past \in Seq(Mounts) /\ Len(past) <= MaxMounts /\ at[l] = LastAt(l)
    BY DEF WindowsInv, Mounts
  <1>2. Len(past) \in 0..MaxMounts
    <2>1. Len(past) \in Nat
      BY <1>1
    <2> QED
      BY <1>1, <2>1, BoundIsNat, SMT
  <1>3. /\ LastMount(l) \in DOMAIN past /\ LastAt(l) = past[LastMount(l)].volume
        /\ past[LastMount(l)].letter = l
    BY <1>1, LastAtIs
  <1> QED
    BY <1>1, <1>2, <1>3 DEF MountedIds

\* A volume that is opened is one that is mounted, now.
LEMMA BrowseStep ==
    ASSUME WindowsInv, NEW l \in Letters, Browse(l)
    PROVE  WindowsInv'
  <1>1. /\ at[l] # None
        /\ hive' = [hive EXCEPT !.user = Write(hive.user, UserEntry(IdOf[at[l]], Len(past)))]
        /\ at' = at /\ past' = past /\ cached' = cached /\ collected' = collected
    BY DEF Browse
  <1>2. Len(past) \in 0..MaxMounts /\ IdOf[at[l]] \in MountedIds
    BY <1>1, AtIsLast
  <1>3. PICK new : new = UserEntry(IdOf[at[l]], Len(past))
    OBVIOUS
  <1>4. new \in UserMayHold
    BY <1>2, <1>3 DEF UserMayHold
  <1>5. KeysAreWritten
    BY DEF WindowsInv
  <1>6. IsList(hive.user) /\ Range(hive.user) \subseteq Range(StrayUser) \cup UserMayHold
    BY <1>5, Zenon DEF KeysAreWritten
  <1>7. \A e \in Range(hive.user) : SameName(e.name, new.name) => e.name = new.name
    <2> TAKE e \in Range(hive.user)
    <2> SUFFICES ASSUME SameName(e.name, new.name)
                 PROVE  e.name = new.name
      OBVIOUS
    <2>1. CASE e \in Range(StrayUser)
      <3>1. e.name.kind # "braced"
        BY <2>1, StraysAreNoVolumes
      <3> QED
        BY <1>3, <3>1 DEF SameName, UserEntry, Name
    <2>2. CASE e \in UserMayHold
      BY <1>3, <2>2 DEF UserMayHold, SameName, UserEntry, Name
    <2> QED
      BY <1>6, <2>1, <2>2
  <1>8. new = [new EXCEPT !.name = new.name]
    BY <1>3 DEF UserEntry
  <1>9. PICK u : u = Write(hive.user, new)
    OBVIOUS
  <1>10. /\ IsList(u)
         /\ Range(u) = {e \in Range(hive.user) : ~SameName(e.name, new.name)} \cup {new}
    BY <1>6, <1>7, <1>8, <1>9, WriteKeeps
  <1>11. Range(u) \subseteq Range(StrayUser) \cup UserMayHold
    BY <1>4, <1>6, <1>10
  <1>12. \A k : LastAt(k)' = LastAt(k)
    BY <1>1 DEF LastAt, LastMount, MountsAt
  <1>13. MountedHolds' = MountedHolds /\ UserMayHold' = UserMayHold
    BY <1>1, <1>12
       DEF MountedHolds, MountedIds, UserMayHold, LetterEntry, VolumeEntry, UserEntry, Name
  <1>14. CacheHolds' = CacheHolds /\ EmdHolds' = EmdHolds
    BY <1>1 DEF CacheHolds, EmdHolds, CacheEntry, EmdName, Name
  <1>15. hive' = [mounted |-> hive.mounted, user |-> u, cache |-> hive.cache, emd |-> hive.emd]
    BY <1>1, <1>3, <1>5, <1>9, HiveFields
  <1>16. /\ IsList(hive.mounted) /\ Once(hive.mounted)
         /\ Range(hive.mounted) = Range(StrayMounts) \cup MountedHolds'
         /\ IsList(hive.cache) /\ Range(hive.cache) = Range(StrayLabels) \cup CacheHolds'
         /\ IsList(hive.emd) /\ Range(hive.emd) = Range(StrayEmd) \cup EmdHolds'
    BY <1>5, <1>13, <1>14, Zenon DEF KeysAreWritten
  <1>17. KeysAreWritten'
    BY <1>10, <1>11, <1>13, <1>15, <1>16, WrittenAgain
  <1> QED
    BY <1>1, <1>12, <1>17 DEF WindowsInv

\* The cached label becomes that of the letter's last mount, and no other changes.
LEMMA CacheStep ==
    ASSUME WindowsInv, NEW l \in Letters, Cache(l)
    PROVE  WindowsInv'
  <1>1. /\ at[l] # None
        /\ hive' = [hive EXCEPT !.cache = Write(hive.cache, CacheEntry(l, at[l]))]
        /\ cached' = [cached EXCEPT ![l] = LastMount(l)]
        /\ at' = at /\ past' = past /\ collected' = collected
    BY DEF Cache
  <1>2. /\ past \in Seq(Mounts) /\ LastMount(l) \in DOMAIN past
        /\ at[l] = past[LastMount(l)].volume /\ past[LastMount(l)].letter = l
    BY <1>1, AtIsLast
  <1>3. LastMount(l) \in 0..Len(past) /\ LastMount(l) # 0
    <2>1. LastMount(l) \in 1..Len(past)
      BY <1>2
    <2> QED
      BY <2>1, SMT
  <1>4. cached \in [Letters -> 0..Len(past)]
    BY DEF WindowsInv
  <1>5. /\ cached' \in [Letters -> 0..Len(past)] /\ cached'[l] = LastMount(l)
        /\ \A k \in Letters \ {l} : cached'[k] = cached[k]
    BY <1>1, <1>3, <1>4
  <1>6. \A k \in Letters : cached'[k] # 0 => past[cached'[k]].letter = k
    BY <1>2, <1>5 DEF WindowsInv
  <1>7. PICK new : new = CacheEntry(l, at[l])
    OBVIOUS
  <1>8. KeysAreWritten
    BY DEF WindowsInv
  <1>9. IsList(hive.cache) /\ Range(hive.cache) = Range(StrayLabels) \cup CacheHolds
    BY <1>8, Zenon DEF KeysAreWritten
  <1>10. \A e \in CacheHolds : SameName(e.name, new.name) => e.name = new.name
    BY <1>7 DEF CacheHolds, CacheEntry, SameName, Name
  <1>11. \A e \in Range(StrayLabels) : ~SameName(e.name, new.name)
    BY <1>7, StraysAreNoVolumes DEF CacheEntry
  <1>12. new = [new EXCEPT !.name = new.name]
    BY <1>7 DEF CacheEntry
  <1>13. PICK c : c = Write(hive.cache, new)
    OBVIOUS
  <1>14. /\ IsList(c)
         /\ Range(c) = {e \in Range(hive.cache) : ~SameName(e.name, new.name)} \cup {new}
    BY <1>9, <1>10, <1>11, <1>12, <1>13, WriteKeeps
  <1>15. CacheHolds' = {e \in CacheHolds : ~SameName(e.name, new.name)} \cup {new}
    <2>1. CacheHolds' =
            {CacheEntry(k, past[cached'[k]].volume) : k \in {k \in Letters : cached'[k] # 0}}
      BY <1>1 DEF CacheHolds, CacheEntry, Name
    <2>2. new = CacheEntry(l, past[cached'[l]].volume) /\ cached'[l] # 0
      BY <1>2, <1>3, <1>5, <1>7
    <2>3. \A k, v : SameName(CacheEntry(k, v).name, new.name) <=> k = l
      BY <1>7 DEF CacheEntry, SameName, Name
    <2>4. ASSUME NEW e \in CacheHolds, ~SameName(e.name, new.name)
          PROVE  e \in CacheHolds'
      <3>1. PICK k \in Letters : cached[k] # 0 /\ e = CacheEntry(k, past[cached[k]].volume)
        BY DEF CacheHolds
      <3>2. k # l
        BY <2>3, <2>4, <3>1
      <3> QED
        BY <1>5, <2>1, <3>1, <3>2
    <2>5. ASSUME NEW e \in CacheHolds'
          PROVE  e \in {e1 \in CacheHolds : ~SameName(e1.name, new.name)} \cup {new}
      <3>1. PICK k \in Letters : cached'[k] # 0 /\ e = CacheEntry(k, past[cached'[k]].volume)
        BY <2>1
      <3>2. CASE k = l
        BY <2>2, <3>1, <3>2
      <3>3. CASE k # l
        <4>1. e \in CacheHolds
          BY <1>5, <3>1, <3>3 DEF CacheHolds
        <4> QED
          BY <2>3, <3>1, <3>3, <4>1
      <3> QED
        BY <3>2, <3>3
    <2>6. new \in CacheHolds'
      BY <2>1, <2>2
    <2> QED
      BY <2>4, <2>5, <2>6
  <1>16. Range(c) = Range(StrayLabels) \cup CacheHolds'
    BY <1>9, <1>11, <1>14, <1>15
  <1>17. \A k : LastAt(k)' = LastAt(k)
    BY <1>1 DEF LastAt, LastMount, MountsAt
  <1>18. MountedHolds' = MountedHolds /\ UserMayHold' = UserMayHold /\ EmdHolds' = EmdHolds
    BY <1>1, <1>17
       DEF MountedHolds, MountedIds, UserMayHold, LetterEntry, VolumeEntry, UserEntry, Name,
           EmdHolds, EmdName
  <1>19. hive' = [mounted |-> hive.mounted, user |-> hive.user, cache |-> c, emd |-> hive.emd]
    BY <1>1, <1>7, <1>8, <1>13, HiveFields
  <1>20. /\ IsList(hive.mounted) /\ Once(hive.mounted)
         /\ Range(hive.mounted) = Range(StrayMounts) \cup MountedHolds'
         /\ IsList(hive.user) /\ Range(hive.user) \subseteq Range(StrayUser) \cup UserMayHold'
         /\ IsList(hive.emd) /\ Range(hive.emd) = Range(StrayEmd) \cup EmdHolds'
    BY <1>8, <1>18, Zenon DEF KeysAreWritten
  <1>21. KeysAreWritten'
    BY <1>14, <1>16, <1>19, <1>20, WrittenAgain
  <1> QED
    BY <1>1, <1>5, <1>6, <1>17, <1>21 DEF WindowsInv

\* A step that leaves the hives alone.
LEMMA HivesStand ==
    ASSUME WindowsInv, UNCHANGED windows
    PROVE  WindowsInv'
  <1>1. /\ hive' = hive /\ at' = at /\ past' = past /\ cached' = cached
        /\ collected' = collected
    BY DEF windows
  <1>2. \A k : LastAt(k)' = LastAt(k)
    BY <1>1 DEF LastAt, LastMount, MountsAt
  <1>3. MountedHolds' = MountedHolds /\ UserMayHold' = UserMayHold
    BY <1>1, <1>2
       DEF MountedHolds, MountedIds, UserMayHold, LetterEntry, VolumeEntry, UserEntry, Name
  <1>4. CacheHolds' = CacheHolds /\ EmdHolds' = EmdHolds
    BY <1>1 DEF CacheHolds, EmdHolds, CacheEntry, EmdName, Name
  <1>5. KeysAreWritten'
    <2>1. KeysAreWritten
      BY DEF WindowsInv
    <2> QED
      BY <1>1, <1>3, <1>4, <2>1 DEF KeysAreWritten, IsList, Once, Range
  <1> QED
    BY <1>1, <1>2, <1>5 DEF WindowsInv

\* Before the hives are taken no reader has started, whatever is written.
LEMMA NotStarted ==
    ASSUME VolumesInv, WindowsInv', ~collected, UNCHANGED scans
    PROVE  AtStart'
  <1>1. Mounted!StartScan /\ User!StartScan /\ Cached!StartScan /\ Emd!StartScan
    BY DEF VolumesInv, ReadersInv
  <1>2. Mounted!StartScan' /\ User!StartScan' /\ Cached!StartScan' /\ Emd!StartScan'
    BY <1>1 DEF scans, Mounted!StartScan, User!StartScan, Cached!StartScan, Emd!StartScan
  <1>3. IsList(hive.mounted)' /\ IsList(hive.user)' /\ IsList(hive.cache)' /\ IsList(hive.emd)'
    BY Zenon DEF WindowsInv, KeysAreWritten
  <1> QED
    BY <1>2, <1>3 DEF AtStart

\* The scan of MountedDevices, while another reader reads.
LEMMA MountedStands ==
    ASSUME Mounted!Scanning, IsList(volumes),
           hive' = hive, UNCHANGED <<mountedRead, volumes>>
    PROVE  Mounted!Scanning' /\ IsList(volumes)'
  <1>1. Scan(Mounted!Decoded, Len(hive.mounted), mountedRead, volumes)
    BY MountedAgrees
  <1>2. Mounted!Decoded' = Mounted!Decoded
    BY DEF Mounted!Decoded
  <1> QED
    BY <1>1, <1>2
       DEF Mounted!Scanning, Mounted!ScanIsFaithful, Mounted!IsDecoding, Scan, Faithful, Selects

\* The scan of MountPoints2, while another reader reads.
LEMMA UserStands ==
    ASSUME User!Scanning, IsList(userMounts),
           hive' = hive, UNCHANGED <<userRead, userMounts>>
    PROVE  User!Scanning' /\ IsList(userMounts)'
  <1>1. Scan(User!Decoded, Len(hive.user), userRead, userMounts)
    BY UserAgrees
  <1>2. User!Decoded' = User!Decoded
    BY DEF User!Decoded
  <1> QED
    BY <1>1, <1>2
       DEF User!Scanning, User!ScanIsFaithful, User!IsDecoding, Scan, Faithful, Selects

\* The scan of VolumeInfoCache, while another reader reads.
LEMMA CachedStands ==
    ASSUME Cached!Scanning, IsList(labels),
           hive' = hive, UNCHANGED <<cacheRead, labels>>
    PROVE  Cached!Scanning' /\ IsList(labels)'
  <1>1. Scan(Cached!Decoded, Len(hive.cache), cacheRead, labels)
    BY CachedAgrees
  <1>2. Cached!Decoded' = Cached!Decoded
    BY DEF Cached!Decoded
  <1> QED
    BY <1>1, <1>2
       DEF Cached!Scanning, Cached!ScanIsFaithful, Cached!IsDecoding, Scan, Faithful, Selects

\* The scan of EMDMgmt, while another reader reads.
LEMMA EmdStands ==
    ASSUME Emd!Scanning, IsList(emdVolumes),
           hive' = hive, UNCHANGED <<emdRead, emdVolumes>>
    PROVE  Emd!Scanning' /\ IsList(emdVolumes)'
  <1>1. Scan(Emd!Decoded, Len(hive.emd), emdRead, emdVolumes)
    BY EmdAgrees
  <1>2. Emd!Decoded' = Emd!Decoded
    BY DEF Emd!Decoded
  <1> QED
    BY <1>1, <1>2
       DEF Emd!Scanning, Emd!ScanIsFaithful, Emd!IsDecoding, Scan, Faithful, Selects

\* A reader's step: its own scan goes on, the others stand.
LEMMA ReaderStep ==
    ASSUME VolumesInv, UNCHANGED windows,
           \/ collected /\ (ReadMounted \/ ReadUser \/ ReadCache \/ ReadEmd)
           \/ UNCHANGED scans
    PROVE  ReadersInv'
  <1>1. hive' = hive /\ collected' = collected
    BY DEF windows
  <1>2. IsList(hive.mounted) /\ IsList(hive.user) /\ IsList(hive.cache) /\ IsList(hive.emd)
    BY Zenon DEF VolumesInv, WindowsInv, KeysAreWritten
  <1>3. /\ IsList(volumes) /\ IsList(userMounts) /\ IsList(labels) /\ IsList(emdVolumes)
        /\ Mounted!Scanning /\ User!Scanning /\ Cached!Scanning /\ Emd!Scanning
    BY DEF VolumesInv, ReadersInv
  <1>4. Mounted!Scanning' /\ IsList(volumes)'
    <2>1. CASE UNCHANGED <<mountedRead, volumes>>
      BY <1>1, <1>3, <2>1, MountedStands
    <2>2. CASE Mounted!ReadEntry
      BY <1>1, <1>2, <1>3, <2>2, MountedStep
    <2> QED
      BY <2>1, <2>2 DEF ReadMounted, ReadUser, ReadCache, ReadEmd, scans
  <1>5. User!Scanning' /\ IsList(userMounts)'
    <2>1. CASE UNCHANGED <<userRead, userMounts>>
      BY <1>1, <1>3, <2>1, UserStands
    <2>2. CASE User!ReadEntry
      BY <1>1, <1>2, <1>3, <2>2, UserStep
    <2> QED
      BY <2>1, <2>2 DEF ReadMounted, ReadUser, ReadCache, ReadEmd, scans
  <1>6. Cached!Scanning' /\ IsList(labels)'
    <2>1. CASE UNCHANGED <<cacheRead, labels>>
      BY <1>1, <1>3, <2>1, CachedStands
    <2>2. CASE Cached!ReadEntry
      BY <1>1, <1>2, <1>3, <2>2, CachedStep
    <2> QED
      BY <2>1, <2>2 DEF ReadMounted, ReadUser, ReadCache, ReadEmd, scans
  <1>7. Emd!Scanning' /\ IsList(emdVolumes)'
    <2>1. CASE UNCHANGED <<emdRead, emdVolumes>>
      BY <1>1, <1>3, <2>1, EmdStands
    <2>2. CASE Emd!ReadEntry
      BY <1>1, <1>2, <1>3, <2>2, EmdStep
    <2> QED
      BY <2>1, <2>2 DEF ReadMounted, ReadUser, ReadCache, ReadEmd, scans
  <1>8. ~collected' => (Mounted!StartScan /\ User!StartScan /\ Cached!StartScan /\ Emd!StartScan)'
    BY <1>1 DEF VolumesInv, ReadersInv, scans,
                Mounted!StartScan, User!StartScan, Cached!StartScan, Emd!StartScan
  <1> QED
    BY <1>4, <1>5, <1>6, <1>7, <1>8 DEF ReadersInv

\* The keys hold what the hives were installed with.
LEMMA VolumesInit == Init => WindowsInv /\ AtStart
  <1> SUFFICES ASSUME Init
               PROVE  WindowsInv /\ AtStart
    OBVIOUS
  <1>1. /\ hive = [mounted |-> StrayMounts, user |-> StrayUser, cache |-> StrayLabels,
                   emd |-> StrayEmd]
        /\ at = [l \in Letters |-> None] /\ past = <<>>
        /\ cached = [l \in Letters |-> 0] /\ collected = FALSE
    BY DEF Init
  <1>2. past \in Seq(Mounts) /\ Len(past) = 0 /\ DOMAIN past = {}
    BY <1>1
  <1>3. \A l : LastAt(l) = None
    BY <1>2 DEF LastAt, MountsAt
  <1>4. MountedIds = {} /\ MountedHolds = {} /\ UserMayHold = {}
    BY <1>2, <1>3 DEF MountedIds, MountedHolds, UserMayHold
  <1>5. CacheHolds = {} /\ EmdHolds = {}
    BY <1>1, <1>2 DEF CacheHolds, EmdHolds
  <1>6. hive.mounted = StrayMounts /\ hive.user = StrayUser /\ hive.cache = StrayLabels
        /\ hive.emd = StrayEmd
    BY <1>1
  <1>7. IsList(StrayMounts) /\ IsList(StrayUser) /\ IsList(StrayLabels) /\ IsList(StrayEmd)
        /\ Once(StrayMounts)
    BY StraysAreNoVolumes
  <1>8. hive = [mounted |-> hive.mounted, user |-> hive.user, cache |-> hive.cache,
                emd |-> hive.emd]
    BY <1>1
  <1>9. KeysAreWritten
    BY <1>4, <1>5, <1>6, <1>7, <1>8, Zenon DEF KeysAreWritten
  <1>10. WindowsInv
    <2>1. Len(past) <= MaxMounts
      BY <1>2, BoundIsNat
    <2>2. at \in [Letters -> Optional(Disks)] /\ \A l \in Letters : at[l] = None
      BY <1>1 DEF Optional
    <2>3. cached \in [Letters -> 0..Len(past)] /\ \A l \in Letters : cached[l] = 0
      BY <1>1, <1>2
    <2> QED
      BY <1>1, <1>2, <1>9, <2>1, <2>2, <2>3, Zenon DEF WindowsInv, Mounts
  <1>11. AtStart
    BY <1>6, <1>7 DEF Init, AtStart
  <1> QED
    BY <1>10, <1>11

\* The hives hold what Windows wrote of the mounts, and the records of each
\* reader are those of the entries read so far that decode.
THEOREM VolumesCorrect == Spec => []VolumesInv
  <1>1. Init => VolumesInv
    BY VolumesInit, ScansStart DEF VolumesInv
  <1>2. VolumesInv /\ [Next]_vars => VolumesInv'
    <2> SUFFICES ASSUME VolumesInv, [Next]_vars
                 PROVE  VolumesInv'
      OBVIOUS
    <2>1. AtStart' => ReadersInv'
      BY ScansStart, PTL
    <2>2. WindowsInv
      BY DEF VolumesInv
    <2>3. ASSUME NEW v \in Disks, NEW l \in Letters, Mount(v, l)
          PROVE  VolumesInv'
      BY <2>1, <2>2, <2>3, MountStep, NotStarted DEF Mount, VolumesInv
    <2>4. ASSUME Collect \/ \E l \in Letters : Unmount(l)
          PROVE  VolumesInv'
      BY <2>1, <2>2, <2>4, UnmountStep, NotStarted DEF Unmount, Collect, VolumesInv
    <2>5. ASSUME NEW l \in Letters, Browse(l)
          PROVE  VolumesInv'
      BY <2>1, <2>2, <2>5, BrowseStep, NotStarted DEF Browse, VolumesInv
    <2>6. ASSUME NEW l \in Letters, Cache(l)
          PROVE  VolumesInv'
      BY <2>1, <2>2, <2>6, CacheStep, NotStarted DEF Cache, VolumesInv
    <2>7. ASSUME ReadMounted \/ ReadUser \/ ReadCache \/ ReadEmd \/ UNCHANGED vars
          PROVE  VolumesInv'
      BY <2>2, <2>7, HivesStand, ReaderStep
         DEF VolumesInv, ReadMounted, ReadUser, ReadCache, ReadEmd, vars
    <2> QED
      BY <2>3, <2>4, <2>5, <2>6, <2>7 DEF Next
  <1> QED
    BY <1>1, <1>2, PTL DEF Spec

\* The records of every reader are those of the entries it has read which
\* decode, each once and in the hive's order (the loops of the four parse
\* functions).
THEOREM ScansFaithful ==
    Spec => [](/\ Mounted!ScanIsFaithful /\ User!ScanIsFaithful
               /\ Cached!ScanIsFaithful /\ Emd!ScanIsFaithful)
  <1>1. VolumesInv => /\ Mounted!ScanIsFaithful /\ User!ScanIsFaithful
                      /\ Cached!ScanIsFaithful /\ Emd!ScanIsFaithful
    BY DEF VolumesInv, ReadersInv, Mounted!Scanning, User!Scanning, Cached!Scanning, Emd!Scanning
  <1> QED
    BY <1>1, VolumesCorrect, PTL

-----------------------------------------------------------------------------
(***************************************************************************)
(* What the records are.                                                   *)
(***************************************************************************)

\* A letter, a GUID and an MBR record that were decoded are not None.
LEMMA DecodedIsSome ==
    /\ \A l \in Letters : Upper(l) # None
    /\ \A id \in Ids : Guid(id) # None /\ [sig |-> id.sig, offset |-> id.offset] # None
  <1>1. ASSUME NEW l \in Letters
        PROVE  Upper(l) # None
    <2>1. Upper(l) \in [of : Letters \cup Ids, case : {"upper", "lower"}]
      BY DEF Upper
    <2> QED
      BY <2>1, NoneIsNoData, Zenon
  <1>2. ASSUME NEW id \in Ids
        PROVE  Guid(id) # None /\ [sig |-> id.sig, offset |-> id.offset] # None
    <2>1. Guid(id) \in [of : Letters \cup Ids, case : {"upper", "lower"}]
      BY DEF Guid
    <2>2. [sig |-> id.sig, offset |-> id.offset] \in
             [sig : {i.sig : i \in Ids}, offset : {i.offset : i \in Ids}]
      OBVIOUS
    <2> QED
      BY <2>1, <2>2, NoneIsNoData, Zenon
  <1> QED
    BY <1>1, <1>2

\* What the entries of a letter decode to.
LEMMA LetterDecodes ==
    ASSUME NEW l \in Letters, NEW v \in Disks
    PROVE  /\ MountedVolume(LetterEntry(l, v)) =
                 IF IdOf[v].len = 12
                 THEN [drive_letter |-> Upper(l), volume_guid |-> None,
                       disk_signature |-> IdOf[v].sig, partition_offset |-> IdOf[v].offset]
                 ELSE None
           /\ VolumeLabel(CacheEntry(l, v)) =
                 IF LabelOf[v] = <<>> THEN None
                 ELSE [drive_letter |-> Upper(l), volume_label |-> LabelOf[v]]
  <1>1. Upper(l) # None
    BY DecodedIsSome
  <1>2. MountedVolume(LetterEntry(l, v)) =
                 IF IdOf[v].len = 12
                 THEN [drive_letter |-> Upper(l), volume_guid |-> None,
                       disk_signature |-> IdOf[v].sig, partition_offset |-> IdOf[v].offset]
                 ELSE None
    <2>1. dos_drive_letter(LetterEntry(l, v).name) = Upper(l)
      BY DEF dos_drive_letter, LetterEntry, Name, to_ascii_uppercase, Upper
    <2>2. volume_guid(LetterEntry(l, v).name) = None
      BY DEF volume_guid, LetterEntry, Name
    <2>3. decode_mbr(LetterEntry(l, v).raw) =
             IF IdOf[v].len = 12 THEN [sig |-> IdOf[v].sig, offset |-> IdOf[v].offset] ELSE None
      BY DEF decode_mbr, LetterEntry
    <2>4. IdOf[v] \in Ids
      BY DEF Ids
    <2> QED
      BY <1>1, <2>1, <2>2, <2>3, <2>4, DecodedIsSome DEF MountedVolume
  <1>3. VolumeLabel(CacheEntry(l, v)) =
                 IF LabelOf[v] = <<>> THEN None
                 ELSE [drive_letter |-> Upper(l), volume_label |-> LabelOf[v]]
    <2>1. drive_letter(CacheEntry(l, v).name) = Upper(l)
      BY DEF drive_letter, CacheEntry, Name, to_ascii_uppercase, Upper
    <2>2. string_value(CacheEntry(l, v).label) = IF LabelOf[v] = <<>> THEN None ELSE LabelOf[v]
      BY DEF string_value, CacheEntry
    <2>3. LabelOf[v] # None
      BY NamesAreText, NoneIsNoData
    <2> QED
      BY <1>1, <2>1, <2>2, <2>3 DEF VolumeLabel
  <1> QED
    BY <1>2, <1>3

\* What the entry of a volume's GUID decodes to.
LEMMA GuidDecodes ==
    ASSUME NEW id \in Ids
    PROVE  MountedVolume(VolumeEntry(id)) =
                 IF id.len = 12
                 THEN [drive_letter |-> None, volume_guid |-> Guid(id),
                       disk_signature |-> id.sig, partition_offset |-> id.offset]
                 ELSE None
  <1>1. dos_drive_letter(VolumeEntry(id).name) = None
    BY DEF dos_drive_letter, VolumeEntry, Name
  <1>2. volume_guid(VolumeEntry(id).name) = Guid(id)
    BY DEF volume_guid, VolumeEntry, Name, to_ascii_lowercase, Guid
  <1>3. decode_mbr(VolumeEntry(id).raw) =
           IF id.len = 12 THEN [sig |-> id.sig, offset |-> id.offset] ELSE None
    BY DEF decode_mbr, VolumeEntry
  <1> QED
    BY <1>1, <1>2, <1>3, DecodedIsSome DEF MountedVolume

\* The records of a scan, and the entry each is decoded from.
LEMMA RecordsOf ==
    ASSUME NEW dec, NEW len \in Nat, NEW n, NEW out, Scan(dec, len, n, out)
    PROVE  /\ \E from \in [DOMAIN out -> 1..len] :
                 \A i, j \in DOMAIN out : /\ out[i] = dec[from[i]] /\ out[i] # None
                                          /\ from[i] = from[j] => i = j
           /\ n = len => \A e \in 1..len : dec[e] # None => dec[e] \in Range(out)
  <1>1. DOMAIN out = 1..Len(out) /\ Len(out) \in Nat
    BY DEF Scan, IsList
  <1>2. PICK from \in [1..Len(out) -> 1..n] : Selects(from, dec, n, out)
    BY DEF Scan, Faithful
  <1>3. n \in 0..len
    BY DEF Scan
  <1>4. \A e \in 1..n : e \in 1..len
    BY <1>3, SMT
  <1>5. from \in [DOMAIN out -> 1..len]
    BY <1>1, <1>2, <1>4
  <1>6. ASSUME NEW i \in DOMAIN out, NEW j \in DOMAIN out, from[i] = from[j]
        PROVE  i = j
    <2>1. from[i] \in Int /\ from[j] \in Int /\ i \in Int /\ j \in Int
      BY <1>1, <1>2
    <2>2. ~(i < j) /\ ~(j < i)
      BY <1>1, <1>2, <1>6, <2>1 DEF Selects
    <2> QED
      BY <2>1, <2>2, SMT
  <1>7. \A i \in DOMAIN out : out[i] = dec[from[i]] /\ out[i] # None
    BY <1>1, <1>2 DEF Selects, Scan
  <1>8. ASSUME n = len, NEW e \in 1..len, dec[e] # None
        PROVE  dec[e] \in Range(out)
    <2>1. PICK i \in 1..Len(out) : from[i] = e
      BY <1>2, <1>8 DEF Selects
    <2> QED
      BY <1>1, <1>7, <2>1 DEF Range
  <1> QED
    BY <1>5, <1>6, <1>7, <1>8

\* Those of MountedDevices: of the letters' last volumes and the GUIDs, one of
\* each entry.
LEMMA VolumesAre ==
    ASSUME VolumesInv
    PROVE  /\ \E entry \in [DOMAIN volumes -> MountedHolds] :
                 \A i, j \in DOMAIN volumes :
                    /\ volumes[i] = MountedVolume(entry[i]) /\ volumes[i] # None
                    /\ SameName(entry[i].name, entry[j].name) => i = j
           /\ Mounted!Finished =>
                 \A e \in MountedHolds :
                    MountedVolume(e) # None => MountedVolume(e) \in Range(volumes)
  <1>1. KeysAreWritten /\ IsList(volumes) /\ Mounted!Scanning
    BY DEF VolumesInv, WindowsInv, ReadersInv
  <1>2. /\ IsList(hive.mounted) /\ Once(hive.mounted)
        /\ Range(hive.mounted) = Range(StrayMounts) \cup MountedHolds
    BY <1>1, Zenon DEF KeysAreWritten
  <1>3. PICK len \in Nat : len = Len(hive.mounted) /\ DOMAIN hive.mounted = 1..len
    BY <1>2 DEF IsList
  <1>4. PICK dec : dec = Mounted!Decoded
    OBVIOUS
  <1>5. \A e \in 1..len : dec[e] = MountedVolume(hive.mounted[e])
    BY <1>3, <1>4 DEF Mounted!Decoded
  <1>6. Scan(dec, len, mountedRead, volumes)
    BY <1>1, <1>3, <1>4, MountedAgrees
  <1>7. PICK from \in [DOMAIN volumes -> 1..len] :
            \A i, j \in DOMAIN volumes : /\ volumes[i] = dec[from[i]] /\ volumes[i] # None
                                         /\ from[i] = from[j] => i = j
    BY <1>6, RecordsOf
  <1>8. \A e \in 1..len : dec[e] # None => hive.mounted[e] \in MountedHolds
    <2> TAKE e \in 1..len
    <2>1. hive.mounted[e] \in Range(StrayMounts) \cup MountedHolds
      BY <1>2, <1>3 DEF Range
    <2> QED
      BY <1>5, <2>1, StraysAreNoVolumes
  <1>9. PICK entry : entry = [i \in DOMAIN volumes |-> hive.mounted[from[i]]]
    OBVIOUS
  <1>10. entry \in [DOMAIN volumes -> MountedHolds]
    BY <1>7, <1>8, <1>9
  <1>11. ASSUME NEW i \in DOMAIN volumes, NEW j \in DOMAIN volumes
         PROVE  /\ volumes[i] = MountedVolume(entry[i]) /\ volumes[i] # None
                /\ SameName(entry[i].name, entry[j].name) => i = j
    <2>1. from[i] \in 1..len /\ from[j] \in 1..len
      BY <1>7
    <2>2. entry[i] = hive.mounted[from[i]] /\ entry[j] = hive.mounted[from[j]]
      BY <1>9
    <2> QED
      BY <1>2, <1>3, <1>5, <1>7, <2>1, <2>2 DEF Once
  <1>12. ASSUME Mounted!Finished, NEW e \in MountedHolds, MountedVolume(e) # None
         PROVE  MountedVolume(e) \in Range(volumes)
    <2>1. PICK k \in 1..len : e = hive.mounted[k]
      BY <1>2, <1>3 DEF Range
    <2>2. mountedRead = len
      BY <1>3, <1>12 DEF Mounted!Finished
    <2>3. dec[k] = MountedVolume(e)
      BY <1>5, <2>1
    <2> QED
      BY <1>6, <1>12, <2>2, <2>3, RecordsOf
  <1> QED
    BY <1>10, <1>11, <1>12

\* Those of MountPoints2 are of volumes that were mounted.
LEMMA UserMountsAre ==
    ASSUME VolumesInv, NEW u \in Range(userMounts)
    PROVE  \E id \in MountedIds, n \in 0..MaxMounts :
              u = [volume_guid |-> Guid(id), last_mounted |-> n]
  <1>1. KeysAreWritten /\ IsList(userMounts) /\ User!Scanning /\ past \in Seq(Mounts)
    BY DEF VolumesInv, WindowsInv, ReadersInv, Mounts
  <1>2. /\ IsList(hive.user)
        /\ Range(hive.user) \subseteq Range(StrayUser) \cup UserMayHold
    BY <1>1, Zenon DEF KeysAreWritten
  <1>3. PICK len \in Nat : len = Len(hive.user) /\ DOMAIN hive.user = 1..len
    BY <1>2 DEF IsList
  <1>4. PICK dec : dec = User!Decoded
    OBVIOUS
  <1>5. Scan(dec, len, userRead, userMounts)
    BY <1>1, <1>3, <1>4, UserAgrees
  <1>6. PICK e \in 1..len : u = UserMount(hive.user[e]) /\ u # None
    <2>1. PICK from \in [DOMAIN userMounts -> 1..len] :
            \A i \in DOMAIN userMounts : userMounts[i] = dec[from[i]] /\ userMounts[i] # None
      BY <1>5, RecordsOf
    <2>2. PICK i \in DOMAIN userMounts : u = userMounts[i]
      BY DEF Range
    <2>3. from[i] \in 1..len /\ dec[from[i]] = UserMount(hive.user[from[i]])
      BY <1>3, <1>4, <2>1 DEF User!Decoded
    <2> QED
      BY <2>1, <2>2, <2>3
  <1>7. hive.user[e] \in Range(StrayUser) \cup UserMayHold
    BY <1>2, <1>3 DEF Range
  <1>8. hive.user[e] \notin Range(StrayUser)
    BY <1>6, StraysAreNoVolumes DEF UserMount
  <1>9. PICK id \in MountedIds, n \in 0..MaxMounts : hive.user[e] = UserEntry(id, n)
    BY <1>7, <1>8 DEF UserMayHold
  <1>10. u = [volume_guid |-> Guid(id), last_mounted |-> n]
    BY <1>6, <1>9 DEF UserMount, UserEntry, Name, to_ascii_lowercase, Guid
  <1> QED
    BY <1>10

\* Those of VolumeInfoCache are the labels Windows cached.
LEMMA LabelsAre ==
    ASSUME VolumesInv
    PROVE  /\ \A x \in Range(labels) : x # None /\ \E e \in CacheHolds : x = VolumeLabel(e)
           /\ Cached!Finished =>
                 \A e \in CacheHolds : VolumeLabel(e) # None => VolumeLabel(e) \in Range(labels)
  <1>1. KeysAreWritten /\ IsList(labels) /\ Cached!Scanning
    BY DEF VolumesInv, WindowsInv, ReadersInv
  <1>2. /\ IsList(hive.cache)
        /\ Range(hive.cache) = Range(StrayLabels) \cup CacheHolds
    BY <1>1, Zenon DEF KeysAreWritten
  <1>3. PICK len \in Nat : len = Len(hive.cache) /\ DOMAIN hive.cache = 1..len
    BY <1>2 DEF IsList
  <1>4. PICK dec : dec = Cached!Decoded
    OBVIOUS
  <1>5. \A e \in 1..len : dec[e] = VolumeLabel(hive.cache[e])
    BY <1>3, <1>4 DEF Cached!Decoded
  <1>6. Scan(dec, len, cacheRead, labels)
    BY <1>1, <1>3, <1>4, CachedAgrees
  <1>7. ASSUME NEW x \in Range(labels)
        PROVE  x # None /\ \E e \in CacheHolds : x = VolumeLabel(e)
    <2>1. PICK from \in [DOMAIN labels -> 1..len] :
            \A i \in DOMAIN labels : labels[i] = dec[from[i]] /\ labels[i] # None
      BY <1>6, RecordsOf
    <2>2. PICK i \in DOMAIN labels : x = labels[i]
      BY DEF Range
    <2>3. from[i] \in 1..len
      BY <2>1
    <2>4. x = VolumeLabel(hive.cache[from[i]]) /\ x # None
      BY <1>5, <2>1, <2>2, <2>3
    <2>5. hive.cache[from[i]] \in Range(StrayLabels) \cup CacheHolds
      BY <1>2, <1>3, <2>3 DEF Range
    <2> QED
      BY <2>4, <2>5, StraysAreNoVolumes
  <1>8. ASSUME Cached!Finished, NEW e \in CacheHolds, VolumeLabel(e) # None
        PROVE  VolumeLabel(e) \in Range(labels)
    <2>1. PICK k \in 1..len : e = hive.cache[k]
      BY <1>2, <1>3 DEF Range
    <2>2. cacheRead = len
      BY <1>3, <1>8 DEF Cached!Finished
    <2>3. dec[k] = VolumeLabel(e)
      BY <1>5, <2>1
    <2> QED
      BY <1>6, <1>8, <2>2, <2>3, RecordsOf
  <1> QED
    BY <1>7, <1>8

-----------------------------------------------------------------------------
(***************************************************************************)
(* The properties.                                                         *)
(***************************************************************************)

\* The records of MountedDevices, each as one of a letter or of a GUID.
LetterRecord(l) ==
    [drive_letter |-> Upper(l), volume_guid |-> None,
     disk_signature |-> IdOf[LastAt(l)].sig, partition_offset |-> IdOf[LastAt(l)].offset]
GuidRecord(id) ==
    [drive_letter |-> None, volume_guid |-> Guid(id),
     disk_signature |-> id.sig, partition_offset |-> id.offset]

\* Ids, volumes and mounts that the state speaks of are those of the machine.
LEMMA WindowsKnows ==
    ASSUME VolumesInv
    PROVE  /\ MountedIds \subseteq Ids
           /\ \A l \in Letters : LastAt(l) # None => LastAt(l) \in Disks
           /\ \A l \in Letters : cached[l] # 0 =>
                 /\ cached[l] \in DOMAIN past /\ past[cached[l]].volume \in Disks
                 /\ past[cached[l]].letter = l
  <1>1. past \in Seq(Mounts) /\ DOMAIN past = 1..Len(past) /\ Len(past) \in Nat
    BY DEF VolumesInv, WindowsInv, Mounts
  <1>2. \A l \in Letters : LastAt(l) # None => LastAt(l) \in Disks
    BY <1>1, LastAtIs
  <1>3. ASSUME NEW l \in Letters, cached[l] # 0
        PROVE  /\ cached[l] \in DOMAIN past /\ past[cached[l]].volume \in Disks
               /\ past[cached[l]].letter = l
    <2>1. cached[l] \in 0..Len(past) /\ past[cached[l]].letter = l
      BY <1>3 DEF VolumesInv, WindowsInv
    <2>2. cached[l] \in 1..Len(past)
      BY <1>1, <1>3, <2>1, SMT
    <2>3. past[cached[l]] \in Mounts
      BY <1>1, <2>2
    <2> QED
      BY <1>1, <2>1, <2>2, <2>3 DEF Mounts
  <1> QED
    BY <1>1, <1>2, <1>3, NamesApart

\* A record of MountedDevices is a letter's, or a GUID's that was mounted.
LEMMA RecordIs ==
    ASSUME VolumesInv, NEW e \in MountedHolds, MountedVolume(e) # None
    PROVE  \/ \E l \in Letters : /\ HasMbr(LastAt(l)) /\ e = LetterEntry(l, LastAt(l))
                                 /\ MountedVolume(e) = LetterRecord(l)
           \/ \E id \in MountedIds : /\ id.len = 12 /\ e = VolumeEntry(id)
                                     /\ MountedVolume(e) = GuidRecord(id)
  <1>1. CASE \E l \in Letters : LastAt(l) # None /\ e = LetterEntry(l, LastAt(l))
    <2>1. PICK l \in Letters : LastAt(l) # None /\ e = LetterEntry(l, LastAt(l))
      BY <1>1
    <2>2. LastAt(l) \in Disks
      BY <2>1, WindowsKnows
    <2> QED
      BY <2>1, <2>2, LetterDecodes DEF HasMbr, LetterRecord
  <1>2. CASE \E id \in MountedIds : e = VolumeEntry(id)
    <2>1. PICK id \in MountedIds : e = VolumeEntry(id)
      BY <1>2
    <2>2. id \in Ids
      BY WindowsKnows
    <2> QED
      BY <2>1, <2>2, GuidDecodes DEF GuidRecord
  <1> QED
    BY <1>1, <1>2 DEF MountedHolds

\* The records are records.
LEMMA NoneIsNoRecord ==
    /\ \A l \in Letters : LastAt(l) \in Disks =>
          LetterRecord(l) \in VolumeRecords /\ LetterRecord(l) # None
    /\ \A id \in Ids : GuidRecord(id) \in VolumeRecords /\ GuidRecord(id) # None
  <1>1. ASSUME NEW l \in Letters, LastAt(l) \in Disks
        PROVE  LetterRecord(l) \in VolumeRecords
    <2>1. Upper(l) \in Optional({Upper(k) : k \in Letters}) /\ IdOf[LastAt(l)] \in Ids
      BY <1>1 DEF Optional, Ids
    <2>2. None \in Optional({Guid(id) : id \in Ids})
      BY DEF Optional
    <2> QED
      BY <2>1, <2>2 DEF LetterRecord, VolumeRecords
  <1>2. ASSUME NEW id \in Ids
        PROVE  GuidRecord(id) \in VolumeRecords
    <2>1. Guid(id) \in Optional({Guid(k) : k \in Ids})
      BY DEF Optional
    <2>2. None \in Optional({Upper(l) : l \in Letters})
      BY DEF Optional
    <2> QED
      BY <2>1, <2>2 DEF GuidRecord, VolumeRecords
  <1>3. None \notin VolumeRecords
    BY NoneIsNoData
  <1> QED
    BY <1>1, <1>2, <1>3

\* Which letter, which GUID and which data a record shows.
LEMMA RecordShows ==
    ASSUME VolumesInv, NEW r \in Range(volumes)
    PROVE  \/ \E l \in Letters : /\ HasMbr(LastAt(l)) /\ r = LetterRecord(l)
                                 /\ r.drive_letter = Upper(l) /\ r.volume_guid = None
                                 /\ IdOf[LastAt(l)] \in Ids
           \/ \E id \in MountedIds : /\ id.len = 12 /\ r = GuidRecord(id)
                                     /\ r.drive_letter = None /\ r.volume_guid = Guid(id)
                                     /\ id \in Ids
  <1>1. PICK i \in DOMAIN volumes : r = volumes[i]
    BY DEF Range
  <1>2. PICK e \in MountedHolds : r = MountedVolume(e) /\ r # None
    BY <1>1, VolumesAre
  <1>3. CASE \E l \in Letters : HasMbr(LastAt(l)) /\ r = LetterRecord(l)
    <2>1. PICK l \in Letters : HasMbr(LastAt(l)) /\ r = LetterRecord(l)
      BY <1>3
    <2>2. LastAt(l) \in Disks
      BY <2>1, WindowsKnows DEF HasMbr
    <2>3. r.drive_letter = Upper(l) /\ r.volume_guid = None
      BY <2>1 DEF LetterRecord
    <2> QED
      BY <2>1, <2>2, <2>3 DEF Ids
  <1>4. CASE \E id \in MountedIds : id.len = 12 /\ r = GuidRecord(id)
    <2>1. PICK id \in MountedIds : id.len = 12 /\ r = GuidRecord(id)
      BY <1>4
    <2>2. r.drive_letter = None /\ r.volume_guid = Guid(id) /\ id \in Ids
      BY <2>1, WindowsKnows DEF GuidRecord
    <2> QED
      BY <2>1, <2>2
  <1> QED
    BY <1>2, <1>3, <1>4, RecordIs

\* Once MountedDevices is read no record of those is missing.
LEMMA RecordsThere ==
    ASSUME VolumesInv, Mounted!Finished
    PROVE  /\ \A l \in Letters : HasMbr(LastAt(l)) => LetterRecord(l) \in Range(volumes)
           /\ \A id \in MountedIds : id.len = 12 => GuidRecord(id) \in Range(volumes)
  <1>1. ASSUME NEW l \in Letters, HasMbr(LastAt(l))
        PROVE  LetterRecord(l) \in Range(volumes)
    <2>1. LastAt(l) # None /\ LastAt(l) \in Disks /\ IdOf[LastAt(l)].len = 12
      BY <1>1, WindowsKnows DEF HasMbr
    <2>2. LetterEntry(l, LastAt(l)) \in MountedHolds
      BY <2>1 DEF MountedHolds
    <2>3. MountedVolume(LetterEntry(l, LastAt(l))) = LetterRecord(l)
      BY <2>1, LetterDecodes DEF LetterRecord
    <2>4. LetterRecord(l) # None
      BY <2>1, NoneIsNoRecord
    <2> QED
      BY <2>2, <2>3, <2>4, VolumesAre
  <1>2. ASSUME NEW id \in MountedIds, id.len = 12
        PROVE  GuidRecord(id) \in Range(volumes)
    <2>1. id \in Ids
      BY WindowsKnows
    <2>2. VolumeEntry(id) \in MountedHolds
      BY DEF MountedHolds
    <2>3. MountedVolume(VolumeEntry(id)) = GuidRecord(id)
      BY <1>2, <2>1, GuidDecodes DEF GuidRecord
    <2> QED
      BY <2>1, <2>2, <2>3, NoneIsNoRecord, VolumesAre
  <1> QED
    BY <1>1, <1>2

\* Two records of a letter would be of one entry, that of its last volume.
LEMMA LettersNamed == VolumesInv => LetterNamesLastVolume
  <1> SUFFICES ASSUME VolumesInv, Mounted!Finished, NEW l \in Letters,
                      NEW lettered,
                      lettered = {i \in DOMAIN volumes : volumes[i].drive_letter = Upper(l)}
               PROVE  IF HasMbr(LastAt(l))
                      THEN \E i \in lettered :
                              /\ lettered = {i}
                              /\ volumes[i].disk_signature = IdOf[LastAt(l)].sig
                              /\ volumes[i].partition_offset = IdOf[LastAt(l)].offset
                      ELSE lettered = {}
    BY DEF LetterNamesLastVolume
  <1>1. PICK entry \in [DOMAIN volumes -> MountedHolds] :
            \A i, j \in DOMAIN volumes :
               /\ volumes[i] = MountedVolume(entry[i]) /\ volumes[i] # None
               /\ SameName(entry[i].name, entry[j].name) => i = j
    BY VolumesAre
  <1>2. ASSUME NEW i \in lettered
        PROVE  /\ HasMbr(LastAt(l)) /\ volumes[i] = LetterRecord(l)
               /\ entry[i] = LetterEntry(l, LastAt(l))
    <2>1. entry[i] \in MountedHolds /\ volumes[i] = MountedVolume(entry[i]) /\ volumes[i] # None
      BY <1>1
    <2>2. CASE \E k \in Letters : /\ HasMbr(LastAt(k)) /\ entry[i] = LetterEntry(k, LastAt(k))
                                  /\ volumes[i] = LetterRecord(k)
      <3>1. PICK k \in Letters : /\ HasMbr(LastAt(k)) /\ entry[i] = LetterEntry(k, LastAt(k))
                                 /\ volumes[i] = LetterRecord(k)
        BY <2>2
      <3>2. Upper(k) = Upper(l)
        BY <3>1 DEF LetterRecord
      <3>3. k = l
        BY <3>2 DEF Upper
      <3> QED
        BY <3>1, <3>3
    <2>3. CASE \E id \in MountedIds : volumes[i] = GuidRecord(id)
      <3>1. volumes[i].drive_letter = None
        BY <2>3 DEF GuidRecord
      <3> QED
        BY <3>1, DecodedIsSome
    <2> QED
      BY <2>1, <2>2, <2>3, RecordIs
  <1>3. \A i, j \in lettered : i = j
    BY <1>1, <1>2 DEF SameName
  <1>4. CASE HasMbr(LastAt(l))
    <2>1. LetterRecord(l) \in Range(volumes)
      BY <1>4, RecordsThere
    <2>2. PICK i \in DOMAIN volumes : volumes[i] = LetterRecord(l)
      BY <2>1 DEF Range
    <2>3. /\ volumes[i].drive_letter = Upper(l)
          /\ volumes[i].disk_signature = IdOf[LastAt(l)].sig
          /\ volumes[i].partition_offset = IdOf[LastAt(l)].offset
      BY <2>2 DEF LetterRecord
    <2>4. i \in lettered /\ lettered = {i}
      BY <1>3, <2>3
    <2> QED
      BY <1>4, <2>3, <2>4
  <1>5. CASE ~HasMbr(LastAt(l))
    BY <1>2, <1>5
  <1> QED
    BY <1>4, <1>5

\* Once MountedDevices is read, each letter whose last volume has an MBR record has
\* one record, that volume's, and no other letter has any.
THEOREM LettersCorrect == Spec => []LetterNamesLastVolume
  BY LettersNamed, VolumesCorrect, PTL

\* The letters the bridge meets from a GUID are those whose last volume's data
\* is the GUID's (BridgeIsExact).
LEMMA BridgeMeets ==
    ASSUME VolumesInv, Mounted!Finished, NEW id \in MountedIds
    PROVE  LettersOf(Guid(id)) = {l \in Letters : HasMbr(LastAt(l)) /\ IdOf[LastAt(l)] = id}
  <1>1. id \in Ids /\ Guid(id) # None
    BY WindowsKnows, DecodedIsSome
  <1>2. ASSUME NEW l \in LettersOf(Guid(id))
        PROVE  l \in Letters /\ HasMbr(LastAt(l)) /\ IdOf[LastAt(l)] = id
    <2>1. l \in Letters
      BY DEF LettersOf
    <2>2. PICK a \in Range(volumes), b \in Range(volumes) :
             /\ a.volume_guid = Guid(id) /\ b.drive_letter = Upper(l)
             /\ a.disk_signature = b.disk_signature /\ a.partition_offset = b.partition_offset
      BY DEF LettersOf
    <2>3. id.len = 12 /\ a = GuidRecord(id)
      <3>1. PICK other \in MountedIds : /\ other.len = 12 /\ a = GuidRecord(other)
                                        /\ Guid(other) = Guid(id)
        BY <1>1, <2>2, RecordShows
      <3>2. other = id
        BY <3>1 DEF Guid
      <3> QED
        BY <3>1, <3>2
    <2>4. HasMbr(LastAt(l)) /\ b = LetterRecord(l) /\ IdOf[LastAt(l)] \in Ids
      <3>1. Upper(l) # None
        BY <2>1, DecodedIsSome
      <3>2. PICK k \in Letters : /\ HasMbr(LastAt(k)) /\ b = LetterRecord(k)
                                 /\ Upper(k) = Upper(l) /\ IdOf[LastAt(k)] \in Ids
        BY <2>2, <3>1, RecordShows
      <3>3. k = l
        BY <3>2 DEF Upper
      <3> QED
        BY <3>2, <3>3
    <2>5. a.disk_signature = id.sig /\ a.partition_offset = id.offset
      BY <2>3 DEF GuidRecord
    <2>6. /\ b.disk_signature = IdOf[LastAt(l)].sig
          /\ b.partition_offset = IdOf[LastAt(l)].offset
      BY <2>4 DEF LetterRecord
    <2>7. IdOf[LastAt(l)] = id
      BY <1>1, <2>2, <2>3, <2>4, <2>5, <2>6, MbrIsSignatureAndOffset DEF HasMbr
    <2> QED
      BY <2>1, <2>4, <2>7
  <1>3. ASSUME NEW l \in Letters, HasMbr(LastAt(l)), IdOf[LastAt(l)] = id
        PROVE  l \in LettersOf(Guid(id))
    <2>1. id.len = 12
      BY <1>3 DEF HasMbr
    <2>2. PICK a : a = GuidRecord(id)
      OBVIOUS
    <2>3. PICK b : b = LetterRecord(l)
      OBVIOUS
    <2>4. a \in Range(volumes) /\ b \in Range(volumes)
      BY <1>3, <2>1, <2>2, <2>3, RecordsThere
    <2>5. /\ a.volume_guid = Guid(id) /\ a.disk_signature = id.sig
          /\ a.partition_offset = id.offset
      BY <2>2 DEF GuidRecord
    <2>6. /\ b.drive_letter = Upper(l) /\ b.disk_signature = id.sig
          /\ b.partition_offset = id.offset
      BY <1>3, <2>3 DEF LetterRecord
    <2> QED
      BY <2>4, <2>5, <2>6 DEF LettersOf
  <1> QED
    BY <1>2, <1>3

\* That GUID is a mounted one, whatever the user opened.
LEMMA BridgeExact == VolumesInv => BridgeIsExact
  <1> SUFFICES ASSUME VolumesInv, Mounted!Finished, NEW u \in Range(userMounts)
               PROVE  LettersOf(u.volume_guid) =
                        {l \in Letters : HasMbr(LastAt(l)) /\ IdOf[LastAt(l)] = u.volume_guid.of}
    BY DEF BridgeIsExact, UserScanned
  <1>1. PICK id \in MountedIds : u.volume_guid = Guid(id)
    BY UserMountsAre
  <1>2. u.volume_guid.of = id
    BY <1>1 DEF Guid
  <1> QED
    BY <1>1, <1>2, BridgeMeets

\* The bridge from a user's mount over signature and offset meets exactly the
\* letters its volume was the last at.
THEOREM BridgeCorrect == Spec => []BridgeIsExact
  BY BridgeExact, VolumesCorrect, PTL

\* A cached label is of the letter's mount it was cached of.
LEMMA LabelShows ==
    ASSUME VolumesInv, NEW x \in Range(labels)
    PROVE  \E l \in Letters : /\ cached[l] # 0
                              /\ x = [drive_letter |-> Upper(l),
                                      volume_label |-> LabelOf[past[cached[l]].volume]]
                              /\ x.volume_label # <<>>
                              /\ x.drive_letter = Upper(l)
                              /\ x.volume_label = LabelOf[past[cached[l]].volume]
  <1>1. PICK e \in CacheHolds : x = VolumeLabel(e) /\ x # None
    BY LabelsAre
  <1>2. PICK l \in Letters : cached[l] # 0 /\ e = CacheEntry(l, past[cached[l]].volume)
    BY <1>1 DEF CacheHolds
  <1>3. past[cached[l]].volume \in Disks
    BY <1>2, WindowsKnows
  <1>4. /\ x = [drive_letter |-> Upper(l), volume_label |-> LabelOf[past[cached[l]].volume]]
        /\ LabelOf[past[cached[l]].volume] # <<>>
    BY <1>1, <1>2, <1>3, LetterDecodes
  <1>5. x.drive_letter = Upper(l) /\ x.volume_label = LabelOf[past[cached[l]].volume]
    BY <1>4
  <1> QED
    BY <1>2, <1>4, <1>5

\* The letter's last mount, its cached label's mount and the GUID are of one volume.
LEMMA LabelBridged == VolumesInv => BridgedLabelIsVolumes
  <1> SUFFICES ASSUME VolumesInv, Mounted!Finished,
                      NEW u \in Range(userMounts), NEW x \in Range(labels),
                      NEW l \in LettersOf(u.volume_guid),
                      x.drive_letter = Upper(l), cached[l] = LastMount(l)
               PROVE  x.volume_label \in {LabelOf[v] : v \in Owners(u.volume_guid.of)}
    BY DEF BridgedLabelIsVolumes, UserScanned
  <1>1. PICK id \in MountedIds : u.volume_guid = Guid(id)
    BY UserMountsAre
  <1>2. u.volume_guid.of = id
    BY <1>1 DEF Guid
  <1>3. l \in Letters /\ HasMbr(LastAt(l)) /\ IdOf[LastAt(l)] = id
    BY <1>1, BridgeMeets
  <1>4. PICK k \in Letters : /\ x.drive_letter = Upper(k)
                             /\ x.volume_label = LabelOf[past[cached[k]].volume]
    BY LabelShows
  <1>5. k = l
    <2>1. Upper(k) = Upper(l)
      BY <1>4
    <2> QED
      BY <2>1 DEF Upper
  <1>6. past \in Seq(Mounts)
    BY DEF VolumesInv, WindowsInv, Mounts
  <1>7. /\ LastMount(l) \in DOMAIN past /\ LastAt(l) = past[LastMount(l)].volume
        /\ LastAt(l) \in Disks
    BY <1>3, <1>6, LastAtIs DEF HasMbr
  <1>8. x.volume_label = LabelOf[LastAt(l)]
    BY <1>4, <1>5, <1>7
  <1>9. LastAt(l) \in Owners(id)
    BY <1>3, <1>7 DEF Owners
  <1> QED
    BY <1>2, <1>8, <1>9

\* A label reached over the bridge is of a volume that was mounted under the user's
\* GUID, if it was cached after the letter's last mount.
THEOREM BridgedLabelsCorrect == Spec => []BridgedLabelIsVolumes
  BY LabelBridged, VolumesCorrect, PTL

\* Each record is of the mount its letter's label was cached of.
LEMMA LabelsWere == VolumesInv => LabelsWereAtTheirLetters
  <1> SUFFICES ASSUME VolumesInv, Cached!Finished
               PROVE  /\ \A x \in Range(labels) : \E i \in DOMAIN past :
                            /\ x.drive_letter = Upper(past[i].letter)
                            /\ x.volume_label = LabelOf[past[i].volume]
                            /\ i = cached[past[i].letter]
                      /\ \A l \in Letters :
                            cached[l] # 0 /\ LabelOf[past[cached[l]].volume] # <<>> =>
                               \E x \in Range(labels) : x.drive_letter = Upper(l)
    BY DEF LabelsWereAtTheirLetters
  <1>1. ASSUME NEW x \in Range(labels)
        PROVE  \E i \in DOMAIN past : /\ x.drive_letter = Upper(past[i].letter)
                                      /\ x.volume_label = LabelOf[past[i].volume]
                                      /\ i = cached[past[i].letter]
    <2>1. PICK l \in Letters : /\ cached[l] # 0 /\ x.drive_letter = Upper(l)
                               /\ x.volume_label = LabelOf[past[cached[l]].volume]
      BY LabelShows
    <2>2. cached[l] \in DOMAIN past /\ past[cached[l]].letter = l
      BY <2>1, WindowsKnows
    <2> QED
      BY <2>1, <2>2
  <1>2. ASSUME NEW l \in Letters, cached[l] # 0, LabelOf[past[cached[l]].volume] # <<>>
        PROVE  \E x \in Range(labels) : x.drive_letter = Upper(l)
    <2>1. PICK v \in Disks : v = past[cached[l]].volume
      BY <1>2, WindowsKnows
    <2>2. CacheEntry(l, v) \in CacheHolds
      BY <1>2, <2>1 DEF CacheHolds
    <2>3. PICK x : x = [drive_letter |-> Upper(l), volume_label |-> LabelOf[v]]
      OBVIOUS
    <2>4. VolumeLabel(CacheEntry(l, v)) = x
      BY <1>2, <2>1, <2>3, LetterDecodes
    <2>5. x \in LabelRecords
      <3>1. LabelOf[v] \in {LabelOf[w] : w \in Disks} \ {<<>>}
        BY <1>2, <2>1
      <3> QED
        BY <2>3, <3>1 DEF LabelRecords
    <2>6. x # None
      BY <2>5, NoneIsNoData
    <2>7. x \in Range(labels)
      BY <2>2, <2>4, <2>6, LabelsAre
    <2>8. x.drive_letter = Upper(l)
      BY <2>3
    <2> QED
      BY <2>7, <2>8
  <1> QED
    BY <1>1, <1>2

\* A label, stale or fresh, was at its letter; and none that is not empty is missing.
THEOREM LabelsCorrect == Spec => []LabelsWereAtTheirLetters
  BY LabelsWere, VolumesCorrect, PTL

-----------------------------------------------------------------------------
(***************************************************************************)
(* The split of an EMDMgmt name.                                           *)
(***************************************************************************)

\* Arithmetic of a join.
LEMMA Places2 ==
    ASSUME NEW m \in Nat, NEW n \in Nat
    PROVE  /\ \A i \in 1..m : i \in 1..(m + n) /\ i <= m
           /\ \A i \in 1..n : m + i \in 1..(m + n) /\ ~(m + i <= m) /\ (m + i) - m = i
  BY SMT

\* A list of m put before one of n, element for element.
IsJoin(a, s, m, t, n) ==
    /\ Len(a) = m + n
    /\ \A i \in 1..m : a[i] = s[i]
    /\ \A i \in 1..n : a[m + i] = t[i]

\* Two lists joined.
LEMMA Joined ==
    ASSUME NEW Rs, NEW s \in Seq(Rs), NEW t \in Seq(Rs)
    PROVE  s \o t \in Seq(Rs) /\ IsJoin(s \o t, s, Len(s), t, Len(t))
  <1>1. PICK m \in Nat : m = Len(s)
    OBVIOUS
  <1>2. PICK n \in Nat : n = Len(t)
    OBVIOUS
  <1>3. /\ s \o t \in Seq(Rs) /\ Len(s \o t) = m + n
        /\ \A i \in 1..(m + n) : (s \o t)[i] = IF i <= m THEN s[i] ELSE t[i - m]
    BY <1>1, <1>2, ConcatProperties
  <1>4. /\ \A i \in 1..m : i \in 1..(m + n) /\ i <= m
        /\ \A i \in 1..n : m + i \in 1..(m + n) /\ ~(m + i <= m) /\ (m + i) - m = i
    BY Places2
  <1>5. IsJoin(s \o t, s, m, t, n)
    BY <1>3, <1>4 DEF IsJoin
  <1> QED
    BY <1>1, <1>2, <1>3, <1>5

\* The end of a list, by its length.
LEMMA EndOf ==
    ASSUME NEW Rs, NEW s \in Seq(Rs), NEW n \in Nat, n = Len(s), NEW k \in 0..n
    PROVE  /\ SubSeq(s, k + 1, n) \in Seq(Rs)
           /\ Len(SubSeq(s, k + 1, n)) = n - k
           /\ \A i \in 1..(n - k) : SubSeq(s, k + 1, n)[i] = s[k + i]
  <1>1. \A i \in (k + 1)..n : i \in 1..n
    BY SMT
  <1>2. \A i \in (k + 1)..n : s[i] \in Rs
    BY <1>1
  <1>3. k + 1 \in Int /\ n \in Int /\ n - (k + 1) + 1 = n - k
    BY SMT
  <1>4. /\ SubSeq(s, k + 1, n) \in Seq(Rs)
        /\ Len(SubSeq(s, k + 1, n)) = IF k + 1 <= n THEN n - k ELSE 0
        /\ \A i \in 1..(n - k) : SubSeq(s, k + 1, n)[i] = s[(k + 1) + i - 1]
    BY <1>2, <1>3, SubSeqProperties
  <1>5. (IF k + 1 <= n THEN n - k ELSE 0) = n - k
    BY SMT
  <1>6. \A i \in 1..(n - k) : (k + 1) + i - 1 = k + i
    BY SMT
  <1> QED
    BY <1>4, <1>5, <1>6

\* t is s, of length n, without its first k elements.
IsEnd(t, s, k, n) == Len(t) = n - k /\ \A i \in 1..(n - k) : t[i] = s[k + i]

\* The end of a list, element for element.
LEMMA EndIs ==
    ASSUME NEW Rs, NEW s \in Seq(Rs), NEW k \in 0..Len(s)
    PROVE  SubSeq(s, k + 1, Len(s)) \in Seq(Rs) /\ IsEnd(SubSeq(s, k + 1, Len(s)), s, k, Len(s))
  <1>1. PICK n \in Nat : n = Len(s)
    OBVIOUS
  <1> QED
    BY <1>1, EndOf DEF IsEnd

\* A list is its elements in 1..Len, and empty when there are none.
LEMMA ListIs ==
    ASSUME NEW Rs, NEW s \in Seq(Rs)
    PROVE  DOMAIN s = 1..Len(s) /\ (s = <<>> <=> Len(s) = 0) /\ 1 \notin 1..0
  OBVIOUS

\* The elements of an end.
LEMMA Fewer ==
    ASSUME NEW n \in Nat, NEW k \in 0..n
    PROVE  n - k \in Nat /\ n - k <= n
  BY SMT

\* The end of a list is a suffix of it.
LEMMA EndIsSuffix ==
    ASSUME NEW Rs, NEW s \in Seq(Rs), NEW n \in Nat, n = Len(s), NEW k \in 0..n,
           NEW t \in Seq(Rs), Len(t) = n - k,
           \A i \in 1..(n - k) : t[i] = s[k + i]
    PROVE  IsSuffix(t, s)
  <1>1. PICK j \in Nat : j = n - k /\ j <= n
    BY Fewer
  <1>2. j <= n
    BY <1>1
  <1>3. PICK rt : rt = Reverse(t)
    OBVIOUS
  <1>4. PICK rs : rs = Reverse(s)
    OBVIOUS
  <1>5. rt = [i \in 1..j |-> t[(j - i) + 1]] /\ rs = [i \in 1..n |-> s[(n - i) + 1]]
    BY <1>1, <1>3, <1>4 DEF Reverse
  <1>6. \A i \in 1..j : /\ (j - i) + 1 \in 1..j /\ i \in 1..n /\ (n - i) + 1 \in 1..n
                        /\ k + ((j - i) + 1) = (n - i) + 1
    BY <1>1, <1>2, SMT
  <1>7. \A i \in 1..j : rt[i] = rs[i] /\ rt[i] \in Rs
    <2> TAKE i \in 1..j
    <2>1. rt[i] = t[(j - i) + 1] /\ rs[i] = s[(n - i) + 1]
      BY <1>5, <1>6
    <2>2. t[(j - i) + 1] = s[(n - i) + 1]
      BY <1>1, <1>6
    <2>3. s[(n - i) + 1] \in Rs
      BY <1>6
    <2> QED
      BY <2>1, <2>2, <2>3
  <1>8. rt \in Seq(Rs) /\ Len(rt) = j
    <2>1. rt \in [1..j -> Rs]
      BY <1>5, <1>7
    <2> QED
      BY <2>1
  <1>9. Len(rs) = n
    <2>1. rs \in [1..n -> Rs]
      <3>1. \A i \in 1..n : (n - i) + 1 \in 1..n
        BY SMT
      <3>2. \A i \in 1..n : s[(n - i) + 1] \in Rs
        BY <3>1
      <3> QED
        BY <1>5, <3>2
    <2> QED
      BY <2>1
  <1>10. j - 1 + 1 = j /\ 1 \in Int /\ j \in Int /\ (IF 1 <= j THEN j ELSE 0) = j
         /\ \A i \in Int : 1 + i - 1 = i
    BY SMT
  <1>11. /\ SubSeq(rt, 1, j) \in Seq(Rs) /\ Len(SubSeq(rt, 1, j)) = j
         /\ \A i \in 1..j : SubSeq(rt, 1, j)[i] = rt[i]
    BY <1>7, <1>10, SubSeqProperties
  <1>12. /\ SubSeq(rs, 1, j) \in Seq(Rs) /\ Len(SubSeq(rs, 1, j)) = j
         /\ \A i \in 1..j : SubSeq(rs, 1, j)[i] = rs[i]
    BY <1>7, <1>10, SubSeqProperties
  <1>13. SubSeq(rt, 1, j) = SubSeq(rs, 1, j)
    BY <1>7, <1>11, <1>12, SeqEqual
  <1> QED
    BY <1>2, <1>3, <1>4, <1>8, <1>9, <1>13 DEF IsSuffix, IsPrefix

\* Arithmetic of the parts of a name.
LEMMA Places ==
    ASSUME NEW p \in Nat, NEW n \in Nat
    PROVE  /\ p + 2 \in Nat /\ p + 2 + n \in Nat
           /\ p + 1 \in 1..(p + 2) /\ p + 2 \in 1..(p + 2)
           /\ p + 1 \in 1..(p + 2 + n) /\ p + 2 \in 1..(p + 2 + n)
           /\ \A i \in 1..n : p + 2 + i \in 1..(p + 2 + n)
           /\ p + 2 + n + 1 = p + n + 3 /\ p + 2 + n + 2 = p + n + 4
           /\ 1 \in 1..2 /\ 2 \in 1..2 /\ 2 \in Nat
  BY SMT

\* Two lists of two, two of them around a third.
LEMMA FourJoined ==
    ASSUME NEW Cs, NEW prefix \in Seq(Cs), NEW lab \in Seq(Cs), NEW u \in Cs, NEW x \in Cs,
           NEW p \in Nat, p = Len(prefix), NEW n \in Nat, n = Len(lab),
           NEW name, name = prefix \o <<u, u>> \o lab \o <<u, x>>
    PROVE  /\ name \in Seq(Cs) /\ Len(name) = p + n + 4
           /\ name[p + 1] = u /\ name[p + 2] = u
           /\ \A i \in 1..n : name[p + 2 + i] = lab[i]
           /\ name[p + n + 3] = u /\ name[p + n + 4] = x
  <1>1. /\ p + 2 \in Nat /\ p + 2 + n \in Nat
        /\ p + 1 \in 1..(p + 2) /\ p + 2 \in 1..(p + 2)
        /\ p + 1 \in 1..(p + 2 + n) /\ p + 2 \in 1..(p + 2 + n)
        /\ \A i \in 1..n : p + 2 + i \in 1..(p + 2 + n)
        /\ p + 2 + n + 1 = p + n + 3 /\ p + 2 + n + 2 = p + n + 4
        /\ 1 \in 1..2 /\ 2 \in 1..2 /\ 2 \in Nat
    BY Places
  <1>2. PICK two \in Seq(Cs) : two = <<u, u>> /\ Len(two) = 2 /\ two[1] = u /\ two[2] = u
    <2>1. <<u, u>> \in Seq(Cs) /\ Len(<<u, u>>) = 2
      OBVIOUS
    <2> QED
      BY <2>1
  <1>3. PICK end \in Seq(Cs) : end = <<u, x>> /\ Len(end) = 2 /\ end[1] = u /\ end[2] = x
    <2>1. <<u, x>> \in Seq(Cs) /\ Len(<<u, x>>) = 2
      OBVIOUS
    <2> QED
      BY <2>1
  <1>4. PICK a \in Seq(Cs) : /\ a = prefix \o two /\ Len(a) = p + 2
                             /\ a[p + 1] = u /\ a[p + 2] = u
    <2>1. PICK a : a = prefix \o two
      OBVIOUS
    <2>2. 2 = Len(two)
      BY <1>2
    <2>3. a \in Seq(Cs) /\ IsJoin(a, prefix, Len(prefix), two, Len(two))
      BY <2>1, Joined, Zenon
    <2>4. IsJoin(a, prefix, p, two, 2)
      BY <2>2, <2>3, Zenon
    <2>5. a \in Seq(Cs) /\ Len(a) = p + 2 /\ \A i \in 1..2 : a[p + i] = two[i]
      BY <2>3, <2>4, Zenon DEF IsJoin
    <2>6. a[p + 1] = u /\ a[p + 2] = u
      BY <1>1, <1>2, <2>5, Zenon
    <2> QED
      BY <2>1, <2>5, <2>6, Zenon
  <1>5. PICK b \in Seq(Cs) : /\ b = a \o lab /\ Len(b) = p + 2 + n
                             /\ b[p + 1] = u /\ b[p + 2] = u
                             /\ \A i \in 1..n : b[p + 2 + i] = lab[i]
    <2>1. PICK b : b = a \o lab
      OBVIOUS
    <2>2. p + 2 = Len(a)
      BY <1>4
    <2>3. b \in Seq(Cs) /\ IsJoin(b, a, Len(a), lab, Len(lab))
      BY <2>1, Joined, Zenon
    <2>4. IsJoin(b, a, p + 2, lab, n)
      BY <2>2, <2>3, Zenon
    <2>5. /\ b \in Seq(Cs) /\ Len(b) = p + 2 + n
          /\ \A i \in 1..(p + 2) : b[i] = a[i]
          /\ \A i \in 1..n : b[p + 2 + i] = lab[i]
      BY <2>3, <2>4, Zenon DEF IsJoin
    <2>6. b[p + 1] = u /\ b[p + 2] = u
      BY <1>1, <1>4, <2>5, Zenon
    <2> QED
      BY <2>1, <2>5, <2>6, Zenon
  <1>6. name = b \o end
    BY <1>2, <1>3, <1>4, <1>5, Zenon
  <1>7. /\ name \in Seq(Cs) /\ Len(name) = p + 2 + n + 2
        /\ \A i \in 1..(p + 2 + n) : name[i] = b[i]
        /\ name[p + 2 + n + 1] = u /\ name[p + 2 + n + 2] = x
    <2>1. p + 2 + n = Len(b) /\ 2 = Len(end)
      BY <1>3, <1>5
    <2>2. name \in Seq(Cs) /\ IsJoin(name, b, Len(b), end, Len(end))
      BY <1>6, Joined, Zenon
    <2>3. IsJoin(name, b, p + 2 + n, end, 2)
      BY <2>1, <2>2, Zenon
    <2>4. /\ name \in Seq(Cs) /\ Len(name) = p + 2 + n + 2
          /\ \A i \in 1..(p + 2 + n) : name[i] = b[i]
          /\ \A i \in 1..2 : name[p + 2 + n + i] = end[i]
      BY <2>2, <2>3, Zenon DEF IsJoin
    <2> QED
      BY <1>1, <1>3, <2>4, Zenon
  <1>8. Len(name) = p + n + 4
    BY <1>1, <1>7, Zenon
  <1> QED
    BY <1>1, <1>5, <1>7, <1>8, Zenon

\* A name of a prefix of p, a double underscore, a label of n and a serial.
EmdShape(name, p, lab, n, serial) ==
    /\ Len(name) = p + n + 4
    /\ name[p + 1] = "_" /\ name[p + 2] = "_"
    /\ \A i \in 1..n : name[p + 2 + i] = lab[i]
    /\ name[p + n + 3] = "_" /\ name[p + n + 4] = serial

\* Where the name of a volume holds what.
LEMMA EmdNameIs ==
    ASSUME NEW v \in Disks
    PROVE  /\ EmdName(v) \in Seq(Characters)
           /\ \E p \in Nat : EmdShape(EmdName(v), p, LabelOf[v], Len(LabelOf[v]), SerialOf[v])
  <1>1. /\ PrefixOf[v] \in Seq(Characters) /\ LabelOf[v] \in Seq(Characters)
        /\ SerialOf[v] \in Characters
    BY NamesAreText
  <1>2. "_" \in Characters
    BY NamesAreText
  <1>3. PICK u \in Characters : u = "_"
    BY <1>2, Zenon
  <1>4. PICK prefix \in Seq(Characters) : prefix = PrefixOf[v]
    BY <1>1
  <1>5. PICK lab \in Seq(Characters) : lab = LabelOf[v]
    BY <1>1
  <1>6. PICK x \in Characters : x = SerialOf[v]
    BY <1>1
  <1>7. PICK p \in Nat : p = Len(prefix)
    BY <1>4
  <1>8. PICK n \in Nat : n = Len(lab)
    BY <1>5
  <1>9. PICK name : name = prefix \o <<u, u>> \o lab \o <<u, x>>
    OBVIOUS
  <1>10. name \in Seq(Characters) /\ EmdShape(name, p, lab, n, x)
    <2>1. /\ name \in Seq(Characters) /\ Len(name) = p + n + 4
          /\ name[p + 1] = u /\ name[p + 2] = u
          /\ \A i \in 1..n : name[p + 2 + i] = lab[i]
          /\ name[p + n + 3] = u /\ name[p + n + 4] = x
      BY <1>7, <1>8, <1>9, FourJoined
    <2> QED
      BY <1>3, <2>1, Zenon DEF EmdShape
  <1>11. name = EmdName(v)
    BY <1>3, <1>4, <1>5, <1>6, <1>9, Zenon DEF EmdName
  <1> QED
    BY <1>5, <1>6, <1>8, <1>10, <1>11, Zenon

\* Arithmetic of the last underscore.
LEMMA LastPlace ==
    ASSUME NEW p \in Nat, NEW n \in Nat
    PROVE  /\ p + n + 3 \in 1..(p + n + 4) /\ p + n + 3 \in 0..(p + n + 4)
           /\ p + n + 4 \in Nat /\ (p + n + 4) - (p + n + 3) = 1 /\ p + n + 3 + 1 = p + n + 4
           /\ 1 \in 1..1
           /\ \A i \in 1..(p + n + 4) : i # p + n + 4 => i <= p + n + 3
  BY SMT

\* Of what is before it.
LEMMA RestPlaces ==
    ASSUME NEW p \in Nat, NEW n \in Nat
    PROVE  /\ 1 \in Int /\ p + n + 2 \in Int
           /\ (IF 1 <= p + n + 2 THEN p + n + 2 - 1 + 1 ELSE 0) = p + n + 2
           /\ p + n + 2 - 1 + 1 = p + n + 2
           /\ \A i \in 1..(p + n + 2) : i \in 1..(p + n + 4) /\ 1 + i - 1 = i
           /\ p + n + 3 - 1 = p + n + 2
           /\ p + 1 \in 1..(p + n + 2) /\ p + 2 \in 1..(p + n + 2) /\ (p + 1) + 1 = p + 2
           /\ \A i \in 1..n : p + 2 + i \in 1..(p + n + 2)
  BY SMT

\* Of a later double underscore, k further on.
LEMMA KPlaces ==
    ASSUME NEW p \in Nat, NEW n \in Nat, NEW m \in 1..(p + n + 2),
           m + 1 \in 1..(p + n + 2), p + 1 <= m
    PROVE  \E k \in 0..n : m = p + 1 + k
  <1>1. m - (p + 1) \in 0..n /\ m = p + 1 + (m - (p + 1))
    BY SMT
  <1> QED
    BY <1>1

\* Of the label that is left.
LEMMA EndPlaces ==
    ASSUME NEW p \in Nat, NEW n \in Nat, NEW k \in 0..n, NEW m, m = p + 1 + k
    PROVE  /\ m + 1 \in 0..(p + n + 2) /\ p + n + 2 \in Nat
           /\ (p + n + 2) - (m + 1) = n - k
           /\ \A i \in 1..(n - k) : k + i \in 1..n /\ (m + 1) + i = p + 2 + (k + i)
           /\ k # 0 => n - k # n
           /\ k = 1 => 1 \in 1..n /\ m + 1 = p + 2 + 1
           /\ k # 0 /\ k # 1 => /\ k - 1 \in 1..n /\ (k - 1) + 1 \in 1..n
                                /\ m = p + 2 + (k - 1) /\ m + 1 = p + 2 + ((k - 1) + 1)
  BY SMT

\* Of the double underscores of the label itself.
LEMMA DoublePlaces ==
    ASSUME NEW p \in Nat, NEW n \in Nat
    PROVE  /\ \A j \in 1..n : /\ p + 2 + j \in 1..(p + n + 2) /\ ~(p + 2 + j <= p + 1)
                              /\ p + 2 + (j + 1) = (p + 2 + j) + 1
           /\ p + 2 \in 1..(p + n + 2) /\ p + 2 + 1 = (p + 2) + 1 /\ ~(p + 2 <= p + 1)
           /\ n # 0 => 1 \in 1..n
  BY SMT

\* The split gets the serial back, and the end of the label: all of it when
\* no later double underscore is met.
LEMMA SplitRecovers ==
    ASSUME NEW name \in Seq(Characters), NEW lab \in Seq(Characters), NEW serial \in Serials,
           NEW p \in Nat, NEW n \in Nat, n = Len(lab),
           EmdShape(name, p, lab, n, serial)
    PROVE  \E x : /\ E!parse_emd_name(name) = [volume_label |-> x, volume_serial |-> serial]
                  /\ x \in Seq(Characters)
                  /\ IsSuffix(x, lab)
                  /\ (x = lab) = Separable(lab)
  <1>1. PICK last \in Nat : last = p + n + 3
    OBVIOUS
  <1>2. serial # "_" /\ serial # None
    BY NamesAreText, NoneIsNoData
  <1>3. DOMAIN name = 1..(p + n + 4) /\ DOMAIN lab = 1..n
    BY ListIs, Zenon DEF EmdShape
  <1>4. E!Max(E!Underscores(name)) = last /\ E!Underscores(name) # {}
    <2>1. E!Underscores(name) \in SUBSET (1..(p + n + 4)) /\ last \in E!Underscores(name)
      <3>1. last \in 1..(p + n + 4)
        BY <1>1, LastPlace
      <3> QED
        BY <1>1, <1>3, <3>1, Zenon DEF E!Underscores, EmdShape
    <2>2. \A i \in E!Underscores(name) : i <= last
      <3> TAKE i \in E!Underscores(name)
      <3>1. i \in 1..(p + n + 4) /\ i # p + n + 4
        BY <1>2, <1>3, Zenon DEF E!Underscores, EmdShape
      <3> QED
        BY <1>1, <3>1, LastPlace
    <2>3. p + n + 4 \in Nat
      OBVIOUS
    <2> QED
      BY <2>1, <2>2, <2>3, LastIs, Zenon
  <1>5. E!parse_serial(E!After(name, last)) = serial
    <2>1. PICK s : s = SubSeq(name, last + 1, Len(name))
      OBVIOUS
    <2>2. last \in 0..(p + n + 4) /\ p + n + 4 \in Nat /\ (p + n + 4) - last = 1
          /\ last + 1 = p + n + 4 /\ 1 \in 1..1
      BY <1>1, LastPlace
    <2>3. p + n + 4 = Len(name)
      BY DEF EmdShape
    <2>4. last \in 0..Len(name)
      BY <2>2, <2>3, Zenon
    <2>5. IsEnd(s, name, last, Len(name))
      BY <2>1, <2>4, EndIs, Zenon
    <2>6. Len(s) = (p + n + 4) - last /\ \A i \in 1..((p + n + 4) - last) : s[i] = name[last + i]
      <3>1. IsEnd(s, name, last, p + n + 4)
        BY <2>3, <2>5, Zenon
      <3> QED
        BY <3>1, Zenon DEF IsEnd
    <2>7. Len(s) = 1 /\ s[1] = serial
      BY <2>2, <2>6, Zenon DEF EmdShape
    <2>8. s = E!After(name, last)
      BY <2>1 DEF E!After
    <2> QED
      BY <2>7, <2>8, Zenon DEF E!parse_serial
  <1>6. PICK rest \in Seq(Characters) :
           /\ rest = E!Before(name, last) /\ Len(rest) = p + n + 2
           /\ \A i \in 1..(p + n + 2) : rest[i] = name[i]
    <2>1. PICK r : r = SubSeq(name, 1, p + n + 2)
      OBVIOUS
    <2>2. /\ 1 \in Int /\ p + n + 2 \in Int /\ (IF 1 <= p + n + 2 THEN p + n + 2 - 1 + 1 ELSE 0) = p + n + 2
          /\ \A i \in 1..(p + n + 2) : i \in 1..(p + n + 4)
          /\ p + n + 2 - 1 + 1 = p + n + 2
          /\ \A i \in 1..(p + n + 2) : 1 + i - 1 = i
          /\ last - 1 = p + n + 2
      BY <1>1, RestPlaces
    <2>3. \A i \in 1..(p + n + 2) : name[i] \in Characters
      BY <1>3, <2>2
    <2>4. /\ r \in Seq(Characters)
          /\ Len(r) = IF 1 <= p + n + 2 THEN p + n + 2 - 1 + 1 ELSE 0
          /\ \A i \in 1..(p + n + 2 - 1 + 1) : r[i] = name[1 + i - 1]
      BY <2>1, <2>2, <2>3, SubSeqProperties
    <2>5. Len(r) = p + n + 2 /\ \A i \in 1..(p + n + 2) : r[i] = name[i]
      BY <2>2, <2>4, Zenon
    <2>6. r = E!Before(name, last)
      BY <2>1, <2>2, Zenon DEF E!Before
    <2> QED
      BY <2>4, <2>5, <2>6
  <1>7. DOMAIN rest = 1..(p + n + 2)
    BY <1>6
  <1>8. /\ rest[p + 1] = "_" /\ rest[p + 2] = "_"
        /\ \A i \in 1..n : rest[p + 2 + i] = lab[i]
    <2>1. p + 1 \in 1..(p + n + 2) /\ p + 2 \in 1..(p + n + 2)
          /\ \A i \in 1..n : p + 2 + i \in 1..(p + n + 2)
      BY RestPlaces
    <2> QED
      BY <1>6, <2>1, Zenon DEF EmdShape
  <1>9. p + 1 \in E!Doubles(rest) /\ E!Doubles(rest) \in SUBSET (1..(p + n + 2))
    <2>1. p + 1 \in 1..(p + n + 2) /\ p + 2 \in 1..(p + n + 2) /\ (p + 1) + 1 = p + 2
      BY RestPlaces
    <2> QED
      BY <1>7, <1>8, <2>1, Zenon DEF E!Doubles, E!Underscores
  <1>10. PICK m \in E!Doubles(rest) : m = E!Max(E!Doubles(rest)) /\ \A i \in E!Doubles(rest) : i <= m
    <2>1. p + n + 2 \in Nat
      OBVIOUS
    <2> QED
      BY <1>9, <2>1, LastIsIn, Zenon
  <1>11. m \in 1..(p + n + 2) /\ m + 1 \in 1..(p + n + 2)
    BY <1>7, <1>9, <1>10, Zenon DEF E!Doubles, E!Underscores
  <1>12. PICK k \in 0..n : m = p + 1 + k
    <2>1. p + 1 <= m
      BY <1>9, <1>10
    <2> QED
      BY <1>11, <2>1, KPlaces
  <1>13. PICK x \in Seq(Characters) :
           /\ x = E!label(rest) /\ Len(x) = n - k
           /\ \A i \in 1..(n - k) : x[i] = lab[k + i]
    <2>1. PICK y : y = SubSeq(rest, (m + 1) + 1, p + n + 2)
      OBVIOUS
    <2>2. /\ m + 1 \in 0..(p + n + 2) /\ p + n + 2 \in Nat
          /\ (p + n + 2) - (m + 1) = n - k
          /\ \A i \in 1..(n - k) : k + i \in 1..n /\ (m + 1) + i = p + 2 + (k + i)
      BY <1>12, EndPlaces
    <2>3. p + n + 2 = Len(rest)
      BY <1>6
    <2>4. /\ y \in Seq(Characters) /\ Len(y) = (p + n + 2) - (m + 1)
          /\ \A i \in 1..((p + n + 2) - (m + 1)) : y[i] = rest[(m + 1) + i]
      <3>1. m + 1 \in 0..Len(rest)
        BY <2>2, <2>3, Zenon
      <3>2. y \in Seq(Characters) /\ IsEnd(y, rest, m + 1, Len(rest))
        BY <2>1, <2>3, <3>1, EndIs, Zenon
      <3> QED
        BY <2>3, <3>2, Zenon DEF IsEnd
    <2>5. Len(y) = n - k /\ \A i \in 1..(n - k) : y[i] = lab[k + i]
      BY <1>8, <2>2, <2>4, Zenon
    <2>6. y = E!label(rest)
      BY <1>9, <1>10, <2>1, <2>3, Zenon DEF E!label, E!After
    <2> QED
      BY <2>4, <2>5, <2>6, Zenon
  <1>14. IsSuffix(x, lab)
    BY <1>13, EndIsSuffix
  <1>15. x = lab <=> k = 0
    <2>1. CASE k = 0
      <3>1. n - k = n /\ \A i \in 1..n : k + i = i
        BY <2>1, SMT
      <3>2. Len(x) = Len(lab) /\ \A i \in 1..Len(x) : x[i] = lab[i]
        BY <1>13, <3>1, Zenon
      <3> QED
        BY <2>1, <3>2, SeqEqual
    <2>2. CASE k # 0
      <3>1. n - k # n
        BY <1>12, <2>2, EndPlaces
      <3> QED
        BY <1>13, <2>2, <3>1
    <2> QED
      BY <2>1, <2>2
  <1>16. k = 0 <=> Separable(lab)
    <2>1. ASSUME k # 0
          PROVE  ~Separable(lab)
      <3>1. rest[m] = "_" /\ rest[m + 1] = "_"
        BY <1>10, Zenon DEF E!Doubles, E!Underscores
      <3>2. CASE k = 1
        <4>1. 1 \in 1..n /\ m + 1 = p + 2 + 1
          BY <1>12, <3>2, EndPlaces
        <4>2. lab[1] = "_" /\ lab # <<>>
          <5>1. lab[1] = "_"
            BY <1>8, <3>1, <4>1, Zenon
          <5>2. lab # <<>>
            <6> SUFFICES ASSUME lab = <<>>
                         PROVE  FALSE
              OBVIOUS
            <6>1. n = 0
              BY ListIs, Zenon
            <6> QED
              BY <4>1, <6>1, ListIs, Zenon
          <5> QED
            BY <5>1, <5>2
        <4> QED
          BY <4>2 DEF Separable
      <3>3. CASE k # 1
        <4>1. PICK j \in 1..n : /\ j + 1 \in 1..n
                                /\ m = p + 2 + j /\ m + 1 = p + 2 + (j + 1)
          BY <1>12, <2>1, <3>3, EndPlaces
        <4>2. lab[j] = "_" /\ lab[j + 1] = "_"
          BY <1>8, <3>1, <4>1, Zenon
        <4>3. j \in E!Doubles(lab)
          BY <1>3, <4>1, <4>2, Zenon DEF E!Doubles, E!Underscores
        <4> QED
          BY <4>3 DEF Separable
      <3> QED
        BY <3>2, <3>3
    <2>2. ASSUME k = 0
          PROVE  Separable(lab)
      <3>1. m = p + 1
        BY <1>12, <2>2
      <3>2. ASSUME NEW j \in E!Doubles(lab)
            PROVE  FALSE
        <4>1. j \in 1..n /\ j + 1 \in 1..n /\ lab[j] = "_" /\ lab[j + 1] = "_"
          BY <1>3, Zenon DEF E!Doubles, E!Underscores
        <4>2. /\ p + 2 + j \in 1..(p + n + 2) /\ p + 2 + (j + 1) \in 1..(p + n + 2)
              /\ p + 2 + (j + 1) = (p + 2 + j) + 1 /\ ~(p + 2 + j <= p + 1)
          BY <4>1, DoublePlaces
        <4>3. rest[p + 2 + j] = "_" /\ rest[p + 2 + (j + 1)] = "_"
          BY <1>8, <4>1, Zenon
        <4>4. p + 2 + j \in E!Doubles(rest)
          BY <1>7, <4>2, <4>3, Zenon DEF E!Doubles, E!Underscores
        <4> QED
          BY <1>10, <3>1, <4>2, <4>4, Zenon
      <3>3. ASSUME lab # <<>>, lab[1] = "_"
            PROVE  FALSE
        <4>1. 1 \in 1..n
          <5>1. n # 0
            BY <3>3, ListIs, Zenon
          <5> QED
            BY <5>1, DoublePlaces
        <4>2. /\ p + 2 + 1 \in 1..(p + n + 2) /\ p + 2 \in 1..(p + n + 2)
              /\ p + 2 + 1 = (p + 2) + 1 /\ ~(p + 2 <= p + 1)
          BY <4>1, DoublePlaces
        <4>3. rest[p + 2 + 1] = "_"
          BY <1>8, <3>3, <4>1, Zenon
        <4>4. p + 2 \in E!Doubles(rest)
          BY <1>7, <1>8, <4>2, <4>3, Zenon DEF E!Doubles, E!Underscores
        <4> QED
          BY <1>10, <3>1, <4>2, <4>4, Zenon
      <3> QED
        BY <3>2, <3>3 DEF Separable
    <2> QED
      BY <2>1, <2>2
  <1>17. E!parse_emd_name(name) = [volume_label |-> x, volume_serial |-> serial]
    BY <1>2, <1>4, <1>5, <1>6, <1>13, Zenon DEF E!parse_emd_name
  <1>18. (x = lab) = Separable(lab)
    BY <1>15, <1>16, Zenon DEF Separable
  <1> QED
    BY <1>13, <1>14, <1>17, <1>18

\* The volumes of EMDMgmt are those that were mounted.
LEMMA EmdRecordsAre ==
    ASSUME VolumesInv
    PROVE  /\ \A x \in Range(emdVolumes) : \E i \in DOMAIN past :
                 x = E!parse_emd_name(EmdName(past[i].volume))
           /\ Emd!Finished => \A i \in DOMAIN past :
                 LET x == E!parse_emd_name(EmdName(past[i].volume))
                 IN  x # None => x \in Range(emdVolumes)
  <1>1. KeysAreWritten /\ IsList(emdVolumes) /\ Emd!Scanning
    BY DEF VolumesInv, WindowsInv, ReadersInv
  <1>2. IsList(hive.emd) /\ Range(hive.emd) = Range(StrayEmd) \cup EmdHolds
    BY <1>1, Zenon DEF KeysAreWritten
  <1>3. PICK len \in Nat : len = Len(hive.emd) /\ DOMAIN hive.emd = 1..len
    BY <1>2 DEF IsList
  <1>4. PICK dec : dec = Emd!Decoded
    OBVIOUS
  <1>5. \A e \in 1..len : dec[e] = E!parse_emd_name(hive.emd[e])
    BY <1>3, <1>4 DEF Emd!Decoded
  <1>6. Scan(dec, len, emdRead, emdVolumes)
    BY <1>1, <1>3, <1>4, EmdAgrees
  <1>7. ASSUME NEW x \in Range(emdVolumes)
        PROVE  \E i \in DOMAIN past : x = E!parse_emd_name(EmdName(past[i].volume))
    <2>1. PICK from \in [DOMAIN emdVolumes -> 1..len] :
            \A i \in DOMAIN emdVolumes : emdVolumes[i] = dec[from[i]] /\ emdVolumes[i] # None
      BY <1>6, RecordsOf
    <2>2. PICK i \in DOMAIN emdVolumes : x = emdVolumes[i]
      BY DEF Range
    <2>3. from[i] \in 1..len
      BY <2>1
    <2>4. x = E!parse_emd_name(hive.emd[from[i]]) /\ x # None
      BY <1>5, <2>1, <2>2, <2>3
    <2>5. hive.emd[from[i]] \in Range(StrayEmd) \cup EmdHolds
      BY <1>2, <1>3, <2>3 DEF Range
    <2>6. hive.emd[from[i]] \in EmdHolds
      BY <2>4, <2>5, StraysAreNoVolumes
    <2> QED
      BY <2>4, <2>6 DEF EmdHolds
  <1>8. ASSUME Emd!Finished, NEW i \in DOMAIN past,
               E!parse_emd_name(EmdName(past[i].volume)) # None
        PROVE  E!parse_emd_name(EmdName(past[i].volume)) \in Range(emdVolumes)
    <2>1. EmdName(past[i].volume) \in Range(hive.emd)
      BY <1>2 DEF EmdHolds
    <2>2. PICK k \in 1..len : EmdName(past[i].volume) = hive.emd[k]
      BY <1>3, <2>1 DEF Range
    <2>3. emdRead = len
      BY <1>3, <1>8 DEF Emd!Finished
    <2>4. dec[k] = E!parse_emd_name(EmdName(past[i].volume))
      BY <1>5, <2>2
    <2> QED
      BY <1>6, <1>8, <2>3, <2>4, RecordsOf
  <1> QED
    BY <1>7, <1>8

\* What the name of a volume is split into.
LEMMA EmdDecodes ==
    ASSUME NEW v \in Disks
    PROVE  \E x : /\ E!parse_emd_name(EmdName(v)) =
                        [volume_label |-> x, volume_serial |-> SerialOf[v]]
                  /\ x \in Seq(Characters)
                  /\ IsSuffix(x, LabelOf[v])
                  /\ (x = LabelOf[v]) = Separable(LabelOf[v])
                  /\ SerialOf[v] \in Serials
  <1>1. LabelOf[v] \in Seq(Characters) /\ SerialOf[v] \in Serials
    BY NamesAreText
  <1>2. PICK n \in Nat : n = Len(LabelOf[v])
    BY <1>1
  <1>3. EmdName(v) \in Seq(Characters)
    BY EmdNameIs
  <1>4. PICK p \in Nat : EmdShape(EmdName(v), p, LabelOf[v], n, SerialOf[v])
    BY <1>2, EmdNameIs
  <1> QED
    BY <1>1, <1>2, <1>3, <1>4, SplitRecovers

\* Every mounted volume has a name in EMDMgmt, and the name a record.
LEMMA EmdRecovered == VolumesInv => EmdLabelsRecovered
  <1> SUFFICES ASSUME VolumesInv, Emd!Finished, NEW i \in DOMAIN past,
                      NEW v, v = past[i].volume
               PROVE  \E r \in Range(emdVolumes) :
                         /\ r.volume_serial = SerialOf[v]
                         /\ IsSuffix(r.volume_label, LabelOf[v])
                         /\ (r.volume_label = LabelOf[v]) = Separable(LabelOf[v])
    BY DEF EmdLabelsRecovered
  <1>1. v \in Disks
    <2>1. past \in Seq(Mounts)
      BY DEF VolumesInv, WindowsInv, Mounts
    <2>2. past[i] \in Mounts
      BY <2>1
    <2> QED
      BY <2>2 DEF Mounts
  <1>2. PICK x : /\ E!parse_emd_name(EmdName(v)) =
                        [volume_label |-> x, volume_serial |-> SerialOf[v]]
                 /\ x \in Seq(Characters) /\ IsSuffix(x, LabelOf[v])
                 /\ (x = LabelOf[v]) = Separable(LabelOf[v])
                 /\ SerialOf[v] \in Serials
    BY <1>1, EmdDecodes
  <1>3. PICK r : r = [volume_label |-> x, volume_serial |-> SerialOf[v]]
    OBVIOUS
  <1>4. r \in EmdRecords /\ r.volume_label = x /\ r.volume_serial = SerialOf[v]
    <2>1. PICK Labels : Labels = Seq(Characters)
      OBVIOUS
    <2>2. EmdRecords = [volume_label : Labels, volume_serial : Serials]
      BY <2>1, Zenon DEF EmdRecords
    <2>3. x \in Labels
      BY <1>2, <2>1, Zenon
    <2> QED
      BY <1>2, <1>3, <2>2, <2>3
  <1>5. r # None
    BY <1>4, NoneIsNoData, Zenon
  <1>6. r \in Range(emdVolumes)
    BY <1>2, <1>3, <1>5, EmdRecordsAre, Zenon
  <1> QED
    BY <1>2, <1>4, <1>6, Zenon

\* Every volume that was mounted is recorded with its serial, and with its label
\* exactly when the label can be told from the underscores around it, else with the
\* end of it.
THEOREM EmdLabelsCorrect == Spec => []EmdLabelsRecovered
  BY EmdRecovered, VolumesCorrect, PTL

\* Each record is decoded from an entry Windows wrote.
LEMMA RecordsTyped == VolumesInv => TypeOK
  <1> SUFFICES ASSUME VolumesInv
               PROVE  TypeOK
    OBVIOUS
  <1>1. Range(volumes) \subseteq VolumeRecords
    <2> SUFFICES ASSUME NEW r \in Range(volumes)
                 PROVE  r \in VolumeRecords
      OBVIOUS
    <2>1. CASE \E l \in Letters : HasMbr(LastAt(l)) /\ r = LetterRecord(l)
      <3>1. PICK l \in Letters : HasMbr(LastAt(l)) /\ r = LetterRecord(l)
        BY <2>1
      <3>2. LastAt(l) \in Disks
        BY <3>1, WindowsKnows DEF HasMbr
      <3> QED
        BY <3>1, <3>2, NoneIsNoRecord
    <2>2. CASE \E id \in MountedIds : r = GuidRecord(id)
      BY <2>2, WindowsKnows, NoneIsNoRecord
    <2> QED
      BY <2>1, <2>2, RecordShows
  <1>2. Range(userMounts) \subseteq UserRecords
    <2> SUFFICES ASSUME NEW u \in Range(userMounts)
                 PROVE  u \in UserRecords
      OBVIOUS
    <2>1. PICK id \in MountedIds, n \in 0..MaxMounts :
              u = [volume_guid |-> Guid(id), last_mounted |-> n]
      BY UserMountsAre
    <2>2. id \in Ids
      BY WindowsKnows
    <2> QED
      BY <2>1, <2>2 DEF UserRecords
  <1>3. Range(labels) \subseteq LabelRecords
    <2> SUFFICES ASSUME NEW x \in Range(labels)
                 PROVE  x \in LabelRecords
      OBVIOUS
    <2>1. PICK l \in Letters :
             /\ cached[l] # 0
             /\ x = [drive_letter |-> Upper(l), volume_label |-> LabelOf[past[cached[l]].volume]]
             /\ x.volume_label # <<>>
             /\ x.volume_label = LabelOf[past[cached[l]].volume]
      BY LabelShows
    <2>2. PICK v \in Disks : v = past[cached[l]].volume
      BY <2>1, WindowsKnows
    <2>3. LabelOf[v] \in {LabelOf[w] : w \in Disks} \ {<<>>}
      BY <2>1, <2>2
    <2> QED
      BY <2>1, <2>2, <2>3 DEF LabelRecords
  <1>4. Range(emdVolumes) \subseteq EmdRecords
    <2> SUFFICES ASSUME NEW r \in Range(emdVolumes)
                 PROVE  r \in EmdRecords
      OBVIOUS
    <2>1. PICK i \in DOMAIN past : r = E!parse_emd_name(EmdName(past[i].volume))
      BY EmdRecordsAre, Zenon
    <2>2. past[i].volume \in Disks
      <3>1. past \in Seq(Mounts)
        BY DEF VolumesInv, WindowsInv, Mounts
      <3>2. past[i] \in Mounts
        BY <3>1
      <3> QED
        BY <3>2 DEF Mounts
    <2>3. PICK x : /\ r = [volume_label |-> x, volume_serial |-> SerialOf[past[i].volume]]
                   /\ x \in Seq(Characters) /\ SerialOf[past[i].volume] \in Serials
      BY <2>1, <2>2, EmdDecodes, Zenon
    <2>4. PICK Labels : Labels = Seq(Characters)
      OBVIOUS
    <2>5. EmdRecords = [volume_label : Labels, volume_serial : Serials]
      BY <2>4, Zenon DEF EmdRecords
    <2>6. x \in Labels
      BY <2>3, <2>4, Zenon
    <2> QED
      BY <2>3, <2>5, <2>6
  <1> QED
    BY <1>1, <1>2, <1>3, <1>4 DEF TypeOK

\* The records of the four readers have their documented spellings, at every point
\* of every scan.
THEOREM TypeCorrect == Spec => []TypeOK
  BY RecordsTyped, VolumesCorrect, PTL
==============================================================================
