--------------------------- MODULE RegistryAudit ---------------------------
(***************************************************************************)
(* The registry reader and the auditor composed: parse_registry reads the  *)
(* hive to its end and audit runs over what it returned.                   *)
(***************************************************************************)
EXTENDS Registry

CONSTANT HidNames   \* names of keys that start with HID or hold &HID

ASSUME HidAreNames == HidNames \subseteq Vendors \cup Instances

VARIABLES audited,   \* connections audited so far
          findings   \* the anomalies found so far

avars == <<vars, audited, findings>>

\* The whole id is searched, so the name of either key counts.
NamesHid(id) == id[2] \in HidNames \/ id[3] \in HidNames

A == INSTANCE Audit WITH devices <- out

AInit == Init /\ A!StartAudit

ParseHive == Next /\ UNCHANGED <<audited, findings>>
AuditNext == Returned /\ A!AuditDevice /\ UNCHANGED vars

ANext == ParseHive \/ AuditNext
ASpec == AInit /\ [][ANext]_avars

AuditReturned == Returned /\ audited = Len(out)

-----------------------------------------------------------------------------
(* Properties *)

Keys ==
    UNION {{<<at[1], at[2], i>> : i \in DOMAIN hive.enum[at[1]][at[2]]} :
           at \in ControlSets \X Classes}

KeyAt(k) == hive.enum[k[1]][k[2]][k[3]]
IdAt(k) == <<k[2], KeyAt(k).vendor, KeyAt(k).inst>>

\* What the hive itself gives as the reason for an anomaly of an instance key.
Reason(code, k) ==
    LET portable == KeyAt(k).mtp /\ k[2] \in {"USBSTOR", "USB"} IN
    CASE code = "DmaCapableDevice"     -> k[2] \in {"THUNDERBOLT", "1394", "EXPRESSCARD"}
      [] code = "MassStorageConnected" ->
            k[2] \in {"USBSTOR", "USB", "SCSI", "ESATA", "SDBUS"} /\ ~portable
      [] code = "HidDevice"            -> {KeyAt(k).vendor, KeyAt(k).inst} \cap HidNames # {}
      [] code = "OsGeneratedSerial"    -> KeyAt(k).inst \in AmpSecond \ WideFirst

\* End to end: each anomaly of a device is reported once for each instance key
\* of it that gives the reason, in either control set, and never without one.
\* A phone that speaks MTP is not reported as storage; a Thunderbolt device is
\* reported for DMA whatever its other keys say (mtp_override, audit).
ReportedForItsReasons ==
    AuditReturned =>
        \A code \in A!Codes : \A id \in {IdAt(k) : k \in Keys} :
            Cardinality(A!FindingsOf(code, id)) =
                Cardinality({k \in Keys : IdAt(k) = id /\ Reason(code, k)})

-----------------------------------------------------------------------------
(* The inductive invariant. *)

\* Nothing is audited before the reader returns; then the counts are right.
AuditInv ==
    /\ audited = 0 \/ Returned
    /\ A!AuditInv(Classes \X Vendors \X Instances)
=============================================================================
