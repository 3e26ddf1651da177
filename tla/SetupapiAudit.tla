--------------------------- MODULE SetupapiAudit ---------------------------
(***************************************************************************)
(* The pipeline the README shows: Windows writes a log, parse_setupapi     *)
(* reads it to its end, audit runs over the connections it returned.       *)
(***************************************************************************)
EXTENDS SetupLog

CONSTANT HidIds   \* the device paths that name the HID class

ASSUME HidIdsArePaths == HidIds \subseteq Devices

VARIABLES audited,   \* connections audited so far
          findings   \* the anomalies found so far

pvars == <<lvars, audited, findings>>

NamesHid(id) == id \in HidIds

A == INSTANCE Audit WITH devices <- out

PInit == LInit /\ A!StartAudit

WriteAndParse == LNext /\ UNCHANGED <<audited, findings>>
AuditNext == LReturned /\ A!AuditDevice /\ UNCHANGED lvars

PNext == WriteAndParse \/ AuditNext
PSpec == PInit /\ [][PNext]_pvars

AuditReturned == LReturned /\ audited = Len(out)

-----------------------------------------------------------------------------
(* Properties *)

RecordsOf(id) == {k \in DOMAIN out : out[k].device_instance_id = id}
FindingsOf(id) == {n \in DOMAIN findings : findings[n].instance_id = id}

\* What only the auditor narrates of a connection: the reader knows neither the
\* input devices nor the technique of autorun media.
AuditorOnly(t, conn) ==
    \/ t = "T1200" /\ A!is_hid(conn)
    \/ t = "T1091" /\ is_mass_storage(conn.bus)

\* The two crates each decide which techniques a device is consistent with: the
\* reader for the connection, the auditor for its findings.  They do not agree,
\* and differ by this: a device's findings narrate a technique as often as its
\* connections carry it, and once more for each connection of an input device
\* (T1200) or of mass storage (T1091, which no connection carries)
\* (build_connection; audit, DeviceAnomaly::mitre).
TechniquesAccounted ==
    AuditReturned => \A id \in Devices : \A t \in {"T1200", "T1052.001", "T1091"} :
        Cardinality({n \in FindingsOf(id) : t \in findings[n].mitre}) =
            Cardinality({k \in RecordsOf(id) : t \in out[k].mitre})
            + Cardinality({k \in RecordsOf(id) : AuditorOnly(t, out[k])})

\* A device is attributed by a serial or warned about, never both: when a
\* finding says Windows made the serial up, no connection of the device carries
\* one; and a path whose serial segment is missing from its connections, though
\* neither absent nor empty, has the finding (build_connection, audit).
AttributedOrWarned ==
    AuditReturned => \A k \in DOMAIN out :
        LET id == out[k].device_instance_id
            warned == \E n \in FindingsOf(id) : findings[n].code = "OsGeneratedSerial" IN
        /\ warned => out[k].device_serial = None
        /\ out[k].device_serial = None /\ ~warned => id.serial \in {None, ""}

-----------------------------------------------------------------------------
(* The inductive invariant. *)

\* Nothing is audited before the reader returns; then the counts are right.
AuditInv ==
    /\ audited = 0 \/ LReturned
    /\ A!AuditInv(InstanceIds)
=============================================================================
