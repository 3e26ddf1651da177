------------------------------- MODULE Audit -------------------------------
(***************************************************************************)
(* The auditor of forensic/src/lib.rs: it takes the connections the        *)
(* readers produced, one after the other, and pushes up to four graded     *)
(* anomalies for each, always in the same order.                           *)
(***************************************************************************)
EXTENDS Bus, Sequences, FiniteSets

CONSTANTS NamesHid(_),   \* whether an instance id names the HID class
          None           \* no bus

VARIABLES devices,   \* the connections audited; the readers' output
          audited,   \* connections audited so far
          findings   \* the anomalies found so far

auditor == <<audited, findings>>

-----------------------------------------------------------------------------
is_hid(d) == d.bus = "Bluetooth" \/ NamesHid(d.device_instance_id)

Codes == {"DmaCapableDevice", "MassStorageConnected", "HidDevice", "OsGeneratedSerial"}

severity(code) ==
    CASE code = "DmaCapableDevice"  -> "High"
      [] code = "OsGeneratedSerial" -> "Low"
      [] OTHER -> "Medium"

category(code) == IF code = "OsGeneratedSerial" THEN "Integrity" ELSE "Threat"

mitre(code) ==
    CASE code \in {"DmaCapableDevice", "HidDevice"} -> {"T1200"}
      [] code = "MassStorageConnected" -> {"T1052.001", "T1091"}
      [] OTHER -> {}

Anomaly(code, d) ==
    [code |-> code, instance_id |-> d.device_instance_id,
     bus |-> IF code = "DmaCapableDevice" THEN d.bus ELSE None,
     severity |-> severity(code), category |-> category(code), mitre |-> mitre(code)]

When(holds, code, d) == IF holds THEN <<Anomaly(code, d)>> ELSE <<>>

\* Mutant: a device's first anomaly is its only one.
anomaliesFirstOnly(d) ==
    CASE d.dma_capable -> <<Anomaly("DmaCapableDevice", d)>>
      [] ~d.dma_capable /\ is_mass_storage(d.bus) -> <<Anomaly("MassStorageConnected", d)>>
      [] OTHER -> When(is_hid(d), "HidDevice", d)
                  \o When(d.serial_is_os_generated, "OsGeneratedSerial", d)

anomalies(d) ==
    When(d.dma_capable, "DmaCapableDevice", d)
    \o When(is_mass_storage(d.bus), "MassStorageConnected", d)
    \o When(is_hid(d), "HidDevice", d)
    \o When(d.serial_is_os_generated, "OsGeneratedSerial", d)

-----------------------------------------------------------------------------
StartAudit == audited = 0 /\ findings = <<>>

AuditDevice ==
    /\ audited < Len(devices)
    /\ findings' = findings \o anomalies(devices[audited + 1])
    /\ audited' = audited + 1

-----------------------------------------------------------------------------
(* The inductive invariant. *)

\* An anomaly is graded by its code alone.
Anomalies(Ids) ==
    {a \in [code : Codes, instance_id : Ids, bus : Buses \cup {None},
            severity : {"High", "Medium", "Low"}, category : {"Integrity", "Threat"},
            mitre : SUBSET {"T1200", "T1052.001", "T1091"}] :
        a.severity = severity(a.code) /\ a.category = category(a.code) /\ a.mitre = mitre(a.code)}

FindingsOf(code, id) ==
    {n \in DOMAIN findings : findings[n].code = code /\ findings[n].instance_id = id}

\* What a connection gives as the reason for an anomaly of it.
Holds(code, d) ==
    CASE code = "DmaCapableDevice"     -> d.dma_capable
      [] code = "MassStorageConnected" -> is_mass_storage(d.bus)
      [] code = "HidDevice"            -> is_hid(d)
      [] code = "OsGeneratedSerial"    -> d.serial_is_os_generated

AuditedFor(code, id) ==
    {k \in 1..audited : devices[k].device_instance_id = id /\ Holds(code, devices[k])}

\* As many findings of a code for an id as connections of it give the reason.
AuditInv(Ids) ==
    /\ audited \in 0..Len(devices)
    /\ findings \in Seq(Anomalies(Ids))
    /\ \A code \in Codes : \A id \in Ids :
           Cardinality(FindingsOf(code, id)) = Cardinality(AuditedFor(code, id))
=============================================================================
