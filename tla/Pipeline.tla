------------------------------ MODULE Pipeline ------------------------------
(***************************************************************************)
(* One device in two sources.  Windows keeps an instance key of it and     *)
(* heads a section of its setupapi log with the same path; each of the two *)
(* readers has its own table of buses, its own reading of VID_ and PID_    *)
(* and its own test of made-up serials.  A consumer joins their records by *)
(* device_instance_id and audits the joined list.                          *)
(***************************************************************************)
EXTENDS RegistryAudit

\* The record of a registry device as a path in a log.
LoggedPath(conn) ==
    [enumerator |-> conn.device_instance_id[1],
     device_id |-> SegmentsOf[conn.device_instance_id[2]],
     serial |-> conn.device_instance_id[3],
     len |-> 1]

S == INSTANCE Setupapi WITH
    InstanceIds <- {}, Serials <- Instances, text <- <<>>, pos <- 0

\* What parse_setupapi makes of a section about that path, with its id as the
\* registry reader has it.
Logged(conn) ==
    [S!build_connection([id |-> LoggedPath(conn), time |-> None], 1)
        EXCEPT !.device_instance_id = conn.device_instance_id]

Codes(conn) == {A!anomalies(conn)[i].code : i \in DOMAIN A!anomalies(conn)}

\* Only the registry knows a phone, and only the log a serial made up by Windows
\* that begins with a wide character.
IsPhone(conn) == conn.bus = "Mtp"
IsWide(conn) == conn.device_instance_id[3] \in AmpSecond \cap WideFirst

When(condition, code) == IF condition THEN {code} ELSE {}

\* How far a consumer may take the two readers' records of one device for each
\* other.  Bus, DMA flag and findings are the same, but that a log takes a phone
\* for a USB device and storage.  The log's test of made-up serials is the
\* registry's and one more case, and only the log's record then drops the serial.
\* The ids are the same if the name has each tag once with four digits; with
\* fewer, the registry reader may miss an id but reads no other one.
SourcesAgree ==
    AuditReturned => \A k \in DOMAIN out :
        LET conn == out[k]
            logged == Logged(conn)
            name == LoggedPath(conn).device_id IN
        /\ logged.bus = IF IsPhone(conn) THEN "Usb" ELSE conn.bus
        /\ logged.dma_capable = conn.dma_capable
        /\ logged.serial_is_os_generated = (conn.serial_is_os_generated \/ IsWide(conn))
        /\ logged.device_serial =
              IF logged.serial_is_os_generated THEN None ELSE conn.device_serial
        /\ WellFormed("VID", name) => logged.vid = conn.vid
        /\ WellFormed("PID", name) => logged.pid = conn.pid
        /\ Plain("VID", name) => conn.vid \in {logged.vid, None}
        /\ Plain("PID", name) => conn.pid \in {logged.pid, None}
        /\ Codes(logged) = Codes(conn) \cup When(IsPhone(conn), "MassStorageConnected")
                                       \cup When(IsWide(conn), "OsGeneratedSerial")
=============================================================================
