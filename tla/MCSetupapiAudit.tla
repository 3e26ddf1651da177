-------------------------- MODULE MCSetupapiAudit --------------------------
(***************************************************************************)
(* SetupLog and SetupapiAudit on a handful of devices: a USB stick with a  *)
(* serial, an input device with a made-up one, a FireWire camera whose     *)
(* serial segment is empty, a Bluetooth receiver without one, and a path   *)
(* that a description may hold beside the device.                          *)
(***************************************************************************)
EXTENDS SetupapiAudit

CONSTANTS stick, madeUp   \* serial segments

Path(e, d, s, n) == [enumerator |-> e, device_id |-> d, serial |-> s, len |-> n]

Segment(tag, zeros, digits) == [tag |-> tag, plus |-> FALSE, zeros |-> zeros, digits |-> digits]

Stick    == Path("USBSTOR", <<Segment("other", 0, <<>>)>>, stick, 40)
Keyboard == Path("HID", <<Segment("VID", 1, <<"4", "6", "D">>), Segment("PID", 2, <<"4", "D">>)>>,
                 madeUp, 41)
Camera   == Path("1394", <<>>, "", 30)
Receiver == Path("BTHENUM", <<>>, None, 30)
Phrase   == Path("online", <<>>, None, 14)

MCPaths == {Stick, Keyboard, Camera, Receiver, Phrase}
MCDevices == {Stick, Keyboard, Camera, Receiver}
MCHid == {Keyboard}
MCSerials == {stick, madeUp, ""}
=============================================================================
