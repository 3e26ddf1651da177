-------------------------------- MODULE Bus --------------------------------
(***************************************************************************)
(* The bus classification every reader and the auditor share               *)
(* (core/src/lib.rs).  Pure data: which enumerator names which bus, and    *)
(* the two facts a bus decides about a device, DMA and mass storage.       *)
(***************************************************************************)
EXTENDS Naturals

Buses == {"Usb", "Thunderbolt", "FireWire", "Pcie", "ExpressCard", "Esata",
          "Nvme", "Bluetooth", "SdMmc", "ScsiSas", "Mtp", "Unknown"}

\* Enumerators grouped by the bus they imply.  The code trims and upper-cases
\* its argument first, so a name here stands for all its spellings.
EnumeratorsOf ==
    [Usb         |-> {"USBSTOR", "USB"},
     FireWire    |-> {"1394"},
     Thunderbolt |-> {"THUNDERBOLT"},
     Pcie        |-> {"PCI", "PCIE"},
     ScsiSas     |-> {"SCSI", "SAS"},
     Nvme        |-> {"NVME"},
     SdMmc       |-> {"SD", "MMC", "SDBUS"},
     Esata       |-> {"ESATA"},
     Bluetooth   |-> {"BTHENUM", "BTHLE", "BLUETOOTH"},
     ExpressCard |-> {"EXPRESSCARD"},
     Mtp         |-> {"WPDBUSENUMROOT", "MTP"}]

from_enumerator(e) ==
    IF \E b \in DOMAIN EnumeratorsOf : e \in EnumeratorsOf[b]
    THEN CHOOSE b \in DOMAIN EnumeratorsOf : e \in EnumeratorsOf[b]
    ELSE "Unknown"

is_dma_capable(bus) == bus \in {"FireWire", "Thunderbolt", "Pcie", "ExpressCard"}

is_mass_storage(bus) == bus \in {"Usb", "Esata", "SdMmc", "ScsiSas", "Nvme"}
=============================================================================
