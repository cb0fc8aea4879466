---------------------------- MODULE DeviceReads ----------------------------
(***************************************************************************)
(* The read commands about devices: storage (UDisks2), network             *)
(* (NetworkManager) and DNS (systemd-resolved, or NetworkManager where     *)
(* that is absent).  Every D-Bus object can vanish between its listing and *)
(* the calls about it.                                                     *)
(***************************************************************************)
EXTENDS ReadSteps

(* storage: serde fails on a property of another type; a missing one has a default. *)

BlockProps == {"Drive", "IdType", "IdLabel", "IdUUID", "IdUsage", "Size", "ReadOnly", "HintSystem"}
PartitionProps == {"Number", "Part Type", "Name", "Part Size", "Offset"}
DriveProps ==
  {"Model", "Serial", "Vendor", "Revision", "Drive Size", "RotationRate", "Removable", "ConnectionBus"}
NvmeProps ==
  {"SmartCriticalWarning", "SmartPowerOnHours", "SmartTemperature", "SmartSelftestStatus", "State"}

Udisks == "UDisks2"
BlockDevices == Step("GetBlockDevices")
Drives == Step("GetDrives")
Block == Get("Block", BlockProps)
Filesystem == Try("Filesystem", {})

StorageList ==
  [Loop(Udisks, <<BlockDevices>>, <<Block, Filesystem>>) EXCEPT !.late = TRUE]

\* The drive is another object, asked for in the same way as the device's own interfaces.
Drive == [Follow("Drive", DriveProps) EXCEPT !.but = "NoInterface" :> "without"]

\* What a block device may be besides.
Detail ==
  <<Filesystem, Try("Partition", PartitionProps), Try("PartitionTable", {"Table Type"}),
    Try("Encrypted", {"CleartextDevice", "MetadataSize"}), Drive>>

\* The devices are compared by PreferredDevice, a byte array.
StorageShow ==
  [Scan(Udisks, <<BlockDevices>>, <<Block>> \o Detail) EXCEPT !.late = TRUE, !.bytes = TRUE]

Nvme == [Try("NVMe.Controller", NvmeProps) EXCEPT !.but = "NoInterface" :> "skip"]

StorageHealth ==
  [Loop(Udisks, <<Drives>>, <<Get("Drive object", DriveProps), Nvme>>)
     EXCEPT !.late = TRUE]

StorageHealthOf ==
  [StorageHealth EXCEPT !.filters = TRUE, !.sieve = 3, !.must = TRUE]

StorageCommands ==
     "storage list"         :> <<StorageList>>
  @@ "storage show"         :> <<StorageShow>>
  @@ "storage health"       :> <<StorageHealth>>
  @@ "storage health DRIVE" :> <<StorageHealthOf>>
-----------------------------------------------------------------------------
(* network *)

DeviceProps ==
  {"Interface", "DeviceType", "Device State", "Managed", "HwAddress", "Mtu", "Ip4Config", "Ip6Config",
   "ActiveConnection", "Dhcp4Config"}
IpProps == {"AddressData", "Gateway", "NameserverData", "Domains"}
ActiveConnectionProps == {"Id", "Connection Type", "Default"}

NM == "NetworkManager"
Devices == Step("GetDevices")
Device == Get("Device", DeviceProps)
Ip4 == Follow("Ip4Config", IpProps)
Ip6 == Follow("Ip6Config", IpProps)
Connection == Follow("ActiveConnection", ActiveConnectionProps)
Dhcp4 == Follow("Dhcp4Config", {})

\* keep_device looks at the device as soon as it is read.
NetworkList ==
  [Loop(NM, <<Devices>>, <<Device, Ip4, Ip6>>) EXCEPT !.filters = TRUE, !.sieve = 1]

NetworkListAll == [NetworkList EXCEPT !.filters = FALSE]

NetworkShow ==
  Scan(NM, <<Devices>>,
       <<Device, Ip4, Ip6, Connection, Dhcp4>>)

NetworkCommands ==
     "network list"       :> <<NetworkList>>
  @@ "network list --all" :> <<NetworkListAll>>
  @@ "network show"       :> <<NetworkShow>>
-----------------------------------------------------------------------------
(* dns *)

\* is_service_absent, looked at for an error of any call of the command.
OrNext == [Raw EXCEPT !["NoService"] = "fallback", !["NoChannel"] = "fallback"]

\* A link that is gone is passed over.
Link == [Get("Link", {}) EXCEPT !.but = "NoObject" :> "skip" @@ "NoInterface" :> "skip"]

\* GlobalDnsConfig needs three of the manager's properties; Introspect lists the links.
Global == Step("Manager")
Links == Step("Introspect")

DnsStatus ==
  [Loop("resolve1", <<Global, Links>>, <<Link>>)
     EXCEPT !.errors = OrNext, !.filters = TRUE, !.sieve = 2]

DnsStatusAll == [DnsStatus EXCEPT !.filters = FALSE]

\* An entry without name servers is left out.
DnsStatusNm ==
  [Loop(NM, <<Step("DnsManager")>>, <<>>) EXCEPT !.row = {"nameservers"}, !.bad = "skip"]

\* An address that does not decode is left out, a tuple of another shape is an error.
DnsQuery ==
  [Flat("resolve1", <<>>) EXCEPT
     !.errors = AbsentMapped, !.named = TRUE,
     !.each = <<[Get("ResolveHostname", {}) EXCEPT !.but = "NoObject" :> "NotFound"]>>]

DnsCommands ==
     "dns status"       :> <<DnsStatus, DnsStatusNm>>
  @@ "dns status --all" :> <<DnsStatusAll, DnsStatusNm>>
  @@ "dns query"        :> <<DnsQuery>>
=============================================================================
