---------------------------- MODULE ReadPrograms ----------------------------
(* The read commands of fez. *)
EXTENDS DeviceReads, SystemReads, SoftwareReads

\* The programs of each command in the order in which they are tried.
Programs ==
  StorageCommands @@ NetworkCommands @@ DnsCommands @@ SystemCommands @@ FirmwareCommands
    @@ ServicesCommands @@ JournalCommands @@ PackagesCommands @@ FirewallCommands
=============================================================================
