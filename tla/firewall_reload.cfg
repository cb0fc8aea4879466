SPECIFICATION Spec
CONSTANTS
  Areas <- FirewallOnly
  Mechanisms <- Names
  Safe <- Names
  Lists <- OneList
  Overrides <- NoOverride
  Zones <- MZones
  Services <- MServices
  Ports <- MPorts
  Others <- MOthers
  SessionItems <- MServices
  Carrier = "ssh"
  Configs <- MConfigs
  Requests <- MRequests
  MaxChanges = 1
  Queries <- MQueries
  Presences <- MPresences
  MaxMoves = 1
  Word = 8
INVARIANT
  NothingDiscarded
