SPECIFICATION Spec
CONSTANTS
  Peers <- MCPeers
  Tasks <- MCTasks
  Inputs <- MCInputs
  Preferences <- MCPreferences
  HeaderNames <- MCHeaderNames
  Keys = {1, 2}
  Others = {3}
  Digest <- MCDigest
  Width = 2
  Bytes = {0, 5, 6}
  None = None
  Nonces <- MCNonces
  Times <- MCTimes
  Targets <- MCTargets
  Slack = 2
  MaxWaiting = 2
  MaxEchoes = 1
CHECK_DEADLOCK FALSE
INVARIANTS EvidenceIsTheServers ProofIsBound RttsHold
PROPERTIES ServerStops
