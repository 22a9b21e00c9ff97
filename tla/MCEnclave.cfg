SPECIFICATION Spec
CONSTANTS
  enclave = enclave
  restarted = restarted
  committee = committee
  Key <- MCKey
  Text = {"", "b", "nonce", "NUL"}
  Id <- MCId
  Status = {200, 404}
  Committee <- MCCommittee
  Wrecks = {"damaged", "short", "undecodable", "empty"}
  None = None
  MaxWire = 1
SYMMETRY Alike
INVARIANTS OpensExactlyAsSealed KeyOnlyOnRelease
