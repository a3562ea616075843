SPECIFICATION FairSpec
CONSTANTS
  s1 = s1
  s2 = s2
  k1 = k1
  bad = bad
  dig = dig
  other = other
  Spkis = {s1, s2}
  BlsKeys = {k1}
  BadPoints = {bad}
  NoBls = NoBls
  NoPeer = NoPeer
  CaKeys = {dig, other}
  DIG_CA_KEY = dig
  Credentials <- MCCredentials
  Clocks <- MCClocks
  InUse = {"Opportunistic", "Required"}
  Versions = {"1.2", "1.3"}
CHECK_DEADLOCK FALSE
INVARIANTS
  TypeOK
  ServerEndIsMutual
  ReplyMeansMutual
  NobodyStuck
  CompatibleNeverFail
PROPERTIES
  BothSettle
  CompatiblePeersTalk
