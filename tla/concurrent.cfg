CONSTANTS
  Slots = {r1, r2}
  Services = {s1, s2}
  Zones = {"z1"}
  Addrs = {"a1", "a2"}
  V4 = {"a1", "a2"}
  Secrets = {"k1"}
  Foreign = {}
  Prefix <- MCOneZone
  Ops = {"create", "update", "delete"}
  Types = {"LoadBalancer"}
  UserAddresses <- MCAskA1
  Families = {"ipv4"}
  ValidParams = {TRUE}
  MaxRequests = 5
  MaxFaults = 0
  LostAnswers = FALSE
  InformerLag = TRUE
  Rejections = FALSE
  Crashes = FALSE
  OneAtATime = TRUE
SPECIFICATION Spec
INVARIANTS StoredIsBound
SYMMETRY MCSymmetry
