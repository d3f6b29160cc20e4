CONSTANTS
  Slots = {r1, r2}
  Services = {s1, s2}
  Zones = {"z1"}
  Addrs = {"a1", "a2"}
  V4 = {"a1", "a2"}
  Secrets = {"k1"}
  Foreign = {}
  Prefix <- MCOneZone
  Ops = {"create", "delete"}
  Types = {"LoadBalancer"}
  UserAddresses <- MCChosen
  Families = {"ipv4"}
  ValidParams = {TRUE}
  MaxRequests = 3
  MaxFaults = 0
  LostAnswers = FALSE
  InformerLag = FALSE
  Rejections = FALSE
  Crashes = FALSE
  OneAtATime = TRUE
SPECIFICATION Spec
INVARIANTS StoredIsPooled
SYMMETRY MCSymmetry
