CONSTANTS
  Slots = {r1, r2}
  Services = {s1, s2}
  Zones = {"z1"}
  Addrs = {"a1", "b1"}
  V4 = {"a1"}
  Secrets = {"k1", "k2"}
  Foreign = {}
  Prefix <- MCOneZone
  Ops = {"create"}
  Types = {"LoadBalancer"}
  UserAddresses <- MCAskA1
  Families = {"ipv4", "dual"}
  ValidParams = {TRUE}
  MaxRequests = 4
  MaxFaults = 2
  LostAnswers = TRUE
  InformerLag = TRUE
  Rejections = FALSE
  Crashes = TRUE
  OneAtATime = TRUE
SPECIFICATION Spec
INVARIANTS StoredIsManageable StoredIsPooled
SYMMETRY MCSymmetry
