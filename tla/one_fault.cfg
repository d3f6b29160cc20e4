CONSTANTS
  Slots = {r1}
  Services = {s1}
  Zones = {"z1"}
  Addrs = {"a1", "a2", "b1"}
  V4 = {"a1", "a2"}
  Secrets = {"k1", "k2"}
  Foreign = {}
  Prefix <- MCOneZone
  Ops = {"create", "update", "delete"}
  Types = {"LoadBalancer"}
  UserAddresses <- MCAskTwo
  Families = {"ipv4", "dual"}
  ValidParams = {TRUE}
  MaxRequests = 4
  MaxFaults = 1
  LostAnswers = FALSE
  InformerLag = FALSE
  Rejections = FALSE
  Crashes = FALSE
  OneAtATime = TRUE
SPECIFICATION Spec
INVARIANTS StoredIsBound StoredIsManageable FamiliesServed
PROPERTIES RollbackSparesStored
