CONSTANTS
  Slots = {r1}
  Services = {s1}
  Zones = {"z1"}
  Addrs = {"a1", "a2"}
  V4 = {"a1", "a2"}
  Secrets = {"k1"}
  Foreign = {}
  Prefix <- MCOneZone
  Ops = {"create", "update", "delete"}
  Types = {"LoadBalancer"}
  UserAddresses <- MCAskA1
  Families = {"ipv4"}
  ValidParams = {TRUE, FALSE}
  MaxRequests = 3
  MaxFaults = 0
  LostAnswers = FALSE
  InformerLag = FALSE
  Rejections = FALSE
  Crashes = FALSE
  OneAtATime = TRUE
SPECIFICATION Spec
INVARIANTS BoundIsStored
