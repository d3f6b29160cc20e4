CONSTANTS
  Slots = {r1}
  Services = {s1, s2, s3}
  Zones = {"z1"}
  Addrs = {"a1", "a2", "b1", "b2"}
  V4 = {"a1", "a2"}
  Secrets = {"k1"}
  Foreign = {"b1"}
  Prefix <- MCOneZone
  Ops = {"create", "update", "delete"}
  Types = {"LoadBalancer"}
  UserAddresses <- MCAskTwo
  Families = {"ipv4", "ipv6"}
  ValidParams = {TRUE}
  MaxRequests = 6
  MaxFaults = 0
  LostAnswers = FALSE
  InformerLag = FALSE
  Rejections = FALSE
  Crashes = FALSE
  OneAtATime = TRUE
SPECIFICATION Spec
INVARIANTS StoredIsBound StoredIsPooled BoundIsStored PooledIsStored FamiliesServed
PROPERTIES RollbackSparesStored
SYMMETRY MCSymmetry
