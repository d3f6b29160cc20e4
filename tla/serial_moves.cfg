CONSTANTS
  Slots = {r1}
  Services = {s1}
  Zones = {"z1", "z2"}
  Addrs = {"a1", "a2", "a3", "b1"}
  V4 = {"a1", "a2", "a3"}
  Secrets = {"k1", "k2"}
  Foreign = {}
  Prefix <- MCTwoZones
  Ops = {"create", "update", "delete"}
  Types = {"LoadBalancer"}
  UserAddresses <- MCAskMoves
  Families = {"ipv4", "ipv6"}
  ValidParams = {TRUE}
  MaxRequests = 5
  MaxFaults = 0
  LostAnswers = FALSE
  InformerLag = FALSE
  Rejections = FALSE
  Crashes = FALSE
  OneAtATime = TRUE
SPECIFICATION Spec
INVARIANTS StoredIsManageable StoredIsPooled BoundIsStored PooledIsStored
