CONSTANTS
  Slots = {r1, r2}
  Services = {s1}
  Zones = {"z1", "z2"}
  Addrs = {"a1", "a3"}
  V4 = {"a1", "a3"}
  Secrets = {"k1"}
  Foreign = {}
  Prefix <- MCTwoZones
  Ops = {"create", "update", "delete"}
  Types = {"LoadBalancer", "ClusterIP"}
  UserAddresses <- MCAskA1
  Families = {"ipv4"}
  ValidParams = {TRUE}
  MaxRequests = 3
  MaxFaults = 1
  LostAnswers = TRUE
  InformerLag = FALSE
  Rejections = TRUE
  Crashes = TRUE
  OneAtATime = FALSE
SPECIFICATION FairSpec
INVARIANTS WebhookTypeOK PooledIsInZone
PROPERTIES EveryRequestAnswered
