CONSTANTS
  Handlers = {h1, h2, h3}
  Processes = {p1, p2}
  Values = {k1, k2}
  MaxFaults = 2
SPECIFICATION FairSpec
INVARIANTS SecretTypeOK Agreement
PROPERTIES ChosenOnce DenialsEnd
