SPECIFICATION Spec
CONSTANTS
  s1 = s1
  s2 = s2
  s3 = s3
  Servers = {s1, s2, s3}
  MaxCrashes = 1
  MaxMistakes = 2
  MaxTroubles = 2
  Crashable = {s1, s3}
  Mistakable <- Pair
  MaxMerging = 2
INVARIANTS
  CTypeOK
  MembersListed
  NoGhosts
PROPERTIES
  OneCluster
