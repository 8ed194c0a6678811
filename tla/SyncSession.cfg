SPECIFICATION FairSpec
CONSTANTS
  HashBits = 3
  Peer <- Peers
  MaxKey = 2
  KeyHash <- TwoKeys
  Buckets <- TwoBuckets
  MaxWrites = 2
  MaxFaults = 1
INVARIANTS SessionSound
PROPERTIES SessionsEnd BothSame AuthoritativeKept
