CONSTANTS
  gossip = gossip  boot = boot  ca = ca  cakey = cakey  other = other
  Names = {gossip, boot, ca, cakey, other}
  Packed = {gossip, boot, ca, cakey}
  MaxWanted = 4
SPECIFICATION Spec
INVARIANTS TypeOK FoundIsExact MissingIsExact NeverPanics PackedIsNotMissing
