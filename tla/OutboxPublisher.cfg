SPECIFICATION FairSpec
CONSTANTS
  Row = {1, 2, 3}
  Publisher = {p1, p2}
  Group = {g1}
  BatchSize = 2
  MaxInflight = 1
  MaxFaults = 1

INVARIANTS PublishedIsInStream DuplicatesAreFaults BoundedOvershoot
PROPERTIES EventuallyPublished
