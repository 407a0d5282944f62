SPECIFICATION FairSpec
CONSTANTS
  caption = caption
  failure = failure
  ungranted = ungranted
  Job = {1, 2}
  Result = {caption, failure, ungranted}
  outcome <- Outcomes
  Acceptable <- Good
  Session = {s1, s2}
  NoJob = NoJob
  NoResult = NoResult
  MaxFaults = 1

INVARIANTS HandedOutOnce ResultMatchesJob ReceiptsAreHonest
PROPERTIES JobsAreServed

CHECK_DEADLOCK FALSE
