SPECIFICATION QuerySpec
CONSTANTS
  r = r
  a = a
  b = b
  c = c
  Obs = {1, 2, 3, 4, 5, 6}
  Review = {r}
  Object = {a, b, c}
  entityOf <- Entities
  occurred <- Times
  until <- Ends
  links <- LinksOf
  Linked = {2, 3, 4, 5, 6}
  Judged = 3
  Matches <- AnyMatch
  Windows <- Spans
  Limit = 2

INVARIANTS StoredIsInspectable
