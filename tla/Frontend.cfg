\* Two saves under way at once, with fetches, failures and page changes between.
CONSTANTS
  d1 = d1
  p1 = p1
  Dates = {d1, d2}
  People = {p1}
  Started <- MCStarted
  Slots = {m1, m2}
  MaxEdits = 2
SPECIFICATION FairSpec
INVARIANTS PageFollows EditKept
PROPERTIES EditArrives
