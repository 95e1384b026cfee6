\* The user completes the task from any of the pages.
CONSTANTS
  d1 = d1
  p1 = p1
  Dates = {d1}
  People = {p1}
  Started <- MCStarted
  Slots = {m1}
  MaxEdits = 1
SPECIFICATION Spec
PROPERTY TaskCompletes
