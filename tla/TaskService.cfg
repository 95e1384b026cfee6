\* Two server processes on the same database: their calls interleave on a task
\* of one turnover, and midnight passes inside a call.
CONSTANTS
  Callers = {api, other}
  Types = {paint}
  LastDay = 2
SYMMETRY Symmetry
SPECIFICATION Spec
INVARIANT CompletedIsStamped
PROPERTIES CompletedOnce ReadyStays
