SPECIFICATION Spec
CONSTANTS
  Orders = {o1}
  Items = {i1, i2}
INVARIANTS
  EventsReportFinalState
