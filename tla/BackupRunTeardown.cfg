SPECIFICATION Spec
CONSTANTS
  Count = 2
  MaxSize = 2
  Gone = Gone
INVARIANT TornDownEvenOnFailure
