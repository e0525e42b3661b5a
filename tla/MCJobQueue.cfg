SPECIFICATION QFairSpec
CONSTANTS
  Clients = {c1, c2, c3, c4}
  QueueLength = 2
INVARIANTS
  SlotConservation
  WorkConserving
PROPERTIES
  NoOvertaking
  AdmissionSpec
  NoStarvation
