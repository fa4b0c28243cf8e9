SPECIFICATION ClinicSpec
CONSTANTS
  Nurses = {n1, n2}
  Vaccinators = {v1, v2}
  Citizens = {c1, c2}
  times_of_shot = 1
  buffer_size = 3
  Interrupts = FALSE
SYMMETRY ClinicSymmetry
INVARIANT BufferExact
INVARIANT RoomExact
INVARIANT TotalsAddUp
CHECK_DEADLOCK FALSE
