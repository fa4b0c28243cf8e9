SPECIFICATION ClinicFairSpec
CONSTANTS
  Nurses = {n1}
  Vaccinators = {v1, v2}
  Citizens = {c1}
  times_of_shot = 2
  buffer_size = 3
  Interrupts = TRUE
INVARIANT BufferProtected
PROPERTY ClinicCloses
CHECK_DEADLOCK FALSE
