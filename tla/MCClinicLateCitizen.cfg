SPECIFICATION ClinicSpec
CONSTANTS
  Nurses = {n1}
  Vaccinators = {v1}
  Citizens = {c1, c2}
  times_of_shot = 1
  buffer_size = 3
  Interrupts = FALSE
INVARIANT AllVaccinated
CHECK_DEADLOCK FALSE
