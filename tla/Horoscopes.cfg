SPECIFICATION SpecMC
CONSTANTS
  Years <- MCYears
  Names <- MCNames
  JobSigns = {aries}
  JobPeriods = {"weekly"}
  Slots = {w1, w2}
  Crons = {c1}
  Attempts = 2
  KeepFailed = 1
  MaxDay = 1
  Users = {u1, u2}
  TickSystems = {"western"}
  HoursPerDay = 2
  MaxHour = 4
  TickHours = 1
CHECK_DEADLOCK FALSE
INVARIANTS JobsSound TicksSound SignsAgreeDaily
PROPERTIES GeneratedStays JobsEnd ShutdownEnds CyclesAdvance
