\* Time in seconds: 32 bits of clocks are 43 of them, 31 bits 21.
CONSTANTS
  CPU_FREQUENCY = 1
  WORD = 43
  WDG_COUNTS = 21
  WDG_SECONDS = 60
  IDLE_TIME = 7
  TEMP_SECONDS = 5
  g_temp_high = 60
  Temps = {20, 70}
  MaxWork = 1
  Stay = 14
SPECIFICATION Spec
INVARIANTS TypeOK HangEnds IdleInTime BoardShows
PROPERTIES BitesHung NotIdleEarly
