\* One VU is enough for the wake-up of StartSignal::start to be missed.
CONSTANTS
    NumVus = 1
    NumPacers = 0
    HasProgress = FALSE

SPECIFICATION Spec

PROPERTIES
    EveryVuStarts

CHECK_DEADLOCK FALSE
