\* One VU and one tick are enough for the wake-up of mark_done to be missed.
CONSTANTS
    PreAllocatedVus = 1
    MaxVus = 1
    MaxTicks = 1
    MaxDue = 1

SPECIFICATION Spec

PROPERTIES
    DrainsThenStops

CHECK_DEADLOCK FALSE
