\* Two VUs are enough to create the series twice.
CONSTANTS
    Vus = {v1, v2}

SPECIFICATION GaugeSpec

INVARIANTS
    PeakTracked

CHECK_DEADLOCK FALSE
