\* The stations of the GTP area when the table of the scanners cannot be fetched.
SPECIFICATION Spec
CONSTANTS
    Starts <- GtpStarts
    Zones <- MCZones
INVARIANT PrimariesAreIndependent
CHECK_DEADLOCK FALSE
