\* dtr and the worker, with a bio or without.
CONSTANT Bios = {b1}
SPECIFICATION FairSpec
PROPERTY DtrReturns
CHECK_DEADLOCK FALSE
