SPECIFICATION PackageSpec
CONSTANTS
  Contents = {"x", "y"}
  SizeOf <- Sizes
  Reserved = 2
  Fingerprints = {7}
INVARIANT VerifiedReads
CHECK_DEADLOCK FALSE
