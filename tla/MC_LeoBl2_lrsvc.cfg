\* Leo BL2: BL32 returns to BL33's entry point (violation expected).
CONSTANTS
  Headers <- MCHeaders
  NS_IMAGE_BASE <- MCNsImageBase
SPECIFICATION Spec
INVARIANT Bl32ReturnsToBl33
CHECK_DEADLOCK FALSE
