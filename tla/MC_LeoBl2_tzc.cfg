\* Leo BL2: every loaded OP-TEE image is in DDR that the TZC denies to non-secure masters (violation expected).
CONSTANTS
  Headers <- MCHeaders
  NS_IMAGE_BASE <- MCNsImageBase
SPECIFICATION Spec
INVARIANT OpteeImagesProtected
CHECK_DEADLOCK FALSE
