\* Leo BL2: the jump to BL32 enters the code that was loaded, and BL2 ends as the header dictates.
CONSTANTS
  Headers <- MCHeaders
  NS_IMAGE_BASE <- MCNsImageBase
SPECIFICATION FairSpec
INVARIANT TypeOK
INVARIANT Bl32EntryIsLoadedCode
PROPERTY Bl2EndsAsHeaderDictates
CHECK_DEADLOCK FALSE
