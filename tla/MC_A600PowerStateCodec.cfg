\* A600 power-state validation, classic and extended State-ID layouts.
SPECIFICATION Spec

INVARIANT TypeOK
INVARIANT ValidateAcceptsExactlyTable
INVARIANT ValidateDecodesEncoding
INVARIANT AcceptedStateMatchesPsciRules
INVARIANT BinarySearchAgreesWithScan
