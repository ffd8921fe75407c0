CONSTANTS
  NonNumeric = NonNumeric
  Undefined = Undefined
  SegmentValues = {0, 1, 2, 7, 8}
  MaxSegments = 4
SPECIFICATION Spec
INVARIANT AgreesWithReference
