CONSTANTS
  W = 8
SPECIFICATION Spec
INVARIANT SectionsInside
