CONSTANTS
  W = 8
SPECIFICATION Spec
INVARIANTS
  WordsExact
  TextsExact
  PacketsExact
  HandoverExact
  ImagesExact
  HardwareExact
