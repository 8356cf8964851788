CONSTANTS
  Screens <- SomeScreens
  Captures <- SomeCaptures
SPECIFICATION Spec
INVARIANTS
  FramesAreEncodable
  PictureIsUpright
  FittingPictureIsFramed
CHECK_DEADLOCK FALSE
