CONSTANTS
  Screens <- PhoneScreens
  Captures <- SomeCaptures
SPECIFICATION Spec
INVARIANT ScreenIsCast
CHECK_DEADLOCK FALSE
