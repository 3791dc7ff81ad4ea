SPECIFICATION Spec
CONSTANTS
  Rates = {16, 48}
PROPERTIES CaptureFollows
