CONSTANTS
  MaxClicks = 4
  MaxSteer = 1
SPECIFICATION ChromeSpec
INVARIANTS ConfigureBarStays DetectSettles
CONSTRAINT Apart
PROPERTIES AnnotationsFit UnsavedTextUndone
CHECK_DEADLOCK FALSE
