\* Requests of up to one header line, whole, in part and missing, over each
\* other: routes that name a method, none and one with a "?", and a header that
\* throws.
SPECIFICATION Spec
CONSTANTS
  FirstWords <- GetAndPost
  Routes <- NamingRoutes
  Headers <- NoLength
  MaxHeaders = 1
  MaxParts = 1
  MaxCells = 9
CHECK_DEADLOCK FALSE
INVARIANT LeftoverAccounted
PROPERTIES WithinReactorReading OwnRouteTaken
