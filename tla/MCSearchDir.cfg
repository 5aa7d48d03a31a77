\* Two searches of every tree of four directories.
SPECIFICATION Spec
CONSTANTS
  NDirs = 4
  Names <- ThreeNames
  Target <- AX
  NoFile = NoFile
  MaxSearches = 2
CHECK_DEADLOCK FALSE
INVARIANTS FoundIffThere ClosedPerSubdirectory
