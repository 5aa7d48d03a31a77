\* Every request of up to twelve characters, in every division into arrivals.
SPECIFICATION Spec
CONSTANTS
  Chars <- LineChars
  MaxLen = 12
  Newline = 10
CHECK_DEADLOCK FALSE
INVARIANTS CursorsInBounds ChunkInsensitive NothingMissed
