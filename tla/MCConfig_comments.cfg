\* A commented line of default.conf that stops the server.
SPECIFICATION Spec
CONSTANTS
  Names <- MCNames
  Lines <- CommentLines
  MaxLines = 3
  MaxCalls = 0
CHECK_DEADLOCK FALSE
INVARIANT CommentsHarmless
