\* Both styles of provider, two calls, two parsers, a buffer that may overflow.
SPECIFICATION Spec
CONSTANTS
  Arguments <- MCArguments
  Name = "tool"
  NoName = ""
  Documents <- MCDocuments
  Scalars <- MCScalars
  EmptyObject <- MCEmptyObject
  Text <- MCText
  Parsers <- MCParsers
  Ends <- MCEnds
  InitialTexts <- MCInitialTexts
  MaxBuffer = 3
  Styles = {"new", "all"}
  LateIds = FALSE
INVARIANTS CallsAreWhole NothingIsMissed
PROPERTY OneBranch
\* The stream ends.
CHECK_DEADLOCK FALSE
