\* A nested object, sent in pieces.
SPECIFICATION Spec
CONSTANTS
  Arguments <- MCNestedArguments
  Name = "tool"
  NoName = ""
  Documents <- MCNestedDocuments
  Scalars = {}
  EmptyObject <- MCEmptyObject
  Text <- MCNoText
  Parsers <- MCParsers
  Ends <- MCEnds
  InitialTexts <- MCNoTexts
  MaxBuffer = 3
  Styles = {"new"}
  LateIds = FALSE
INVARIANT NothingIsMissed
\* The stream ends.
CHECK_DEADLOCK FALSE
