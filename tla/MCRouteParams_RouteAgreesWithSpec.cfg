\* extract_parameters over every short request target and header pair.
CONSTANTS
  NoHdr = NoHdr
  s1 = s1
  Names = {s1}
  Chars <- MCChars
  Uris <- MCUris
SPECIFICATION Spec
INVARIANTS
  RouteAgreesWithSpec
