SPECIFICATION MCSpec
CONSTANTS
  a = a
  b = b
  NoValue = NoValue
  Value = {a, b}
  MaxText = 4
  Inputs <- Texts
  Indent = TRUE
  MaxCalls = 6
  MaxDepth = 3
  MaxPack = 1
INVARIANTS WritesJson IndentMatchesDepth RoundTrip PopsWhatItPushed ReadsJson
PROPERTIES CallStream TokenStream
CHECK_DEADLOCK FALSE
