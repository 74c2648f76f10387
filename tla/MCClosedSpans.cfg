CONSTANT
  MaxTokens = 4
  Spans <- MCSpans
SPECIFICATION SpansFairSpec
INVARIANTS SpansTypeOK Sorted ProbeExact KeepsMaximal
PROPERTY CallReturns
CHECK_DEADLOCK FALSE
