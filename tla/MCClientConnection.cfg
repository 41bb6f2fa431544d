\* The connection is finished after its last round, or a caller may stop
\* sending: the model may stop there.
CONSTANTS
  d1 = d1
  d2 = d2
  c = c
  MaxReads <- MCMaxReads
  Data <- MCData
  Content = c
  MaxWrites <- MCMaxWrites
  RequestContents = {"none", "text"}
SPECIFICATION Spec
INVARIANT TypeOK
INVARIANT AbortedByOwnTimer
PROPERTY ReadEnds
PROPERTY WriterImplementsBodyStream
CHECK_DEADLOCK FALSE
