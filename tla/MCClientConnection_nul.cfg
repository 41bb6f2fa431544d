\* Requests whose content starts with a NUL byte are explored as well.
CONSTANTS
  d1 = d1
  d2 = d2
  c = c
  MaxReads <- MCMaxReads
  Data <- MCData
  Content = c
  MaxWrites <- MCMaxWrites
  RequestContents = {"none", "text", "nul"}
SPECIFICATION Spec
PROPERTY WriterImplementsBodyStream
CHECK_DEADLOCK FALSE
