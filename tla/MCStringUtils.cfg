CONSTANTS
  Alphabet <- MCAlphabet
  MaxLen <- MCMaxLen
  Texts <- MCTexts
  Replacements <- MCReplacements
  MaxReplaceLen <- MCMaxReplaceLen
SPECIFICATION StringSpec
INVARIANT TypeOK RoundTrip
INVARIANT TrimStripsSpace PathSplits QueryParsesBack
PROPERTY ReplaceAllReturns
\* url_decode and replace_all return: the model stops there.
CHECK_DEADLOCK FALSE
