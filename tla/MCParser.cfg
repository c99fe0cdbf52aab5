SPECIFICATION MCSpec
CONSTANTS
  a = a
  b = b
  c = c
  Str <- MCStr
  Words <- MCWords
  Depth = 7
  Contents = {0, 1, 2, 3, 4, 5, 6, 7, 8, 9, 20, 21}
  Stem <- MCStem
  Size <- MCSize
  StopWords = {"the"}
  Less <- MCLess
  Trees <- MCTrees
  Outers <- MCOuters
  Attached <- MCAttached
  Extras <- MCExtras
  Texts <- MCTexts
  Names <- MCNames
  Sentences <- MCSentences
  Hops <- MCHops
  Forms <- MCForms
  Lists <- MCLists
  Mails = {m1, m2, m3}
  Workers = {w1, w2}
  None = None
INVARIANTS  ExecutablesAreSeen FeaturesAreTrue FormIsKept OneHolder AllConsumed
PROPERTY CommandEnds
\* An answer is given, or the command has returned, or its workers wait for nobody.
CHECK_DEADLOCK FALSE
