SPECIFICATION FairSpec
CONSTANTS
  c1 = c1
  c2 = c2
  Clients <- MCClients
  None = None
  Serial1 = Serial1
  Capacity = 3
  Texts <- MCTexts
INVARIANTS
  TypeOK
  LinesAreWhole
PROPERTY
  SentLinesAreHandled
