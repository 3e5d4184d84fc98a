SPECIFICATION FairSpec
CONSTANTS
  s1 = s1
  de = de
  Segments = {s1}
  Languages = {de}
  LanguageOf <- OneLanguage
  Backlog <- OneEdit
  Started <- NeverAdvanced
  Visitors = {v1}
  Crons = {c1}
  Fillers = {f1}
  PageSize = 1
  MaxPages = 2
  MaxEdits = 2
  MaxSwitches = 2
  MaxTroubles = 1
  MaxEpoch = 6
  Legacy = Legacy
  None = None
INVARIANTS TypeOK AcknowledgedEditsAreGone LanguagesStartEmpty
PROPERTIES EditsAreAcknowledged
