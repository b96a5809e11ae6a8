SPECIFICATION Spec
CONSTANTS
  Units <- MixedUnits
  Bounds <- TextOrTools
  Tools = {"t1", "t2"}
INVARIANTS
  TypeOK
  NothingSwallowed
  StreamMatchesExtract
  StopReasonMatches
  BufferedTokensAgree
PROPERTY SendsAMessage
