CONSTANTS
  MaxRetry = 2
  EventRoom = 4
  FirstFlash <- MCFlash
  NetworkInputs <- MCNetwork
  Results = {"ok", "failed", "unopened"}
  MaxEdits = 3
  MaxBoots = 3
SPECIFICATION MCSpec
INVARIANTS
  TypeOK
  ChoiceSticks
  ProfileInForceValid
  LinkReported
  GivesUpOnlyAtTheEnd
PROPERTIES
  ComesBack
