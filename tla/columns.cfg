SPECIFICATION Spec
CONSTANTS
  Names = {"a", "b", "ip address"}
  NoName = NoName
  NameHits <- MCNameHits
  Files <- MCFiles
  TypeNames = {"numeric", "categorical", "datetime", "boolean", "id", "anything"}
  SdvTypes = {"numerical", "categorical", "datetime", "boolean", "id", "unknown"}
  Docs <- MCDocs
  ModelNames = {"m", "n"}
  SampleSize = 4
  MaxModels = 2
  MaxColumns = 2
CHECK_DEADLOCK FALSE
INVARIANTS TypeOK PiiNeverFitted TypesAsChosen DbtConsistent
