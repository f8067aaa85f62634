\* Every short file, read by all four readers, with one upset.
CONSTANTS
  Texts <- MCTexts
  Atoi <- MCAtoi
  Other = "path"
  Files <- MCFiles
  Edits <- MCEdits
  Argvs <- MCArgvs
  MaxUpsets = 1
  MaxLines = 3
CHECK_DEADLOCK FALSE
SPECIFICATION OptSpec
INVARIANTS
  OptTypeOK
  SettingsAreTheFiles
  
  
