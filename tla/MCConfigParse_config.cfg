SPECIFICATION Spec
CONSTANTS
  Texts <- AllTexts
  LengthOf <- Lengths
  LowerOf <- LowerCase
  HexOf <- HexDigitsOf
  NumberOf <- Numbers
  Addresses <- SomeAddresses
  Profiles <- AllProfiles
  Argvs <- SomeArgvs
  Disks <- SomeDisks
  FileLength = 3
INVARIANTS
  SettingsAsWritten
  StartsIfSound
CHECK_DEADLOCK FALSE
