SPECIFICATION Spec
CONSTANTS
  Subjects = {"directory", "config", "request", "address", "sizes"}
  MaxBlocks = 6
  MaxHeld = 1
  INT_BITS = 3
  LONG_BITS = 5
  SIZE_BITS = 9
  Builtins = {TRUE, FALSE}
  Sizes <- MCSizes
  HostLists <- MCHostLists
  Queries <- MCNothing
  Behind <- MCNothing
  Texts <- MCTexts
  Users <- MCUsers
  Groups <- MCGroups
  Languages <- MCLanguages
  LANGUAGES <- MCTable
  LocaleOf <- MCLocales
  Installed = {"C", "de_DE.UTF-8", "fr.UTF-8", "en.UTF-8"}
  Translated = {"de_DE.UTF-8", "en.UTF-8"}
  MaxLanguages = 3
  MaxLength = 5
INVARIANTS
  HeapSound
  WritesFit
  FlagsTell
  ExactOrRefused
  ConnectReports
  AsConfigured
  FirstSupported
  AddressParts
CHECK_DEADLOCK FALSE
