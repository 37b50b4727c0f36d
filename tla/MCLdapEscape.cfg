SPECIFICATION Spec
CONSTANTS
  Subjects = {"directory"}
  MaxBlocks = 6
  MaxHeld = 1
  INT_BITS = 3
  LONG_BITS = 5
  SIZE_BITS = 9
  Builtins = {TRUE, FALSE}
  Sizes <- MCSizes
  HostLists <- MCHostLists
  Queries <- MCQueries
  Behind <- MCBehind
  Texts <- MCTexts
  Users <- MCUsers
  Groups <- MCGroups
  Languages <- MCLanguages
  LANGUAGES <- MCTable
  LocaleOf <- MCLocales
  Installed = {"C", "de_DE.UTF-8", "fr.UTF-8", "en.UTF-8"}
  Translated = {"de_DE.UTF-8", "en.UTF-8"}
  MaxLanguages = 3
  MaxLength = 5
INVARIANTS
  EscapesItsArgument
CHECK_DEADLOCK FALSE
