SPECIFICATION Spec
CONSTANTS
  Paths <- SomePaths
  Addresses <- SomeAddresses
  Locations <- SomeLocations
  Answers <- SomeAnswers
  Responses <- SomeResponses
  Forms = {"group", "numbers", "plain", "netware"}
  Sizes = {0, 7}
  Debugging = TRUE
  NetrcFiles <- SomeNetrcs
  Logins <- SomeLogins
  PrefsFiles <- SomePrefsFiles
  CommandLines <- SomeCommandLines
  Mirrors <- SomeMirrors
  Owns <- SomeOwns
  Sections <- SomeSections
  Caps = {0, 1, 2, 3, 5, 10}
  Loads <- SomeLoads
  Sleeps <- SomeSleeps
INVARIANTS
  UrlsResolve
  AnswersReadWhole
  AccountIsFound
  SettingsObeyed
  MirrorsAreListed
  CapIsShared
CHECK_DEADLOCK FALSE
