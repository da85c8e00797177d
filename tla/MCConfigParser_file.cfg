SPECIFICATION Spec
CONSTANTS
  MaxTokens = 18
  Free = 9
  WordsAt <- MCWordsAt
  FromArgs <- DebugOrPid
INVARIANT TypeOK
INVARIANT AcceptsTheLanguage
INVARIANT SettingsAsWritten
INVARIANT ProfilesAsWritten
PROPERTY ParseEnds
