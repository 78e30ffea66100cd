SPECIFICATION Spec
CONSTANTS
  Alphabet <- MCAlphabet
  MaxWords <- MCMaxWords
  MaxLetters = 6
  Settings <- MCSettings
  Typed <- MCTyped
  CommandWords <- MCCommandWords
  Dashed <- MCDashed
  WslLinks <- MCWslLinks
  WindowsLink = "windows=windows"
  Covering <- MCCovering
  Malformed <- MCMalformed
INVARIANT OneArgumentPerLine
CHECK_DEADLOCK FALSE
