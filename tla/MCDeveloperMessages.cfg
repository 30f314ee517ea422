SPECIFICATION Spec
CONSTANTS
  a = a
  long1 = long1
  long2 = long2
  mA = mA
  mLong = mLong
  NoText = NoText
  Disabled = Disabled
  Texts = {a, long1, long2}
  Messages = {mA, mLong}
  Rendered <- RenderedTexts
  InitialSettings <- Settings
  MaxSets = 3
  MaxTurns = 3
  MaxTime = 2
  Interval = 2
CHECK_DEADLOCK FALSE
INVARIANT DeveloperTypeOK
PROPERTY SettingsAreTold
INVARIANT NoFragmentTwice
INVARIANT RemindersAreFresh
