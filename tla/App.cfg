SPECIFICATION FairSpec
CONSTANTS
  Global = Global
  Dms = Dms
  Channels <- MCChannels
  Choices <- MCChoices
  Dates = {Today}
  Partners = {Friend}
  Live = Live
  Sessions = {OldSession, NewSession}
  InitialLimit = 1
  MessageWindow = 1
  LogWindow = 2
  MaxOffset = 1
  MaxClicks = 1
  SessionClicks = 2
  MaxNews = 1
  DbWrite = DbWrite
  General = General
  Kind = {DbWrite}
  Slots <- MCSlots
  MaxTasks = 3
  MaxMail = 1
  MaxTimers = 2
  Game = Game
  Account = Account
  SubPages <- MCSubPages
  MaxMoves = 3
  MaxReady = 1
  PoeSession = PoeSession
  SteamKey = SteamKey
  MaxLogins = 2
  MaxLosses = 1
  None = None
  Error = Error
INVARIANTS TypeOK HeaderNamesSession SlotsFilled RowsMatchTasks TrackerHeld
INVARIANTS NavAgrees CursorMeansWaiting ButtonsAgree
PROPERTIES LoadSpec NothingWaitsForEver
CHECK_DEADLOCK FALSE
