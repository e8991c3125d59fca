SPECIFICATION ConsoleSpec
CONSTANTS
  StartTimeS = 10
  EndTimeS = 30
  NoReplay = NoReplay
  ScrubTimes = {12, 25}
  Speeds = {20}
  MaxVisits = 2
  MaxRequests = 2
  Pages = {"globe", "timeline", "assets"}
  MaxClicks = 3
INVARIANTS PlayheadInRange LinkIsShown ClickIsShown MixedOnlyByOverlap
PROPERTIES PlaybackOnlyAdvances ConsoleSettles
