----------------------------- MODULE WebConsole -----------------------------
(***************************************************************************)
(* The web console in one browser: a user who goes from page to page and   *)
(* uses what is there, with the replay on the timeline, the web socket on  *)
(* the globe, and the buttons for live and playback on three pages.  The   *)
(* stores and the copies of the API's answers outlive the pages.           *)
(***************************************************************************)
EXTENDS ReplayPlayer, TelemetryLink, PlaybackMode

CONSTANTS
  Pages,      \* bound: the pages the user visits
  MaxClicks   \* bound: what the user does, altogether

VARIABLES
  page,
  clicks

consoleVars == <<replayVars, linkVars, playbackVars, page, clicks>>

WithButtons == {"dashboard", "globe", "timeline"}

ConsoleInit ==
  /\ ReplayInit
  /\ LinkInit
  /\ PlaybackInit
  /\ page = "blank"
  /\ clicks = 0

Click == clicks < MaxClicks /\ clicks' = clicks + 1

\* One page leaves, with the clean-ups of its effects, and another comes.
\* The first page is opened by its address, and is no click.
Navigate(to) ==
  /\ IF page = "blank" THEN UNCHANGED clicks ELSE Click
  /\ to # page
  /\ page' = to
  /\ CASE to = "timeline" -> ShowReplay
       [] page = "timeline" -> HideReplay
       [] OTHER -> UNCHANGED replayVars
  /\ CASE to = "globe" -> OpenGlobe
       [] page = "globe" -> LeaveGlobe
       [] OTHER -> UNCHANGED linkVars
  /\ RemountButtons

UseReplay ==
  /\ Click
  /\ \/ Toggle
     \/ ClearReplay
     \/ \E t \in ScrubTimes : Scrub(t)
     \/ \E speed \in Speeds : SetPlaybackSpeed(speed)
  /\ UNCHANGED <<linkVars, playbackVars, page>>

UseButtons ==
  /\ Click
  /\ page \in WithButtons
  /\ \E mode \in Modes : Update(mode)
  /\ UNCHANGED <<replayVars, linkVars, page>>

ReplayBeats == Beat /\ UNCHANGED <<linkVars, playbackVars, page, clicks>>

SocketEvent == LinkEvents /\ UNCHANGED <<replayVars, playbackVars, page, clicks>>

NetworkEvent == Network /\ UNCHANGED <<replayVars, linkVars, page, clicks>>

ConsoleNext ==
  \/ \E to \in Pages : Navigate(to)
  \/ UseReplay \/ UseButtons
  \/ ReplayBeats \/ SocketEvent \/ NetworkEvent

On(A) == A /\ UNCHANGED <<replayVars, linkVars, page, clicks>>

\* The browser goes on with timers, the API with its handlers, and of the
\* fetches some get through.
ConsoleFairness ==
  /\ WF_consoleVars(ReplayBeats)
  /\ WF_consoleVars(On(Poll))
  /\ SF_consoleVars(On(AnswerFetch))
  /\ SF_consoleVars(On(FetchArrives))
  /\ \A k \in 1..MaxRequests :
       WF_consoleVars(On(k \in DOMAIN requests
                           /\ (ReadRow(k) \/ CommitRow(k) \/ CreateRow(k) \/ Resume(k))))

ConsoleSpec == ConsoleInit /\ [][ConsoleNext]_consoleVars /\ ConsoleFairness

-----------------------------------------------------------------------------
(***************************************************************************)
(* What the console promises.                                              *)
(***************************************************************************)

TypeOK ==
  /\ ReplayTypeOK /\ LinkTypeOK /\ PlaybackTypeOK
  /\ page \in Pages \cup {"blank"}
  /\ clicks \in 0..MaxClicks
  /\ viewing = (page = "timeline")
  /\ onGlobe = (page = "globe")

\* A replay that plays comes to its end and stops, when the user lets it,
\* unless the page is left.
PlaybackEnds == isPlaying ~> (~isPlaying \/ page # "timeline")

\* The badge shows the mode of the row again and again.
BadgeCatchesUp == []<>(\E copy \in badge, r \in row : copy.mode = r.mode)

\* The buttons come back unless the request they wait for failed.
ButtonsComeBack == busy # 0 ~> (busy = 0 \/ At(busy, "failed"))

\* Whatever is clicked, lost and overtaken, the console settles: playback ends,
\* the badge catches up, and the buttons come back.
ConsoleSettles == PlaybackEnds /\ BadgeCatchesUp /\ ButtonsComeBack

=============================================================================
