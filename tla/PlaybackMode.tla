---------------------------- MODULE PlaybackMode ----------------------------
(***************************************************************************)
(* Live or playback: the buttons of the console, the row of the mission    *)
(* control API they set, and the copy of it the console fetches again and  *)
(* again and shows.                                                        *)
(*                                                                         *)
(* Requests are handled side by side.  A handler reads the row, and commits*)
(* the columns it has changed; the query client keeps one fetch at a time. *)
(* Of the row the mode and is_running are kept; commits counts what was    *)
(* written, to tell an older copy from a newer one.                        *)
(***************************************************************************)
EXTENDS Naturals, Sequences

CONSTANT MaxRequests   \* bound: clicks on the two buttons

ASSUME PlaybackAssumption == MaxRequests \in Nat

VARIABLES
  row,            \* the row, a set of none or one
  commits,
  requests,       \* the clicks so far
  fetch,          \* the fetch that is under way, if any
  badge,          \* the copy that is shown, a set of none or one
  busy,           \* the request the buttons on the page wait for, 0 if none
  playbackMode    \* the mode in the store of the user interface

playbackVars == <<row, commits, requests, fetch, badge, busy, playbackMode>>

Modes == {"live", "playback"}
Rows == [mode : Modes, is_running : BOOLEAN]
Copies == [mode : Modes, asOf : Nat]
Idle == [at |-> "idle", got |-> {}]

\* A click: where its request is, the row its handler has read and when that
\* was, and the commit it made.
Places ==
  {"sent", "read", "answered", "failed", "refetching", "joined", "done", "unsure"}
Requests ==
  [mode : Modes,
   at : Places,
   saw : SUBSET Rows,
   since : Nat,
   made : Nat]

PlaybackTypeOK ==
  /\ row \subseteq Rows /\ \A x, y \in row : x = y
  /\ commits \in Nat
  /\ requests \in Seq(Requests)
  /\ Len(requests) <= MaxRequests
  /\ fetch \in [at : {"idle", "asked", "answered"}, got : SUBSET Copies]
  /\ badge \subseteq Copies
  /\ busy \in 0..Len(requests)
  /\ playbackMode \in Modes

PlaybackInit ==
  /\ row = {}
  /\ commits = 0
  /\ requests = <<>>
  /\ fetch = Idle
  /\ badge = {}
  /\ busy = 0
  /\ playbackMode = "live"

At(k, place) == requests[k].at = place
Move(k, place) == requests' = [requests EXCEPT ![k] = [@ EXCEPT !.at = place]]

-----------------------------------------------------------------------------
(***************************************************************************)
(* The API.                                                                *)
(***************************************************************************)
CreatedRow(mode) == {[mode |-> mode, is_running |-> TRUE]}

\* Mutant: starting only sets the mode.
StartedModeOnly(mode, saw) ==
  [mode |-> mode, is_running |-> IF mode = "live" THEN FALSE ELSE saw.is_running]

\* The row a handler wants: playback runs, live does not.
Wanted(mode, saw) == [mode |-> mode, is_running |-> mode = "playback"]

\* Only columns that differ from what the handler has read are written.
Merged(wanted, saw, current) ==
  [mode |-> IF wanted.mode # saw.mode THEN wanted.mode ELSE current.mode,
   is_running |->
     IF wanted.is_running # saw.is_running THEN wanted.is_running ELSE current.is_running]

ReadRow(k) ==
  /\ At(k, "sent")
  /\ requests' =
       [requests EXCEPT ![k] = [@ EXCEPT !.at = "read", !.saw = row, !.since = commits]]
  /\ UNCHANGED <<row, commits, fetch, badge, busy, playbackMode>>

Write(k, newRow) ==
  /\ row' = newRow
  /\ commits' = commits + 1
  /\ requests' =
       [requests EXCEPT ![k] = [@ EXCEPT !.at = "answered", !.made = commits + 1]]

\* The handler of a row it has found.
CommitRow(k) ==
  /\ At(k, "read")
  /\ \E saw \in requests[k].saw, current \in row :
       Write(k, {Merged(Wanted(requests[k].mode, saw), saw, current)})
  /\ UNCHANGED <<fetch, badge, busy, playbackMode>>

\* Without one it makes one.  If another has made it meanwhile, the insert
\* fails; only a stop that looks once more in time leaves that row as it is.
CreateRow(k) ==
  /\ At(k, "read")
  /\ requests[k].saw = {}
  /\ \/ row = {} /\ Write(k, CreatedRow(requests[k].mode))
     \/ row # {} /\ Move(k, "failed") /\ UNCHANGED <<row, commits>>
     \/ /\ row # {} /\ requests[k].mode = "live"
        /\ requests' =
             [requests EXCEPT ![k] = [@ EXCEPT !.at = "answered", !.made = commits]]
        /\ UNCHANGED <<row, commits>>
  /\ UNCHANGED <<fetch, badge, busy, playbackMode>>

\* A request for the state makes the row if it is missing.
AnswerFetch ==
  /\ fetch.at = "asked"
  /\ row' = IF row = {} THEN CreatedRow("live") ELSE row
  /\ commits' = IF row = {} THEN commits + 1 ELSE commits
  /\ \E r \in row' : fetch' = [at |-> "answered", got |-> {[mode |-> r.mode, asOf |-> commits']}]
  /\ UNCHANGED <<requests, badge, busy, playbackMode>>

-----------------------------------------------------------------------------
(***************************************************************************)
(* The console.                                                            *)
(***************************************************************************)

\* update(mode), up to its first await.
Update(mode) ==
  /\ busy = 0
  /\ Len(requests) < MaxRequests
  /\ requests' = Append(requests, [mode |-> mode, at |-> "sent", saw |-> {}, since |-> 0, made |-> 0])
  /\ busy' = Len(requests) + 1
  /\ UNCHANGED <<row, commits, fetch, badge, playbackMode>>

\* fetchJson throws: the request or its answer is lost.  Busy stays.
RequestFails(k) ==
  /\ At(k, "sent") \/ At(k, "answered")
  /\ Move(k, "failed")
  /\ UNCHANGED <<row, commits, fetch, badge, busy, playbackMode>>

\* Those whose refetch is cancelled are told so as if it had ended.
Waiting(k) == At(k, "refetching") \/ At(k, "joined")
After(k, place) ==
  [j \in DOMAIN requests |->
     IF j = k THEN [requests[j] EXCEPT !.at = place]
     ELSE IF Waiting(j) /\ place = "refetching" THEN [requests[j] EXCEPT !.at = "unsure"]
     ELSE requests[j]]

Freed(j) == IF busy # 0 /\ requests'[busy].at \in {"done", "unsure"} THEN 0 ELSE busy

\* Mutant: the buttons are free again before the state has been refetched.
ResumeWithoutWait(k) ==
  /\ At(k, "answered")
  /\ playbackMode' = requests[k].mode
  /\ Move(k, "done")
  /\ fetch' = [at |-> "asked", got |-> {}]
  /\ busy' = IF busy = k THEN 0 ELSE busy
  /\ UNCHANGED <<row, commits, badge>>

\* The answer arrives: update goes on, and invalidates the copy.  A fetch that
\* is under way is cancelled, but joined when there is no copy yet.
Resume(k) ==
  /\ At(k, "answered")
  /\ playbackMode' = requests[k].mode
  /\ \/ /\ badge = {} /\ fetch # Idle
        /\ requests' = After(k, "joined")
        /\ UNCHANGED fetch
     \/ /\ badge # {} \/ fetch = Idle
        /\ requests' = After(k, "refetching")
        /\ fetch' = [at |-> "asked", got |-> {}]
  /\ busy' = Freed(k)
  /\ UNCHANGED <<row, commits, badge>>

Settled(outcome) ==
  [j \in DOMAIN requests |->
     IF At(j, "refetching") THEN [requests[j] EXCEPT !.at = outcome]
     ELSE IF At(j, "joined") THEN [requests[j] EXCEPT !.at = "unsure"]
     ELSE requests[j]]

FetchArrives ==
  /\ fetch.at = "answered"
  /\ badge' = fetch.got
  /\ fetch' = Idle
  /\ requests' = Settled("done")
  /\ busy' = Freed(0)
  /\ UNCHANGED <<row, commits, playbackMode>>

\* Its retries are used up; the copy stays.
FetchFails ==
  /\ fetch # Idle
  /\ fetch' = Idle
  /\ requests' = Settled("unsure")
  /\ busy' = Freed(0)
  /\ UNCHANGED <<row, commits, badge, playbackMode>>

Poll ==
  /\ fetch = Idle
  /\ fetch' = [at |-> "asked", got |-> {}]
  /\ UNCHANGED <<row, commits, requests, badge, busy, playbackMode>>

\* New buttons wait for nothing; those that have left the page are gone.
RemountButtons ==
  /\ busy' = 0
  /\ UNCHANGED <<row, commits, requests, fetch, badge, playbackMode>>

Network ==
  \/ AnswerFetch \/ FetchArrives \/ FetchFails \/ Poll
  \/ \E k \in DOMAIN requests :
       ReadRow(k) \/ CommitRow(k) \/ CreateRow(k) \/ RequestFails(k) \/ Resume(k)

-----------------------------------------------------------------------------
(***************************************************************************)
(* What the buttons promise.                                               *)
(***************************************************************************)

\* When the buttons are free again after a click whose refetch went through,
\* the badge shows the row as that click left it or newer, however polls and
\* the clicks of a page visited before overlap with it.
ClickIsShown ==
  \A k \in DOMAIN requests :
    At(k, "done") => \E copy \in badge : copy.asOf >= requests[k].made

\* A row that says playback but does not run is left only by two handlers of
\* which one committed between the other's reading and its commit.
MixedOnlyByOverlap ==
  (\E r \in row : r.mode = "playback" /\ ~r.is_running) =>
    \E k \in DOMAIN requests : requests[k].made > requests[k].since + 1

=============================================================================
