-------------------------- MODULE WebConsoleProofs --------------------------
(***************************************************************************)
(* What the mode buttons, the replay and the web socket promise, each on   *)
(* its own and in the console, for every mission, every number of visits   *)
(* and of clicks: the badge is not older than the click it is shown for,   *)
(* and only overlapping handlers leave a mixed row.  And what the replay   *)
(* shows of a simulation, for every log one can write: its tracks and      *)
(* flights at the end of a pass, and of a past time always the same.       *)
(***************************************************************************)
EXTENDS WebConsole, ReplayLog, Induction

-----------------------------------------------------------------------------
(***************************************************************************)
(* The mode buttons.                                                       *)
(***************************************************************************)

\* Copies and clicks know of no commit that is still to come.
NothingFromTheFuture ==
  /\ \A copy \in badge \cup fetch.got : copy.asOf <= commits
  /\ \A k \in DOMAIN requests : requests[k].made <= commits /\ requests[k].since <= commits

\* The answer of a fetch is as new as what is shown, and as the clicks that
\* wait for it.
AnswerIsNewer ==
  fetch.at = "answered" =>
    /\ fetch.got # {}
    /\ \A new \in fetch.got :
         /\ \A old \in badge : old.asOf <= new.asOf
         /\ \A k \in DOMAIN requests : At(k, "refetching") => requests[k].made <= new.asOf

\* A handler that is about to commit has made nothing yet, and has read the
\* row as it is unless something was committed since.
ReadersAreUpToDate ==
  \A k \in DOMAIN requests :
    /\ At(k, "sent") \/ At(k, "read") => requests[k].made = 0
    /\ At(k, "read") /\ requests[k].since = commits => requests[k].saw = row

PlaybackInv ==
  /\ PlaybackTypeOK
  /\ NothingFromTheFuture
  /\ AnswerIsNewer
  /\ ReadersAreUpToDate
  /\ ClickIsShown
  /\ MixedOnlyByOverlap

PlaybackStep == Network \/ RemountButtons \/ \E mode \in Modes : Update(mode)

\* A console that has just been opened.
LEMMA PlaybackInitIsGood == PlaybackInit => PlaybackInv
<1> SUFFICES ASSUME PlaybackInit
             PROVE  PlaybackInv
  OBVIOUS
<1>1. PlaybackTypeOK
  BY PlaybackAssumption DEF PlaybackInit, PlaybackTypeOK, Idle, Modes, Places
<1>2. DOMAIN requests = {} /\ row = {} /\ badge = {} /\ fetch.got = {} /\ fetch.at = "idle"
  BY DEF PlaybackInit, Idle
<1>3. QED
  BY <1>1, <1>2 DEF PlaybackInv, NothingFromTheFuture, AnswerIsNewer, ReadersAreUpToDate,
     ClickIsShown, MixedOnlyByOverlap

\* What a handler writes from a row it has read, into a row.
LEMMA MergedRow ==
  ASSUME NEW mode \in Modes, NEW saw \in Rows, NEW current \in Rows
  PROVE  /\ Merged(Wanted(mode, saw), saw, current) \in Rows
         /\ saw = current => Merged(Wanted(mode, saw), saw, current) = Wanted(mode, saw)
         /\ Wanted(mode, saw).mode = "playback" => Wanted(mode, saw).is_running
  BY DEF Merged, Wanted, Rows, Modes

\* The fields of a request.
LEMMA RequestFields ==
  ASSUME PlaybackTypeOK, NEW k \in DOMAIN requests
  PROVE  /\ requests[k] \in Requests
         /\ requests[k].mode \in Modes
         /\ requests[k].saw \subseteq Rows
         /\ requests[k].since \in Nat
         /\ requests[k].made \in Nat
<1>1. requests[k] \in Requests
  BY DEF PlaybackTypeOK
<1>2. QED
  BY <1>1 DEF Requests

\* A request that has moved on, and one that has been answered.
LEMMA MovedOn ==
  ASSUME NEW r \in Requests, NEW place \in Places
  PROVE  /\ [r EXCEPT !.at = place] \in Requests
         /\ [r EXCEPT !.at = place].at = place
         /\ [r EXCEPT !.at = place].saw = r.saw
         /\ [r EXCEPT !.at = place].since = r.since
         /\ [r EXCEPT !.at = place].made = r.made
  BY Zenon DEF Requests, Places

LEMMA HasAnswered ==
  ASSUME NEW r \in Requests, NEW n \in Nat
  PROVE  /\ [r EXCEPT !.at = "answered", !.made = n] \in Requests
         /\ [r EXCEPT !.at = "answered", !.made = n].at = "answered"
         /\ [r EXCEPT !.at = "answered", !.made = n].since = r.since
         /\ [r EXCEPT !.at = "answered", !.made = n].made = n
  BY Zenon DEF Requests, Places

\* A step that changes the place of one request, and not what it has made.
LEMMA OneMoves ==
  ASSUME PlaybackTypeOK, NEW k \in DOMAIN requests, NEW r \in Requests,
         requests' = [requests EXCEPT ![k] = r]
  PROVE  /\ requests' \in Seq(Requests)
         /\ Len(requests') = Len(requests)
         /\ DOMAIN requests' = DOMAIN requests
         /\ requests'[k] = r
         /\ \A j \in DOMAIN requests : j # k => requests'[j] = requests[j]
  BY DEF PlaybackTypeOK

\* A handler reads the row.
LEMMA ReadRowIsGood ==
  ASSUME PlaybackInv, NEW k \in DOMAIN requests, ReadRow(k)
  PROVE  PlaybackInv'
<1> DEFINE r == [requests[k] EXCEPT !.at = "read", !.saw = row, !.since = commits]
<1>1. requests[k] \in Requests /\ row \in SUBSET Rows /\ commits \in Nat
  BY DEF PlaybackInv, PlaybackTypeOK
<1>2. /\ r \in Requests /\ r.at = "read" /\ r.saw = row /\ r.since = commits
      /\ r.made = requests[k].made
  BY <1>1, Zenon DEF Requests, Places
<1>3. requests' = [requests EXCEPT ![k] = r]
  BY Zenon DEF ReadRow
<1> HIDE DEF r
<1>4. /\ requests' \in Seq(Requests) /\ Len(requests') = Len(requests)
      /\ DOMAIN requests' = DOMAIN requests
      /\ requests'[k] = r
      /\ \A j \in DOMAIN requests : j # k => requests'[j] = requests[j]
  BY <1>2, <1>3, OneMoves DEF PlaybackInv
<1>5. At(k, "sent") /\ UNCHANGED <<row, commits, fetch, badge, busy, playbackMode>>
  BY DEF ReadRow
<1>6. PlaybackTypeOK'
  BY <1>4, <1>5 DEF PlaybackInv, PlaybackTypeOK
<1>7. NothingFromTheFuture' /\ AnswerIsNewer' /\ ReadersAreUpToDate'
  BY <1>1, <1>2, <1>4, <1>5
     DEF PlaybackInv, NothingFromTheFuture, AnswerIsNewer, ReadersAreUpToDate, At
<1>8. ClickIsShown'
  BY <1>2, <1>4, <1>5 DEF PlaybackInv, ClickIsShown, At
<1>9. MixedOnlyByOverlap'
  <2> SUFFICES ASSUME NEW x \in row, x.mode = "playback", ~x.is_running
               PROVE  \E j \in DOMAIN requests : requests'[j].made > requests'[j].since + 1
    BY <1>4, <1>5 DEF MixedOnlyByOverlap
  <2>1. PICK j \in DOMAIN requests : requests[j].made > requests[j].since + 1
    BY DEF PlaybackInv, MixedOnlyByOverlap
  <2>2. j # k
    BY <1>1, <1>5, <2>1 DEF PlaybackInv, ReadersAreUpToDate, Requests
  <2>3. QED
    BY <1>4, <2>1, <2>2
<1>10. QED
  BY <1>6, <1>7, <1>8, <1>9 DEF PlaybackInv

\* A handler has answered: it may have committed a row, newer than any copy.
LEMMA WriteIsGood ==
  ASSUME PlaybackInv, NEW k \in DOMAIN requests, At(k, "read"),
         NEW newRow \in SUBSET Rows, \A x, y \in newRow : x = y, Write(k, newRow),
         UNCHANGED <<fetch, badge, busy, playbackMode>>,
         (\E x \in newRow : x.mode = "playback" /\ ~x.is_running) => requests[k].since < commits
  PROVE  PlaybackInv'
<1> DEFINE r == [requests[k] EXCEPT !.at = "answered", !.made = commits + 1]
<1>1. requests[k] \in Requests /\ row \in SUBSET Rows /\ commits \in Nat
  BY DEF PlaybackInv, PlaybackTypeOK
<1>2. /\ r \in Requests /\ r.at = "answered" /\ r.since = requests[k].since
      /\ r.made = commits + 1
  <2>1. commits + 1 \in Nat
    BY <1>1
  <2>2. QED
    BY <1>1, <2>1, HasAnswered, Zenon
<1>3. requests' = [requests EXCEPT ![k] = r]
  BY Zenon DEF Write
<1> HIDE DEF r
<1>4. /\ requests' \in Seq(Requests) /\ Len(requests') = Len(requests)
      /\ DOMAIN requests' = DOMAIN requests
      /\ requests'[k] = r
      /\ \A j \in DOMAIN requests : j # k => requests'[j] = requests[j]
  BY <1>2, <1>3, OneMoves DEF PlaybackInv
<1>5. commits' = commits + 1 /\ row' = newRow
  BY DEF Write
<1>6. PlaybackTypeOK'
  BY <1>1, <1>4, <1>5 DEF PlaybackInv, PlaybackTypeOK
<1>7. \A j \in DOMAIN requests :
        requests[j].made \in Nat /\ requests[j].since \in Nat
  BY RequestFields DEF PlaybackInv
<1>8. \A copy \in badge \cup fetch.got : copy.asOf \in Nat
  BY DEF PlaybackInv, PlaybackTypeOK, Copies
<1>9. NothingFromTheFuture'
  BY <1>1, <1>2, <1>4, <1>5, <1>7, <1>8 DEF PlaybackInv, NothingFromTheFuture
<1>10. AnswerIsNewer'
  BY <1>2, <1>4 DEF PlaybackInv, AnswerIsNewer, At
<1>11. ReadersAreUpToDate'
  BY <1>1, <1>2, <1>4, <1>5, <1>7
     DEF PlaybackInv, ReadersAreUpToDate, NothingFromTheFuture, At
<1>12. ClickIsShown'
  BY <1>2, <1>4 DEF PlaybackInv, ClickIsShown, At
<1>13. MixedOnlyByOverlap'
  <2> SUFFICES ASSUME NEW x \in newRow, x.mode = "playback", ~x.is_running
               PROVE  requests'[k].made > requests'[k].since + 1
    BY <1>4, <1>5 DEF MixedOnlyByOverlap
  <2>1. requests[k].since < commits
    OBVIOUS
  <2>2. QED
    BY <1>1, <1>2, <1>4, <1>7, <2>1
<1>14. QED
  BY <1>6, <1>9, <1>10, <1>11, <1>12, <1>13 DEF PlaybackInv

\* A handler that changes a row changes it from what it has read, or later.
LEMMA CommitRowIsGood ==
  ASSUME PlaybackInv, NEW k \in DOMAIN requests, CommitRow(k)
  PROVE  PlaybackInv'
<1>1. PICK saw \in requests[k].saw, current \in row :
        Write(k, {Merged(Wanted(requests[k].mode, saw), saw, current)})
  BY DEF CommitRow
<1>2. /\ requests[k].mode \in Modes /\ requests[k].saw \subseteq Rows /\ row \subseteq Rows
      /\ requests[k].since \in Nat /\ commits \in Nat
  BY RequestFields DEF PlaybackInv, PlaybackTypeOK
<1>3. saw \in Rows /\ current \in Rows
  BY <1>1, <1>2
<1> DEFINE new == Merged(Wanted(requests[k].mode, saw), saw, current)
<1>4. new \in Rows
  BY <1>2, <1>3, MergedRow
<1>5. ASSUME new.mode = "playback", ~new.is_running
      PROVE  requests[k].since < commits
  <2>1. saw # current
    BY <1>2, <1>3, <1>5, MergedRow
  <2>2. requests[k].saw # row
    BY <1>1, <2>1 DEF PlaybackInv, PlaybackTypeOK
  <2>3. requests[k].since # commits /\ requests[k].since <= commits
    BY <2>2 DEF CommitRow, PlaybackInv, ReadersAreUpToDate, NothingFromTheFuture
  <2>4. QED
    BY <1>2, <2>3
<1>6. QED
  BY <1>1, <1>4, <1>5, WriteIsGood DEF CommitRow

\* A request moves on to a place from which nothing is promised of it; the
\* commits and the copies stay.
LEMMA MoveIsGood ==
  ASSUME PlaybackInv, NEW k \in DOMAIN requests,
         NEW r \in Requests, r.at \in {"answered", "failed"},
         requests' = [requests EXCEPT ![k] = r],
         r.since = requests[k].since, r.made >= requests[k].made, r.made <= commits,
         UNCHANGED <<row, commits, fetch, badge, busy, playbackMode>>
  PROVE  PlaybackInv'
<1>1. /\ requests' \in Seq(Requests) /\ Len(requests') = Len(requests)
      /\ DOMAIN requests' = DOMAIN requests
      /\ requests'[k] = r
      /\ \A j \in DOMAIN requests : j # k => requests'[j] = requests[j]
  BY OneMoves DEF PlaybackInv
<1>2. PlaybackTypeOK'
  BY <1>1 DEF PlaybackInv, PlaybackTypeOK
<1>3. NothingFromTheFuture' /\ AnswerIsNewer' /\ ReadersAreUpToDate' /\ ClickIsShown'
  BY <1>1 DEF PlaybackInv, NothingFromTheFuture, AnswerIsNewer, ReadersAreUpToDate,
              ClickIsShown, At
<1>4. MixedOnlyByOverlap'
  <2> SUFFICES ASSUME NEW x \in row, x.mode = "playback", ~x.is_running
               PROVE  \E j \in DOMAIN requests : requests'[j].made > requests'[j].since + 1
    BY <1>1 DEF MixedOnlyByOverlap
  <2>1. PICK j \in DOMAIN requests : requests[j].made > requests[j].since + 1
    BY DEF PlaybackInv, MixedOnlyByOverlap
  <2>2. requests[j].made \in Nat /\ requests[j].since \in Nat /\ r.made \in Nat
    BY RequestFields DEF PlaybackInv, Requests
  <2>3. CASE j = k
    BY <1>1, <2>1, <2>2, <2>3
  <2>4. CASE j # k
    BY <1>1, <2>1, <2>4
  <2>5. QED
    BY <2>3, <2>4
<1>5. QED
  BY <1>2, <1>3, <1>4 DEF PlaybackInv

\* A handler without a row makes one, fails, or finds another's.
LEMMA CreateRowIsGood ==
  ASSUME PlaybackInv, NEW k \in DOMAIN requests, CreateRow(k)
  PROVE  PlaybackInv'
<1>1. /\ requests[k] \in Requests /\ requests[k].mode \in Modes /\ commits \in Nat
      /\ requests[k].made = 0 /\ At(k, "read")
      /\ UNCHANGED <<fetch, badge, busy, playbackMode>>
  BY RequestFields DEF CreateRow, PlaybackInv, PlaybackTypeOK, ReadersAreUpToDate
<1>2. CASE Write(k, CreatedRow(requests[k].mode))
  <2>1. /\ CreatedRow(requests[k].mode) \in SUBSET Rows
        /\ \A x, y \in CreatedRow(requests[k].mode) : x = y
        /\ \A x \in CreatedRow(requests[k].mode) : x.is_running
    BY <1>1 DEF CreatedRow, Rows
  <2>2. QED
    BY <1>1, <1>2, <2>1, WriteIsGood
<1>3. CASE Move(k, "failed") /\ UNCHANGED <<row, commits>>
  <2> DEFINE r == [requests[k] EXCEPT !.at = "failed"]
  <2>1. r \in Requests /\ r.at = "failed" /\ r.since = requests[k].since
        /\ r.made = requests[k].made
    BY <1>1, Zenon DEF Requests, Places
  <2>2. requests' = [requests EXCEPT ![k] = r]
    BY <1>3, Zenon DEF Move
  <2> HIDE DEF r
  <2>3. r.made >= requests[k].made /\ r.made <= commits
    BY <1>1, <2>1
  <2>4. QED
    BY <1>1, <1>3, <2>1, <2>2, <2>3, MoveIsGood
<1>4. CASE /\ requests' =
                [requests EXCEPT ![k] = [@ EXCEPT !.at = "answered", !.made = commits]]
           /\ UNCHANGED <<row, commits>>
  <2> DEFINE r == [requests[k] EXCEPT !.at = "answered", !.made = commits]
  <2>1. r \in Requests /\ r.at = "answered" /\ r.since = requests[k].since
        /\ r.made = commits
    BY <1>1, HasAnswered, Zenon
  <2>2. requests' = [requests EXCEPT ![k] = r]
    BY <1>4, Zenon
  <2> HIDE DEF r
  <2>3. r.made >= requests[k].made /\ r.made <= commits
    BY <1>1, <2>1
  <2>4. QED
    BY <1>1, <1>4, <2>1, <2>2, <2>3, MoveIsGood
<1>5. QED
  BY <1>2, <1>3, <1>4 DEF CreateRow

\* A lost request, or a lost answer.
LEMMA RequestFailsIsGood ==
  ASSUME PlaybackInv, NEW k \in DOMAIN requests, RequestFails(k)
  PROVE  PlaybackInv'
<1> DEFINE r == [requests[k] EXCEPT !.at = "failed"]
<1>1. /\ requests[k] \in Requests /\ requests[k].made \in Nat
      /\ requests[k].made <= commits
  BY RequestFields DEF PlaybackInv, NothingFromTheFuture
<1>2. /\ r \in Requests /\ r.at = "failed" /\ r.since = requests[k].since
      /\ r.made = requests[k].made
  BY <1>1, Zenon DEF Requests, Places
<1>3. requests' = [requests EXCEPT ![k] = r]
  BY Zenon DEF RequestFails, Move
<1> HIDE DEF r
<1>4. r.made >= requests[k].made /\ r.made <= commits
  BY <1>1, <1>2
<1>5. UNCHANGED <<row, commits, fetch, badge, busy, playbackMode>>
  BY DEF RequestFails
<1>6. QED
  BY <1>2, <1>3, <1>4, <1>5, MoveIsGood

\* A click sends a request that knows of nothing yet.
LEMMA UpdateIsGood ==
  ASSUME PlaybackInv, NEW mode \in Modes, Update(mode)
  PROVE  PlaybackInv'
<1> DEFINE r == [mode |-> mode, at |-> "sent", saw |-> {}, since |-> 0, made |-> 0]
<1>1. r \in Requests /\ r.at = "sent" /\ r.since = 0 /\ r.made = 0
  BY DEF Requests, Places, Rows
<1>2. requests' = Append(requests, r)
  BY DEF Update
<1> HIDE DEF r
<1>3. /\ requests' \in Seq(Requests) /\ Len(requests') = Len(requests) + 1
      /\ DOMAIN requests' = DOMAIN requests \cup {Len(requests) + 1}
      /\ requests'[Len(requests) + 1] = r
      /\ \A j \in DOMAIN requests : requests'[j] = requests[j]
  BY <1>1, <1>2 DEF PlaybackInv, PlaybackTypeOK
<1>4. /\ UNCHANGED <<row, commits, fetch, badge, playbackMode>>
      /\ busy' = Len(requests) + 1 /\ Len(requests) < MaxRequests
  BY DEF Update
<1>5. commits \in Nat /\ Len(requests) \in Nat
  BY DEF PlaybackInv, PlaybackTypeOK
<1>6. PlaybackTypeOK'
  BY <1>3, <1>4, <1>5, PlaybackAssumption DEF PlaybackInv, PlaybackTypeOK
<1>7. NothingFromTheFuture' /\ AnswerIsNewer' /\ ReadersAreUpToDate' /\ ClickIsShown'
  BY <1>1, <1>3, <1>4, <1>5
     DEF PlaybackInv, NothingFromTheFuture, AnswerIsNewer, ReadersAreUpToDate,
         ClickIsShown, At
<1>8. MixedOnlyByOverlap'
  BY <1>3, <1>4 DEF PlaybackInv, MixedOnlyByOverlap
<1>9. QED
  BY <1>6, <1>7, <1>8 DEF PlaybackInv

\* The fetch is answered, and may have made the row.
LEMMA AnswerFetchIsGood ==
  ASSUME PlaybackInv, AnswerFetch
  PROVE  PlaybackInv'
<1>1. /\ row \subseteq Rows /\ \A x, y \in row : x = y
      /\ commits \in Nat
  BY DEF PlaybackInv, PlaybackTypeOK
<1>2. UNCHANGED <<requests, badge, busy, playbackMode>>
  BY DEF AnswerFetch
<1>3. \/ row = {} /\ row' = CreatedRow("live") /\ commits' = commits + 1
      \/ row # {} /\ row' = row /\ commits' = commits
  BY DEF AnswerFetch
<1>4. /\ row' \subseteq Rows /\ \A x, y \in row' : x = y
      /\ commits' \in Nat /\ commits <= commits'
      /\ \A x \in row' : x \in row \/ x.mode = "live"
  <2>1. /\ CreatedRow("live") \subseteq Rows
        /\ \A x, y \in CreatedRow("live") : x = y
        /\ \A x \in CreatedRow("live") : x.mode = "live"
    BY DEF CreatedRow, Rows, Modes
  <2>2. QED
    BY <1>1, <1>3, <2>1
<1>5. PICK copy \in row' :
        fetch' = [at |-> "answered", got |-> {[mode |-> copy.mode, asOf |-> commits']}]
  BY DEF AnswerFetch
<1>6. /\ fetch' \in [at : {"idle", "asked", "answered"}, got : SUBSET Copies]
      /\ fetch'.got = {[mode |-> copy.mode, asOf |-> commits']}
  <2>1. [mode |-> copy.mode, asOf |-> commits'] \in Copies
    BY <1>4, <1>5 DEF Copies, Rows
  <2>2. QED
    BY <1>5, <2>1
<1>7. \A old \in badge : old.asOf \in Nat /\ old.asOf <= commits
  BY DEF PlaybackInv, PlaybackTypeOK, NothingFromTheFuture, Copies
<1>8. \A k \in DOMAIN requests :
        /\ requests[k].made \in Nat /\ requests[k].made <= commits
        /\ requests[k].since \in Nat /\ requests[k].since <= commits
  BY RequestFields DEF PlaybackInv, NothingFromTheFuture
<1>9. PlaybackTypeOK'
  BY <1>2, <1>4, <1>6 DEF PlaybackInv, PlaybackTypeOK
<1>10. NothingFromTheFuture'
  BY <1>1, <1>2, <1>4, <1>6, <1>7, <1>8 DEF NothingFromTheFuture
<1>11. AnswerIsNewer'
  BY <1>1, <1>2, <1>4, <1>6, <1>7, <1>8 DEF AnswerIsNewer
<1>12. ReadersAreUpToDate'
  BY <1>1, <1>2, <1>3, <1>8 DEF PlaybackInv, ReadersAreUpToDate, At
<1>13. ClickIsShown' /\ MixedOnlyByOverlap'
  BY <1>2, <1>4 DEF PlaybackInv, ClickIsShown, MixedOnlyByOverlap, At
<1>14. QED
  BY <1>9, <1>10, <1>11, <1>12, <1>13 DEF PlaybackInv

\* Steps that move clicks on after their answers, and neither commit anything
\* nor bring a copy that was not there.
LEMMA MovesAreGood ==
  ASSUME PlaybackInv,
         requests' = [j \in DOMAIN requests |-> requests'[j]],
         \A j \in DOMAIN requests :
           \/ requests'[j] = requests[j]
           \/ \E place \in {"refetching", "joined", "unsure", "done"} :
                requests'[j] = [requests[j] EXCEPT !.at = place],
         UNCHANGED <<row, commits>>,
         fetch' \in [at : {"idle", "asked", "answered"}, got : SUBSET Copies],
         fetch'.got \subseteq fetch.got,
         badge' \subseteq badge \cup fetch.got,
         busy' \in 0..Len(requests),
         playbackMode' \in Modes
  PROVE  /\ PlaybackTypeOK' /\ NothingFromTheFuture'
         /\ ReadersAreUpToDate' /\ MixedOnlyByOverlap'
         /\ DOMAIN requests' = DOMAIN requests
         /\ \A j \in DOMAIN requests : requests'[j].made = requests[j].made
<1>1. requests \in Seq(Requests) /\ DOMAIN requests = 1..Len(requests)
  BY DEF PlaybackInv, PlaybackTypeOK
<1>2. ASSUME NEW j \in DOMAIN requests
      PROVE  /\ requests'[j] \in Requests
             /\ requests'[j].made = requests[j].made
             /\ requests'[j].since = requests[j].since
             /\ requests'[j] = requests[j] \/ requests'[j].at \notin {"sent", "read"}
  <2>1. requests[j] \in Requests
    BY <1>1
  <2>2. ASSUME NEW place \in {"refetching", "joined", "unsure", "done"},
               requests'[j] = [requests[j] EXCEPT !.at = place]
        PROVE  /\ requests'[j] \in Requests
               /\ requests'[j].made = requests[j].made
               /\ requests'[j].since = requests[j].since
               /\ requests'[j].at = place
    <3>1. place \in Places
      BY DEF Places
    <3>2. QED
      BY <2>1, <2>2, <3>1, Zenon DEF Requests, Places
  <2>3. QED
    BY <2>1, <2>2
<1>3. requests' \in [1..Len(requests) -> Requests]
  BY <1>1, <1>2
<1>4. Len(requests) \in Nat
  BY <1>1
<1>5. /\ requests' \in Seq(Requests) /\ Len(requests') = Len(requests)
      /\ DOMAIN requests' = DOMAIN requests
  BY <1>1, <1>3, <1>4
<1>6. badge' \subseteq Copies
  BY DEF PlaybackInv, PlaybackTypeOK
<1>7. PlaybackTypeOK'
  BY <1>5, <1>6 DEF PlaybackInv, PlaybackTypeOK
<1>8. NothingFromTheFuture' /\ ReadersAreUpToDate'
  BY <1>2, <1>5 DEF PlaybackInv, NothingFromTheFuture, ReadersAreUpToDate, At
<1>9. MixedOnlyByOverlap'
  BY <1>2, <1>5 DEF PlaybackInv, MixedOnlyByOverlap
<1>10. QED
  BY <1>2, <1>5, <1>7, <1>8, <1>9

\* A click goes on after its answer, and asks for the state again.
LEMMA ResumeIsGood ==
  ASSUME PlaybackInv, NEW k \in DOMAIN requests, Resume(k)
  PROVE  PlaybackInv'
<1>1. /\ At(k, "answered") /\ playbackMode' = requests[k].mode
      /\ UNCHANGED <<row, commits, badge>>
      /\ \/ requests' = After(k, "joined") /\ UNCHANGED fetch
         \/ requests' = After(k, "refetching") /\ fetch' = [at |-> "asked", got |-> {}]
      /\ busy' = Freed(k)
  BY DEF Resume
<1>2. playbackMode' \in Modes /\ busy' \in 0..Len(requests) /\ Len(requests) \in Nat
  BY <1>1, RequestFields DEF PlaybackInv, PlaybackTypeOK, Freed
<1>3. /\ requests' = [j \in DOMAIN requests |-> requests'[j]]
      /\ \A j \in DOMAIN requests :
           \/ requests'[j] = requests[j]
           \/ \E place \in {"refetching", "joined", "unsure", "done"} :
                requests'[j] = [requests[j] EXCEPT !.at = place]
  BY <1>1, Zenon DEF After
<1>4. /\ fetch' \in [at : {"idle", "asked", "answered"}, got : SUBSET Copies]
      /\ fetch'.got \subseteq fetch.got
      /\ fetch'.at = "answered" => fetch' = fetch /\ requests' = After(k, "joined")
  BY <1>1 DEF PlaybackInv, PlaybackTypeOK
<1>5. \A j \in DOMAIN requests :
        /\ requests[j] \in Requests
        /\ requests'[j].at = "done" => requests'[j] = requests[j]
        /\ requests' = After(k, "joined") =>
             (requests'[j].at = "refetching" => requests'[j] = requests[j])
  <2> SUFFICES ASSUME NEW j \in DOMAIN requests
               PROVE  /\ requests[j] \in Requests
                      /\ requests'[j].at = "done" => requests'[j] = requests[j]
                      /\ requests' = After(k, "joined") =>
                           (requests'[j].at = "refetching" => requests'[j] = requests[j])
    OBVIOUS
  <2>1. requests[j] \in Requests
    BY RequestFields DEF PlaybackInv
  <2>2. ASSUME NEW place \in {"refetching", "joined", "unsure"}
        PROVE  [requests[j] EXCEPT !.at = place].at = place
    BY <2>1, Zenon DEF Requests
  <2>3. \/ requests'[j] = requests[j]
        \/ requests'[j] = [requests[j] EXCEPT !.at = "unsure"]
        \/ requests'[j] = [requests[j] EXCEPT !.at = "joined"]
        \/ /\ requests'[j] = [requests[j] EXCEPT !.at = "refetching"]
           /\ j = k
    BY <1>1, Zenon DEF After
  <2>4. requests' = After(k, "joined") /\ j = k =>
          requests'[j] = [requests[j] EXCEPT !.at = "joined"]
    BY Zenon DEF After
  <2>5. QED
    BY <2>1, <2>2, <2>3, <2>4
<1>6. /\ PlaybackTypeOK' /\ NothingFromTheFuture'
      /\ ReadersAreUpToDate' /\ MixedOnlyByOverlap'
      /\ DOMAIN requests' = DOMAIN requests
      /\ \A j \in DOMAIN requests : requests'[j].made = requests[j].made
  <2>1. badge' \subseteq badge \cup fetch.got
    BY <1>1
  <2>2. QED
    BY <1>1, <1>2, <1>3, <1>4, <2>1, MovesAreGood
<1>7. AnswerIsNewer'
  BY <1>1, <1>4, <1>5, <1>6 DEF PlaybackInv, AnswerIsNewer, At
<1>8. ClickIsShown'
  BY <1>1, <1>5, <1>6 DEF PlaybackInv, ClickIsShown, At
<1>9. QED
  BY <1>6, <1>7, <1>8 DEF PlaybackInv

\* The end of a fetch moves the clicks that wait for it.
LEMMA SettledMoves ==
  ASSUME PlaybackInv, NEW outcome \in {"done", "unsure"}, requests' = Settled(outcome)
  PROVE  /\ requests' = [j \in DOMAIN requests |-> requests'[j]]
         /\ \A j \in DOMAIN requests :
              /\ \/ requests'[j] = requests[j]
                 \/ \E place \in {"refetching", "joined", "unsure", "done"} :
                      requests'[j] = [requests[j] EXCEPT !.at = place]
              /\ requests'[j].at = "done" =>
                   At(j, "done") \/ (At(j, "refetching") /\ outcome = "done")
<1>1. requests' = [j \in DOMAIN requests |-> requests'[j]]
  BY Zenon DEF Settled
<1>2. ASSUME NEW j \in DOMAIN requests
      PROVE  /\ \/ requests'[j] = requests[j]
                \/ \E place \in {"refetching", "joined", "unsure", "done"} :
                     requests'[j] = [requests[j] EXCEPT !.at = place]
             /\ requests'[j].at = "done" =>
                  At(j, "done") \/ (At(j, "refetching") /\ outcome = "done")
  <2>1. requests[j] \in Requests
    BY RequestFields DEF PlaybackInv
  <2>2. [requests[j] EXCEPT !.at = outcome].at = outcome
    BY <2>1, Zenon DEF Requests
  <2>3. [requests[j] EXCEPT !.at = "unsure"].at = "unsure"
    BY <2>1, Zenon DEF Requests
  <2>4. requests'[j] = IF At(j, "refetching") THEN [requests[j] EXCEPT !.at = outcome]
                       ELSE IF At(j, "joined") THEN [requests[j] EXCEPT !.at = "unsure"]
                       ELSE requests[j]
    BY Zenon DEF Settled
  <2>5. CASE At(j, "refetching")
    BY <2>2, <2>4, <2>5, Zenon
  <2>6. CASE ~At(j, "refetching") /\ At(j, "joined")
    BY <2>3, <2>4, <2>6, Zenon
  <2>7. CASE ~At(j, "refetching") /\ ~At(j, "joined")
    BY <2>4, <2>7, Zenon DEF At
  <2>8. QED
    BY <2>5, <2>6, <2>7
<1>3. QED
  BY <1>1, <1>2

\* The answer arrives and is shown.
LEMMA FetchArrivesIsGood ==
  ASSUME PlaybackInv, FetchArrives
  PROVE  PlaybackInv'
<1>1. /\ fetch.at = "answered" /\ badge' = fetch.got /\ fetch' = Idle
      /\ requests' = Settled("done") /\ busy' = Freed(0)
      /\ UNCHANGED <<row, commits, playbackMode>>
  BY DEF FetchArrives
<1>2. busy' \in 0..Len(requests) /\ playbackMode' \in Modes
  BY <1>1 DEF PlaybackInv, PlaybackTypeOK, Freed
<1>3. /\ fetch' \in [at : {"idle", "asked", "answered"}, got : SUBSET Copies]
      /\ fetch'.got \subseteq fetch.got /\ fetch'.at # "answered"
      /\ badge' \subseteq badge \cup fetch.got
  BY <1>1 DEF Idle
<1>4. \A j \in DOMAIN requests :
        requests'[j].at = "done" => At(j, "done") \/ At(j, "refetching")
  BY <1>1, SettledMoves
<1>5. /\ requests' = [j \in DOMAIN requests |-> requests'[j]]
      /\ \A j \in DOMAIN requests :
           \/ requests'[j] = requests[j]
           \/ \E place \in {"refetching", "joined", "unsure", "done"} :
                requests'[j] = [requests[j] EXCEPT !.at = place]
  BY <1>1, SettledMoves
<1>6. /\ PlaybackTypeOK' /\ NothingFromTheFuture'
      /\ ReadersAreUpToDate' /\ MixedOnlyByOverlap'
      /\ DOMAIN requests' = DOMAIN requests
      /\ \A j \in DOMAIN requests : requests'[j].made = requests[j].made
  BY <1>1, <1>2, <1>3, <1>5, MovesAreGood
<1>7. AnswerIsNewer'
  BY <1>3 DEF AnswerIsNewer
<1>8. ClickIsShown'
  <2> SUFFICES ASSUME NEW k \in DOMAIN requests, requests'[k].at = "done"
               PROVE  \E copy \in badge' : copy.asOf >= requests[k].made
    BY <1>6 DEF ClickIsShown, At
  <2>1. PICK new \in fetch.got : TRUE
    BY <1>1 DEF PlaybackInv, AnswerIsNewer
  <2>2. new \in badge' /\ new.asOf \in Nat /\ requests[k].made \in Nat
    BY <1>1, <2>1, RequestFields DEF PlaybackInv, PlaybackTypeOK, Copies
  <2>3. CASE At(k, "refetching")
    BY <1>1, <2>1, <2>2, <2>3 DEF PlaybackInv, AnswerIsNewer
  <2>4. CASE At(k, "done")
    <3>1. PICK old \in badge : old.asOf >= requests[k].made
      BY <2>4 DEF PlaybackInv, ClickIsShown
    <3>2. old.asOf \in Nat /\ old.asOf <= new.asOf
      BY <1>1, <2>1, <3>1 DEF PlaybackInv, PlaybackTypeOK, AnswerIsNewer, Copies
    <3>3. QED
      BY <2>2, <3>1, <3>2
  <2>5. QED
    BY <1>4, <2>3, <2>4
<1>9. QED
  BY <1>6, <1>7, <1>8 DEF PlaybackInv

\* The fetch fails for good, and what is shown stays.
LEMMA FetchFailsIsGood ==
  ASSUME PlaybackInv, FetchFails
  PROVE  PlaybackInv'
<1>1. /\ fetch' = Idle /\ requests' = Settled("unsure") /\ busy' = Freed(0)
      /\ UNCHANGED <<row, commits, badge, playbackMode>>
  BY DEF FetchFails
<1>2. busy' \in 0..Len(requests) /\ playbackMode' \in Modes
  BY <1>1 DEF PlaybackInv, PlaybackTypeOK, Freed
<1>3. /\ fetch' \in [at : {"idle", "asked", "answered"}, got : SUBSET Copies]
      /\ fetch'.got \subseteq fetch.got /\ fetch'.at # "answered"
      /\ badge' \subseteq badge \cup fetch.got
  BY <1>1 DEF Idle
<1>4. /\ requests' = [j \in DOMAIN requests |-> requests'[j]]
      /\ \A j \in DOMAIN requests :
           \/ requests'[j] = requests[j]
           \/ \E place \in {"refetching", "joined", "unsure", "done"} :
                requests'[j] = [requests[j] EXCEPT !.at = place]
      /\ \A j \in DOMAIN requests : requests'[j].at = "done" => At(j, "done")
  BY <1>1, SettledMoves
<1>5. /\ PlaybackTypeOK' /\ NothingFromTheFuture'
      /\ ReadersAreUpToDate' /\ MixedOnlyByOverlap'
      /\ DOMAIN requests' = DOMAIN requests
      /\ \A j \in DOMAIN requests : requests'[j].made = requests[j].made
  BY <1>1, <1>2, <1>3, <1>4, MovesAreGood
<1>6. AnswerIsNewer' /\ ClickIsShown'
  BY <1>1, <1>3, <1>4, <1>5 DEF PlaybackInv, AnswerIsNewer, ClickIsShown, At
<1>7. QED
  BY <1>5, <1>6 DEF PlaybackInv

\* Polling, and buttons that have just come onto a page.
LEMMA PollIsGood ==
  ASSUME PlaybackInv, Poll \/ RemountButtons
  PROVE  PlaybackInv'
<1>1. /\ UNCHANGED <<row, commits, requests, badge, playbackMode>>
      /\ \/ fetch' = [at |-> "asked", got |-> {}] /\ busy' = busy
         \/ fetch' = fetch /\ busy' = 0
  BY DEF Poll, RemountButtons
<1>2. PlaybackTypeOK'
  BY <1>1 DEF PlaybackInv, PlaybackTypeOK
<1>3. /\ fetch'.got \subseteq fetch.got
      /\ fetch'.at = "answered" => fetch' = fetch
  BY <1>1
<1>4. QED
  BY <1>1, <1>2, <1>3
     DEF PlaybackInv, NothingFromTheFuture, AnswerIsNewer, ReadersAreUpToDate,
         ClickIsShown, MixedOnlyByOverlap, At

\* Every step of the buttons, the API and the query client.
LEMMA PlaybackStepIsGood ==
  ASSUME PlaybackInv, PlaybackStep \/ UNCHANGED playbackVars
  PROVE  PlaybackInv'
<1>1. ASSUME NEW k \in DOMAIN requests,
             ReadRow(k) \/ CommitRow(k) \/ CreateRow(k) \/ RequestFails(k) \/ Resume(k)
      PROVE  PlaybackInv'
  BY <1>1, ReadRowIsGood, CommitRowIsGood, CreateRowIsGood, RequestFailsIsGood, ResumeIsGood
<1>2. CASE AnswerFetch \/ FetchArrives \/ FetchFails
  BY <1>2, AnswerFetchIsGood, FetchArrivesIsGood, FetchFailsIsGood
<1>3. CASE Poll \/ RemountButtons
  BY <1>3, PollIsGood
<1>4. ASSUME NEW mode \in Modes, Update(mode)
      PROVE  PlaybackInv'
  BY <1>4, UpdateIsGood
<1>5. CASE UNCHANGED playbackVars
  BY <1>5 DEF playbackVars, PlaybackInv, PlaybackTypeOK, NothingFromTheFuture, AnswerIsNewer,
              ReadersAreUpToDate, ClickIsShown, MixedOnlyByOverlap, At
<1>6. QED
  BY <1>1, <1>2, <1>3, <1>4, <1>5 DEF PlaybackStep, Network

-----------------------------------------------------------------------------
(***************************************************************************)
(* The replay: the playhead stays within the mission and playback only     *)
(* advances, whatever the user does.                                       *)
(***************************************************************************)

ReplayInv == ReplayTypeOK /\ PlayheadInRange

\* The fields of the one dataset there is.
LEMMA SampleFields ==
  /\ Sample.startTimeS = StartTimeS
  /\ Sample.endTimeS = EndTimeS
  BY DEF Sample

\* What setCurrentTimeS makes of any time is within the mission, and the time
\* itself if that is.
LEMMA ClampedInRange ==
  ASSUME NEW t \in Int, dataset = Sample
  PROVE  /\ Clamped(t) \in Int
         /\ StartTimeS <= Clamped(t) /\ Clamped(t) <= EndTimeS
         /\ StartTimeS <= t /\ t <= EndTimeS => Clamped(t) = t
  BY SampleFields, ReplayAssumption DEF Clamped, LeastOf, GreatestOf

\* The effects leave a timer that has seen the store as it is, whatever the
\* store has become.
LEMMA EffectsSeeTheStore ==
  ASSUME ReplayInv, RunEffects,
         viewing' \in BOOLEAN, isPlaying' \in BOOLEAN,
         dataset' \in {NoReplay, Sample}, currentTimeS' \in Int,
         playbackSpeed' \in 1..160,
         dataset' = Sample => StartTimeS <= currentTimeS' /\ currentTimeS' <= EndTimeS
  PROVE  ReplayInv'
<1>1. (dataset # NoReplay =>
         dataset.startTimeS <= currentTimeS /\ currentTimeS <= dataset.endTimeS)'
  BY SampleFields
<1>2. CASE Deps' = Deps
  <2>1. timer' = timer
    BY <1>2 DEF RunEffects
  <2>2. UNCHANGED <<viewing, store>>
    BY <1>2 DEF Deps, store
  <2>3. QED
    BY <2>1, <2>2 DEF ReplayInv, ReplayTypeOK, PlayheadInRange, Plays, store
<1>3. CASE Deps' # Deps /\ Plays'
  <2>1. timer' = {[from |-> currentTimeS', by |-> playbackSpeed', until |-> dataset'.endTimeS]}
    BY <1>3 DEF RunEffects
  <2>2. dataset'.endTimeS \in Int
    BY <1>3, SampleFields, ReplayAssumption DEF Plays
  <2>3. timer' \subseteq Seen
    BY <2>1, <2>2 DEF Seen
  <2>4. QED
    BY <1>1, <1>3, <2>1, <2>3 DEF ReplayInv, ReplayTypeOK, PlayheadInRange
<1>4. CASE Deps' # Deps /\ ~Plays'
  <2>1. timer' = {}
    BY <1>4 DEF RunEffects
  <2>2. QED
    BY <1>1, <2>1 DEF ReplayInv, ReplayTypeOK, PlayheadInRange
<1>5. QED
  BY <1>2, <1>3, <1>4

\* A new player is in order.
LEMMA ReplayInitIsGood == ReplayInit => ReplayInv
<1> SUFFICES ASSUME ReplayInit
             PROVE  ReplayInv
  OBVIOUS
<1>1. viewing \in BOOLEAN /\ isPlaying \in BOOLEAN
  BY Zenon DEF ReplayInit
<1>2. currentTimeS \in Int /\ playbackSpeed \in 1..160
  BY DEF ReplayInit
<1>3. dataset = NoReplay /\ timer = {}
  BY DEF ReplayInit
<1>4. QED
  BY <1>1, <1>2, <1>3 DEF ReplayInv, ReplayTypeOK, PlayheadInRange

\* What a beat does to the playhead.
LEMMA BeatAdvances ==
  ASSUME ReplayInv, Beat
  PROVE  /\ currentTimeS' \in Int
         /\ isPlaying' \in BOOLEAN
         /\ dataset = Sample
         /\ StartTimeS <= currentTimeS' /\ currentTimeS' <= EndTimeS
         /\ currentTimeS' > currentTimeS \/ (currentTimeS' = currentTimeS /\ ~isPlaying')
<1>1. PICK s \in timer :
        \/ s.from + s.by >= s.until /\ SetCurrentTimeS(s.until) /\ Paused
        \/ s.from + s.by < s.until /\ SetCurrentTimeS(s.from + s.by) /\ UNCHANGED isPlaying
  BY DEF Beat
<1>2. dataset # NoReplay
  BY <1>1 DEF ReplayInv, PlayheadInRange, Plays
<1>3. dataset = Sample
  BY <1>2 DEF ReplayInv, ReplayTypeOK
<1>4. s.from = currentTimeS /\ s.by = playbackSpeed /\ s.until = EndTimeS
  BY <1>1, <1>2, <1>3, SampleFields DEF ReplayInv, PlayheadInRange
<1>5. /\ currentTimeS \in Int /\ isPlaying \in BOOLEAN /\ playbackSpeed \in 1..160
      /\ StartTimeS <= currentTimeS /\ currentTimeS <= EndTimeS
  BY <1>2, <1>3, SampleFields DEF ReplayInv, ReplayTypeOK, PlayheadInRange
<1>6. CASE s.from + s.by >= s.until /\ SetCurrentTimeS(s.until) /\ Paused
  <2>1. currentTimeS' = EndTimeS
    BY <1>3, <1>4, <1>6, ClampedInRange, ReplayAssumption DEF SetCurrentTimeS
  <2>2. isPlaying' \in BOOLEAN /\ ~isPlaying'
    BY <1>6, Zenon DEF Paused
  <2>3. QED
    BY <1>3, <1>5, <2>1, <2>2, ReplayAssumption
<1>7. CASE s.from + s.by < s.until /\ SetCurrentTimeS(s.from + s.by) /\ UNCHANGED isPlaying
  <2>1. currentTimeS + playbackSpeed \in Int
    BY <1>5
  <2>2. StartTimeS <= currentTimeS + playbackSpeed /\ currentTimeS + playbackSpeed <= EndTimeS
    BY <1>4, <1>5, <1>7, ReplayAssumption
  <2>3. currentTimeS' = currentTimeS + playbackSpeed
    BY <1>3, <1>4, <1>7, <2>1, <2>2, ClampedInRange DEF SetCurrentTimeS
  <2>4. QED
    BY <1>3, <1>5, <1>7, <2>1, <2>2, <2>3
<1>8. QED
  BY <1>1, <1>6, <1>7

\* Every step of the player keeps it in order.
LEMMA ReplayStepIsGood ==
  ASSUME ReplayInv, [ReplayNext]_replayVars
  PROVE  ReplayInv'
<1> USE DEF ReplayTypeOK
<1>1. CASE ShowReplay
  <2>1. /\ viewing' = TRUE /\ playbackSpeed' = playbackSpeed /\ RunEffects
        /\ \/ dataset = NoReplay /\ Loaded
           \/ dataset # NoReplay /\ UNCHANGED <<dataset, currentTimeS, isPlaying>>
    BY <1>1 DEF ShowReplay
  <2>2. CASE dataset = NoReplay /\ Loaded
    <3>1. dataset' = Sample /\ currentTimeS' = StartTimeS
      BY <2>2, SampleFields DEF Loaded
    <3>2. viewing' \in BOOLEAN /\ isPlaying' \in BOOLEAN
      BY <2>1, <2>2, Zenon DEF Loaded
    <3>3. QED
      BY <2>1, <3>1, <3>2, EffectsSeeTheStore, ReplayAssumption DEF ReplayInv
  <2>3. CASE dataset # NoReplay /\ UNCHANGED <<dataset, currentTimeS, isPlaying>>
    BY <2>1, <2>3, EffectsSeeTheStore, SampleFields DEF ReplayInv, PlayheadInRange
  <2>4. QED
    BY <2>1, <2>2, <2>3
<1>2. CASE HideReplay
  BY <1>2, EffectsSeeTheStore, SampleFields, ReplayAssumption
     DEF HideReplay, ReplayInv, PlayheadInRange, store
<1>3. CASE Toggle
  BY <1>3, EffectsSeeTheStore, SampleFields, ReplayAssumption
     DEF Toggle, ReplayInv, PlayheadInRange
<1>4. CASE ClearReplay
  <2>1. CASE viewing /\ Loaded
    <3>1. dataset' = Sample /\ currentTimeS' = StartTimeS
      BY <2>1, SampleFields DEF Loaded
    <3>2. isPlaying' \in BOOLEAN
      BY <2>1, Zenon DEF Loaded
    <3>3. QED
      BY <1>4, <3>1, <3>2, EffectsSeeTheStore, ReplayAssumption DEF ClearReplay, ReplayInv
  <2>2. CASE ~viewing /\ dataset' = NoReplay /\ currentTimeS' = 0 /\ isPlaying' = FALSE
    <3>1. isPlaying' \in BOOLEAN
      BY <2>2, Zenon
    <3>2. QED
      BY <1>4, <2>2, <3>1, EffectsSeeTheStore, ReplayAssumption DEF ClearReplay, ReplayInv
  <2>3. QED
    BY <1>4, <2>1, <2>2 DEF ClearReplay
<1>5. CASE Beat
  <2>1. UNCHANGED <<viewing, dataset, playbackSpeed>> /\ RunEffects
    BY <1>5 DEF Beat
  <2>2. QED
    BY <1>5, <2>1, BeatAdvances, EffectsSeeTheStore DEF ReplayInv
<1>6. ASSUME NEW t \in ScrubTimes, Scrub(t)
      PROVE  ReplayInv'
  <2>1. dataset = Sample /\ t \in Int
    BY <1>6, ReplayAssumption DEF Scrub, Controls, ReplayInv
  <2>2. currentTimeS' \in Int /\ StartTimeS <= currentTimeS' /\ currentTimeS' <= EndTimeS
    BY <1>6, <2>1, ClampedInRange DEF Scrub, SetCurrentTimeS
  <2>3. QED
    BY <1>6, <2>1, <2>2, EffectsSeeTheStore DEF Scrub, ReplayInv
<1>7. ASSUME NEW speed \in Speeds, SetPlaybackSpeed(speed)
      PROVE  ReplayInv'
  <2>1. dataset = Sample /\ speed \in Int
    BY <1>7, ReplayAssumption DEF SetPlaybackSpeed, Controls, ReplayInv
  <2>2. playbackSpeed' \in 1..160
    BY <1>7, <2>1 DEF SetPlaybackSpeed, GreatestOf, LeastOf
  <2>3. QED
    BY <1>7, <2>1, <2>2, EffectsSeeTheStore, SampleFields, ReplayAssumption
       DEF SetPlaybackSpeed, ReplayInv, PlayheadInRange
<1>8. CASE UNCHANGED replayVars
  BY <1>8 DEF replayVars, store, ReplayInv, PlayheadInRange, Plays
<1>9. QED
  BY <1>1, <1>2, <1>3, <1>4, <1>5, <1>6, <1>7, <1>8 DEF ReplayNext

\* Every variable of the player stays in its type.
THEOREM ReplayTypeCorrect == ReplaySpec => []ReplayTypeOK
<1>1. ReplayInv => ReplayTypeOK
  BY DEF ReplayInv
<1>2. QED
  BY <1>1, ReplayInitIsGood, ReplayStepIsGood, PTL DEF ReplaySpec

-----------------------------------------------------------------------------
(***************************************************************************)
(* The socket: its indicator tells no lasting lie.                         *)
(***************************************************************************)

LinkInv == LinkTypeOK /\ LinkIsShown

LinkStep == OpenGlobe \/ LeaveGlobe \/ LinkEvents

\* Before the first visit the indicator says it is connecting.
LEMMA LinkInitIsGood == LinkInit => LinkInv
<1> SUFFICES ASSUME LinkInit
             PROVE  LinkInv
  OBVIOUS
<1>1. onGlobe \in BOOLEAN
  BY Zenon DEF LinkInit
<1>2. QED
  BY <1>1, LinkAssumption DEF LinkInit, LinkInv, LinkTypeOK, LinkIsShown, Sockets, SocketStates

\* A visit, its end, and every event of every socket keep the indicator true.
LEMMA LinkStepIsGood ==
  ASSUME LinkInv, LinkStep \/ UNCHANGED linkVars
  PROVE  LinkInv'
<1> USE LinkAssumption DEF LinkInv, LinkTypeOK, LinkIsShown, Sockets, SocketStates
<1>1. CASE OpenGlobe
  <2>1. onGlobe' \in BOOLEAN
    BY <1>1, Zenon DEF OpenGlobe
  <2>2. visits' = visits + 1 /\ visits' \in Sockets /\ connectionState' = "connecting"
    BY <1>1 DEF OpenGlobe
  <2>3. /\ sockets' \in [Sockets -> SocketStates]
        /\ sockets'[visits'] = "connecting"
        /\ \A n \in Sockets \ {visits'} : sockets'[n] = sockets[n]
    BY <1>1, <2>2 DEF OpenGlobe
  <2>4. QED
    BY <2>1, <2>2, <2>3
<1>2. CASE LeaveGlobe
  <2>1. onGlobe' \in BOOLEAN
    BY <1>2, Zenon DEF LeaveGlobe
  <2>2. /\ visits' = visits /\ connectionState' = connectionState
        /\ sockets' \in [Sockets -> SocketStates]
        /\ \A n \in Sockets :
             \/ sockets'[n] = sockets[n]
             \/ sockets[n] \in {"connecting", "open"} /\ sockets'[n] = "closing"
    BY <1>2 DEF LeaveGlobe
  <2>3. LinkTypeOK'
    BY <2>1, <2>2
  <2>4. LinkIsShown'
    BY <2>2
  <2>5. QED
    BY <2>3, <2>4
<1>3. ASSUME NEW n \in Sockets, OnOpen(n)
      PROVE  LinkInv'
  BY <1>3 DEF OnOpen
<1>4. ASSUME NEW n \in Sockets, OnClose(n)
      PROVE  LinkInv'
  BY <1>4 DEF OnClose
<1>5. ASSUME NEW n \in Sockets, OnGarbledMessage(n)
      PROVE  LinkInv'
  BY <1>5 DEF OnGarbledMessage
<1>6. ASSUME NEW n \in Sockets, ServerEnds(n)
      PROVE  LinkInv'
  BY <1>6 DEF ServerEnds
<1>7. CASE UNCHANGED linkVars
  BY <1>7 DEF linkVars
<1>8. QED
  BY <1>1, <1>2, <1>3, <1>4, <1>5, <1>6, <1>7 DEF LinkStep, LinkEvents

-----------------------------------------------------------------------------
(***************************************************************************)
(* The console.                                                            *)
(***************************************************************************)

ConsoleInv == ReplayInv /\ LinkInv /\ PlaybackInv

\* Each step of the console is one of every part, or leaves the part alone.
LEMMA StepsOfParts ==
  ASSUME [ConsoleNext]_consoleVars
  PROVE  /\ [ReplayNext]_replayVars
         /\ LinkStep \/ UNCHANGED linkVars
         /\ PlaybackStep \/ UNCHANGED playbackVars
<1>1. ASSUME NEW to \in Pages, Navigate(to)
      PROVE  /\ [ReplayNext]_replayVars
             /\ LinkStep \/ UNCHANGED linkVars
             /\ PlaybackStep
  <2>1. ShowReplay \/ HideReplay \/ UNCHANGED replayVars
    BY <1>1 DEF Navigate
  <2>2. OpenGlobe \/ LeaveGlobe \/ UNCHANGED linkVars
    BY <1>1 DEF Navigate
  <2>3. RemountButtons
    BY <1>1 DEF Navigate
  <2>4. QED
    BY <2>1, <2>2, <2>3 DEF ReplayNext, LinkStep, PlaybackStep
<1>2. CASE UseReplay
  <2>1. UNCHANGED linkVars /\ UNCHANGED playbackVars
    BY <1>2 DEF UseReplay
  <2>2. ReplayNext
    BY <1>2 DEF UseReplay, ReplayNext
  <2>3. QED
    BY <2>1, <2>2
<1>3. CASE UseButtons
  BY <1>3 DEF UseButtons, PlaybackStep
<1>4. CASE ReplayBeats
  BY <1>4 DEF ReplayBeats, ReplayNext
<1>5. CASE SocketEvent
  BY <1>5 DEF SocketEvent, LinkStep
<1>6. CASE NetworkEvent
  BY <1>6 DEF NetworkEvent, PlaybackStep
<1>7. CASE UNCHANGED consoleVars
  BY <1>7 DEF consoleVars
<1>8. QED
  BY <1>1, <1>2, <1>3, <1>4, <1>5, <1>6, <1>7 DEF ConsoleNext

\* The parts are in order in every state of the console.
THEOREM ConsoleInvariance == ConsoleSpec => []ConsoleInv
<1>1. ConsoleInit => ConsoleInv
  BY ReplayInitIsGood, LinkInitIsGood, PlaybackInitIsGood DEF ConsoleInit, ConsoleInv
<1>2. ConsoleInv /\ [ConsoleNext]_consoleVars => ConsoleInv'
  <2> SUFFICES ASSUME ConsoleInv, [ConsoleNext]_consoleVars
               PROVE  ConsoleInv'
    OBVIOUS
  <2>1. /\ [ReplayNext]_replayVars
        /\ LinkStep \/ UNCHANGED linkVars
        /\ PlaybackStep \/ UNCHANGED playbackVars
    BY StepsOfParts
  <2>2. ReplayInv'
    BY <2>1, ReplayStepIsGood DEF ConsoleInv
  <2>3. LinkInv'
    BY <2>1, LinkStepIsGood DEF ConsoleInv
  <2>4. PlaybackInv'
    BY <2>1, PlaybackStepIsGood DEF ConsoleInv
  <2>5. QED
    BY <2>2, <2>3, <2>4 DEF ConsoleInv
<1>3. QED
  BY <1>1, <1>2, PTL DEF ConsoleSpec

\* The playhead is within the mission and the timer has seen the store as it
\* is, whatever is loaded, dragged, cleared and played on whichever page.
THEOREM PlayheadStaysInRange == ConsoleSpec => []PlayheadInRange
<1>1. ConsoleInv => PlayheadInRange
  BY DEF ConsoleInv, ReplayInv
<1>2. QED
  BY <1>1, ConsoleInvariance, PTL

\* A beat of the timer takes the playhead on, or ends playback.
THEOREM PlaybackAdvances == ConsoleSpec => PlaybackOnlyAdvances
<1> DEFINE Advances ==
      Beat => currentTimeS' > currentTimeS \/ (currentTimeS' = currentTimeS /\ ~isPlaying')
<1>1. ConsoleInv => [Advances]_replayVars
  BY BeatAdvances DEF ConsoleInv
<1>2. QED
  BY <1>1, ConsoleInvariance, PTL DEF PlaybackOnlyAdvances

\* The indicator of the web socket, for any number of visits of the globe.
THEOREM IndicatorIsRight == ConsoleSpec => []LinkIsShown
<1>1. ConsoleInv => LinkIsShown
  BY DEF ConsoleInv, LinkInv
<1>2. QED
  BY <1>1, ConsoleInvariance, PTL

\* The badge after a click, for any number of overlapping clicks and fetches.
THEOREM BadgeIsNotOlder == ConsoleSpec => []ClickIsShown
<1>1. ConsoleInv => ClickIsShown
  BY DEF ConsoleInv, PlaybackInv
<1>2. QED
  BY <1>1, ConsoleInvariance, PTL

\* Handlers that do not overlap leave no mixed row.
THEOREM RowIsMixedByOverlapOnly == ConsoleSpec => []MixedOnlyByOverlap
<1>1. ConsoleInv => MixedOnlyByOverlap
  BY DEF ConsoleInv, PlaybackInv
<1>2. QED
  BY <1>1, ConsoleInvariance, PTL

-----------------------------------------------------------------------------
(***************************************************************************)
(* The log and its frames: what is logged of some ids, one line for each.  *)
(***************************************************************************)
\* The lines are those of the ids, and all of them.
LEMMA LinesAre ==
  ASSUME NEW S, NEW D, IsFiniteSet(D), NEW line \in [D -> S]
  PROVE  /\ LinesFor(line) \in Seq(S)
         /\ \A n \in DOMAIN LinesFor(line) : \E d \in D : LinesFor(line)[n] = line[d]
         /\ \A d \in D : \E n \in DOMAIN LinesFor(line) : LinesFor(line)[n] = line[d]
<1> DEFINE c == Cardinality(D)
           ids == SetToSeq(D)
<1>1. c \in Nat /\ \E f : ExistsBijection(1..c, D)
  BY FS_CardinalityType
<1>2. PICK f \in Bijection(1..c, D) : TRUE
  BY <1>1 DEF ExistsBijection
<1>3. f \in [1..c -> D] /\ IsInjective(f)
  BY <1>2 DEF Bijection, Injection, Surjection, IsInjective
<1>4. ids \in [1..c -> D] /\ IsInjective(ids)
  BY <1>3 DEF SetToSeq
<1>5. \A d \in D : \E k \in 1..c : ids[k] = d
  <2>1. IsFiniteSet(1..c) /\ Cardinality(1..c) = c
    BY <1>1, FS_Interval
  <2>2. ids \in Injection(1..c, D)
    BY <1>4 DEF Injection
  <2>3. ids \in Surjection(1..c, D)
    BY <2>1, <2>2, FS_Injection
  <2>4. QED
    BY <2>3 DEF Surjection
<1> HIDE DEF c
<1>6. LinesFor(line) = [k \in 1..c |-> line[ids[k]]]
  <2>1. DOMAIN line = D /\ DOMAIN ids = 1..c
    BY <1>4
  <2>2. QED
    BY <2>1 DEF LinesFor
<1> HIDE DEF ids
<1>7. LinesFor(line) \in [1..c -> S]
  BY <1>4, <1>6
<1>8. LinesFor(line) \in Seq(S)
  BY <1>1, <1>7
<1>9. QED
  BY <1>4, <1>5, <1>6, <1>8

\* If only the line of one id is of a kind, it is the last of it.
LEMMA LineOfOne ==
  ASSUME NEW S, NEW D, IsFiniteSet(D), NEW line \in [D -> S], NEW K, NEW G, NEW x,
         \A d \in D : line[d] \in K => d = x
  PROVE  /\ x \notin D => NoneOf(LinesFor(line), K)
         /\ x \in D /\ line[x] \in K \cap G => LastIs(LinesFor(line), K, G)
         /\ (\A d \in D : line[d] \notin K) => NoneOf(LinesFor(line), K)
<1> DEFINE s == LinesFor(line)
<1>1. /\ s \in Seq(S)
      /\ \A n \in DOMAIN s : \E d \in D : s[n] = line[d]
      /\ \A d \in D : \E n \in DOMAIN s : s[n] = line[d]
  BY LinesAre
<1> HIDE DEF s
<1>2. ASSUME x \notin D \/ \A d \in D : line[d] \notin K PROVE NoneOf(s, K)
  BY <1>1, <1>2 DEF NoneOf
<1>3. ASSUME x \in D, line[x] \in K \cap G PROVE LastIs(s, K, G)
  <2>1. ~NoneOf(s, K)
    BY <1>1, <1>3 DEF NoneOf
  <2>2. \A n \in DOMAIN s : s[n] \in K => s[n] \in G
    BY <1>1, <1>3
  <2>3. QED
    BY <1>1, <2>1, <2>2, LastOfAll
<1>4. QED
  BY <1>2, <1>3 DEF s

-----------------------------------------------------------------------------
(***************************************************************************)
(* The invariant of a log.                                                 *)
(***************************************************************************)
TrackTypes == {"track_event", "track_stability_event"}

TypesOfLines ==
  TrackTypes \cup {"measurement", "bt_decision", "assignment_event",
                   "interceptor_state", "intercept_event"}

Events ==
  {"none", "track_created", "track_confirmed", "track_updated", "track_coasted",
   "track_deleted", "track_reacquisition_candidate", "engage_assigned",
   "engage_denied", "intercept_success"}

Statuses == Stage \cup {"none", "deleted"}

LogLine ==
  {line \in [type : TypesOfLines, t_s : Nat, track_id : Nat, interceptor_id : Nat,
             event : Events, status : Statuses, engaged : BOOLEAN, lineNumber : {0}] :
     /\ line.type \in TrackTypes => line.track_id \in Tracks
     /\ line.type = "assignment_event" =>
          line.interceptor_id \in Interceptors \cup {0}}

\* The pass a line is of.
PassOf(line) == IF line.type = "measurement" THEN line.t_s + 1 ELSE line.t_s

InPassOrder(s, n) ==
  /\ \A k \in DOMAIN s : PassOf(s[k]) <= n
  /\ \A j, k \in DOMAIN s : j < k => PassOf(s[j]) <= PassOf(s[k])

AboutTrack(t) == {line \in LogLine : line.type \in TrackTypes /\ line.track_id = t}
Stability(t) ==
  {line \in LogLine : line.type = "track_stability_event" /\ line.track_id = t}
AssignmentOf(i) ==
  {line \in LogLine :
     line.type = "assignment_event" /\ line.interceptor_id = i /\ line.track_id # 0}
StateOf(i) ==
  {line \in LogLine : line.type = "interceptor_state" /\ line.interceptor_id = i}
Hits == {line \in LogLine : line.type = "intercept_event"}

\* The status a line shows, right or of a copy that is older.
Shown(s) ==
  {line \in LogLine :
     IF s = "gone" THEN line.status = "deleted"
     ELSE \/ line.status = s
          \/ line.event = "track_reacquisition_candidate" /\ line.status = "tentative"}

Coasting == {line \in LogLine : line.event = "track_coasted"}

TracksLogged ==
  \A t \in Tracks :
    /\ stage[t] = "unborn" => NoneOf(log, AboutTrack(t))
    /\ stage[t] # "unborn" => LastIs(log, Stability(t), Shown(stage[t]))
    /\ t \in missed \cap Live => LastIs(log, Stability(t), Coasting)

-----------------------------------------------------------------------------
(***************************************************************************)
(* The lines of a report.                                                  *)
(***************************************************************************)
LEMMA TrackLine ==
  ASSUME now' \in Nat, NEW event \in Events, NEW t \in Tracks, NEW status \in Statuses
  PROVE  LET e == TrackEvent(event, t, status)
             f == StabilityEvent(event, t, status)
         IN  /\ e \in LogLine /\ e.type = "track_event" /\ e.t_s = now'
             /\ e.event = event /\ e.track_id = t /\ e.status = status
             /\ f \in LogLine /\ f.type = "track_stability_event" /\ f.t_s = now'
             /\ f.event = event /\ f.track_id = t /\ f.status = status
<1> DEFINE e == TrackEvent(event, t, status)
           f == StabilityEvent(event, t, status)
<1>1. t \in Nat
  BY ReplayLogAssumption
<1>2. /\ e.type = "track_event" /\ e.t_s = now' /\ e.event = event
      /\ e.track_id = t /\ e.status = status
  BY DEF TrackEvent, Blank
<1>3. e \in LogLine
  BY <1>1 DEF LogLine, TypesOfLines, TrackTypes, Events, Statuses, TrackEvent, Blank
<1> HIDE DEF e
<1>4. f = [e EXCEPT !.type = "track_stability_event"]
  BY DEF StabilityEvent, e
<1>5. f \in LogLine
  BY <1>2, <1>3, <1>4 DEF LogLine, TypesOfLines, TrackTypes
<1>6. /\ f.type = "track_stability_event" /\ f.t_s = now' /\ f.event = event
      /\ f.track_id = t /\ f.status = status
  BY <1>2, <1>3, <1>4 DEF LogLine
<1>7. QED
  BY <1>2, <1>3, <1>5, <1>6 DEF e

\* The lines of the report of this pass.
Reported == {line \in LogLine : line.type \in TrackTypes /\ line.t_s = now'}

\* Groups of lines, one for each of some tracks.
LEMMA TrackGroup ==
  ASSUME now' \in Nat, NEW D \in SUBSET Tracks, NEW event \in Events,
         NEW status, \A d \in D : status[d] \in Statuses, NEW t, NEW G
  PROVE  LET E == LinesFor([d \in D |-> TrackEvent(event, d, status[d])])
             F == LinesFor([d \in D |-> StabilityEvent(event, d, status[d])])
         IN  /\ E \in Seq(Reported) /\ F \in Seq(Reported)
             /\ NoneOf(E, Stability(t))
             /\ t \notin D => NoneOf(E, AboutTrack(t)) /\ NoneOf(F, AboutTrack(t))
             /\ t \notin D => NoneOf(F, Stability(t))
             /\ t \in D /\ StabilityEvent(event, t, status[t]) \in G
                  => LastIs(F, Stability(t), G)
<1> DEFINE e == [d \in D |-> TrackEvent(event, d, status[d])]
           f == [d \in D |-> StabilityEvent(event, d, status[d])]
<1>1. IsFiniteSet(D)
  BY ReplayLogAssumption, FS_Subset
<1>2. ASSUME NEW d \in D
      PROVE  /\ e[d] \in LogLine /\ e[d].type = "track_event"
             /\ e[d].t_s = now' /\ e[d].track_id = d
             /\ f[d] \in LogLine /\ f[d].type = "track_stability_event"
             /\ f[d].t_s = now' /\ f[d].track_id = d
  <2>1. d \in Tracks /\ status[d] \in Statuses
    OBVIOUS
  <2>2. e[d] = TrackEvent(event, d, status[d]) /\ f[d] = StabilityEvent(event, d, status[d])
    OBVIOUS
  <2> HIDE DEF e, f
  <2>3. QED
    BY <2>1, <2>2, TrackLine
<1>3. t \in D => f[t] = StabilityEvent(event, t, status[t])
  OBVIOUS
<1>4. DOMAIN e = D /\ DOMAIN f = D /\ e = [d \in D |-> e[d]] /\ f = [d \in D |-> f[d]]
  OBVIOUS
<1> HIDE DEF e, f
<1>5. e \in [D -> Reported] /\ f \in [D -> Reported]
  BY <1>2, <1>4 DEF Reported, TrackTypes
<1>6. /\ \A d \in D : e[d] \notin Stability(t)
      /\ \A d \in D : e[d] \in AboutTrack(t) => d = t
      /\ \A d \in D : f[d] \in AboutTrack(t) => d = t
      /\ \A d \in D : f[d] \in Stability(t) => d = t
      /\ t \in D => f[t] \in Stability(t)
  BY <1>2 DEF Stability, AboutTrack
<1>7. LinesFor(e) \in Seq(Reported) /\ LinesFor(f) \in Seq(Reported)
  BY <1>1, <1>5, LinesAre
<1>8. NoneOf(LinesFor(e), Stability(t))
  BY <1>1, <1>5, <1>6, LineOfOne
<1>9. t \notin D => NoneOf(LinesFor(e), AboutTrack(t))
  BY <1>1, <1>5, <1>6, LineOfOne
<1>10. t \notin D => NoneOf(LinesFor(f), AboutTrack(t))
  BY <1>1, <1>5, <1>6, LineOfOne
<1>11. t \notin D => NoneOf(LinesFor(f), Stability(t))
  BY <1>1, <1>5, <1>6, LineOfOne
<1>12. t \in D /\ f[t] \in G => LastIs(LinesFor(f), Stability(t), G)
  BY <1>1, <1>5, <1>6, LineOfOne
<1>13. QED
  BY <1>3, <1>7, <1>8, <1>9, <1>10, <1>11, <1>12 DEF e, f

\* The same, with one status for all.
LEMMA GroupOfStatus ==
  ASSUME now' \in Nat, NEW D \in SUBSET Tracks, NEW event \in Events,
         NEW status \in Statuses, NEW t, NEW G
  PROVE  LET E == LinesFor([d \in D |-> TrackEvent(event, d, status)])
             F == LinesFor([d \in D |-> StabilityEvent(event, d, status)])
         IN  /\ E \in Seq(Reported) /\ F \in Seq(Reported)
             /\ NoneOf(E, Stability(t))
             /\ t \notin D => NoneOf(E, AboutTrack(t)) /\ NoneOf(F, AboutTrack(t))
             /\ t \notin D => NoneOf(F, Stability(t))
             /\ t \in D /\ StabilityEvent(event, t, status) \in G
                  => LastIs(F, Stability(t), G)
<1> DEFINE st == [d \in D |-> status]
           e == [d \in D |-> TrackEvent(event, d, status)]
           f == [d \in D |-> StabilityEvent(event, d, status)]
<1>1. \A d \in D : st[d] = status
  OBVIOUS
<1> HIDE DEF st
<1>2. /\ [d \in D |-> TrackEvent(event, d, st[d])] = e
      /\ [d \in D |-> StabilityEvent(event, d, st[d])] = f
  BY <1>1
<1>3. t \in D => StabilityEvent(event, t, st[t]) = StabilityEvent(event, t, status)
  BY <1>1
<1> HIDE DEF e, f
<1>4. \A d \in D : st[d] \in Statuses
  BY <1>1
<1>5. /\ LinesFor(e) \in Seq(Reported) /\ LinesFor(f) \in Seq(Reported)
      /\ NoneOf(LinesFor(e), Stability(t))
      /\ t \notin D => NoneOf(LinesFor(e), AboutTrack(t)) /\ NoneOf(LinesFor(f), AboutTrack(t))
      /\ t \notin D => NoneOf(LinesFor(f), Stability(t))
      /\ t \in D /\ StabilityEvent(event, t, st[t]) \in G
           => LastIs(LinesFor(f), Stability(t), G)
  BY <1>2, <1>4, TrackGroup
<1>6. QED
  BY <1>3, <1>5 DEF e, f

\* Eight groups, one after the other.
LEMMA EightGroups ==
  ASSUME NEW S, NEW A1 \in Seq(S), NEW A2 \in Seq(S), NEW A3 \in Seq(S),
         NEW A4 \in Seq(S), NEW A5 \in Seq(S), NEW A6 \in Seq(S), NEW A7 \in Seq(S),
         NEW A8 \in Seq(S), NEW K, NEW G
  PROVE  LET L == A1 \o A2 \o A3 \o A4 \o A5 \o A6 \o A7 \o A8
         IN  /\ L \in Seq(S)
             /\ LastIs(A8, K, G) => LastIs(L, K, G)
             /\ NoneOf(A8, K) =>
                /\ LastIs(A7, K, G) => LastIs(L, K, G)
                /\ NoneOf(A7, K) /\ NoneOf(A6, K) =>
                   /\ LastIs(A5, K, G) => LastIs(L, K, G)
                   /\ NoneOf(A5, K) /\ NoneOf(A4, K) =>
                      /\ LastIs(A3, K, G) => LastIs(L, K, G)
                      /\ NoneOf(A3, K) =>
                         /\ LastIs(A2, K, G) => LastIs(L, K, G)
                         /\ NoneOf(A2, K) /\ NoneOf(A1, K) => NoneOf(L, K)
<1> DEFINE P2 == A1 \o A2
           P3 == P2 \o A3
           P4 == P3 \o A4
           P5 == P4 \o A5
           P6 == P5 \o A6
           P7 == P6 \o A7
           P8 == P7 \o A8
<1>1. /\ P2 \in Seq(S) /\ P3 \in Seq(S) /\ P4 \in Seq(S) /\ P5 \in Seq(S)
      /\ P6 \in Seq(S) /\ P7 \in Seq(S) /\ P8 \in Seq(S)
  OBVIOUS
<1> HIDE DEF P2, P3, P4, P5, P6, P7, P8
<1>2. /\ LastIs(A2, K, G) => LastIs(P2, K, G)
      /\ NoneOf(A1, K) /\ NoneOf(A2, K) => NoneOf(P2, K)
  BY LastOfBoth DEF P2
<1>3. /\ LastIs(A3, K, G) => LastIs(P3, K, G)
      /\ LastIs(P2, K, G) /\ NoneOf(A3, K) => LastIs(P3, K, G)
      /\ NoneOf(P2, K) /\ NoneOf(A3, K) => NoneOf(P3, K)
  BY <1>1, LastOfBoth DEF P3
<1>4. /\ LastIs(P3, K, G) /\ NoneOf(A4, K) => LastIs(P4, K, G)
      /\ NoneOf(P3, K) /\ NoneOf(A4, K) => NoneOf(P4, K)
  BY <1>1, LastOfBoth DEF P4
<1>5. /\ LastIs(A5, K, G) => LastIs(P5, K, G)
      /\ LastIs(P4, K, G) /\ NoneOf(A5, K) => LastIs(P5, K, G)
      /\ NoneOf(P4, K) /\ NoneOf(A5, K) => NoneOf(P5, K)
  BY <1>1, LastOfBoth DEF P5
<1>6. /\ LastIs(P5, K, G) /\ NoneOf(A6, K) => LastIs(P6, K, G)
      /\ NoneOf(P5, K) /\ NoneOf(A6, K) => NoneOf(P6, K)
  BY <1>1, LastOfBoth DEF P6
<1>7. /\ LastIs(A7, K, G) => LastIs(P7, K, G)
      /\ LastIs(P6, K, G) /\ NoneOf(A7, K) => LastIs(P7, K, G)
      /\ NoneOf(P6, K) /\ NoneOf(A7, K) => NoneOf(P7, K)
  BY <1>1, LastOfBoth DEF P7
<1>8. /\ LastIs(A8, K, G) => LastIs(P8, K, G)
      /\ LastIs(P7, K, G) /\ NoneOf(A8, K) => LastIs(P8, K, G)
      /\ NoneOf(P7, K) /\ NoneOf(A8, K) => NoneOf(P8, K)
  BY <1>1, LastOfBoth DEF P8
<1>9. P8 = A1 \o A2 \o A3 \o A4 \o A5 \o A6 \o A7 \o A8
  BY DEF P2, P3, P4, P5, P6, P7, P8
<1>10. QED
  BY <1>1, <1>2, <1>3, <1>4, <1>5, <1>6, <1>7, <1>8, <1>9

\* What a report says of a track: nothing of one that is not born, and last of all
\* its new status, or that it coasts, of one whose status changed or that was missed.
LEMMA TrackLinesAre ==
  ASSUME now' \in Nat, stage \in [Tracks -> Stage], stage' \in [Tracks -> Stage],
         \A u \in Tracks : stage'[u] \in NextStage(stage[u]),
         NEW C \in SUBSET LiveBefore, Deleted \subseteq C, C \cap NewlyConfirmed = {},
         NEW U \in SUBSET (LiveBefore \cup Created), NEW B \in SUBSET Created, NEW t
  PROVE  LET L == TrackLines(U, C, B)
             told == Created \cup NewlyConfirmed \cup C
         IN  /\ L \in Seq(Reported)
             /\ t \in Tracks /\ stage'[t] = "unborn" => NoneOf(L, AboutTrack(t))
             /\ t \in told => LastIs(L, Stability(t), Shown(stage'[t]))
             /\ t \notin told => NoneOf(L, Stability(t))
             /\ t \in C /\ stage'[t] # "gone" => LastIs(L, Stability(t), Coasting)
<1> DEFINE K == Stability(t)
           G == Shown(stage'[t])
           told == Created \cup NewlyConfirmed \cup C
           A1 == LinesFor([u \in Created |-> TrackEvent("track_created", u, "tentative")])
           A2 == LinesFor([u \in Created |-> StabilityEvent("track_created", u, "tentative")])
           A3 == LinesFor([u \in NewlyConfirmed |->
                             StabilityEvent("track_confirmed", u, "confirmed")])
           A4 == LinesFor([u \in U |-> TrackEvent("track_updated", u, StatusBefore(u))])
           A5 == LinesFor([u \in C |-> StabilityEvent("track_coasted", u, stage[u])])
           A6 == LinesFor([u \in Deleted |-> TrackEvent("track_deleted", u, "deleted")])
           A7 == LinesFor([u \in Deleted |-> StabilityEvent("track_deleted", u, "deleted")])
           A8 == LinesFor([u \in B |->
                   StabilityEvent("track_reacquisition_candidate", u, "tentative")])
<1>1. /\ Created \in SUBSET Tracks /\ NewlyConfirmed \in SUBSET Tracks
      /\ LiveBefore \in SUBSET Tracks /\ C \in SUBSET Tracks /\ U \in SUBSET Tracks
      /\ Deleted \in SUBSET Tracks /\ B \in SUBSET Tracks
  BY DEF Created, NewlyConfirmed, LiveBefore, Deleted
<1>2. TrackLines(U, C, B) = A1 \o A2 \o A3 \o A4 \o A5 \o A6 \o A7 \o A8
  BY DEF TrackLines
<1>3. /\ \A u \in LiveBefore : stage[u] \in Statuses
      /\ "tentative" \in Statuses /\ "confirmed" \in Statuses /\ "deleted" \in Statuses
      /\ {"track_created", "track_confirmed", "track_updated", "track_coasted",
          "track_deleted", "track_reacquisition_candidate"} \subseteq Events
  BY <1>1 DEF Stage, Statuses, Events
<1>4. /\ A1 \in Seq(Reported) /\ NoneOf(A1, K)
      /\ t \notin Created => NoneOf(A1, AboutTrack(t))
  BY <1>1, <1>3, GroupOfStatus DEF A1, K
<1>5. /\ A2 \in Seq(Reported)
      /\ t \notin Created => NoneOf(A2, AboutTrack(t)) /\ NoneOf(A2, K)
      /\ t \in Created /\ StabilityEvent("track_created", t, "tentative") \in G
           => LastIs(A2, K, G)
  <2>1. Created \in SUBSET Tracks /\ "track_created" \in Events /\ "tentative" \in Statuses
    BY <1>1, <1>3
  <2>2. QED
    BY <2>1, GroupOfStatus DEF A2, K
<1>6. /\ A3 \in Seq(Reported)
      /\ t \notin NewlyConfirmed => NoneOf(A3, AboutTrack(t)) /\ NoneOf(A3, K)
      /\ t \in NewlyConfirmed /\ StabilityEvent("track_confirmed", t, "confirmed") \in G
           => LastIs(A3, K, G)
  <2>1. /\ NewlyConfirmed \in SUBSET Tracks
        /\ "track_confirmed" \in Events /\ "confirmed" \in Statuses
    BY <1>1, <1>3
  <2>2. QED
    BY <2>1, GroupOfStatus DEF A3, K
<1>7. /\ A4 \in Seq(Reported) /\ NoneOf(A4, K)
      /\ t \notin U => NoneOf(A4, AboutTrack(t))
  <2> DEFINE was == [u \in U |-> StatusBefore(u)]
  <2>1. \A u \in U : was[u] \in Statuses
    BY <1>3 DEF StatusBefore
  <2>2. A4 = LinesFor([u \in U |-> TrackEvent("track_updated", u, was[u])])
    <3>1. [u \in U |-> TrackEvent("track_updated", u, StatusBefore(u))]
            = [u \in U |-> TrackEvent("track_updated", u, was[u])]
      OBVIOUS
    <3>2. QED
      BY <3>1 DEF A4
  <2> HIDE DEF was
  <2>3. QED
    BY <1>1, <1>3, <2>1, <2>2, TrackGroup DEF K
<1>8. /\ A5 \in Seq(Reported)
      /\ t \notin C => NoneOf(A5, AboutTrack(t)) /\ NoneOf(A5, K)
      /\ t \in C /\ StabilityEvent("track_coasted", t, stage[t]) \in G => LastIs(A5, K, G)
      /\ t \in C /\ StabilityEvent("track_coasted", t, stage[t]) \in Coasting
           => LastIs(A5, K, Coasting)
  <2>1. \A u \in C : stage[u] \in Statuses
    BY <1>3
  <2>2. QED
    BY <1>1, <1>3, <2>1, TrackGroup DEF A5, K
<1>9. /\ A6 \in Seq(Reported) /\ NoneOf(A6, K)
      /\ t \notin Deleted => NoneOf(A6, AboutTrack(t))
  BY <1>1, <1>3, GroupOfStatus DEF A6, K
<1>10. /\ A7 \in Seq(Reported)
       /\ t \notin Deleted => NoneOf(A7, AboutTrack(t)) /\ NoneOf(A7, K)
       /\ t \in Deleted /\ StabilityEvent("track_deleted", t, "deleted") \in G
            => LastIs(A7, K, G)
  <2>1. Deleted \in SUBSET Tracks /\ "track_deleted" \in Events /\ "deleted" \in Statuses
    BY <1>1, <1>3
  <2>2. QED
    BY <2>1, GroupOfStatus DEF A7, K
<1>11. /\ A8 \in Seq(Reported)
       /\ t \notin B => NoneOf(A8, AboutTrack(t)) /\ NoneOf(A8, K)
       /\ t \in B /\ StabilityEvent("track_reacquisition_candidate", t, "tentative") \in G
            => LastIs(A8, K, G)
  <2>1. "track_reacquisition_candidate" \in Events /\ "tentative" \in Statuses
    BY <1>3
  <2>2. QED
    BY <1>1, <2>1, GroupOfStatus DEF A8, K
<1>12. /\ t \in Created => /\ stage[t] = "unborn" /\ t \notin LiveBefore
                          /\ t \notin C /\ t \notin Deleted
                          /\ stage'[t] \in {"tentative", "confirmed"}
       /\ t \in Created /\ t \notin NewlyConfirmed => stage'[t] = "tentative"
       /\ t \in NewlyConfirmed => stage'[t] = "confirmed" /\ t \notin C /\ t \notin Deleted
       /\ t \in Deleted => stage'[t] = "gone" /\ t \in C
       /\ t \in C /\ t \notin Deleted => stage'[t] = stage[t] /\ stage'[t] # "gone"
       /\ t \in LiveBefore \/ t \in U => stage'[t] # "unborn"
       /\ t \in B => t \in Created
  <2>1. t \in Tracks => stage[t] \in Stage /\ stage'[t] \in NextStage(stage[t])
    OBVIOUS
  <2>2. QED
    BY <2>1 DEF Created, LiveBefore, NewlyConfirmed, Deleted, Stage, NextStage
<1>13. /\ t \in B => StabilityEvent("track_reacquisition_candidate", t, "tentative") \in G
       /\ t \in Deleted => StabilityEvent("track_deleted", t, "deleted") \in G
       /\ t \in C /\ t \notin Deleted => StabilityEvent("track_coasted", t, stage[t]) \in G
       /\ t \in C => StabilityEvent("track_coasted", t, stage[t]) \in Coasting
       /\ t \in NewlyConfirmed => StabilityEvent("track_confirmed", t, "confirmed") \in G
       /\ t \in Created /\ t \notin NewlyConfirmed
            => StabilityEvent("track_created", t, "tentative") \in G
  <2>1. t \in LiveBefore => stage[t] \in Statuses
    BY <1>3
  <2>2. QED
    BY <1>1, <1>3, <1>12, <2>1, TrackLine DEF Shown, Coasting, G
<1> HIDE DEF A1, A2, A3, A4, A5, A6, A7, A8, K, G
<1>14. /\ A1 \in Seq(Reported) /\ A2 \in Seq(Reported) /\ A3 \in Seq(Reported)
      /\ A4 \in Seq(Reported) /\ A5 \in Seq(Reported) /\ A6 \in Seq(Reported)
      /\ A7 \in Seq(Reported) /\ A8 \in Seq(Reported)
  BY <1>4, <1>5, <1>6, <1>7, <1>8, <1>9, <1>10, <1>11
<1> DEFINE L == A1 \o A2 \o A3 \o A4 \o A5 \o A6 \o A7 \o A8
<1>15. /\ L \in Seq(Reported)
       /\ LastIs(A8, K, G) => LastIs(L, K, G)
       /\ NoneOf(A8, K) =>
          /\ LastIs(A7, K, G) => LastIs(L, K, G)
          /\ NoneOf(A7, K) /\ NoneOf(A6, K) =>
             /\ LastIs(A5, K, G) => LastIs(L, K, G)
             /\ NoneOf(A5, K) /\ NoneOf(A4, K) =>
                /\ LastIs(A3, K, G) => LastIs(L, K, G)
                /\ NoneOf(A3, K) =>
                   /\ LastIs(A2, K, G) => LastIs(L, K, G)
                   /\ NoneOf(A2, K) /\ NoneOf(A1, K) => NoneOf(L, K)
  BY <1>14, EightGroups, ZenonT(30)
<1>16. NoneOf(A8, K) /\ NoneOf(A7, K) /\ NoneOf(A6, K) /\ LastIs(A5, K, Coasting)
         => LastIs(L, K, Coasting)
  BY <1>14, EightGroups, ZenonT(30)
<1>17. t \in Tracks /\ stage'[t] = "unborn" => NoneOf(L, AboutTrack(t))
  <2> DEFINE M == AboutTrack(t)
  <2>1. t \in Tracks /\ stage'[t] = "unborn" =>
          /\ NoneOf(A1, M) /\ NoneOf(A2, M) /\ NoneOf(A3, M) /\ NoneOf(A4, M)
          /\ NoneOf(A5, M) /\ NoneOf(A6, M) /\ NoneOf(A7, M) /\ NoneOf(A8, M)
    BY <1>4, <1>5, <1>6, <1>7, <1>8, <1>9, <1>10, <1>11, <1>12
  <2> HIDE DEF M
  <2>2. QED
    BY <1>14, <2>1, EightGroups, ZenonT(30) DEF M
<1> HIDE DEF L
<1>18. t \in told => LastIs(L, K, G)
  BY <1>4, <1>5, <1>6, <1>7, <1>8, <1>9, <1>10, <1>11, <1>12, <1>13, <1>15
<1>19. t \notin told => NoneOf(L, K)
  BY <1>4, <1>5, <1>6, <1>7, <1>8, <1>9, <1>10, <1>11, <1>12, <1>15
<1>20. t \in C /\ stage'[t] # "gone" => LastIs(L, K, Coasting)
  BY <1>4, <1>5, <1>6, <1>7, <1>8, <1>9, <1>10, <1>11, <1>12, <1>13, <1>16
<1>21. QED
  BY <1>2, <1>15, <1>17, <1>18, <1>19, <1>20 DEF L, K, G

-----------------------------------------------------------------------------
(***************************************************************************)
(* The invariant of a log.  A log that a crash has cut off is not written  *)
(* any more.                                                               *)
(***************************************************************************)
\* A line with the track t that no hit of the log s on t comes after.
UnhitSince(s, t) ==
  {line \in LogLine :
     /\ line.track_id = t
     /\ \A n \in DOMAIN s : s[n] \in Hits /\ s[n].track_id = t => s[n].t_s < line.t_s}

LinesOn(t) == {line \in LogLine : line.track_id = t}

FlightsLogged ==
  \A i \in Interceptors :
    Engaged(i) => LastIs(log, AssignmentOf(i), UnhitSince(log, target[i]))

HitsAreOver ==
  phase # "observe" => \A n \in DOMAIN log : log[n] \in Hits => log[n].t_s < now

\* The state of who flies is true; that of who has hit shows the track it hit, at
\* which it was sent last.
StateAtEnd(i) ==
  {line \in LogLine :
     /\ Engaged(i) => line.engaged = TRUE /\ line.track_id = target[i]
     /\ line.engaged = TRUE /\ ~Engaged(i) =>
          /\ LastIs(log, AssignmentOf(i), LinesOn(line.track_id))
          /\ \E n \in DOMAIN log :
               log[n] \in Hits /\ log[n].track_id = line.track_id /\ log[n].t_s = now}

StatesLogged ==
  PassIsLogged => \A i \in Interceptors : LastIs(log, StateOf(i), StateAtEnd(i))

HitsAtEnd ==
  PassIsLogged =>
    \A m, n \in DOMAIN log :
      log[n] \in Hits /\ log[n].t_s = now /\ m > n => log[m] \in Hits

TargetsDiffer ==
  \A i, j \in Interceptors : Engaged(i) /\ target[i] = target[j] => i = j

LogTypeOK ==
  /\ stage \in [Tracks -> Stage]
  /\ target \in [Interceptors -> Tracks \cup {NoTrack}]
  /\ now \in Nat
  /\ log \in Seq(LogLine)

LogInv ==
  phase # "crashed" =>
    /\ LogTypeOK /\ TargetsDiffer
    /\ InPassOrder(log, now) /\ HitsAreOver /\ HitsAtEnd
    /\ TracksLogged /\ FlightsLogged /\ StatesLogged

LEMMA LogStartsWell == LogInit => LogInv
<1> SUFFICES ASSUME LogInit PROVE LogInv
  OBVIOUS
<1>1. /\ stage = [t \in Tracks |-> "unborn"] /\ target = [i \in Interceptors |-> NoTrack]
      /\ phase = "observe" /\ now = 0 /\ log = <<>> /\ missed = {}
  BY DEF LogInit, FlightsInit, LifecycleInit
<1>2. LogTypeOK /\ TargetsDiffer
  BY <1>1 DEF LogTypeOK, TargetsDiffer, Stage, Engaged
<1>3. DOMAIN log = {}
  BY <1>1
<1>4. InPassOrder(log, now) /\ HitsAreOver
  BY <1>3 DEF InPassOrder, HitsAreOver
<1>5. HitsAtEnd /\ StatesLogged
  BY <1>1 DEF HitsAtEnd, StatesLogged, PassIsLogged
<1>6. TracksLogged
  BY <1>1, <1>3 DEF TracksLogged, NoneOf
<1>7. FlightsLogged
  BY <1>1 DEF FlightsLogged, Engaged
<1>8. QED
  BY <1>2, <1>4, <1>5, <1>6, <1>7 DEF LogInv

-----------------------------------------------------------------------------
(***************************************************************************)
(* What is added to a log.                                                 *)
(***************************************************************************)
\* Lines of one pass, of some types.
PassLines(types, n) == {line \in LogLine : line.type \in types /\ PassOf(line) = n}

LEMMA PassLinesAre ==
  ASSUME NEW types, NEW m, NEW T \in Seq(PassLines(types, m))
  PROVE  /\ T \in Seq(LogLine)
         /\ \A k \in DOMAIN T :
              T[k] \in LogLine /\ T[k].type \in types /\ PassOf(T[k]) = m
<1>1. \A line \in PassLines(types, m) :
        line \in LogLine /\ line.type \in types /\ PassOf(line) = m
  BY DEF PassLines
<1>2. T \in Seq(LogLine)
  BY <1>1, SeqMonotonic
<1>3. \A k \in DOMAIN T : T[k] \in PassLines(types, m)
  OBVIOUS
<1>4. QED
  BY <1>1, <1>2, <1>3

\* The passes go on in their order.
LEMMA OrderGoesOn ==
  ASSUME NEW s \in Seq(LogLine), NEW n \in Nat, NEW m \in Nat, n <= m, InPassOrder(s, n),
         NEW types, NEW T \in Seq(PassLines(types, m))
  PROVE  s \o T \in Seq(LogLine) /\ InPassOrder(s \o T, m)
<1> DEFINE r == s \o T
<1>1. /\ T \in Seq(LogLine)
      /\ \A k \in DOMAIN T : T[k] \in LogLine /\ PassOf(T[k]) = m
  BY PassLinesAre
<1>2. /\ r \in Seq(LogLine)
      /\ Len(s) \in Nat /\ DOMAIN s = 1..Len(s) /\ DOMAIN T \subseteq Nat \ {0}
      /\ \A k \in DOMAIN s : k \in DOMAIN r /\ r[k] = s[k]
      /\ \A k \in DOMAIN T : Len(s) + k \in DOMAIN r /\ r[Len(s) + k] = T[k]
      /\ \A k \in DOMAIN r : k \in DOMAIN s \/ \E l \in DOMAIN T : k = Len(s) + l
  BY <1>1, BothParts
<1> HIDE DEF r
<1>3. /\ \A k \in DOMAIN s : PassOf(s[k]) \in Nat /\ PassOf(s[k]) <= n
      /\ \A j, k \in DOMAIN s : j < k => PassOf(s[j]) <= PassOf(s[k])
  <2>1. \A line \in LogLine : PassOf(line) \in Nat
    BY DEF PassOf, LogLine
  <2>2. QED
    BY <2>1 DEF InPassOrder
<1>4. \A k \in DOMAIN r : PassOf(r[k]) <= m
  BY <1>1, <1>2, <1>3
<1>5. ASSUME NEW j \in DOMAIN r, NEW k \in DOMAIN r, j < k
      PROVE  PassOf(r[j]) <= PassOf(r[k])
  <2>1. CASE k \in DOMAIN s
    <3>1. j \in DOMAIN s
      BY <1>2, <1>5, <2>1
    <3>2. QED
      BY <1>2, <1>3, <1>5, <2>1, <3>1
  <2>2. CASE k \notin DOMAIN s
    <3>1. PassOf(r[k]) = m
      BY <1>1, <1>2, <2>2
    <3>2. QED
      BY <1>4, <3>1
  <2>3. QED
    BY <2>1, <2>2
<1>6. QED
  BY <1>2, <1>4, <1>5 DEF r, InPassOrder

\* The hits there are, when the lines added are no hits.
LEMMA NoHitsAdded ==
  ASSUME NEW s \in Seq(LogLine), NEW T \in Seq(LogLine), NoneOf(T, Hits)
  PROVE  \A n \in DOMAIN (s \o T) :
           (s \o T)[n] \in Hits => n \in DOMAIN s /\ s[n] = (s \o T)[n]
BY BothParts DEF NoneOf

\* An interceptor that flies on is as it was in the log, when lines are added that
\* are neither its assignments nor hits of its track.
LEMMA StillLogged ==
  ASSUME NEW i \in Interceptors, NEW x, NEW s \in Seq(LogLine), NEW T \in Seq(LogLine),
         LastIs(s, AssignmentOf(i), UnhitSince(s, x)), NoneOf(T, AssignmentOf(i)),
         \A n \in DOMAIN T : ~(T[n] \in Hits /\ T[n].track_id = x)
  PROVE  LastIs(s \o T, AssignmentOf(i), UnhitSince(s \o T, x))
<1> DEFINE r == s \o T
<1>1. LastIs(r, AssignmentOf(i), UnhitSince(s, x))
  BY LastOfBoth
<1>2. \A n \in DOMAIN r : r[n] \in Hits /\ r[n].track_id = x => n \in DOMAIN s /\ s[n] = r[n]
  BY BothParts
<1> HIDE DEF r
<1>3. \A line \in UnhitSince(s, x) : line \in UnhitSince(r, x)
  BY <1>2 DEF UnhitSince
<1>4. QED
  BY <1>1, <1>3, LastIsMore DEF r

-----------------------------------------------------------------------------
(***************************************************************************)
(* The parts of a pass.  What they write comes after what there is, and is *)
(* of the pass.                                                            *)
(***************************************************************************)
LogGrows ==
  \E T \in Seq(LogLine) : log' = log \o T /\ \A n \in DOMAIN T : PassOf(T[n]) >= now'

LEMMA ReportIsLogged == LogInv /\ LogReport => LogInv' /\ LogGrows
<1> SUFFICES ASSUME LogInv, LogReport PROVE LogInv' /\ LogGrows
  OBVIOUS
<1>1. /\ phase = "observe" /\ phase' = "command" /\ target' = target /\ now' = now + 1
      /\ stage' \in [Tracks -> Stage]
      /\ \A u \in Tracks : stage'[u] \in NextStage(stage[u])
  BY DEF LogReport, Report, Passes, LifecycleNext
<1>2. /\ LogTypeOK /\ TargetsDiffer /\ InPassOrder(log, now)
      /\ TracksLogged /\ FlightsLogged
  BY <1>1 DEF LogInv
<1>3. /\ stage \in [Tracks -> Stage] /\ now \in Nat /\ now' \in Nat /\ now <= now'
      /\ log \in Seq(LogLine)
  BY <1>1, <1>2 DEF LogTypeOK
<1>4. PICK E \in SUBSET (missed' \cup Created), B \in SUBSET Created :
        log' = Append(log, Measurement) \o TrackLines((LiveBefore \ missed') \cup E, missed', B)
  BY DEF LogReport
<1> DEFINE C == missed'
           U == (LiveBefore \ missed') \cup E
           L == TrackLines(U, C, B)
           T == <<Measurement>> \o L
           types == TrackTypes \cup {"measurement"}
<1>5. /\ C \in SUBSET LiveBefore /\ Deleted \subseteq C /\ C \cap NewlyConfirmed = {}
      /\ U \in SUBSET (LiveBefore \cup Created)
  BY <1>4 DEF LogReport
<1>6. /\ Measurement \in LogLine /\ Measurement.type = "measurement"
      /\ PassOf(Measurement) = now'
  BY <1>1, <1>3 DEF Measurement, Blank, LogLine, TypesOfLines, TrackTypes, Events, Statuses, PassOf
<1> HIDE DEF C, U
<1>7. /\ L \in Seq(Reported)
      /\ \A t \in Tracks :
           LET told == Created \cup NewlyConfirmed \cup C
           IN  /\ stage'[t] = "unborn" => NoneOf(L, AboutTrack(t))
               /\ t \in told => LastIs(L, Stability(t), Shown(stage'[t]))
               /\ t \notin told => NoneOf(L, Stability(t))
               /\ t \in C /\ stage'[t] # "gone" => LastIs(L, Stability(t), Coasting)
  BY <1>1, <1>3, <1>5, TrackLinesAre
<1> HIDE DEF L
<1>8. /\ L \in Seq(LogLine) /\ <<Measurement>> \in Seq(LogLine)
      /\ log' = log \o T /\ T \in Seq(LogLine)
  <2>1. Reported \subseteq LogLine
    BY DEF Reported
  <2>2. L \in Seq(LogLine)
    BY <1>7, <2>1, SeqMonotonic
  <2>3. Append(log, Measurement) = log \o <<Measurement>> /\ <<Measurement>> \in Seq(LogLine)
    BY <1>3, <1>6, OneMore
  <2>4. (log \o <<Measurement>>) \o L = log \o (<<Measurement>> \o L)
    BY <1>3, <2>2, <2>3, ConcatAssociative
  <2>5. QED
    BY <1>4, <2>2, <2>3, <2>4, ConcatProperties DEF C, U, L
<1>9. T \in Seq(PassLines(types, now'))
  <2>1. Reported \subseteq PassLines(types, now')
    BY DEF Reported, PassLines, PassOf, TrackTypes
  <2>2. L \in Seq(PassLines(types, now'))
    BY <1>7, <2>1, SeqMonotonic
  <2>3. Measurement \in PassLines(types, now')
    BY <1>6 DEF PassLines
  <2>4. QED
    BY <2>2, <2>3
<1>10. InPassOrder(log', now') /\ log' \in Seq(LogLine)
  BY <1>2, <1>3, <1>8, <1>9, OrderGoesOn
<1> HIDE DEF T
<1>11. NoneOf(T, Hits) /\ \A i \in Interceptors : NoneOf(T, AssignmentOf(i))
  <2>1. \A k \in DOMAIN T : T[k].type \in types
    BY <1>9, PassLinesAre
  <2>2. "intercept_event" \notin types /\ "assignment_event" \notin types
    BY DEF TrackTypes
  <2>3. QED
    BY <2>1, <2>2 DEF NoneOf, Hits, AssignmentOf
<1>12. \A K : Measurement \notin K => NoneOf(<<Measurement>>, K)
  BY <1>6, OneMore DEF NoneOf
<1>13. TracksLogged'
  <2> SUFFICES ASSUME NEW t \in Tracks
               PROVE  /\ stage'[t] = "unborn" => NoneOf(log', AboutTrack(t))
                      /\ stage'[t] # "unborn" => LastIs(log', Stability(t), Shown(stage'[t]))
                      /\ t \in C \cap Live' => LastIs(log', Stability(t), Coasting)
    BY DEF TracksLogged, C
  <2> DEFINE told == Created \cup NewlyConfirmed \cup C
  <2>1. NoneOf(<<Measurement>>, AboutTrack(t)) /\ NoneOf(<<Measurement>>, Stability(t))
    BY <1>6, <1>12 DEF AboutTrack, Stability, TrackTypes
  <2>2. /\ stage'[t] = "unborn" => NoneOf(T, AboutTrack(t))
        /\ t \in told => LastIs(T, Stability(t), Shown(stage'[t]))
        /\ t \notin told => NoneOf(T, Stability(t))
        /\ t \in C /\ stage'[t] # "gone" => LastIs(T, Stability(t), Coasting)
    BY <1>7, <1>8, <2>1, LastOfBoth DEF T
  <2>3. /\ stage'[t] = "unborn" => stage[t] = "unborn"
        /\ t \notin told => stage'[t] = stage[t]
    <3>1. stage[t] \in Stage /\ stage'[t] \in NextStage(stage[t])
      BY <1>1, <1>3
    <3>2. QED
      BY <1>5, <3>1 DEF Created, NewlyConfirmed, Deleted, Stage, NextStage
  <2>4. /\ stage[t] = "unborn" => NoneOf(log, AboutTrack(t))
        /\ stage[t] # "unborn" => LastIs(log, Stability(t), Shown(stage[t]))
    BY <1>2 DEF TracksLogged
  <2>5. stage'[t] = "unborn" => NoneOf(log', AboutTrack(t))
    BY <1>3, <1>8, <2>2, <2>3, <2>4, LastOfBoth
  <2>6. t \in told => LastIs(log', Stability(t), Shown(stage'[t]))
    BY <1>3, <1>8, <2>2, LastOfBoth
  <2>7. t \notin told /\ stage'[t] # "unborn" => LastIs(log', Stability(t), Shown(stage'[t]))
    BY <1>3, <1>8, <2>2, <2>3, <2>4, LastOfBoth
  <2>8. t \in C \cap Live' => stage'[t] # "gone"
    BY DEF Live
  <2>9. t \in C \cap Live' => LastIs(log', Stability(t), Coasting)
    BY <1>3, <1>8, <2>2, <2>8, LastOfBoth
  <2>10. QED
    BY <2>5, <2>6, <2>7, <2>9
<1>14. FlightsLogged'
  <2> SUFFICES ASSUME NEW i \in Interceptors, target'[i] # NoTrack
               PROVE  LastIs(log', AssignmentOf(i), UnhitSince(log', target'[i]))
    BY DEF FlightsLogged, Engaged
  <2>1. LastIs(log, AssignmentOf(i), UnhitSince(log, target[i]))
    BY <1>1, <1>2 DEF FlightsLogged, Engaged
  <2>2. \A n \in DOMAIN T : ~(T[n] \in Hits /\ T[n].track_id = target[i])
    BY <1>11 DEF NoneOf
  <2>3. QED
    BY <1>1, <1>3, <1>8, <1>11, <2>1, <2>2, StillLogged
<1>15. HitsAreOver'
  <2> SUFFICES ASSUME NEW n \in DOMAIN log', log'[n] \in Hits PROVE log'[n].t_s < now'
    BY DEF HitsAreOver
  <2>1. n \in DOMAIN log /\ log[n] = log'[n]
    BY <1>3, <1>8, <1>11, NoHitsAdded
  <2>2. PassOf(log[n]) <= now /\ log[n].type = "intercept_event" /\ log[n].t_s \in Nat
    BY <1>2, <2>1 DEF InPassOrder, Hits, LogLine
  <2>3. QED
    BY <1>1, <1>3, <2>1, <2>2 DEF PassOf
<1>16. HitsAtEnd' /\ StatesLogged'
  BY <1>1 DEF HitsAtEnd, StatesLogged, PassIsLogged
<1>17. LogTypeOK' /\ TargetsDiffer'
  BY <1>1, <1>2, <1>3, <1>10 DEF LogTypeOK, TargetsDiffer, Engaged
<1>18. LogGrows
  BY <1>1, <1>3, <1>8, <1>9, PassLinesAre, SMTT(30) DEF LogGrows
<1>19. QED
  BY <1>10, <1>13, <1>14, <1>15, <1>16, <1>17, <1>18 DEF LogInv

LEMMA ThreeParts ==
  ASSUME NEW s \in Seq(LogLine), NEW a \in Seq(LogLine), NEW b \in Seq(LogLine),
         NEW c \in Seq(LogLine)
  PROVE  ((s \o a) \o b) \o c = s \o ((a \o b) \o c)
<1>1. a \o b \in Seq(LogLine) /\ (s \o a) \o b = s \o (a \o b)
  BY ConcatAssociative, ConcatProperties, SMTT(30)
<1>2. ASSUME NEW t \in Seq(LogLine) PROVE (s \o t) \o c = s \o (t \o c)
  BY ConcatAssociative, SMTT(30)
<1>3. QED
  BY <1>1, <1>2

LEMMA OrderIsLogged == LogInv /\ LogOrder => LogInv' /\ LogGrows
<1> SUFFICES ASSUME LogInv, LogOrder PROVE LogInv' /\ LogGrows
  OBVIOUS
<1>1. /\ phase = "command" /\ phase' = "fly" /\ stage' = stage
      /\ now' = now /\ missed' = missed
      /\ target' \in [Interceptors -> Tracks \cup {NoTrack}]
      /\ \A i \in Ordered : target'[i] # NoTrack /\ Orderable(target'[i])
      /\ \A i, j \in Ordered : target'[i] = target'[j] => i = j
  BY DEF LogOrder, Order, Passes
<1>2. /\ LogTypeOK /\ TargetsDiffer /\ InPassOrder(log, now) /\ HitsAreOver
      /\ TracksLogged /\ FlightsLogged
  BY <1>1 DEF LogInv
<1>3. /\ stage \in [Tracks -> Stage] /\ now \in Nat /\ log \in Seq(LogLine)
      /\ target \in [Interceptors -> Tracks \cup {NoTrack}]
  BY <1>2 DEF LogTypeOK
<1>4. PICK denied \in {{}} \cup {{t} : t \in {u \in Tracks : Orderable(u)}} :
        log' = Append(log, BtDecision)
                 \o LinesFor([t \in denied |-> DenialEvent(t)])
                 \o LinesFor([i \in Ordered |-> AssignmentEvent(i)])
  BY DEF LogOrder
<1>5. /\ denied \in SUBSET Tracks /\ IsFiniteSet(denied)
      /\ Ordered \in SUBSET Interceptors /\ IsFiniteSet(Ordered)
  <2>1. denied \in SUBSET Tracks
    OBVIOUS
  <2>2. Ordered \in SUBSET Interceptors
    BY DEF Ordered
  <2>3. QED
    BY <2>1, <2>2, ReplayLogAssumption, FS_Subset
<1> DEFINE types == {"bt_decision", "assignment_event"}
           P == PassLines(types, now)
           d == [t \in denied |-> DenialEvent(t)]
           o == [i \in Ordered |-> AssignmentEvent(i)]
           D == LinesFor(d)
           O == LinesFor(o)
           T == (<<BtDecision>> \o D) \o O
<1>6. ASSUME NEW t \in denied
      PROVE  d[t] \in P /\ d[t].interceptor_id = 0
  <2>1. d[t] = DenialEvent(t)
    OBVIOUS
  <2>2. t \in Nat
    BY <1>5, ReplayLogAssumption
  <2>3. QED
    BY <1>3, <2>1, <2>2
      DEF DenialEvent, Blank, PassLines, LogLine, TypesOfLines, TrackTypes, Events, Statuses, PassOf
<1>7. ASSUME NEW i \in Ordered
      PROVE  /\ o[i] \in P /\ o[i].type = "assignment_event" /\ o[i].interceptor_id = i
             /\ o[i].track_id = target'[i] /\ o[i].t_s = now /\ target'[i] \in Tracks
  <2>1. o[i] = AssignmentEvent(i)
    OBVIOUS
  <2>2. i \in Interceptors /\ i \in Nat /\ target'[i] \in Tracks /\ target'[i] \in Nat
    BY <1>1, <1>5, ReplayLogAssumption
  <2>3. QED
    BY <1>3, <2>1, <2>2
      DEF AssignmentEvent, Blank, PassLines, LogLine, TypesOfLines, TrackTypes, Events, Statuses, PassOf
<1>8. BtDecision \in P /\ BtDecision.type = "bt_decision"
  BY <1>3 DEF BtDecision, Blank, PassLines, LogLine, TypesOfLines, TrackTypes, Events, Statuses, PassOf
<1>9. d \in [denied -> P] /\ o \in [Ordered -> P]
  BY <1>6, <1>7
<1> HIDE DEF d, o, P
<1>10. D \in Seq(P) /\ O \in Seq(P) /\ <<BtDecision>> \in Seq(P)
  BY <1>5, <1>8, <1>9, LinesAre
<1>11. P \subseteq LogLine
  BY DEF P, PassLines
<1>12. D \in Seq(LogLine) /\ O \in Seq(LogLine) /\ <<BtDecision>> \in Seq(LogLine)
  BY <1>10, <1>11, SeqMonotonic
<1>13. log' = log \o T
  <2>1. Append(log, BtDecision) = log \o <<BtDecision>>
    BY <1>3, <1>8, <1>11, OneMore
  <2>2. log' = (Append(log, BtDecision) \o D) \o O
    BY <1>4 DEF d, o
  <2> HIDE DEF D, O
  <2>3. ((log \o <<BtDecision>>) \o D) \o O = log \o ((<<BtDecision>> \o D) \o O)
    BY <1>3, <1>12, ThreeParts, SMTT(30)
  <2>4. QED
    BY <2>1, <2>2, <2>3
<1>14. ASSUME NEW i \in Interceptors
       PROVE  /\ i \notin Ordered => NoneOf(T, AssignmentOf(i))
              /\ i \in Ordered =>
                   LastIs(T, AssignmentOf(i), {l \in LogLine : l.track_id = target'[i] /\ l.t_s = now})
  <2> DEFINE K == AssignmentOf(i)
             G == {l \in LogLine : l.track_id = target'[i] /\ l.t_s = now}
  <2>1. NoneOf(<<BtDecision>>, K)
    BY <1>8, <1>11, OneMore DEF NoneOf, AssignmentOf
  <2>2. \A t \in denied : d[t] \notin K
    BY <1>6, ReplayLogAssumption DEF AssignmentOf
  <2>3. \A j \in Ordered : o[j] \in K => j = i
    BY <1>7 DEF AssignmentOf
  <2>4. i \in Ordered => o[i] \in K \cap G
    BY <1>7, <1>9, <1>11, ReplayLogAssumption DEF AssignmentOf
  <2> HIDE DEF K, G
  <2>5. NoneOf(D, K)
    BY <1>5, <1>9, <2>2, LineOfOne
  <2>6. /\ i \notin Ordered => NoneOf(O, K)
        /\ i \in Ordered => LastIs(O, K, G)
    BY <1>5, <1>9, <2>3, <2>4, LineOfOne
  <2>7. /\ <<BtDecision>> \o D \in Seq(LogLine)
        /\ NoneOf(<<BtDecision>> \o D, K)
    BY <1>12, <2>1, <2>5, LastOfBoth, ConcatProperties
  <2>8. QED
    BY <1>12, <2>6, <2>7, LastOfBoth DEF K, G
<1>15. T \in Seq(P) /\ T \in Seq(LogLine)
  BY <1>10, <1>12, ConcatProperties
<1> HIDE DEF T
<1>16. InPassOrder(log', now') /\ log' \in Seq(LogLine)
  BY <1>1, <1>2, <1>3, <1>13, <1>15, OrderGoesOn DEF P
<1>17. /\ NoneOf(T, Hits)
       /\ \A t \in Tracks : NoneOf(T, AboutTrack(t)) /\ NoneOf(T, Stability(t))
  <2>1. \A k \in DOMAIN T : T[k].type \in types
    BY <1>15, PassLinesAre DEF P
  <2>2. QED
    BY <2>1 DEF NoneOf, Hits, AboutTrack, Stability, TrackTypes
<1>18. TracksLogged'
  BY <1>1, <1>2, <1>3, <1>13, <1>15, <1>17, LastOfBoth DEF TracksLogged, Live
<1>19. HitsAreOver'
  BY <1>1, <1>2, <1>3, <1>13, <1>15, <1>17, NoHitsAdded DEF HitsAreOver
<1>20. FlightsLogged'
  <2> SUFFICES ASSUME NEW i \in Interceptors, target'[i] # NoTrack
               PROVE  LastIs(log', AssignmentOf(i), UnhitSince(log', target'[i]))
    BY DEF FlightsLogged, Engaged
  <2>1. CASE i \notin Ordered
    <3>1. target'[i] = target[i]
      BY <2>1 DEF Ordered
    <3>2. LastIs(log, AssignmentOf(i), UnhitSince(log, target[i]))
      BY <1>2, <3>1 DEF FlightsLogged, Engaged
    <3>3. \A n \in DOMAIN T : ~(T[n] \in Hits /\ T[n].track_id = target[i])
      BY <1>17 DEF NoneOf
    <3>4. QED
      BY <1>3, <1>13, <1>14, <1>15, <2>1, <3>1, <3>2, <3>3, StillLogged
  <2>2. CASE i \in Ordered
    <3> DEFINE G == {l \in LogLine : l.track_id = target'[i] /\ l.t_s = now}
    <3>1. \A n \in DOMAIN log' : log'[n] \in Hits => log'[n].t_s < now
      BY <1>1, <1>19 DEF HitsAreOver
    <3>2. \A l \in G : l \in UnhitSince(log', target'[i])
      BY <3>1 DEF UnhitSince
    <3>3. LastIs(T, AssignmentOf(i), G)
      BY <1>14, <2>2
    <3> HIDE DEF G
    <3>4. LastIs(log', AssignmentOf(i), G)
      BY <1>3, <1>13, <1>15, <3>3, LastOfBoth
    <3>5. QED
      BY <3>2, <3>4, LastIsMore
  <2>3. QED
    BY <2>1, <2>2
<1>21. TargetsDiffer'
  <2> SUFFICES ASSUME NEW i \in Interceptors, NEW j \in Interceptors,
                      target'[i] # NoTrack, target'[i] = target'[j]
               PROVE  i = j
    BY DEF TargetsDiffer, Engaged
  <2>1. CASE i \in Ordered /\ j \in Ordered
    BY <1>1, <2>1
  <2>2. CASE i \notin Ordered /\ j \notin Ordered
    BY <1>2, <2>2 DEF TargetsDiffer, Ordered, Engaged
  <2>3. CASE i \in Ordered /\ j \notin Ordered
    BY <1>1, <2>3 DEF Ordered, Orderable
  <2>4. CASE i \notin Ordered /\ j \in Ordered
    BY <1>1, <2>4 DEF Ordered, Orderable
  <2>5. QED
    BY <2>1, <2>2, <2>3, <2>4
<1>22. HitsAtEnd' /\ StatesLogged'
  BY <1>1 DEF HitsAtEnd, StatesLogged, PassIsLogged
<1>23. LogTypeOK'
  BY <1>1, <1>3, <1>16 DEF LogTypeOK
<1>24. LogGrows
  <2>1. \A n \in DOMAIN T : PassOf(T[n]) = now
    BY <1>15, PassLinesAre DEF P
  <2>2. \A n \in DOMAIN T : PassOf(T[n]) >= now'
    BY <1>1, <1>3, <2>1
  <2> HIDE DEF D, O
  <2>3. QED
    BY <1>13, <1>15, <2>2 DEF LogGrows
<1>25. QED
  BY <1>16, <1>18, <1>19, <1>20, <1>21, <1>22, <1>23, <1>24 DEF LogInv

LEMMA FlyIsLogged == LogInv /\ LogFly => LogInv'
<1> SUFFICES ASSUME LogInv, LogFly PROVE LogInv'
  OBVIOUS
<1>1. /\ phase = "fly" /\ phase' = "resolve" /\ stage' = stage
      /\ now' = now /\ missed' = missed /\ log' = log
  BY DEF LogFly, Fly, Passes
<1>2. PICK S \in SUBSET {i \in Flying : stage[target[i]] = "confirmed"} : target' = Kept(S)
  BY DEF LogFly, Fly
<1>3. /\ LogTypeOK /\ TargetsDiffer /\ InPassOrder(log, now) /\ HitsAreOver
      /\ TracksLogged /\ FlightsLogged
  BY <1>1 DEF LogInv
<1>4. \A i \in Interceptors : target'[i] = target[i] \/ target'[i] = NoTrack
  BY <1>2 DEF Kept
<1>5. target' \in [Interceptors -> Tracks \cup {NoTrack}]
  BY <1>2, <1>3 DEF Kept, LogTypeOK
<1>6. LogTypeOK' /\ TargetsDiffer' /\ FlightsLogged'
  BY <1>1, <1>3, <1>4, <1>5 DEF LogTypeOK, TargetsDiffer, FlightsLogged, Engaged
<1>7. InPassOrder(log, now)' /\ HitsAreOver' /\ TracksLogged'
  BY <1>1, <1>3 DEF HitsAreOver, TracksLogged, Live
<1>8. HitsAtEnd' /\ StatesLogged'
  BY <1>1 DEF HitsAtEnd, StatesLogged, PassIsLogged
<1>9. QED
  BY <1>6, <1>7, <1>8 DEF LogInv

LEMMA ResolveIsLogged == LogInv /\ LogResolve => LogInv' /\ LogGrows
<1> SUFFICES ASSUME LogInv, LogResolve PROVE LogInv' /\ LogGrows
  OBVIOUS
<1>1. /\ phase = "resolve" /\ phase' = "observe" /\ stage' = stage
      /\ now' = now /\ missed' = missed
  BY DEF LogResolve, Resolve, Passes
<1>2. PICK S \in SUBSET Flying : target' = Kept(S)
  BY DEF LogResolve, Resolve
<1>3. /\ LogTypeOK /\ TargetsDiffer /\ InPassOrder(log, now) /\ HitsAreOver
      /\ TracksLogged /\ FlightsLogged
  BY <1>1 DEF LogInv
<1>4. /\ stage \in [Tracks -> Stage] /\ now \in Nat /\ log \in Seq(LogLine)
      /\ target \in [Interceptors -> Tracks \cup {NoTrack}]
  BY <1>3 DEF LogTypeOK
<1>5. /\ target' \in [Interceptors -> Tracks \cup {NoTrack}]
      /\ \A i \in Interceptors : target'[i] = target[i] \/ target'[i] = NoTrack
  BY <1>2, <1>4 DEF Kept
<1> DEFINE types == {"interceptor_state", "intercept_event"}
           P == PassLines(types, now)
           Who == {j \in Flying : target'[j] = NoTrack}
           st == [i \in Interceptors |-> InterceptorState(i)]
           h == [i \in Who |-> InterceptEvent(i)]
           St == LinesFor(st)
           H == LinesFor(h)
           T == St \o H
<1>6. /\ IsFiniteSet(Interceptors)
      /\ Who \in SUBSET Interceptors /\ IsFiniteSet(Who)
  BY ReplayLogAssumption, FS_Subset DEF Flying
<1>7. ASSUME NEW i \in Interceptors
      PROVE  /\ st[i] \in P /\ st[i].type = "interceptor_state" /\ st[i].interceptor_id = i
             /\ st[i].engaged = Engaged(i) /\ st[i].track_id = target[i]
  <2>1. st[i] = InterceptorState(i)
    OBVIOUS
  <2>2. i \in Nat /\ target[i] \in Nat /\ Engaged(i) \in BOOLEAN
    <3>1. target[i] \in Tracks \cup {NoTrack} /\ NoTrack = 0
      BY <1>4, ReplayLogAssumption
    <3>2. Tracks \subseteq Nat /\ Interceptors \subseteq Nat
      BY ReplayLogAssumption
    <3>3. i \in Nat
      BY <3>2
    <3>4. target[i] \in Nat
      <4>1. CASE target[i] \in Tracks
        BY <3>2, <4>1
      <4>2. CASE target[i] = NoTrack
        BY <3>1, <4>2
      <4>3. QED
        BY <3>1, <4>1, <4>2
    <3>5. QED
      BY <3>3, <3>4 DEF Engaged
  <2>3. QED
    BY <1>4, <2>1, <2>2
      DEF InterceptorState, Blank, PassLines, LogLine, TypesOfLines, TrackTypes, Events, Statuses, PassOf
<1>8. ASSUME NEW i \in Who
      PROVE  /\ h[i] \in P /\ h[i].type = "intercept_event"
             /\ h[i].track_id = target[i] /\ h[i].t_s = now
  <2>1. h[i] = InterceptEvent(i)
    OBVIOUS
  <2>2. target[i] \in Nat
    <3>1. i \in Interceptors
      BY <1>6
    <3>2. target[i] \in Tracks \cup {NoTrack}
      BY <1>4, <3>1
    <3>3. \A x \in Tracks \cup {NoTrack} : x \in Nat
      BY ReplayLogAssumption
    <3>4. QED
      BY <3>2, <3>3
  <2>3. QED
    BY <1>4, <2>1, <2>2
      DEF InterceptEvent, Blank, PassLines, LogLine, TypesOfLines, TrackTypes, Events, Statuses, PassOf
<1>9. st \in [Interceptors -> P] /\ h \in [Who -> P]
  BY <1>7, <1>8
<1> HIDE DEF st, h, P
<1>10. /\ St \in Seq(P) /\ H \in Seq(P)
       /\ \A n \in DOMAIN H : \E i \in Who : H[n] = h[i]
       /\ \A i \in Who : \E n \in DOMAIN H : H[n] = h[i]
  <2> HIDE DEF Who
  <2>1. St \in Seq(P)
    BY <1>6, <1>9, LinesAre
  <2>2. /\ H \in Seq(P)
        /\ \A n \in DOMAIN H : \E i \in Who : H[n] = h[i]
        /\ \A i \in Who : \E n \in DOMAIN H : H[n] = h[i]
    BY <1>6, <1>9, LinesAre
  <2>3. QED
    BY <2>1, <2>2
<1>11. P \subseteq LogLine
  BY DEF P, PassLines
<1>12. St \in Seq(LogLine) /\ H \in Seq(LogLine)
  BY <1>10, <1>11, SeqMonotonic
<1>13. T \in Seq(P) /\ T \in Seq(LogLine)
  BY <1>10, <1>12, ConcatProperties
<1>14. log' = log \o T
  <2>1. log' = (log \o St) \o H
    BY DEF LogResolve, st, h
  <2> HIDE DEF St, H
  <2>2. (log \o St) \o H = log \o (St \o H)
    BY <1>4, <1>12, ConcatAssociative, SMTT(30)
  <2>3. QED
    BY <2>1, <2>2
<1>15. ASSUME NEW i \in Interceptors
       PROVE  /\ NoneOf(T, AssignmentOf(i))
              /\ \A G : st[i] \in G => LastIs(T, StateOf(i), G)
  <2>1. \A j \in Interceptors : st[j] \in StateOf(i) => j = i
    BY <1>7 DEF StateOf
  <2>2. st[i] \in StateOf(i)
    BY <1>7, <1>11 DEF StateOf
  <2>3. \A G : st[i] \in G => LastIs(St, StateOf(i), G)
    BY <1>6, <1>9, <2>1, <2>2, LineOfOne
  <2>4. \A k \in DOMAIN T : T[k].type \in types
    BY <1>13, PassLinesAre DEF P
  <2>5. NoneOf(H, StateOf(i))
    BY <1>8, <1>10 DEF NoneOf, StateOf
  <2>6. NoneOf(T, AssignmentOf(i))
    BY <2>4 DEF NoneOf, AssignmentOf
  <2>7. \A G : st[i] \in G => LastIs(T, StateOf(i), G)
    BY <1>12, <2>3, <2>5, LastOfBoth
  <2>8. QED
    BY <2>6, <2>7
<1>16. /\ \A m, n \in DOMAIN T : T[n] \in Hits /\ m > n => T[m] \in Hits
       /\ \A n \in DOMAIN T : T[n] \in Hits => \E i \in Who : T[n] = h[i]
       /\ \A i \in Who : \E n \in DOMAIN T : T[n] = h[i]
  <2>1. NoneOf(St, Hits)
    <3>1. \A i \in Interceptors : st[i] \notin Hits
      BY <1>7 DEF Hits
    <3>2. QED
      BY <1>6, <1>9, <3>1, LinesAre DEF NoneOf
  <2>2. \A n \in DOMAIN H : H[n] \in Hits
    BY <1>8, <1>10, <1>11 DEF Hits
  <2>3. \A m, n \in DOMAIN T : T[n] \in Hits /\ m > n => T[m] \in Hits
    BY <1>12, <2>1, <2>2, KindAtEnd
  <2> HIDE DEF St, H
  <2>4. /\ \A k \in DOMAIN St : T[k] = St[k]
        /\ \A k \in DOMAIN H : Len(St) + k \in DOMAIN T /\ T[Len(St) + k] = H[k]
        /\ \A k \in DOMAIN T : k \in DOMAIN St \/ \E l \in DOMAIN H : k = Len(St) + l
    BY <1>12, BothParts
  <2> HIDE DEF T
  <2>5. \A n \in DOMAIN T : T[n] \in Hits => \E i \in Who : T[n] = h[i]
    BY <1>10, <2>1, <2>4 DEF NoneOf
  <2>6. \A i \in Who : \E n \in DOMAIN T : T[n] = h[i]
    BY <1>10, <2>4, SMTT(30)
  <2>7. QED
    BY <2>3, <2>5, <2>6
<1> HIDE DEF T
<1>17. InPassOrder(log', now') /\ log' \in Seq(LogLine)
  BY <1>1, <1>3, <1>4, <1>13, <1>14, OrderGoesOn DEF P
<1>18. \A t \in Tracks : NoneOf(T, AboutTrack(t)) /\ NoneOf(T, Stability(t))
  <2>1. \A k \in DOMAIN T : T[k].type \in types
    BY <1>13, PassLinesAre DEF P
  <2>2. QED
    BY <2>1 DEF NoneOf, AboutTrack, Stability, TrackTypes
<1>19. TracksLogged'
  BY <1>1, <1>3, <1>4, <1>13, <1>14, <1>18, LastOfBoth DEF TracksLogged, Live
<1>20. HitsAreOver'
  BY <1>1 DEF HitsAreOver
<1>21. FlightsLogged'
  <2> SUFFICES ASSUME NEW i \in Interceptors, target'[i] # NoTrack
               PROVE  LastIs(log', AssignmentOf(i), UnhitSince(log', target'[i]))
    BY DEF FlightsLogged, Engaged
  <2>1. target'[i] = target[i]
    BY <1>5
  <2>2. LastIs(log, AssignmentOf(i), UnhitSince(log, target[i]))
    BY <1>3, <2>1 DEF FlightsLogged, Engaged
  <2>3. ASSUME NEW n \in DOMAIN T, T[n] \in Hits, T[n].track_id = target[i] PROVE FALSE
    <3>1. PICK j \in Who : T[n] = h[j]
      BY <1>16, <2>3
    <3>2. target[j] = target[i]
      BY <1>8, <2>3, <3>1
    <3>3. i = j
      BY <1>3, <1>6, <2>1, <3>2 DEF TargetsDiffer, Engaged
    <3>4. QED
      BY <3>3
  <2>4. QED
    BY <1>4, <1>13, <1>14, <1>15, <2>1, <2>2, <2>3, StillLogged
<1>22. TargetsDiffer'
  BY <1>3, <1>5 DEF TargetsDiffer, Engaged
<1>23. HitsAtEnd'
  <2> SUFFICES ASSUME NEW m \in DOMAIN log', NEW n \in DOMAIN log',
                      log'[n] \in Hits, log'[n].t_s = now, m > n
               PROVE  log'[m] \in Hits
    BY <1>1 DEF HitsAtEnd
  <2> DEFINE N == {l \in Hits : l.t_s = now}
  <2>1. NoneOf(log, N)
    BY <1>1, <1>3, <1>4 DEF HitsAreOver, NoneOf
  <2>2. \A k, l \in DOMAIN T : T[l] \in N /\ k > l => T[k] \in N
    BY <1>8, <1>16
  <2> HIDE DEF N
  <2>3. \A k, l \in DOMAIN log' : log'[l] \in N /\ k > l => log'[k] \in N
    BY <1>4, <1>13, <1>14, <2>1, <2>2, KindAtEnd
  <2>4. QED
    BY <2>3 DEF N
<1>24. StatesLogged'
  <2> SUFFICES ASSUME NEW i \in Interceptors PROVE LastIs(log', StateOf(i), StateAtEnd(i)')
    BY DEF StatesLogged
  <2>1. st[i] \in StateAtEnd(i)'
    <3>1. /\ st[i] \in LogLine /\ (st[i].engaged = TRUE <=> target[i] # NoTrack)
          /\ st[i].track_id = target[i]
      BY <1>7, <1>11 DEF Engaged
    <3>2. target'[i] # NoTrack => st[i].engaged = TRUE /\ st[i].track_id = target'[i]
      BY <1>5, <3>1
    <3>3. ASSUME st[i].engaged = TRUE, target'[i] = NoTrack
          PROVE  /\ LastIs(log', AssignmentOf(i), LinesOn(st[i].track_id))
                 /\ \E n \in DOMAIN log' : /\ log'[n] \in Hits /\ log'[n].t_s = now
                                           /\ log'[n].track_id = st[i].track_id
      <4>1. i \in Who /\ target[i] # NoTrack
        BY <3>1, <3>3 DEF Flying, Engaged
      <4>2. LastIs(log, AssignmentOf(i), UnhitSince(log, target[i]))
        BY <1>3, <4>1 DEF FlightsLogged, Engaged
      <4>3. LastIs(log', AssignmentOf(i), UnhitSince(log, target[i]))
        BY <1>4, <1>13, <1>14, <1>15, <4>2, LastOfBoth
      <4>4. \A l \in UnhitSince(log, target[i]) : l \in LinesOn(target[i])
        BY DEF UnhitSince, LinesOn
      <4>5. LastIs(log', AssignmentOf(i), LinesOn(target[i]))
        BY <4>3, <4>4, LastIsMore
      <4>6. PICK n \in DOMAIN T : T[n] = h[i]
        BY <1>16, <4>1
      <4>7. Len(log) + n \in DOMAIN log' /\ log'[Len(log) + n] = T[n]
        BY <1>4, <1>13, <1>14, BothParts
      <4>8. h[i] \in Hits
        BY <1>8, <1>11, <4>1 DEF Hits
      <4>9. QED
        BY <1>8, <3>1, <4>1, <4>5, <4>6, <4>7, <4>8
    <3>4. QED
      BY <1>1, <3>1, <3>2, <3>3 DEF StateAtEnd, Engaged
  <2>2. LastIs(T, StateOf(i), StateAtEnd(i)')
    BY <1>15, <2>1
  <2>3. QED
    BY <1>4, <1>13, <1>14, <2>2, LastOfBoth
<1>25. LogTypeOK'
  BY <1>1, <1>4, <1>5, <1>17 DEF LogTypeOK
<1>26. LogGrows
  BY <1>1, <1>4, <1>13, <1>14, PassLinesAre DEF LogGrows, P
<1>27. QED
  BY <1>17, <1>19, <1>20, <1>21, <1>22, <1>23, <1>24, <1>25, <1>26 DEF LogInv

\* Every step keeps what the log says in step with the simulation.
LEMMA LogStep == LogInv /\ [LogNext]_logVars => LogInv'
<1> SUFFICES ASSUME LogInv, [LogNext]_logVars PROVE LogInv'
  OBVIOUS
<1>1. CASE LogReport
  BY <1>1, ReportIsLogged
<1>2. CASE LogOrder
  BY <1>2, OrderIsLogged
<1>3. CASE LogFly
  BY <1>3, FlyIsLogged
<1>4. CASE LogResolve
  BY <1>4, ResolveIsLogged
<1>5. CASE Crash
  BY <1>5 DEF Crash, LogInv
<1>6. CASE UNCHANGED logVars
  <2>1. /\ stage' = stage /\ target' = target /\ phase' = phase
        /\ now' = now /\ log' = log /\ missed' = missed
    BY <1>6 DEF logVars, flights
  <2>2. CASE phase = "crashed"
    BY <2>1, <2>2 DEF LogInv
  <2>3. CASE phase # "crashed"
    <3>1. LogTypeOK' /\ TargetsDiffer' /\ TracksLogged'
      BY <2>1, <2>3 DEF LogInv, LogTypeOK, TargetsDiffer, Engaged, TracksLogged, Live
    <3>2. InPassOrder(log, now)' /\ HitsAreOver' /\ HitsAtEnd'
      BY <2>1, <2>3 DEF LogInv, HitsAreOver, HitsAtEnd, PassIsLogged
    <3>3. FlightsLogged' /\ StatesLogged'
      BY <2>1, <2>3 DEF LogInv, FlightsLogged, Engaged, StatesLogged, StateAtEnd, PassIsLogged
    <3>4. QED
      BY <3>1, <3>2, <3>3 DEF LogInv
  <2>4. QED
    BY <2>2, <2>3
<1>7. QED
  BY <1>1, <1>2, <1>3, <1>4, <1>5, <1>6 DEF LogNext

\* At every moment the last lines of each kind say how the simulation stands, until
\* it is killed.
THEOREM LogInvariance == LogSpec => []LogInv
BY LogStartsWell, LogStep, PTL DEF LogSpec

-----------------------------------------------------------------------------
(***************************************************************************)
(* The events of a log.                                                    *)
(***************************************************************************)
EventOf(s, n) == ToReplayEvent(s[n], n)

LEMMA EventFields ==
  ASSUME NEW s \in Seq(LogLine), NEW n \in DOMAIN s
  PROVE  LET e == EventOf(s, n)
         IN  /\ s[n] \in LogLine /\ n \in Nat
             /\ e.type = s[n].type /\ e.t_s = s[n].t_s /\ e.track_id = s[n].track_id
             /\ e.interceptor_id = s[n].interceptor_id /\ e.event = s[n].event
             /\ e.status = s[n].status /\ e.engaged = s[n].engaged /\ e.lineNumber = n
<1>1. s[n] \in LogLine /\ n \in Nat
  OBVIOUS
<1>2. QED
  BY <1>1 DEF EventOf, ToReplayEvent, LogLine

\* Every line becomes an event.
LEMMA EventsOfLog ==
  ASSUME NEW s \in Seq(LogLine)
  PROVE  LET events == {EventOf(s, n) : n \in DOMAIN s}
             d == ParseReplayJsonl(s)
         IN  /\ d.events = events
             /\ \A t : TypedAt(d, "track_event", t)
                         = {e \in events : e.type = "track_event" /\ e.t_s <= t}
             /\ \A t : TypedAt(d, "track_stability_event", t)
                         = {e \in events : e.type = "track_stability_event" /\ e.t_s <= t}
             /\ \A t : TypedAt(d, "interceptor_state", t)
                         = {e \in events : e.type = "interceptor_state" /\ e.t_s <= t}
             /\ \A t : TypedAt(d, "assignment_event", t)
                         = {e \in events : e.type = "assignment_event" /\ e.t_s <= t}
             /\ \A t : TypedAt(d, "intercept_event", t)
                         = {e \in events : e.type = "intercept_event" /\ e.t_s <= t}
             /\ \A t : TypedAt(d, "bt_decision", t)
                         = {e \in events : e.type = "bt_decision" /\ e.t_s <= t}
<1> DEFINE events == {EventOf(s, n) : n \in DOMAIN s}
           d == ParseReplayJsonl(s)
<1>1. \A line \in LogLine : IsJsonObject(line)
  <2>1. Torn.type = "torn"
    BY DEF Torn, Blank
  <2>2. \A line \in LogLine : line.type # "torn"
    BY DEF LogLine, TypesOfLines, TrackTypes
  <2>3. QED
    BY <2>1, <2>2 DEF IsJsonObject
<1>2. \A n \in DOMAIN s : s[n] \in LogLine
  OBVIOUS
<1>3. ParseReplayEvents(s) = events
  BY <1>1, <1>2 DEF ParseReplayEvents, EventOf
<1> HIDE DEF events
<1>4. d = NormalizeReplayEvents(events)
  BY <1>3 DEF ParseReplayJsonl
<1>5. /\ d.events = events
      /\ d.eventsByType =
           [track_event |-> {e \in events : e.type = "track_event"},
            track_stability_event |-> {e \in events : e.type = "track_stability_event"},
            interceptor_state |-> {e \in events : e.type = "interceptor_state"},
            assignment_event |-> {e \in events : e.type = "assignment_event"},
            intercept_event |-> {e \in events : e.type = "intercept_event"},
            bt_decision |-> {e \in events : e.type = "bt_decision"}]
  BY <1>4 DEF NormalizeReplayEvents
<1> HIDE DEF d
<1>6. QED
  BY <1>5 DEF TypedAt, IsAtOrBefore, events, d

\* Later lines, measurements apart, become later events.
LEMMA LaterLines ==
  ASSUME NEW s \in Seq(LogLine), NEW t, InPassOrder(s, t),
         NEW m \in DOMAIN s, NEW n \in DOMAIN s, m # n,
         s[m].type # "measurement", s[n].type # "measurement"
  PROVE  /\ m < n => Before(EventOf(s, m), EventOf(s, n))
         /\ Before(EventOf(s, m), EventOf(s, n)) => m < n
         /\ EventOf(s, m) # EventOf(s, n)
<1>1. /\ m \in Nat /\ n \in Nat /\ s[m].t_s \in Nat /\ s[n].t_s \in Nat
  <2>1. s[m] \in LogLine /\ s[n] \in LogLine
    OBVIOUS
  <2>2. QED
    BY <2>1, SMTT(30) DEF LogLine
<1>2. /\ m < n => s[m].t_s <= s[n].t_s
      /\ n < m => s[n].t_s <= s[m].t_s
  BY DEF InPassOrder, PassOf
<1>3. /\ EventOf(s, m).t_s = s[m].t_s /\ EventOf(s, m).lineNumber = m
      /\ EventOf(s, n).t_s = s[n].t_s /\ EventOf(s, n).lineNumber = n
  BY EventFields
<1>4. QED
  BY <1>1, <1>2, <1>3 DEF Before

\* The latest event of a kind is that of the last line of the kind.
LEMMA LatestIsLast ==
  ASSUME NEW s \in Seq(LogLine), NEW t, InPassOrder(s, t),
         NEW K, \A line \in K : line.type # "measurement", NEW G, LastIs(s, K, G)
  PROVE  LET E == {EventOf(s, n) : n \in {k \in DOMAIN s : s[k] \in K}}
         IN  E # {} /\ \E n \in DOMAIN s : s[n] \in K \cap G /\ Latest(E) = EventOf(s, n)
<1> DEFINE E == {EventOf(s, n) : n \in {k \in DOMAIN s : s[k] \in K}}
<1>1. PICK n \in DOMAIN s : s[n] \in K \cap G /\ \A m \in DOMAIN s : m > n => s[m] \notin K
  BY DEF LastIs
<1> DEFINE e == EventOf(s, n)
<1>2. e \in E
  BY <1>1
<1>3. ASSUME NEW f \in E \ {e} PROVE Before(f, e) /\ ~Before(e, f)
  <2>1. PICK m \in DOMAIN s : s[m] \in K /\ f = EventOf(s, m)
    OBVIOUS
  <2>2. m # n /\ m \in Nat /\ n \in Nat
    BY <2>1
  <2>3. m < n
    BY <1>1, <2>1, <2>2
  <2>4. s[m].type # "measurement" /\ s[n].type # "measurement"
    BY <1>1, <2>1
  <2>5. QED
    BY <2>1, <2>2, <2>3, <2>4, LaterLines
<1> HIDE DEF E, e
<1>4. Latest(E) = e
  <2>1. e \in E /\ \A f \in E \ {e} : Before(f, e)
    BY <1>2, <1>3
  <2>2. ASSUME NEW g \in E, \A f \in E \ {g} : Before(f, g) PROVE g = e
    BY <1>2, <1>3, <2>2
  <2>3. QED
    BY <2>1, <2>2 DEF Latest
<1>5. QED
  BY <1>1, <1>2, <1>4 DEF E, e

-----------------------------------------------------------------------------
(***************************************************************************)
(* The tracks of a frame.                                                  *)
(***************************************************************************)
\* At the end of a pass, the events of the whole log.
LEMMA EventsNow ==
  ASSUME LogInv, PassIsLogged
  PROVE  LET events == {EventOf(log, n) : n \in DOMAIN log}
         IN  /\ log \in Seq(LogLine) /\ InPassOrder(log, now) /\ now \in Nat
             /\ Dataset.events = events
             /\ TypedAt(Dataset, "track_event", now)
                  = {e \in events : e.type = "track_event"}
             /\ TypedAt(Dataset, "track_stability_event", now)
                  = {e \in events : e.type = "track_stability_event"}
             /\ TypedAt(Dataset, "interceptor_state", now)
                  = {e \in events : e.type = "interceptor_state"}
             /\ TypedAt(Dataset, "assignment_event", now)
                  = {e \in events : e.type = "assignment_event"}
             /\ TypedAt(Dataset, "intercept_event", now)
                  = {e \in events : e.type = "intercept_event"}
             /\ \A n \in DOMAIN log : EventOf(log, n).t_s <= now
<1> DEFINE events == {EventOf(log, n) : n \in DOMAIN log}
<1>1. log \in Seq(LogLine) /\ InPassOrder(log, now) /\ now \in Nat
  BY DEF LogInv, LogTypeOK, PassIsLogged
<1>2. ASSUME NEW n \in DOMAIN log PROVE EventOf(log, n).t_s <= now
  <2>1. EventOf(log, n).t_s = log[n].t_s /\ log[n].t_s \in Nat
    BY <1>1, EventFields DEF LogLine
  <2>2. log[n].t_s <= now
    BY <1>1, <2>1 DEF InPassOrder, PassOf
  <2>3. QED
    BY <2>1, <2>2
<1>3. \A e \in events : e.t_s <= now
  BY <1>2
<1>4. QED
  BY <1>1, <1>2, <1>3, EventsOfLog DEF Dataset

\* What is shown of a track is the last line of its stability.
LEMMA SeedOfTrack ==
  ASSUME LogInv, PassIsLogged, NEW t \in Tracks, NEW G, LastIs(log, Stability(t), G)
  PROVE  \E n \in DOMAIN log :
           /\ log[n] \in Stability(t) \cap G
           /\ TrackSeed(Dataset, t, now).stability = {EventOf(log, n)}
<1> DEFINE E == {e \in TypedAt(Dataset, "track_stability_event", now) : e.track_id = t}
           K == {k \in DOMAIN log : log[k] \in Stability(t)}
<1>1. log \in Seq(LogLine) /\ InPassOrder(log, now)
  BY EventsNow
<1>2. E = {EventOf(log, n) : n \in K}
  <2>1. \A n \in DOMAIN log :
          n \in K <=> /\ EventOf(log, n).type = "track_stability_event"
                      /\ EventOf(log, n).track_id = t
    BY <1>1, EventFields DEF Stability
  <2>2. E = {e \in {EventOf(log, n) : n \in DOMAIN log} :
               e.type = "track_stability_event" /\ e.track_id = t}
    BY EventsNow
  <2> HIDE DEF E, K
  <2>3. QED
    BY <2>1, <2>2 DEF K
<1>3. \A line \in Stability(t) : line.type # "measurement"
  BY DEF Stability
<1> HIDE DEF E
<1>4. E # {} /\ \E n \in DOMAIN log : log[n] \in Stability(t) \cap G /\ Latest(E) = EventOf(log, n)
  BY <1>1, <1>2, <1>3, LatestIsLast
<1>5. TrackSeed(Dataset, t, now).stability = {Latest(E)}
  BY <1>4 DEF TrackSeed, LastOf, E
<1>6. QED
  BY <1>4, <1>5

LEMMA TracksAreShown == LogInv => FrameShowsTracks
<1> SUFFICES ASSUME LogInv, PassIsLogged
             PROVE  /\ {track.trackId : track \in ActiveTracks(Dataset, now)} = Live
                    /\ \A track \in ActiveTracks(Dataset, now) :
                         \/ track.status = stage[track.trackId]
                         \/ (CHOOSE e \in TrackSeed(Dataset, track.trackId, now).stability : TRUE).event
                              = "track_reacquisition_candidate"
                    /\ \A t \in missed \cap Live :
                         TrackLabel(Dataset, t, now) \in {"coasting", "intercepted"}
  BY DEF FrameShowsTracks
<1> DEFINE d == Dataset
           events == {EventOf(log, n) : n \in DOMAIN log}
           seen == {e.track_id : e \in TypedAt(d, "track_event", now)
                                         \cup TypedAt(d, "track_stability_event", now)} \ {0}
           status(t) == StatusOf(TrackSeed(d, t, now))
<1>1. /\ log \in Seq(LogLine) /\ TracksLogged /\ stage \in [Tracks -> Stage]
      /\ TypedAt(d, "track_event", now) = {e \in events : e.type = "track_event"}
      /\ TypedAt(d, "track_stability_event", now)
           = {e \in events : e.type = "track_stability_event"}
  BY EventsNow DEF LogInv, LogTypeOK, PassIsLogged
<1>2. \A t : t \in seen <=> t \in Tracks /\ stage[t] # "unborn"
  <2>1. ASSUME NEW t \in seen PROVE t \in Tracks /\ stage[t] # "unborn"
    <3>1. PICK n \in DOMAIN log : /\ EventOf(log, n).type \in TrackTypes
                                  /\ EventOf(log, n).track_id = t
      BY <1>1, <2>1 DEF TrackTypes
    <3>2. log[n] \in LogLine /\ log[n].type \in TrackTypes /\ log[n].track_id = t
      BY <1>1, <3>1, EventFields
    <3>3. t \in Tracks /\ log[n] \in AboutTrack(t)
      BY <3>2 DEF LogLine, AboutTrack
    <3>4. QED
      BY <1>1, <3>3 DEF TracksLogged, NoneOf
  <2>2. ASSUME NEW t \in Tracks, stage[t] # "unborn" PROVE t \in seen
    <3>1. PICK n \in DOMAIN log : log[n] \in Stability(t)
      BY <1>1, <2>2 DEF TracksLogged, LastIs
    <3>2. /\ EventOf(log, n).type = "track_stability_event" /\ EventOf(log, n).track_id = t
      BY <1>1, <3>1, EventFields DEF Stability
    <3>3. t # 0
      BY ReplayLogAssumption
    <3>4. QED
      BY <1>1, <3>2, <3>3
  <2>3. QED
    BY <2>1, <2>2
<1>3. ASSUME NEW t \in Tracks, stage[t] # "unborn"
      PROVE  /\ stage[t] = "gone" <=> status(t) = "deleted"
             /\ \/ status(t) = stage[t]
                \/ stage[t] = "gone"
                \/ (CHOOSE e \in TrackSeed(d, t, now).stability : TRUE).event
                     = "track_reacquisition_candidate"
  <2>1. LastIs(log, Stability(t), Shown(stage[t]))
    BY <1>1, <1>3 DEF TracksLogged
  <2>2. PICK n \in DOMAIN log : /\ log[n] \in Stability(t) \cap Shown(stage[t])
                                /\ TrackSeed(d, t, now).stability = {EventOf(log, n)}
    BY <2>1, SeedOfTrack
  <2>3. (CHOOSE e \in TrackSeed(d, t, now).stability : TRUE) = EventOf(log, n)
    BY <2>2
  <2>4. status(t) = EventOf(log, n).status
    BY <2>2, <2>3 DEF StatusOf
  <2>5. EventOf(log, n).status = log[n].status /\ EventOf(log, n).event = log[n].event
    BY <1>1, EventFields
  <2>6. stage[t] \in Stage
    BY <1>1
  <2>7. /\ stage[t] = "gone" => log[n].status = "deleted"
        /\ stage[t] # "gone" => \/ log[n].status = stage[t]
                                \/ /\ log[n].event = "track_reacquisition_candidate"
                                   /\ log[n].status = "tentative"
    BY <2>2 DEF Shown
  <2>8. QED
    BY <2>3, <2>4, <2>5, <2>6, <2>7 DEF Stage
<1>4. ASSUME NEW t \in missed \cap Live
      PROVE  TrackLabel(d, t, now) \in {"coasting", "intercepted"}
  <2>1. t \in Tracks /\ LastIs(log, Stability(t), Coasting)
    BY <1>1, <1>4 DEF TracksLogged, Live
  <2>2. PICK n \in DOMAIN log : /\ log[n] \in Stability(t) \cap Coasting
                                /\ TrackSeed(d, t, now).stability = {EventOf(log, n)}
    BY <2>1, SeedOfTrack
  <2>3. EventOf(log, n).event = "track_coasted"
    BY <1>1, <2>2, EventFields DEF Coasting
  <2>4. \E e \in TrackSeed(d, t, now).stability : e.event = "track_coasted"
    BY <2>2, <2>3
  <2>5. QED
    BY <2>4 DEF TrackLabel
<1>5. ActiveTracks(d, now) =
        {track \in {[trackId |-> t, status |-> status(t)] : t \in seen} :
           track.status # "deleted"}
  BY DEF ActiveTracks
<1> HIDE DEF d, seen, status
<1>6. \A track \in ActiveTracks(d, now) :
        /\ track.trackId \in Tracks /\ stage[track.trackId] \notin {"unborn", "gone"}
        /\ track.status = status(track.trackId)
  BY <1>2, <1>3, <1>5
<1>7. \A t \in Live : \E track \in ActiveTracks(d, now) : track.trackId = t
  <2> SUFFICES ASSUME NEW t \in Live
               PROVE  \E track \in ActiveTracks(d, now) : track.trackId = t
    OBVIOUS
  <2>1. t \in Tracks /\ stage[t] # "unborn" /\ stage[t] # "gone"
    BY DEF Live
  <2>2. [trackId |-> t, status |-> status(t)] \in ActiveTracks(d, now)
    BY <1>2, <1>3, <1>5, <2>1
  <2>3. QED
    BY <2>2
<1>8. \A t \in Tracks : stage[t] \notin {"unborn", "gone"} => t \in Live
  BY <1>1 DEF Live, Stage
<1>9. {track.trackId : track \in ActiveTracks(d, now)} = Live
  BY <1>6, <1>7, <1>8
<1>10. QED
  BY <1>3, <1>4, <1>6, <1>9 DEF d

-----------------------------------------------------------------------------
(***************************************************************************)
(* The interceptors, the assignments and the feed of a frame.              *)
(***************************************************************************)
Assigning == {e \in TypedAt(Dataset, "assignment_event", now) :
                e.interceptor_id # 0 /\ e.track_id # 0}

Stating == {e \in TypedAt(Dataset, "interceptor_state", now) : e.interceptor_id # 0}

\* The latest assignment and the latest state of an interceptor are its last lines.
LEMMA LatestOfInterceptor ==
  ASSUME LogInv, PassIsLogged, NEW i \in Interceptors, NEW G
  PROVE  LET A == {f \in Assigning : f.interceptor_id = i}
             B == {f \in Stating : f.interceptor_id = i}
         IN  /\ LastIs(log, AssignmentOf(i), G) =>
                  A # {} /\ \E n \in DOMAIN log : /\ log[n] \in AssignmentOf(i) \cap G
                                                  /\ Latest(A) = EventOf(log, n)
             /\ LastIs(log, StateOf(i), G) =>
                  B # {} /\ \E n \in DOMAIN log : /\ log[n] \in StateOf(i) \cap G
                                                  /\ Latest(B) = EventOf(log, n)
             /\ A # {} => ~NoneOf(log, AssignmentOf(i))
<1> DEFINE events == {EventOf(log, n) : n \in DOMAIN log}
           A == {f \in Assigning : f.interceptor_id = i}
           B == {f \in Stating : f.interceptor_id = i}
           K == {k \in DOMAIN log : log[k] \in AssignmentOf(i)}
           M == {k \in DOMAIN log : log[k] \in StateOf(i)}
<1>1. /\ log \in Seq(LogLine) /\ InPassOrder(log, now) /\ i # 0
      /\ TypedAt(Dataset, "assignment_event", now) = {e \in events : e.type = "assignment_event"}
      /\ TypedAt(Dataset, "interceptor_state", now)
           = {e \in events : e.type = "interceptor_state"}
  BY EventsNow, ReplayLogAssumption
<1>2. /\ A = {e \in events : /\ e.type = "assignment_event" /\ e.interceptor_id = i
                             /\ e.track_id # 0}
      /\ B = {e \in events : e.type = "interceptor_state" /\ e.interceptor_id = i}
  BY <1>1 DEF Assigning, Stating
<1>3. \A n \in DOMAIN log :
        /\ n \in K <=> LET e == EventOf(log, n)
                       IN  /\ e.type = "assignment_event" /\ e.interceptor_id = i
                           /\ e.track_id # 0
        /\ n \in M <=> LET e == EventOf(log, n)
                       IN  e.type = "interceptor_state" /\ e.interceptor_id = i
  BY <1>1, EventFields DEF AssignmentOf, StateOf
<1> HIDE DEF A, B, K, M, events
<1>4. A = {EventOf(log, n) : n \in K} /\ B = {EventOf(log, n) : n \in M}
  BY <1>2, <1>3 DEF K, M, events
<1>5. /\ \A line \in AssignmentOf(i) : line.type # "measurement"
      /\ \A line \in StateOf(i) : line.type # "measurement"
  BY DEF AssignmentOf, StateOf
<1>6. LastIs(log, AssignmentOf(i), G) =>
        A # {} /\ \E n \in DOMAIN log : /\ log[n] \in AssignmentOf(i) \cap G
                                        /\ Latest(A) = EventOf(log, n)
  <2>1. A = {EventOf(log, n) : n \in {k \in DOMAIN log : log[k] \in AssignmentOf(i)}}
    BY <1>4 DEF K
  <2>2. log \in Seq(LogLine) /\ InPassOrder(log, now)
    BY <1>1
  <2>3. QED
    BY <1>5, <2>1, <2>2, LatestIsLast
<1>7. LastIs(log, StateOf(i), G) =>
        B # {} /\ \E n \in DOMAIN log : /\ log[n] \in StateOf(i) \cap G
                                        /\ Latest(B) = EventOf(log, n)
  <2>1. B = {EventOf(log, n) : n \in {k \in DOMAIN log : log[k] \in StateOf(i)}}
    BY <1>4 DEF M
  <2>2. log \in Seq(LogLine) /\ InPassOrder(log, now)
    BY <1>1
  <2>3. QED
    BY <1>5, <2>1, <2>2, LatestIsLast
<1>8. A # {} => ~NoneOf(log, AssignmentOf(i))
  BY <1>4 DEF K, NoneOf
<1>9. QED
  BY <1>6, <1>7, <1>8 DEF A, B

\* The hits the console knows of.
LEMMA HitsShown ==
  ASSUME LogInv, PassIsLogged
  PROVE  /\ \A n \in DOMAIN log : log[n] \in Hits =>
              EventOf(log, n) \in TypedAt(Dataset, "intercept_event", now)
         /\ \A e \in TypedAt(Dataset, "intercept_event", now) :
              \E n \in DOMAIN log : log[n] \in Hits /\ e = EventOf(log, n)
<1>1. /\ log \in Seq(LogLine)
      /\ TypedAt(Dataset, "intercept_event", now)
           = {e \in {EventOf(log, n) : n \in DOMAIN log} : e.type = "intercept_event"}
  BY EventsNow
<1>2. \A n \in DOMAIN log : EventOf(log, n).type = "intercept_event" <=> log[n] \in Hits
  BY <1>1, EventFields DEF Hits
<1>3. QED
  BY <1>1, <1>2

LEMMA FlightsAreShown ==
  ASSUME LogInv, PassIsLogged
  PROVE  ShowsFlights(Dataset)
<1> DEFINE states == ActiveInterceptors(Dataset, now)
           active == ActiveAssignments(Dataset, now)
           A(i) == {f \in Assigning : f.interceptor_id = i}
           B(i) == {f \in Stating : f.interceptor_id = i}
<1>1. /\ log \in Seq(LogLine) /\ FlightsLogged /\ StatesLogged /\ now \in Nat
      /\ target \in [Interceptors -> Tracks \cup {NoTrack}]
      /\ InPassOrder(log, now)
  BY DEF LogInv, LogTypeOK, PassIsLogged
<1>2. states = {Latest(B(e.interceptor_id)) : e \in Stating}
  BY DEF ActiveInterceptors, LatestPerInterceptor, Stating
<1>3. active = {a \in {Latest(A(e.interceptor_id)) : e \in Assigning} :
                  ~Intercepted(Dataset, a, now)}
  BY DEF ActiveAssignments, LatestPerInterceptor, Assigning
<1> HIDE DEF states, active
\* The state of an interceptor.
<1>4. ASSUME NEW i \in Interceptors
      PROVE  \E n \in DOMAIN log : /\ log[n] \in StateOf(i) \cap StateAtEnd(i)
                                   /\ EventOf(log, n) \in states
  <2>1. LastIs(log, StateOf(i), StateAtEnd(i))
    BY <1>1 DEF StatesLogged
  <2>2. B(i) # {} /\ \E n \in DOMAIN log : /\ log[n] \in StateOf(i) \cap StateAtEnd(i)
                                           /\ Latest(B(i)) = EventOf(log, n)
    BY <2>1, LatestOfInterceptor
  <2>3. PICK e \in Stating : e.interceptor_id = i
    BY <2>2
  <2>4. Latest(B(i)) \in states
    BY <1>2, <2>3
  <2>5. QED
    BY <2>2, <2>4
\* Who flies is shown with its target.
<1>5. ASSUME NEW i \in Interceptors, Engaged(i)
      PROVE  /\ <<i, target[i]>> \in {<<a.interceptor_id, a.track_id>> : a \in active}
             /\ \E e \in states : e.interceptor_id = i /\ e.engaged /\ e.track_id = target[i]
  <2>1. LastIs(log, AssignmentOf(i), UnhitSince(log, target[i]))
    BY <1>1, <1>5 DEF FlightsLogged
  <2>2. A(i) # {} /\ \E n \in DOMAIN log :
                       /\ log[n] \in AssignmentOf(i) \cap UnhitSince(log, target[i])
                       /\ Latest(A(i)) = EventOf(log, n)
    BY <2>1, LatestOfInterceptor
  <2>3. PICK n \in DOMAIN log : /\ log[n] \in AssignmentOf(i) \cap UnhitSince(log, target[i])
                                /\ Latest(A(i)) = EventOf(log, n)
    BY <2>2
  <2> DEFINE a == EventOf(log, n)
  <2>4. /\ a.interceptor_id = i /\ a.track_id = target[i] /\ a.t_s = log[n].t_s
        /\ log[n].t_s \in Nat
    BY <1>1, <2>3, EventFields DEF AssignmentOf, UnhitSince, LogLine
  <2>5. ~Intercepted(Dataset, a, now)
    <3> SUFFICES ASSUME NEW e \in TypedAt(Dataset, "intercept_event", now),
                        e.track_id = a.track_id, e.t_s >= a.t_s
                 PROVE  FALSE
      BY DEF Intercepted
    <3>1. PICK m \in DOMAIN log : log[m] \in Hits /\ e = EventOf(log, m)
      BY HitsShown
    <3>2. log[m].track_id = target[i] /\ log[m].t_s >= log[n].t_s /\ log[m].t_s \in Nat
      BY <1>1, <2>4, <3>1, EventFields DEF LogLine
    <3>3. log[m].t_s < log[n].t_s
      BY <2>3, <3>1, <3>2 DEF UnhitSince
    <3>4. QED
      BY <2>4, <3>2, <3>3
  <2>6. PICK e \in Assigning : e.interceptor_id = i
    BY <2>2
  <2>7. a \in active
    BY <1>3, <2>3, <2>5, <2>6
  <2>8. PICK k \in DOMAIN log : /\ log[k] \in StateOf(i) \cap StateAtEnd(i)
                                /\ EventOf(log, k) \in states
    BY <1>4
  <2>9. /\ EventOf(log, k).interceptor_id = i /\ EventOf(log, k).engaged = TRUE
        /\ EventOf(log, k).track_id = target[i]
    BY <1>1, <1>5, <2>8, EventFields DEF StateOf, StateAtEnd
  <2>10. QED
    BY <2>4, <2>7, <2>8, <2>9
\* What else is assigned is shown idle.
<1>6. ASSUME NEW a \in active, target[a.interceptor_id] # a.track_id
      PROVE  \E e \in states : e.interceptor_id = a.interceptor_id /\ ~e.engaged
  <2>1. PICK e \in Assigning : a = Latest(A(e.interceptor_id)) /\ ~Intercepted(Dataset, a, now)
    BY <1>3
  <2> DEFINE i == e.interceptor_id
  <2>2. i \in Interceptors
    <3>1. PICK n \in DOMAIN log : e = EventOf(log, n) /\ e.type = "assignment_event"
      BY EventsNow DEF Assigning
    <3>2. /\ log[n] \in LogLine /\ log[n].type = "assignment_event"
          /\ log[n].interceptor_id = i
      BY <1>1, <3>1, EventFields
    <3>3. i # 0
      BY DEF Assigning
    <3>4. QED
      BY <3>2, <3>3 DEF LogLine
  <2>3. A(i) # {}
    OBVIOUS
  <2> HIDE DEF i
  <2>4. LastIs(log, AssignmentOf(i), AssignmentOf(i))
    BY <1>1, <2>2, <2>3, LatestOfInterceptor, LastOfAll
  <2>5. PICK n \in DOMAIN log : log[n] \in AssignmentOf(i) /\ a = EventOf(log, n)
    BY <2>1, <2>2, <2>4, LatestOfInterceptor DEF i
  <2>6. a.interceptor_id = i /\ a.t_s \in Nat /\ a.t_s <= now
    <3>1. /\ EventOf(log, n).interceptor_id = log[n].interceptor_id
          /\ EventOf(log, n).t_s = log[n].t_s
      BY <1>1, EventFields
    <3>2. log[n].interceptor_id = i /\ log[n].t_s \in Nat
      BY <2>5 DEF AssignmentOf, LogLine
    <3>3. EventOf(log, n).t_s <= now
      BY EventsNow
    <3>4. QED
      BY <2>5, <3>1, <3>2, <3>3
  <2>7. ~Engaged(i)
    <3> SUFFICES ASSUME Engaged(i) PROVE FALSE
      OBVIOUS
    <3>1. LastIs(log, AssignmentOf(i), UnhitSince(log, target[i]))
      BY <1>1, <2>2 DEF FlightsLogged
    <3>2. PICK m \in DOMAIN log : /\ log[m] \in UnhitSince(log, target[i])
                                  /\ a = EventOf(log, m)
      BY <2>1, <2>2, <3>1, LatestOfInterceptor DEF i
    <3>3. a.track_id = target[i]
      BY <1>1, <3>2, EventFields DEF UnhitSince
    <3>4. QED
      BY <1>6, <2>6, <3>3
  <2>8. PICK k \in DOMAIN log : /\ log[k] \in StateOf(i) \cap StateAtEnd(i)
                                /\ EventOf(log, k) \in states
    BY <1>4, <2>2
  <2>9. log[k].engaged # TRUE
    <3> SUFFICES ASSUME log[k].engaged = TRUE PROVE FALSE
      OBVIOUS
    <3> DEFINE x == log[k].track_id
    <3>1. /\ LastIs(log, AssignmentOf(i), LinesOn(x))
          /\ \E m \in DOMAIN log : log[m] \in Hits /\ log[m].track_id = x /\ log[m].t_s = now
      BY <2>7, <2>8 DEF StateAtEnd
    <3>2. PICK m \in DOMAIN log : log[m] \in LinesOn(x) /\ a = EventOf(log, m)
      BY <2>1, <2>2, <3>1, LatestOfInterceptor DEF i
    <3>3. a.track_id = x
      BY <1>1, <3>2, EventFields DEF LinesOn
    <3>4. PICK h \in DOMAIN log : log[h] \in Hits /\ log[h].track_id = x /\ log[h].t_s = now
      BY <3>1
    <3>5. /\ EventOf(log, h) \in TypedAt(Dataset, "intercept_event", now)
          /\ EventOf(log, h).track_id = x /\ EventOf(log, h).t_s = now
      BY <1>1, <3>4, EventFields, HitsShown
    <3>6. Intercepted(Dataset, a, now)
      BY <1>1, <2>6, <3>3, <3>5 DEF Intercepted
    <3>7. QED
      BY <2>1, <3>6
  <2>10. /\ EventOf(log, k).interceptor_id = i
         /\ EventOf(log, k).engaged = log[k].engaged /\ log[k].engaged \in BOOLEAN
    BY <1>1, <2>8, EventFields DEF StateOf, LogLine
  <2>11. QED
    BY <2>6, <2>8, <2>9, <2>10
<1>7. QED
  BY <1>5, <1>6 DEF ShowsFlights, states, active

\* Only hits of the same pass are newer than a hit.
LEMMA HitsAreInTheFeed ==
  ASSUME LogInv, PassIsLogged
  PROVE  FeedShowsHits(Dataset)
<1> DEFINE hits == {e \in TypedAt(Dataset, "intercept_event", now) : e.t_s = now}
           visible == {e \in Dataset.events : e.type \in VisibleTypes /\ IsAtOrBefore(e, now)}
           newer(e) == {f \in visible : Before(e, f)}
<1> SUFFICES ASSUME Cardinality(hits) <= FeedLimit, NEW e \in hits
             PROVE  e \in visible /\ Cardinality(newer(e)) < FeedLimit
  BY DEF FeedShowsHits, RecentEvents
<1>1. /\ log \in Seq(LogLine) /\ HitsAtEnd /\ now \in Nat
      /\ Dataset.events = {EventOf(log, n) : n \in DOMAIN log}
      /\ \A n \in DOMAIN log : EventOf(log, n).t_s <= now
  BY EventsNow DEF LogInv, PassIsLogged
<1>2. PICK n \in DOMAIN log : log[n] \in Hits /\ e = EventOf(log, n)
  BY HitsShown
<1>3. /\ e.type = "intercept_event" /\ e.t_s = now /\ log[n].t_s = now
      /\ e.lineNumber = n /\ n \in Nat
  BY <1>1, <1>2, EventFields DEF Hits
<1>4. e \in visible
  BY <1>1, <1>2, <1>3 DEF VisibleTypes, IsAtOrBefore
<1>5. ASSUME NEW f \in newer(e) PROVE f \in hits \ {e}
  <2>1. PICK m \in DOMAIN log : f = EventOf(log, m)
    BY <1>1, <1>5
  <2>2. /\ f.t_s = log[m].t_s /\ log[m].t_s \in Nat /\ f.lineNumber = m /\ m \in Nat
        /\ f.t_s <= now
    BY <1>1, <2>1, EventFields DEF LogLine
  <2>3. f.t_s = now /\ m > n
    BY <1>1, <1>3, <1>5, <2>2 DEF Before
  <2>4. log[m] \in Hits
    BY <1>1, <1>2, <1>3, <2>3 DEF HitsAtEnd, PassIsLogged
  <2>5. f \in TypedAt(Dataset, "intercept_event", now)
    BY <2>1, <2>4, HitsShown
  <2>6. f # e
    BY <1>3, <2>2, <2>3
  <2>7. QED
    BY <2>3, <2>5, <2>6
<1>6. IsFiniteSet(hits)
  <2>1. IsFiniteSet(DOMAIN log)
    BY <1>1, FS_Interval
  <2> DEFINE g == [m \in DOMAIN log |-> EventOf(log, m)]
  <2>2. IsFiniteSet({EventOf(log, m) : m \in DOMAIN log})
    <3>1. g \in Surjection(DOMAIN log, {EventOf(log, m) : m \in DOMAIN log})
      BY DEF Surjection
    <3> HIDE DEF g
    <3>2. QED
      BY <2>1, <3>1, FS_Surjection
  <2>3. hits \in SUBSET {EventOf(log, m) : m \in DOMAIN log}
    BY HitsShown
  <2>4. QED
    BY <2>2, <2>3, FS_Subset
<1> HIDE DEF hits, visible, newer
<1>7. /\ IsFiniteSet(hits \ {e}) /\ Cardinality(hits \ {e}) = Cardinality(hits) - 1
      /\ Cardinality(hits) \in Nat
  BY <1>6, FS_RemoveElement, FS_CardinalityType
<1>8. newer(e) \subseteq hits \ {e}
  BY <1>5
<1>9. Cardinality(newer(e)) \in Nat /\ Cardinality(newer(e)) <= Cardinality(hits \ {e})
  BY <1>7, <1>8, FS_Subset, FS_CardinalityType
<1>10. QED
  BY <1>4, <1>7, <1>9, ReplayLogAssumption

\* At the end of a pass the console shows the tracks there are, with their status;
\* one that radar has just missed never as well-tracked.
THEOREM TracksOfFrame == LogSpec => []FrameShowsTracks
BY LogInvariance, TracksAreShown, PTL

\* At the end of a pass the console shows who flies at what, as engaged and as
\* assigned, and the hits of the pass.
THEOREM FlightsOfFrame == LogSpec => []FrameShowsFlights
<1>1. LogInv => FrameShowsFlights
  BY FlightsAreShown, HitsAreInTheFeed DEF FrameShowsFlights
<1>2. QED
  BY <1>1, LogInvariance, PTL

-----------------------------------------------------------------------------
(***************************************************************************)
(* The past of a log.                                                      *)
(***************************************************************************)
\* Lines of later passes leave the frame of a time as it is.
LEMMA FrameOfPast ==
  ASSUME NEW s \in Seq(LogLine), NEW T \in Seq(LogLine), NEW t \in Nat,
         \A n \in DOMAIN T : PassOf(T[n]) > t, NEW limit
  PROVE  FrameAt(ParseReplayJsonl(s \o T), t, limit) = FrameAt(ParseReplayJsonl(s), t, limit)
<1> DEFINE r == s \o T
           d == ParseReplayJsonl(s)
           e == ParseReplayJsonl(r)
           old == {EventOf(s, n) : n \in DOMAIN s}
           new == {EventOf(r, n) : n \in DOMAIN r}
<1>1. /\ r \in Seq(LogLine)
      /\ \A k \in DOMAIN s : k \in DOMAIN r /\ r[k] = s[k]
      /\ \A k \in DOMAIN r : k \in DOMAIN s \/ \E l \in DOMAIN T : r[k] = T[l]
  BY BothParts
<1> HIDE DEF r
<1>2. ASSUME NEW f, f.type # "measurement", f.t_s <= t PROVE f \in new <=> f \in old
  <2>1. \A k \in DOMAIN s : EventOf(r, k) = EventOf(s, k)
    BY <1>1 DEF EventOf
  <2>2. f \in old => f \in new
    BY <1>1, <2>1
  <2>3. ASSUME f \in new PROVE f \in old
    <3>1. PICK k \in DOMAIN r : f = EventOf(r, k)
      BY <2>3
    <3>2. r[k].type # "measurement" /\ r[k].t_s <= t /\ r[k].t_s \in Nat
      BY <1>1, <1>2, <3>1, EventFields DEF LogLine
    <3>3. PassOf(r[k]) <= t
      BY <3>2 DEF PassOf
    <3>4. ASSUME NEW l \in DOMAIN T, r[k] = T[l] PROVE FALSE
      BY <3>2, <3>3, <3>4 DEF PassOf
    <3>5. QED
      BY <1>1, <2>1, <3>1, <3>4
  <2>4. QED
    BY <2>2, <2>3
<1> HIDE DEF old, new, d, e
<1>3. /\ d.events = old /\ e.events = new
      /\ \A type : type # "measurement" =>
           {x \in new : x.type = type /\ x.t_s <= t} = {x \in old : x.type = type /\ x.t_s <= t}
  <2>1. d.events = old /\ e.events = new
    BY <1>1, EventsOfLog DEF d, e, old, new
  <2>2. QED
    BY <1>2, <2>1
<1>4. /\ TypedAt(e, "track_event", t) = TypedAt(d, "track_event", t)
      /\ TypedAt(e, "track_stability_event", t) = TypedAt(d, "track_stability_event", t)
      /\ TypedAt(e, "interceptor_state", t) = TypedAt(d, "interceptor_state", t)
      /\ TypedAt(e, "assignment_event", t) = TypedAt(d, "assignment_event", t)
      /\ TypedAt(e, "intercept_event", t) = TypedAt(d, "intercept_event", t)
      /\ TypedAt(e, "bt_decision", t) = TypedAt(d, "bt_decision", t)
  <2> DEFINE Of(E, type) == {x \in E : x.type = type /\ x.t_s <= t}
  <2>1. /\ TypedAt(d, "track_event", t) = Of(old, "track_event")
        /\ TypedAt(d, "track_stability_event", t) = Of(old, "track_stability_event")
        /\ TypedAt(d, "interceptor_state", t) = Of(old, "interceptor_state")
        /\ TypedAt(d, "assignment_event", t) = Of(old, "assignment_event")
        /\ TypedAt(d, "intercept_event", t) = Of(old, "intercept_event")
        /\ TypedAt(d, "bt_decision", t) = Of(old, "bt_decision")
    BY EventsOfLog DEF d, old
  <2>2. /\ TypedAt(e, "track_event", t) = Of(new, "track_event")
        /\ TypedAt(e, "track_stability_event", t) = Of(new, "track_stability_event")
        /\ TypedAt(e, "interceptor_state", t) = Of(new, "interceptor_state")
        /\ TypedAt(e, "assignment_event", t) = Of(new, "assignment_event")
        /\ TypedAt(e, "intercept_event", t) = Of(new, "intercept_event")
        /\ TypedAt(e, "bt_decision", t) = Of(new, "bt_decision")
    BY <1>1, EventsOfLog, SMTT(30) DEF e, new
  <2>3. \A type : type # "measurement" => Of(new, type) = Of(old, type)
    BY <1>3
  <2> HIDE DEF Of
  <2>4. QED
    BY <2>1, <2>2, <2>3
<1>5. RecentEvents(e, t, limit) = RecentEvents(d, t, limit)
  <2> DEFINE V(E) == {x \in E : x.type \in VisibleTypes /\ x.t_s <= t}
  <2>1. "measurement" \notin VisibleTypes
    BY DEF VisibleTypes
  <2>2. V(new) = V(old)
    BY <1>2, <2>1
  <2>3. V(e.events) = V(d.events)
    BY <1>3, <2>2
  <2>4. QED
    BY <2>3 DEF RecentEvents, IsAtOrBefore
<1>6. ActiveTracks(e, t) = ActiveTracks(d, t)
  <2>1. \A id : TrackSeed(e, id, t) = TrackSeed(d, id, t)
    BY <1>4 DEF TrackSeed
  <2>2. QED
    BY <1>4, <2>1 DEF ActiveTracks
<1>7. ActiveInterceptors(e, t) = ActiveInterceptors(d, t)
  BY <1>4 DEF ActiveInterceptors
<1>8. ActiveAssignments(e, t) = ActiveAssignments(d, t)
  BY <1>4 DEF ActiveAssignments, Intercepted
<1>9. FrameAt(e, t, limit) = FrameAt(d, t, limit)
  BY <1>4, <1>5, <1>6, <1>7, <1>8 DEF FrameAt
<1>10. QED
  BY <1>9 DEF d, e, r

\* A line that is torn is no event.
LEMMA TornIsNoEvent ==
  ASSUME NEW s \in Seq(LogLine)
  PROVE  ParseReplayJsonl(Append(s, Torn)) = ParseReplayJsonl(s)
<1> DEFINE r == Append(s, Torn)
<1>1. /\ Len(s) \in Nat /\ DOMAIN s = 1..Len(s)
      /\ DOMAIN r = 1..Len(s) + 1 /\ r[Len(s) + 1] = Torn
      /\ \A k \in DOMAIN s : r[k] = s[k]
  OBVIOUS
<1> HIDE DEF r
<1>2. {m \in DOMAIN r : IsJsonObject(r[m])} = {m \in DOMAIN s : IsJsonObject(s[m])}
  <2>1. ~IsJsonObject(Torn)
    BY DEF IsJsonObject
  <2>2. QED
    BY <1>1, <2>1
<1>3. ParseReplayEvents(r) = ParseReplayEvents(s)
  BY <1>1, <1>2 DEF ParseReplayEvents
<1>4. QED
  BY <1>3 DEF ParseReplayJsonl, r

\* A crash leaves the lines of earlier passes.
LEMMA CrashKeepsPast ==
  ASSUME LogInv, Crash, NEW t \in 1..now' - 1, NEW limit
  PROVE  FrameAt(ParseReplayJsonl(log'), t, limit) = FrameAt(ParseReplayJsonl(log), t, limit)
<1>1. /\ log \in Seq(LogLine) /\ InPassOrder(log, now)
      /\ now \in Nat /\ now > 0 /\ now' = now
  BY DEF Crash, PassIsLogged, LogInv, LogTypeOK
<1>2. PICK n \in 0..Len(log) - 1 :
        OfThisPass(log[n + 1]) /\ log' = Append(SubSeq(log, 1, n), Torn)
  BY DEF Crash
<1> DEFINE s == SubSeq(log, 1, n)
           T == SubSeq(log, n + 1, Len(log))
<1>3. Len(log) \in Nat /\ n \in Nat /\ n + 1 \in DOMAIN log /\ DOMAIN log = 1..Len(log)
  BY <1>1, <1>2
<1>4. s \in Seq(LogLine) /\ T \in Seq(LogLine) /\ log = s \o T
  <2>1. \A k \in 1..Len(log) : log[k] \in LogLine
    BY <1>1
  <2>2. s \in Seq(LogLine)
    BY <1>2, <1>3, <2>1, SubSeqProperties
  <2>3. T \in Seq(LogLine)
    BY <1>2, <1>3, <2>1, SubSeqProperties
  <2>4. s \o T = SubSeq(log, 1, Len(log))
    <3>1. 1 \in 1..Len(log) + 1 /\ n \in 0..Len(log) /\ Len(log) \in n..Len(log)
      BY <1>2, <1>3
    <3>2. QED
      BY <1>1, <3>1, ConcatAdjacentSubSeq, SMTT(30)
  <2>5. SubSeq(log, 1, Len(log)) = log
    BY <1>1, SubSeqFull
  <2>6. QED
    BY <2>2, <2>3, <2>4, <2>5
<1>5. ASSUME NEW k \in DOMAIN T PROVE PassOf(T[k]) > t
  <2>1. k \in 1..Len(log) - n /\ T[k] = log[n + k] /\ n + k \in DOMAIN log
    BY <1>2, <1>3, SMTT(30)
  <2>2. PassOf(log[n + 1]) = now
    BY <1>1, <1>2 DEF OfThisPass, PassOf
  <2>3. PassOf(log[n + k]) \in Nat
    <3>1. log[n + k] \in LogLine
      BY <1>1, <2>1
    <3>2. QED
      BY <3>1 DEF LogLine, PassOf
  <2>4. PassOf(log[n + 1]) <= PassOf(log[n + k])
    BY <1>1, <1>3, <2>1, <2>2, <2>3, SMTT(30) DEF InPassOrder
  <2>5. QED
    BY <1>1, <2>1, <2>2, <2>3, <2>4
<1> HIDE DEF s, T
<1>6. ParseReplayJsonl(log') = ParseReplayJsonl(s)
  BY <1>2, <1>4, TornIsNoEvent DEF s
<1>7. t \in Nat
  BY <1>1
<1>8. FrameAt(ParseReplayJsonl(s \o T), t, limit) = FrameAt(ParseReplayJsonl(s), t, limit)
  BY <1>4, <1>5, <1>7, FrameOfPast
<1>9. QED
  BY <1>4, <1>6, <1>8

LEMMA GrowingKeepsPast ==
  ASSUME LogInv, LogInv', phase # "crashed", phase' # "crashed", LogGrows,
         NEW t \in Nat, t < now', NEW limit
  PROVE  FrameAt(ParseReplayJsonl(log'), t, limit) = FrameAt(ParseReplayJsonl(log), t, limit)
<1>1. log \in Seq(LogLine) /\ now' \in Nat
  BY DEF LogInv, LogTypeOK
<1>2. PICK T \in Seq(LogLine) : log' = log \o T /\ \A n \in DOMAIN T : PassOf(T[n]) >= now'
  BY DEF LogGrows
<1>3. ASSUME NEW n \in DOMAIN T PROVE PassOf(T[n]) > t
  <2>1. T[n] \in LogLine
    OBVIOUS
  <2>2. PassOf(T[n]) \in Nat
    BY <2>1 DEF LogLine, PassOf
  <2>3. QED
    BY <1>1, <1>2, <2>2
<1>4. FrameAt(ParseReplayJsonl(log \o T), t, limit) = FrameAt(ParseReplayJsonl(log), t, limit)
  BY <1>1, <1>3, FrameOfPast
<1>5. QED
  BY <1>2, <1>4

\* What the console shows of a past time, and of the pass just finished, stays,
\* whatever is logged, and through a crash that cuts the log off.
THEOREM PastStaysFixed == LogSpec => PastIsFixed
<1> DEFINE Fixed ==
      LET before == Dataset
          after == ParseReplayJsonl(log')
      IN  log' # log =>
            \A t \in 1..now' - 1 :
              FrameAt(after, t, FeedLimit) = FrameAt(before, t, FeedLimit)
<1>1. LogInv /\ [LogNext]_logVars => [Fixed]_logVars
  <2> SUFFICES ASSUME LogInv, LogNext, log' # log, NEW t \in 1..now' - 1
               PROVE  FrameAt(ParseReplayJsonl(log'), t, FeedLimit)
                        = FrameAt(ParseReplayJsonl(log), t, FeedLimit)
    BY DEF Dataset
  <2>1. t \in Nat /\ (now' \in Nat => t < now')
    OBVIOUS
  <2>2. CASE LogReport
    <3>1. LogInv' /\ LogGrows
      BY <2>2, ReportIsLogged
    <3>2. phase # "crashed" /\ phase' # "crashed"
      BY <2>2 DEF LogReport, Report, Passes
    <3>3. QED
      BY <2>1, <3>1, <3>2, GrowingKeepsPast DEF LogInv, LogTypeOK
  <2>3. CASE LogOrder
    <3>1. LogInv' /\ LogGrows
      BY <2>3, OrderIsLogged
    <3>2. phase # "crashed" /\ phase' # "crashed"
      BY <2>3 DEF LogOrder, Order, Passes
    <3>3. QED
      BY <2>1, <3>1, <3>2, GrowingKeepsPast DEF LogInv, LogTypeOK
  <2>4. CASE LogFly
    BY <2>4 DEF LogFly
  <2>5. CASE LogResolve
    <3>1. LogInv' /\ LogGrows
      BY <2>5, ResolveIsLogged
    <3>2. phase # "crashed" /\ phase' # "crashed"
      BY <2>5 DEF LogResolve, Resolve, Passes
    <3>3. QED
      BY <2>1, <3>1, <3>2, GrowingKeepsPast DEF LogInv, LogTypeOK
  <2>6. CASE Crash
    BY <2>6, CrashKeepsPast
  <2>7. QED
    BY <2>2, <2>3, <2>4, <2>5, <2>6 DEF LogNext
<1>2. QED
  BY <1>1, LogInvariance, PTL DEF LogSpec, PastIsFixed

=============================================================================
