--------------------------- MODULE CaptureHarness ---------------------------
(***************************************************************************)
(* The headless capture harness (viewer/capture/harness.ts, started by     *)
(* viewer/capture/cli.ts): one browser page records the whole run, the     *)
(* bot's event stream brings marks and captures, a page that crashes is    *)
(* replaced while the run goes on, and whatever ends the run (its own last *)
(* mark, the stream, the cap on its length, a signal) leads to one upload. *)
(*                                                                         *)
(* One process with one thread: an action is what runs between two awaits. *)
(* The page, the browser and the bot act in between.  Pages are numbered   *)
(* in the order they are opened, frames by their place on the stream, and  *)
(* a recording is the sequence of the pages whose footage it holds.        *)
(***************************************************************************)
EXTENDS Naturals, Sequences, SequencesExt

CONSTANTS MaxFrames,    \* bound: frames the bot sends
          MaxCrashes    \* bound: crashes of a page

ASSUME BoundsAssumption == MaxFrames \in Nat /\ MaxCrashes \in Nat

VARIABLES
    pc,               \* where runHarness awaits
    sse,              \* the request of the stream and its promise "done"
    shutdownHandler,  \* what a shutdown request closes: "none" or "close"
    shutdownPending,  \* a shutdown was asked for before there was a handler
    signalled,        \* a signal has arrived (history)
    received,         \* kinds of the frames that arrived, in order (history)
    pending,          \* frames kept until the page is ready
    chain,            \* frames whose handler is chained behind the current one
    current,          \* the frame being handled, and at which of its awaits
    handled,          \* frames handled, in order (history)
    answer,           \* what the bot was told of each frame (history)
    page,             \* pageRef.page: its number, its state, its recording
    pageRecovering,   \* the step recoverPage is at
    browserUp,        \* the browser is connected
    crashes,          \* crashes so far (bound)
    videoSegments,    \* saved recordings of the pages that crashed
    videoUploaded,    \* uploadRunVideo has started
    footage,          \* "kept", "partly" or "lost" so far (history)
    shipped           \* pages whose footage is in the file of the run

vars == <<pc, sse, shutdownHandler, shutdownPending, signalled, received,
          pending, chain, current, handled, answer, page, pageRecovering,
          browserUp, crashes, videoSegments, videoUploaded, footage, shipped>>

stream == <<sse, shutdownHandler, shutdownPending, signalled>>
frames == <<received, pending, chain, current, handled, answer>>
video  == <<videoSegments, videoUploaded, footage, shipped>>
pages  == <<page, pageRecovering, browserUp, crashes>>

NoFrame == [frame |-> 0, at |-> "none", page |-> 0]

Running == pc \notin {"exited", "killed"}

Init ==
    /\ pc = "launch"
    /\ sse = "none" /\ shutdownHandler = "none"
    /\ shutdownPending = FALSE /\ signalled = FALSE
    /\ received = <<>> /\ pending = <<>> /\ chain = <<>> /\ handled = <<>>
    /\ answer = [f \in 1..MaxFrames |-> "none"] /\ current = NoFrame
    /\ page = [number |-> 1, state |-> "live", video |-> TRUE]
    /\ pageRecovering = "no" /\ browserUp = TRUE /\ crashes = 0
    /\ videoSegments = <<>> /\ videoUploaded = FALSE
    /\ footage = "kept" /\ shipped = <<>>

-----------------------------------------------------------------------------
(* The event stream.  Closing the request before its response has come     *)
(* makes it fail, and so does a refused connection: "done" is rejected,    *)
(* and only runHarness waiting at "stream" handles that.  Everywhere else  *)
(* the rejection is unhandled, which ends a Node process.  A response that *)
(* is cut off or ends resolves "done".                                     *)

SseFails ==
    /\ sse' = "rejected"
    /\ pc' = IF pc = "stream" THEN pc ELSE "killed"

CloseSse ==
    IF sse = "connecting" THEN SseFails
    ELSE /\ sse' = IF sse = "open" THEN "resolved" ELSE sse
         /\ UNCHANGED pc

SseResponds ==
    /\ Running /\ sse = "connecting"
    /\ sse' = "open"
    /\ UNCHANGED <<pc, shutdownHandler, shutdownPending, signalled>>
    /\ UNCHANGED <<frames, pages, video>>

SseRefused ==
    /\ Running /\ sse = "connecting"
    /\ SseFails
    /\ UNCHANGED <<shutdownHandler, shutdownPending, signalled>>
    /\ UNCHANGED <<frames, pages, video>>

BotCloses ==
    /\ Running /\ sse = "open"
    /\ sse' = "resolved"
    /\ UNCHANGED <<pc, shutdownHandler, shutdownPending, signalled>>
    /\ UNCHANGED <<frames, pages, video>>

\* The cap on the length of the recording is armed with the stream and
\* cleared once runHarness unwinds.
CapTimer ==
    /\ pc \in {"load", "stream", "drain", "tail"}
    /\ CloseSse
    /\ UNCHANGED <<shutdownHandler, shutdownPending, signalled>>
    /\ UNCHANGED <<frames, pages, video>>

\* SIGTERM or SIGINT: the request goes to the handler, or is remembered.
RequestHarnessShutdown ==
    /\ Running /\ ~signalled
    /\ signalled' = TRUE
    /\ IF shutdownHandler = "close"
       THEN CloseSse /\ UNCHANGED shutdownPending
       ELSE shutdownPending' = TRUE /\ UNCHANGED <<pc, sse>>
    /\ UNCHANGED <<shutdownHandler, frames, pages, video>>

\* A frame is kept while the page loads and chained once it is ready.
Enqueue ==
    /\ Running /\ sse = "open" /\ Len(received) < MaxFrames
    /\ \E kind \in {"mark", "capture", "runEnd"} :
          received' = Append(received, kind)
    /\ IF pc \in {"stream", "drain", "tail"}
       THEN chain' = Append(chain, Len(received')) /\ UNCHANGED pending
       ELSE pending' = Append(pending, Len(received')) /\ UNCHANGED chain
    /\ UNCHANGED <<current, handled, answer, pc, stream, pages, video>>

-----------------------------------------------------------------------------
(* Handling the frames, one after another.  A frame waits for a recovery   *)
(* under way and is then tied to the page of that moment.                  *)

PageAnswers(n) == browserUp /\ page.number = n /\ page.state = "live"

FrameCanStart ==
    /\ pc \in {"stream", "drain"}
    /\ current = NoFrame /\ chain # <<>>
    /\ pageRecovering = "no"

Finish(f, how) ==
    /\ handled' = Append(handled, f)
    /\ answer' = [answer EXCEPT ![f] = how]

\* A mark is noted at once; the still of a failed test is best-effort.  The
\* last mark of the run closes the stream.
HandleMark ==
    /\ FrameCanStart /\ received[Head(chain)] \in {"mark", "runEnd"}
    /\ chain' = Tail(chain)
    /\ Finish(Head(chain), "noted")
    /\ IF received[Head(chain)] = "runEnd" THEN CloseSse ELSE UNCHANGED <<sse, pc>>
    /\ UNCHANGED <<shutdownHandler, shutdownPending, signalled>>
    /\ UNCHANGED <<received, pending, current, pages, video>>

StartCapture ==
    /\ FrameCanStart /\ received[Head(chain)] = "capture"
    /\ chain' = Tail(chain)
    /\ current' = [frame |-> Head(chain), at |-> "gate", page |-> page.number]
    /\ UNCHANGED <<received, pending, handled, answer, pc, stream, pages, video>>

\* The awaits of a capture: the wanted tick (or its timeout), the settling of
\* the scene, which is only waited for, and the picture.  Any error leads to
\* the report of a failure.
CaptureStep ==
    /\ current.at \in {"gate", "settle", "shoot"}
    /\ \/ /\ PageAnswers(current.page)
          /\ current' = [current EXCEPT !.at =
                            CASE @ = "gate" -> "settle"
                              [] @ = "settle" -> "shoot"
                              [] @ = "shoot" -> "post"]
       \/ current' = [current EXCEPT !.at = IF @ = "settle" THEN "shoot" ELSE "report"]
    /\ UNCHANGED <<received, pending, chain, handled, answer, pc, stream, pages, video>>

\* Mutant: a still the bot does not take is only logged.
MutantErrorSwallowed ==
    /\ current.at = "post"
    /\ \E how \in {"still", "swallowed"} : Finish(current.frame, how)
    /\ current' = NoFrame
    /\ UNCHANGED <<received, pending, chain, pc, stream, pages, video>>

PostArtifact ==
    /\ current.at = "post"
    /\ \/ Finish(current.frame, "still") /\ current' = NoFrame
       \/ current' = [current EXCEPT !.at = "report"] /\ UNCHANGED <<handled, answer>>
    /\ UNCHANGED <<received, pending, chain, pc, stream, pages, video>>

PostCaptureError ==
    /\ current.at = "report"
    /\ \E how \in {"error", "lost"} : Finish(current.frame, how)
    /\ current' = NoFrame
    /\ UNCHANGED <<received, pending, chain, pc, stream, pages, video>>

-----------------------------------------------------------------------------
(* The page.  A crash starts a recovery unless one is going on or the run  *)
(* is being uploaded.                                                      *)

PageIs(state, recording) ==
    page' = [number |-> page.number, state |-> state, video |-> recording]

Crash ==
    /\ Running /\ browserUp
    /\ page.state = "live" /\ crashes < MaxCrashes
    /\ crashes' = crashes + 1
    /\ PageIs("crashed", page.video)
    /\ pageRecovering' = IF pageRecovering = "no" /\ ~videoUploaded
                         THEN "save" ELSE pageRecovering
    /\ UNCHANGED <<browserUp, pc, stream, frames, video>>

Disconnect ==
    /\ Running /\ browserUp
    /\ browserUp' = FALSE
    /\ UNCHANGED <<page, pageRecovering, crashes, pc, stream, frames, video>>

\* Mutant: the segments are listed newest first.
MutantNewestFirst ==
    /\ pc # "killed" /\ pageRecovering = "save"
    /\ \/ /\ browserUp
          /\ PageIs("closed", FALSE)
          /\ videoSegments' = <<page.number>> \o videoSegments
          /\ UNCHANGED footage
       \/ /\ footage' = "lost"
          /\ PageIs("closed", page.video)
          /\ UNCHANGED videoSegments
    /\ pageRecovering' = "open"
    /\ UNCHANGED <<browserUp, crashes, videoUploaded, shipped, pc, stream, frames>>

\* The recording of the dead page is saved and its original deleted, or
\* saving fails, which is only logged.
SaveSegment ==
    /\ pc # "killed" /\ pageRecovering = "save"
    /\ \/ /\ browserUp
          /\ PageIs("closed", FALSE)
          /\ \/ /\ videoSegments' = Append(videoSegments, page.number)
                /\ UNCHANGED footage
             \/ footage' = "lost" /\ UNCHANGED videoSegments   \* an empty file
       \/ /\ footage' = "lost"
          /\ PageIs("closed", page.video)
          /\ UNCHANGED videoSegments
    /\ pageRecovering' = "open"
    /\ UNCHANGED <<browserUp, crashes, videoUploaded, shipped, pc, stream, frames>>

\* A fresh page replaces the dead one; one that cannot be opened ends the
\* recovery.
OpenFresh ==
    /\ pc # "killed" /\ pageRecovering = "open"
    /\ \/ /\ browserUp
          /\ page' = [number |-> page.number + 1, state |-> "live", video |-> TRUE]
          /\ pageRecovering' = "load"
       \/ pageRecovering' = "no" /\ UNCHANGED page
    /\ UNCHANGED <<browserUp, crashes, pc, stream, frames, video>>

\* Mutant: the wait for the world on the fresh page has no time limit.
MutantNoTimeLimit ==
    /\ pc # "killed" /\ pageRecovering = "load"
    /\ PageAnswers(page.number)
    /\ pageRecovering' = "no"
    /\ UNCHANGED <<page, browserUp, crashes, pc, stream, frames, video>>

\* The fresh page shows the world, or the wait ends in an error: either way
\* the recovery is over and the fresh page stays the page of the run.
Recovered ==
    /\ pc # "killed" /\ pageRecovering = "load"
    /\ pageRecovering' = "no"
    /\ UNCHANGED <<page, browserUp, crashes, pc, stream, frames, video>>

-----------------------------------------------------------------------------
(* runHarness.                                                             *)

\* The browser and its page are up, the stream is subscribed, the cap armed
\* and the handler of a shutdown set, which applies a remembered request.
Launch ==
    /\ pc = "launch"
    /\ shutdownHandler' = "close"
    /\ shutdownPending' = FALSE
    /\ sse' = IF shutdownPending THEN "rejected" ELSE "connecting"
    /\ pc' = IF shutdownPending THEN "killed" ELSE "load"
    /\ UNCHANGED <<signalled, frames, pages, video>>

\* The page shows the world: what arrived meanwhile is handled in order.
Ready ==
    /\ pc = "load" /\ PageAnswers(1)
    /\ pc' = "stream"
    /\ chain' = pending
    /\ pending' = <<>>
    /\ UNCHANGED <<received, current, handled, answer, stream, pages, video>>

\* Unwinding clears the handler of a shutdown and starts the one upload.
Unwind ==
    /\ pc' = "upload"
    /\ shutdownHandler' = "none"
    /\ videoUploaded' = TRUE
    /\ UNCHANGED <<videoSegments, footage, shipped>>
    /\ UNCHANGED <<sse, shutdownPending, signalled, frames, pages>>

\* The page could not be opened, crashed, or showed no world in time: the
\* run unwinds.
LoadFails == pc = "load" /\ Unwind

\* The stream is over; what is chained is handled to the end, and the page
\* is held open a little longer for the recorder.
StreamDone ==
    /\ pc = "stream" /\ sse \in {"resolved", "rejected"}
    /\ pc' = "drain"
    /\ UNCHANGED <<stream, frames, pages, video>>

\* Mutant: only the frames whose handler has not started are waited for.
MutantDrainsQueueOnly ==
    /\ pc = "drain" /\ chain = <<>>
    /\ pc' = "tail"
    /\ UNCHANGED <<stream, frames, pages, video>>

Drained ==
    /\ pc = "drain" /\ chain = <<>> /\ current = NoFrame
    /\ pc' = "tail"
    /\ UNCHANGED <<stream, frames, pages, video>>

TailFlushed == pc = "tail" /\ Unwind

\* uploadRunVideo: after a recovery under way, the page is closed so that
\* its recording is finalised.
CloseLastPage ==
    /\ pc = "upload" /\ pageRecovering = "no"
    /\ PageIs("closed", page.video)
    /\ pc' = "save"
    /\ UNCHANGED <<pageRecovering, browserUp, crashes, stream, frames, video>>

\* The recording of the last page is the file of the run, or its last
\* segment.  When the segments cannot be joined the largest is shipped; when
\* the last recording cannot be saved nothing is, and the saved segments are
\* deleted with the directory.
UploadRunVideo ==
    /\ pc = "save"
    /\ \/ /\ browserUp /\ page.video
          /\ \E empty \in IF videoSegments = <<>> THEN {FALSE} ELSE BOOLEAN :
                LET all == IF empty THEN videoSegments
                                    ELSE Append(videoSegments, page.number)
                    kept == IF empty THEN "lost" ELSE footage
                IN /\ videoSegments' = all
                   /\ \/ shipped' = all /\ footage' = kept
                      \/ /\ Len(all) > 1
                         /\ \E i \in DOMAIN all : shipped' = <<all[i]>>
                         /\ footage' = IF kept = "kept" THEN "partly" ELSE kept
       \/ footage' = "lost" /\ UNCHANGED <<videoSegments, shipped>>
    /\ pc' = "exited"
    /\ UNCHANGED <<videoUploaded, stream, frames, pages>>

-----------------------------------------------------------------------------
Internal ==
    \/ HandleMark \/ StartCapture \/ CaptureStep
    \/ PostArtifact \/ PostCaptureError
    \/ SaveSegment \/ OpenFresh \/ Recovered
    \/ Launch \/ Ready \/ LoadFails \/ StreamDone \/ Drained \/ TailFlushed
    \/ CloseLastPage \/ UploadRunVideo

Next ==
    \/ Internal
    \/ SseResponds \/ SseRefused \/ BotCloses \/ CapTimer
    \/ RequestHarnessShutdown \/ Enqueue \/ Crash \/ Disconnect

Spec == Init /\ [][Next]_vars

(* Every await of the harness ends: Playwright's calls and waits have time *)
(* limits, HTTP requests end or fail, and the cap on the recording fires.  *)
Fairness ==
    /\ WF_vars(HandleMark \/ StartCapture \/ CaptureStep
               \/ PostArtifact \/ PostCaptureError)
    /\ WF_vars(SaveSegment \/ OpenFresh \/ Recovered)
    /\ WF_vars(Launch \/ Ready \/ LoadFails \/ StreamDone \/ Drained \/ TailFlushed
               \/ CloseLastPage \/ UploadRunVideo)
    /\ WF_vars(SseResponds \/ SseRefused)
    /\ WF_vars(CapTimer)

FairSpec == Spec /\ Fairness

-----------------------------------------------------------------------------
Indices(s) == [i \in DOMAIN s |-> i]

(* Marks decide what is cut from the recording, so none may be lost, seen  *)
(* twice or out of order on the way through the queue of the page that     *)
(* loads, the chain and the recoveries, and the upload writes them down    *)
(* with every one that reached the chain in it: the stream that ends does  *)
(* not leave a handler behind (enqueue, onFrame, the end of runHarness).   *)
(* Frames still pending then are never handled: the page never loaded.     *)
AllMarksBeforeUpload ==
    LET busy == IF current = NoFrame THEN <<>> ELSE <<current.frame>>
    IN /\ handled \o busy \o chain \o pending = Indices(received)
       /\ pc \in {"tail", "upload", "save", "exited"} => busy \o chain = <<>>

(* As long as every recording can be saved, the file of the run holds the *)
(* footage of every page, each once and in the order they were opened,     *)
(* however many crashed and whenever; when only joining the segments       *)
(* fails, one of them is shipped (recoverPage, uploadRunVideo).            *)
FootageKept ==
    pc = "exited" =>
        /\ footage = "kept" => shipped = [i \in 1..page.number |-> i]
        /\ footage = "partly" => \E i \in 1..page.number : shipped = <<i>>

(* A capture that reached the chain is always answered, with a still or    *)
(* with an error (or the report itself is lost with the bot), whatever     *)
(* happens to the page, the browser or the stream: the bot's screenshot    *)
(* instruction waits for that (handleCapture).                             *)
CapturesAnswered ==
    \A f \in 1..MaxFrames :
        (f \in ToSet(chain) /\ received[f] = "capture") ~>
            (answer[f] \in {"still", "error", "lost"})

(* The harness always comes to an end, with its one upload behind it or    *)
(* killed by a stream that failed before the page was ready: no recovery,  *)
(* capture or upload keeps it waiting for ever (runHarness).               *)
HarnessEnds == <>(pc = "killed" \/ (pc = "exited" /\ videoUploaded))

(* What the command line tool says of a signal: "the runner can terminate  *)
(* this process at any point [...] With one, shutdown always runs the      *)
(* normal path" (viewer/capture/cli.ts:252-254).                           *)
ShutdownRunsNormalPath == signalled => pc # "killed"

=============================================================================
