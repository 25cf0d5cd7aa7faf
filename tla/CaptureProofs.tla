---------------------------- MODULE CaptureProofs ----------------------------
(***************************************************************************)
(* Theorems about CaptureHarness, for any number of frames and crashes: no *)
(* frame is lost, repeated or overtaken on its way to its handler and the  *)
(* upload waits for all of them; and as long as recordings can be saved    *)
(* the file of the run holds the footage of every page in its order.  And  *)
(* about Timelapse, whatever the marks and the plan: the recording is      *)
(* there, whatever fails while it is replaced.                             *)
(***************************************************************************)
EXTENDS Capture, TimelapseProofs, SequenceTheorems, TLAPS

PageRecord == [number : Nat \ {0}, state : {"live", "crashed", "closed"}, video : BOOLEAN]

States == {"launch", "load", "stream", "drain", "tail", "upload", "save",
           "exited", "killed"}

(* The frame at hand.                                                      *)
Busy == IF current = NoFrame THEN << >> ELSE <<current.frame>>

(* Frames are on one of their four places, in order; the place of the page *)
(* that loads and those of the page that is ready are never used together; *)
(* a run that drains has closed its stream for good.                       *)
QueueInv ==
    /\ pc \in States
    /\ received \in Seq({"mark", "capture", "runEnd"})
    /\ handled \in Seq(Nat) /\ chain \in Seq(Nat) /\ pending \in Seq(Nat)
    /\ current \in [frame : Nat, page : Nat,
                    at : {"none", "gate", "settle", "shoot", "post", "report"}]
    /\ current.at = "none" => current = NoFrame
    /\ page \in PageRecord
    /\ handled \o Busy \o chain \o pending = Indices(received)
    /\ pc \notin {"stream", "drain", "killed"} => chain = << >> /\ current = NoFrame
    /\ pc \in {"stream", "drain", "tail"} => pending = << >>
    /\ pc \in {"drain", "tail"} => sse \in {"resolved", "rejected"}

(* As long as nothing was lost the segments are the recordings of the      *)
(* pages before this one, and of this one too once it is saved.            *)
Pages(n) == [i \in 1..n |-> i]
FootageInv ==
    /\ page.state = "live" => page.video
    /\ pageRecovering \in {"no", "save", "open", "load"}
    /\ pageRecovering = "save" => page.video
    /\ pageRecovering = "open" /\ footage = "kept" => ~page.video
    /\ pc # "killed" => (videoUploaded <=> pc \in {"upload", "save", "exited"})
    /\ pc \in {"save", "exited"} => pageRecovering = "no" /\ page.state = "closed"
    /\ footage \in {"kept", "partly", "lost"}
    /\ footage = "partly" => pc = "exited"
    /\ footage = "kept" /\ pc # "exited" =>
         videoSegments = Pages(IF page.video THEN page.number - 1 ELSE page.number)

IInv == QueueInv /\ FootageInv /\ FootageKept
-----------------------------------------------------------------------------
(* The places of a frame as one sequence: what moving a frame from one to  *)
(* the next, and adding one at the end, does to it.                        *)
LEMMA HeadThenTail ==
    ASSUME NEW S, NEW s \in Seq(S), s # << >>
    PROVE  Head(s) \in S /\ Tail(s) \in Seq(S) /\ <<Head(s)>> \o Tail(s) = s
<1>1. Head(s) \in S /\ Tail(s) \in Seq(S) /\ 1 \in 1..Len(s) /\ Len(s) \in 1..Len(s)
    BY HeadTailProperties, EmptySeq
<1>2. SubSeq(s, 1, Len(s)) = <<s[1]>> \o SubSeq(s, 1 + 1, Len(s))
    BY <1>1, SubSeqRecursiveFirst
<1> QED BY <1>1, <1>2, SubSeqFull, TailIsSubSeq

LEMMA FinishOne ==
    ASSUME NEW h \in Seq(Nat), NEW c \in Seq(Nat), NEW p \in Seq(Nat), NEW f \in Nat
    PROVE  Append(h, f) \o << >> \o c \o p = h \o <<f>> \o c \o p
<1>1. Append(h, f) = h \o <<f>> /\ Append(h, f) \in Seq(Nat)
    BY AppendIsConcat, AppendProperties
<1> QED BY <1>1, ConcatEmptySeq

LEMMA TakeOne ==
    ASSUME NEW h \in Seq(Nat), NEW c \in Seq(Nat), NEW p \in Seq(Nat), c # << >>
    PROVE  h \o <<Head(c)>> \o Tail(c) \o p = h \o << >> \o c \o p
<1>1. Head(c) \in Nat /\ Tail(c) \in Seq(Nat) /\ <<Head(c)>> \o Tail(c) = c
      /\ <<Head(c)>> \in Seq(Nat)
    BY HeadThenTail
<1>2. (h \o <<Head(c)>>) \o Tail(c) = h \o (<<Head(c)>> \o Tail(c))
    BY <1>1, ConcatAssociative
<1>3. h \o << >> = h
    BY ConcatEmptySeq
<1> QED BY <1>1, <1>2, <1>3

LEMMA AddOne ==
    ASSUME NEW s \in Seq(Nat), NEW t \in Seq(Nat), NEW f \in Nat
    PROVE  s \o Append(t, f) = Append(s \o t, f)
<1>1. /\ Append(t, f) = t \o <<f>> /\ <<f>> \in Seq(Nat) /\ s \o t \in Seq(Nat)
    BY AppendIsConcat, ConcatProperties
<1>2. Append(s \o t, f) = (s \o t) \o <<f>>
    BY <1>1, AppendIsConcat
<1> QED BY <1>1, <1>2, ConcatAssociative

LEMMA IndicesGrow ==
    ASSUME NEW S, NEW s \in Seq(S), NEW e \in S
    PROVE  /\ Append(s, e) \in Seq(S)
           /\ Len(Append(s, e)) \in Nat
           /\ Indices(Append(s, e)) = Append(Indices(s), Len(Append(s, e)))
<1>1. /\ Append(s, e) \in Seq(S) /\ Len(Append(s, e)) = Len(s) + 1 /\ Len(s) \in Nat
    BY AppendProperties, LenProperties
<1>2. /\ Indices(s) = [i \in 1..Len(s) |-> i]
      /\ Indices(Append(s, e)) = [i \in 1..Len(s) + 1 |-> i]
    BY <1>1, LenProperties DEF Indices
<1>3. /\ [i \in 1..Len(s) |-> i] \in Seq(Nat) /\ Len([i \in 1..Len(s) |-> i]) = Len(s)
      /\ [i \in 1..Len(s) + 1 |-> i] \in Seq(Nat)
      /\ Len([i \in 1..Len(s) + 1 |-> i]) = Len(s) + 1
    BY <1>1
<1>4. [i \in 1..Len(s) + 1 |-> i] = Append([i \in 1..Len(s) |-> i], Len(s) + 1)
    <2> DEFINE a == [i \in 1..Len(s) |-> i]
               b == [i \in 1..Len(s) + 1 |-> i]
    <2>1. /\ Append(a, Len(s) + 1) \in Seq(Nat) /\ Len(Append(a, Len(s) + 1)) = Len(s) + 1
          /\ \A i \in 1..Len(s) : Append(a, Len(s) + 1)[i] = a[i]
          /\ Append(a, Len(s) + 1)[Len(s) + 1] = Len(s) + 1
        BY <1>1, <1>3, AppendProperties
    <2>2. \A i \in 1..Len(s) + 1 : b[i] = Append(a, Len(s) + 1)[i]
        BY <1>1, <2>1
    <2> QED BY <1>3, <2>1, <2>2, SeqEqual
<1> QED BY <1>1, <1>2, <1>4
-----------------------------------------------------------------------------
LEMMA QueueInit == Init => QueueInv
<1> SUFFICES ASSUME Init PROVE QueueInv
    OBVIOUS
<1>1. Indices(<< >>) = << >> /\ << >> \o << >> \o << >> \o << >> = << >>
    BY DEF Indices
<1> QED BY <1>1 DEF Init, QueueInv, Busy, NoFrame, States, PageRecord

LEMMA PageKept ==
    ASSUME page \in PageRecord,
           Crash \/ Disconnect \/ SaveSegment \/ OpenFresh \/ Recovered \/ CloseLastPage
    PROVE  page' \in PageRecord
<1>1. \/ page' = page
      \/ \E s \in {"crashed", "closed"}, v \in BOOLEAN : PageIs(s, v)
      \/ page' = [number |-> page.number + 1, state |-> "live", video |-> TRUE]
    BY DEF Crash, Disconnect, SaveSegment, OpenFresh, Recovered, CloseLastPage, PageRecord
<1>2. CASE \E s \in {"crashed", "closed"}, v \in BOOLEAN : PageIs(s, v)
    BY <1>2 DEF PageIs, PageRecord
<1>3. CASE page' = [number |-> page.number + 1, state |-> "live", video |-> TRUE]
    BY <1>3 DEF PageRecord
<1> QED BY <1>1, <1>2, <1>3

(* Whatever leaves the frames alone keeps their order.                     *)
LEMMA FramesKept ==
    ASSUME QueueInv, UNCHANGED frames, page' \in PageRecord, pc' \in States,
           pc' \notin {pc, "stream", "drain", "killed"} => chain = << >> /\ current = NoFrame,
           pc' \in {"stream", "drain", "tail"} \ {pc} => pending = << >>,
           pc' \in {"drain", "tail"} => sse' \in {"resolved", "rejected"}
    PROVE  QueueInv'
<1> QED BY DEF QueueInv, frames, Busy, NoFrame

LEMMA QueueNext == QueueInv /\ [Next]_vars => QueueInv'
<1> SUFFICES ASSUME QueueInv, [Next]_vars PROVE QueueInv'
    OBVIOUS
<1> USE DEF stream, video, pages, States
<1>0. /\ handled \in Seq(Nat) /\ chain \in Seq(Nat) /\ pending \in Seq(Nat)
      /\ Busy \in Seq(Nat)
    BY DEF QueueInv, Busy
<1>1. CASE SseResponds \/ BotCloses
    BY <1>1, FramesKept DEF QueueInv, SseResponds, BotCloses
<1>2. CASE SseRefused \/ CapTimer \/ RequestHarnessShutdown
    <2>1. /\ UNCHANGED <<frames, page>>
          /\ \/ CloseSse
             \/ SseFails /\ sse = "connecting"
             \/ UNCHANGED <<pc, sse>>
        BY <1>2 DEF SseRefused, CapTimer, RequestHarnessShutdown
    <2>2. /\ pc' \in {pc, "killed"}
          /\ pc \in {"drain", "tail"} => sse' \in {"resolved", "rejected"}
        <3>1. CASE UNCHANGED <<pc, sse>>
            BY <3>1 DEF QueueInv
        <3>2. CASE CloseSse
            BY <3>2 DEF CloseSse, SseFails, QueueInv
        <3>3. CASE SseFails /\ sse = "connecting"
            BY <3>3 DEF SseFails, QueueInv
        <3> QED BY <2>1, <3>1, <3>2, <3>3
    <2>3. page' \in PageRecord
        BY <2>1 DEF QueueInv
    <2> QED BY <2>1, <2>2, <2>3, FramesKept DEF QueueInv
<1>3. CASE Enqueue
    <2>1. PICK kind \in {"mark", "capture", "runEnd"} : received' = Append(received, kind)
        BY <1>3 DEF Enqueue
    <2> DEFINE f == Len(received')
    <2>2. /\ received' \in Seq({"mark", "capture", "runEnd"}) /\ f \in Nat
          /\ Indices(received') = Append(Indices(received), f)
        BY <2>1, IndicesGrow DEF QueueInv
    <2> HIDE DEF f
    <2>3. handled \o Busy \in Seq(Nat) /\ handled \o Busy \o chain \in Seq(Nat)
        BY ConcatProperties DEF QueueInv, Busy
    <2>4. CASE pc \in {"stream", "drain", "tail"}
        <3>1. chain' = Append(chain, f) /\ pending' = pending /\ pc = "stream"
              /\ UNCHANGED <<pc, sse, page, handled, current>>
            BY <1>3, <2>4 DEF Enqueue, QueueInv, f
        <3>2. pending = << >> /\ chain' \in Seq(Nat)
            BY <2>2, <2>4, <3>1, AppendProperties DEF QueueInv
        <3>3. handled \o Busy \o chain' = Append(handled \o Busy \o chain, f)
            BY <1>0, <2>2, <2>3, <3>1, AddOne
        <3>4. /\ handled \o Busy \o chain' \o << >> = handled \o Busy \o chain'
              /\ handled \o Busy \o chain \o << >> = handled \o Busy \o chain
            BY <2>2, <2>3, <3>3, AppendProperties, ConcatEmptySeq
        <3>5. handled \o Busy \o chain' \o pending' = Indices(received')
            BY <2>2, <3>1, <3>2, <3>3, <3>4 DEF QueueInv
        <3> QED BY <2>2, <3>1, <3>2, <3>5 DEF QueueInv, Busy
    <2>5. CASE pc \notin {"stream", "drain", "tail"}
        <3>1. pending' = Append(pending, f) /\ chain' = chain
              /\ UNCHANGED <<pc, sse, page, handled, current>>
            BY <1>3, <2>5 DEF Enqueue, f
        <3>2. pending' \in Seq(Nat)
            BY <2>2, <3>1, AppendProperties DEF QueueInv
        <3>3. handled \o Busy \o chain \o pending' = Append(handled \o Busy \o chain \o pending, f)
            BY <1>0, <2>2, <2>3, <3>1, AddOne
        <3> QED BY <2>2, <2>5, <3>1, <3>2, <3>3 DEF QueueInv, Busy
    <2> QED BY <2>4, <2>5
<1>4. CASE HandleMark
    <2> DEFINE f == Head(chain)
    <2>1. /\ chain # << >> /\ current = NoFrame /\ pc \in {"stream", "drain"}
          /\ handled' = Append(handled, f) /\ chain' = Tail(chain)
          /\ CloseSse \/ UNCHANGED <<sse, pc>>
          /\ UNCHANGED <<received, pending, current, page>>
        BY <1>4 DEF HandleMark, FrameCanStart, Finish
    <2>2. f \in Nat /\ chain' \in Seq(Nat) /\ handled' \in Seq(Nat) /\ Tail(chain) \in Seq(Nat)
        BY <2>1, HeadThenTail, AppendProperties DEF QueueInv
    <2>3. handled' \o Busy' \o chain' \o pending' = handled \o Busy \o chain \o pending
        <3>1. Append(handled, f) \o << >> \o Tail(chain) \o pending
                = handled \o <<f>> \o Tail(chain) \o pending
            <4>1. f \in Nat /\ Tail(chain) \in Seq(Nat)
                BY <2>2
            <4> HIDE DEF f
            <4> QED BY <1>0, <4>1, FinishOne
        <3>2. handled \o <<f>> \o Tail(chain) \o pending = handled \o << >> \o chain \o pending
            BY <1>0, <2>1, TakeOne
        <3> QED BY <2>1, <3>1, <3>2 DEF Busy
    <2>4. pc' \in {pc, "killed"} /\ (pc \in {"drain", "tail"} => sse' \in {"resolved", "rejected"})
        <3>1. CASE CloseSse
            BY <3>1 DEF CloseSse, SseFails, QueueInv
        <3>2. CASE UNCHANGED <<sse, pc>>
            BY <3>2 DEF QueueInv
        <3> QED BY <2>1, <3>1, <3>2
    <2> QED BY <2>1, <2>2, <2>3, <2>4 DEF QueueInv
<1>5. CASE StartCapture
    <2> DEFINE f == Head(chain)
    <2>1. /\ chain # << >> /\ current = NoFrame /\ pc \in {"stream", "drain"}
          /\ chain' = Tail(chain)
          /\ current' = [frame |-> f, at |-> "gate", page |-> page.number]
          /\ UNCHANGED <<received, pending, handled, page, pc, sse>>
        BY <1>5 DEF StartCapture, FrameCanStart
    <2>2. f \in Nat /\ chain' \in Seq(Nat)
        BY <2>1, HeadThenTail DEF QueueInv
    <2>3. handled' \o Busy' \o chain' \o pending' = handled \o Busy \o chain \o pending
        BY <2>1, TakeOne DEF QueueInv, Busy, NoFrame
    <2>4. /\ current' \in [frame : Nat, page : Nat,
                           at : {"none", "gate", "settle", "shoot", "post", "report"}]
          /\ current'.at # "none"
        <3>1. page.number \in Nat
            BY DEF QueueInv, PageRecord
        <3> QED BY <2>1, <2>2, <3>1
    <2> QED BY <2>1, <2>2, <2>3, <2>4 DEF QueueInv
<1>6. ASSUME UNCHANGED <<received, pending, chain, handled, pc, sse, page>>,
             NEW at \in {"settle", "shoot", "post", "report"},
             current.at # "none", current' = [current EXCEPT !.at = at]
      PROVE  QueueInv'
    <2>1. current # NoFrame /\ current' # NoFrame /\ Busy' = Busy
        BY <1>6 DEF Busy, NoFrame, QueueInv
    <2>2. current' = [frame |-> current.frame, page |-> current.page, at |-> at]
        BY <1>6, Zenon DEF QueueInv
    <2>3. current' \in [frame : Nat, page : Nat,
                        at : {"none", "gate", "settle", "shoot", "post", "report"}]
          /\ current'.at # "none"
        BY <2>2 DEF QueueInv
    <2>4. /\ UNCHANGED <<received, pending, chain, handled, pc, sse, page>>
          /\ pc \in {"stream", "drain", "killed"}
        BY <1>6, <2>1 DEF QueueInv
    <2> QED BY <2>1, <2>3, <2>4 DEF QueueInv
<1>7. CASE CaptureStep
    <2>1. PICK at \in {"settle", "shoot", "post", "report"} : current' = [current EXCEPT !.at = at]
        BY <1>7, Zenon DEF CaptureStep
    <2> QED BY <1>6, <1>7, <2>1 DEF CaptureStep
<1>8. ASSUME NEW how, Finish(current.frame, how), current' = NoFrame,
             current.at \in {"post", "report"},
             UNCHANGED <<received, pending, chain, pc, sse, page>>
      PROVE  QueueInv'
    <2>1. current # NoFrame /\ current.frame \in Nat
        BY <1>8 DEF NoFrame, QueueInv
    <2>2. handled' = Append(handled, current.frame) /\ handled' \in Seq(Nat)
        BY <1>8, <2>1, AppendProperties DEF Finish, QueueInv
    <2>3. handled' \o Busy' \o chain' \o pending' = handled \o Busy \o chain \o pending
        BY <1>8, <2>1, <2>2, FinishOne DEF QueueInv, Busy
    <2> QED BY <1>8, <2>1, <2>2, <2>3 DEF QueueInv, NoFrame
<1>9. CASE PostArtifact \/ PostCaptureError
    BY <1>6, <1>8, <1>9 DEF PostArtifact, PostCaptureError
<1>10. CASE Crash \/ Disconnect \/ SaveSegment \/ OpenFresh \/ Recovered
    <2>1. UNCHANGED <<pc, sse, frames>>
        BY <1>10 DEF Crash, Disconnect, SaveSegment, OpenFresh, Recovered
    <2>2. page' \in PageRecord
        BY <1>10, PageKept DEF QueueInv
    <2> QED BY <2>1, <2>2, FramesKept DEF QueueInv
<1>11. CASE Launch \/ LoadFails \/ StreamDone \/ Drained \/ TailFlushed
    BY <1>11, FramesKept
    DEF QueueInv, Launch, LoadFails, Unwind, StreamDone, Drained, TailFlushed
<1>12. CASE Ready
    <2>1. /\ pc = "load" /\ pc' = "stream" /\ chain' = pending /\ pending' = << >>
          /\ chain = << >> /\ current = NoFrame
          /\ UNCHANGED <<received, current, handled, sse, page>>
        BY <1>12 DEF Ready, QueueInv
    <2>2. handled \o Busy \o pending \o << >> = handled \o Busy \o << >> \o pending
        <3>1. handled \o Busy \in Seq(Nat) /\ handled \o Busy \o pending \in Seq(Nat)
            BY ConcatProperties DEF QueueInv, Busy
        <3> QED BY <3>1, ConcatEmptySeq
    <2> QED BY <2>1, <2>2 DEF QueueInv, Busy
<1>13. CASE CloseLastPage
    <2>1. UNCHANGED frames /\ pc' = "save" /\ pc = "upload"
        BY <1>13 DEF CloseLastPage
    <2>2. page' \in PageRecord
        BY <1>13, PageKept DEF QueueInv
    <2> QED BY <2>1, <2>2, FramesKept DEF QueueInv
<1>14. CASE UploadRunVideo
    BY <1>14, FramesKept DEF QueueInv, UploadRunVideo
<1>15. CASE UNCHANGED vars
    BY <1>15, FramesKept DEF QueueInv, vars, frames
<1> QED BY <1>1, <1>2, <1>3, <1>4, <1>5, <1>7, <1>9, <1>10, <1>11, <1>12, <1>13, <1>14, <1>15
        DEF Next, Internal
-----------------------------------------------------------------------------
LEMMA FootageInit == Init => FootageInv /\ FootageKept
<1> QED BY DEF Init, FootageInv, FootageKept, Pages

(* Appending the recording of the page at hand.                            *)
LEMMA NextPage ==
    ASSUME NEW n \in Nat \ {0}
    PROVE  Append(Pages(n - 1), n) = Pages(n) /\ Len(Pages(n)) = n
<1>1. /\ Pages(n - 1) \in Seq(Nat) /\ Len(Pages(n - 1)) = n - 1
      /\ Pages(n) \in Seq(Nat) /\ Len(Pages(n)) = n
    BY DEF Pages
<1> DEFINE a == Append(Pages(n - 1), n)
<1>2. /\ a \in Seq(Nat) /\ Len(a) = n
      /\ \A i \in 1..n - 1 : a[i] = Pages(n - 1)[i]
      /\ a[n] = n
    <2>1. /\ a \in Seq(Nat) /\ Len(a) = Len(Pages(n - 1)) + 1
          /\ \A i \in 1..Len(Pages(n - 1)) : a[i] = Pages(n - 1)[i]
          /\ a[Len(Pages(n - 1)) + 1] = n
        BY <1>1, AppendProperties
    <2>2. (n - 1) + 1 = n
        OBVIOUS
    <2> QED BY <1>1, <2>1, <2>2
<1>3. \A i \in 1..n : a[i] = Pages(n)[i]
    BY <1>2 DEF Pages
<1> QED BY <1>1, <1>2, <1>3, SeqEqual

LEMMA FootageNext == IInv /\ [Next]_vars => FootageInv' /\ FootageKept'
<1> SUFFICES ASSUME IInv, [Next]_vars PROVE FootageInv' /\ FootageKept'
    OBVIOUS
<1>0. /\ page.number \in Nat \ {0} /\ page.video \in BOOLEAN
      /\ page.state \in {"live", "crashed", "closed"}
    BY DEF IInv, QueueInv, PageRecord
<1> USE DEF frames, stream, pages, IInv
<1>1. ASSUME UNCHANGED <<page, pageRecovering, videoSegments, footage, shipped>>,
             \/ pc' = pc \/ (pc' = "killed" /\ pc # "exited")
             \/ {pc, pc'} \subseteq {"launch", "load", "stream", "drain", "tail"},
             videoUploaded' = videoUploaded
      PROVE  FootageInv' /\ FootageKept'
    BY <1>1 DEF FootageInv, FootageKept
<1>2. CASE SseResponds \/ SseRefused \/ BotCloses \/ CapTimer \/ RequestHarnessShutdown
           \/ Enqueue \/ HandleMark \/ StartCapture \/ PostArtifact \/ PostCaptureError
           \/ Disconnect \/ Launch \/ Ready \/ StreamDone \/ Drained
           \/ UNCHANGED vars
    <2>1. /\ UNCHANGED <<page, pageRecovering, videoSegments, videoUploaded, footage, shipped>>
          /\ \/ pc' = pc \/ (pc' = "killed" /\ pc # "exited")
             \/ {pc, pc'} \subseteq {"launch", "load", "stream", "drain", "tail"}
        BY <1>2 DEF SseResponds, SseRefused, SseFails, BotCloses, CapTimer, CloseSse,
           RequestHarnessShutdown, Enqueue, HandleMark, FrameCanStart, StartCapture,
           PostArtifact, PostCaptureError, Disconnect, Launch, Ready,
           StreamDone, Drained, Running, vars, video
    <2> QED BY <1>1, <2>1
<1>3. CASE Crash
    <2>1. /\ page' = [number |-> page.number, state |-> "crashed", video |-> page.video]
          /\ page.state = "live" /\ page.video
          /\ pageRecovering' = IF pageRecovering = "no" /\ ~videoUploaded
                               THEN "save" ELSE pageRecovering
          /\ UNCHANGED <<pc, videoSegments, videoUploaded, footage, shipped>>
          /\ pc \notin {"exited", "killed"}
        BY <1>3 DEF Crash, PageIs, video, Running, FootageInv
    <2> QED BY <1>0, <2>1 DEF FootageInv, FootageKept
<1>4. CASE SaveSegment
    <2>1. /\ UNCHANGED <<pc, videoUploaded, shipped>>
          /\ pageRecovering = "save" /\ pageRecovering' = "open"
          /\ pc \notin {"save", "exited", "killed"} /\ page.video
        BY <1>4 DEF SaveSegment, FootageInv
    <2>2. CASE footage' = "lost"
               /\ \E v \in BOOLEAN : page' = [number |-> page.number, state |-> "closed", video |-> v]
        BY <2>1, <2>2 DEF FootageInv, FootageKept
    <2>3. CASE /\ page' = [number |-> page.number, state |-> "closed", video |-> FALSE]
               /\ videoSegments' = Append(videoSegments, page.number)
               /\ footage' = footage
        <3>1. footage = "kept" => videoSegments' = Pages(page.number)
            BY <1>0, <2>1, <2>3, NextPage DEF FootageInv
        <3> QED BY <2>1, <2>3, <3>1 DEF FootageInv, FootageKept
    <2>4. \/ /\ PageIs("closed", FALSE)
             /\ \/ videoSegments' = Append(videoSegments, page.number) /\ footage' = footage
                \/ footage' = "lost"
          \/ PageIs("closed", page.video) /\ footage' = "lost"
        BY <1>4 DEF SaveSegment
    <2> QED BY <1>0, <2>2, <2>3, <2>4 DEF PageIs
<1>5. CASE OpenFresh
    <2>1. /\ UNCHANGED <<pc, videoUploaded, shipped, footage, videoSegments>>
          /\ pageRecovering = "open" /\ pc \notin {"save", "exited", "killed"}
        BY <1>5 DEF OpenFresh, FootageInv, video
    <2>2. CASE pageRecovering' = "no" /\ page' = page
        BY <2>1, <2>2 DEF FootageInv, FootageKept
    <2>3. CASE /\ page' = [number |-> page.number + 1, state |-> "live", video |-> TRUE]
               /\ pageRecovering' = "load"
        BY <1>0, <2>1, <2>3 DEF FootageInv, FootageKept
    <2> QED BY <1>5, <2>2, <2>3 DEF OpenFresh
<1>6. CASE Recovered
    BY <1>6 DEF Recovered, FootageInv, FootageKept, video
<1>7. CASE LoadFails \/ TailFlushed
    BY <1>7 DEF LoadFails, TailFlushed, Unwind, FootageInv, FootageKept
<1>8. CASE CloseLastPage
    <2>1. /\ page' = [number |-> page.number, state |-> "closed", video |-> page.video]
          /\ pc = "upload" /\ pc' = "save" /\ pageRecovering = "no"
          /\ UNCHANGED <<pageRecovering, videoSegments, videoUploaded, footage, shipped>>
        BY <1>8 DEF CloseLastPage, PageIs, video
    <2> QED BY <1>0, <2>1 DEF FootageInv, FootageKept
<1>9. CASE UploadRunVideo
    <2>1. /\ UNCHANGED <<videoUploaded, page, pageRecovering>> /\ pc = "save" /\ pc' = "exited"
          /\ footage \in {"kept", "lost"}
        BY <1>9 DEF UploadRunVideo, FootageInv
    <2>2. CASE footage' = "lost"
        BY <2>1, <2>2 DEF FootageInv, FootageKept
    <2> DEFINE all == Append(videoSegments, page.number)
    <2>3. ASSUME page.video,
                 \/ shipped' = all /\ footage' = footage
                 \/ /\ \E i \in DOMAIN all : shipped' = <<all[i]>>
                    /\ footage' = IF footage = "kept" THEN "partly" ELSE footage
          PROVE  FootageInv' /\ FootageKept'
        <3>1. footage = "kept" => all = Pages(page.number)
            BY <1>0, <2>1, <2>3, NextPage DEF FootageInv
        <3>2. \A i \in DOMAIN Pages(page.number) :
                 i \in 1..page.number /\ Pages(page.number)[i] = i
            BY <1>0 DEF Pages
        <3>3. footage' \in {"kept", "partly", "lost"}
            BY <2>1, <2>3
        <3>4. footage' = "kept" => shipped' = Pages(page.number)
            BY <2>1, <2>3, <3>1
        <3>5. footage' = "partly" => \E i \in 1..page.number : shipped' = <<i>>
            BY <2>1, <2>3, <3>1, <3>2
        <3> QED BY <2>1, <3>3, <3>4, <3>5 DEF FootageInv, FootageKept, Pages
    <2>4. \/ footage' = "lost"
          \/ /\ page.video
             /\ \/ shipped' = all /\ footage' = footage
                \/ /\ \E i \in DOMAIN all : shipped' = <<all[i]>>
                   /\ footage' = IF footage = "kept" THEN "partly" ELSE footage
        BY <1>9, <2>1 DEF UploadRunVideo
    <2> QED BY <2>2, <2>3, <2>4
<1>10. CASE CaptureStep
    BY <1>1, <1>10, Zenon DEF CaptureStep, video
<1> QED BY <1>2, <1>3, <1>4, <1>5, <1>6, <1>7, <1>8, <1>9, <1>10 DEF Next, Internal

(* The inductive invariant holds of every behaviour.                       *)
THEOREM Invariance == Spec => []IInv
<1>1. Init => IInv
    BY QueueInit, FootageInit DEF IInv
<1>2. IInv /\ [Next]_vars => IInv'
    BY QueueNext, FootageNext DEF IInv
<1> QED BY <1>1, <1>2, PTL DEF Spec

(* Every frame received is handled, at hand or waiting, in the order of    *)
(* the stream, and when the upload writes the marks down none is left but  *)
(* those pending for a page that never loaded, which are never handled.    *)
THEOREM NoMarkLeftBehind == Spec => []AllMarksBeforeUpload
<1>1. IInv => AllMarksBeforeUpload
    <2> SUFFICES ASSUME QueueInv PROVE AllMarksBeforeUpload
        BY DEF IInv
    <2>1. << >> \o << >> = << >>
        OBVIOUS
    <2> QED BY <2>1 DEF QueueInv, AllMarksBeforeUpload, Busy
<1> QED BY <1>1, Invariance, PTL

(* The file of the run holds the footage of every page in order, whichever *)
(* of them crashed at whatever moment, unless a recording was lost.        *)
THEOREM FootageOfEveryPage == Spec => []FootageKept
<1>1. IInv => FootageKept
    BY DEF IInv
<1> QED BY <1>1, Invariance, PTL

-----------------------------------------------------------------------------
(***************************************************************************)
(* The replacement of the recording.  Until it makes room it is the        *)
(* original; what takes its place has passed the check, and by then it is  *)
(* known whether the original was renamed.                                 *)
(***************************************************************************)
Untouched == {"recording", "encoding", "checking", "blackening", "swapping", "kept"}

(* A file that may stand for the recording. *)
Passed(file) == \/ file \in {"original", "whole", "unreadable"}
                \/ file = "short" /\ ~plannedLong

FileInv ==
    /\ stage \in Untouched \cup {"replacing", "replaced", "failed", "killed"}
    /\ stage \in Untouched => film = "original"
    /\ stage \in {"recording", "encoding", "checking"} => ~entireCut
    /\ stage = "checking" => tmp \in {"whole", "short", "unreadable"}
    /\ stage = "blackening" => entireCut
    /\ stage \in {"swapping", "replacing"} => entireCut \/ Passed(tmp)
    /\ stage = "replacing" /\ keepRaw => raw = "original"
    /\ RecordingKept

LEMMA FilesInit == TimelapseInit => FileInv
    BY DEF TimelapseInit, FileInv, Untouched, Passed, RecordingKept

LEMMA FilesNext == FileInv /\ TimelapseNext => FileInv'
<1> SUFFICES ASSUME FileInv, TimelapseNext PROVE FileInv'
    OBVIOUS
<1> USE DEF FileInv, Untouched, Passed, RecordingKept, Files, markVars,
            fileVars
<1>1. ASSUME NoteSegment \/ SuiteStarts \/ SuiteEnds PROVE FileInv'
    <2>1. Received
        BY <1>1 DEF NoteSegment, SuiteStarts, SuiteEnds
    <2>2. UNCHANGED fileVars
        BY <2>1 DEF Received
    <2> QED BY <2>2
<1>2. ASSUME ApplyTimelapse PROVE FileInv'
    <2>1. /\ stage = "recording" /\ UNCHANGED film
          /\ \/ stage' = "kept" /\ UNCHANGED entireCut
             \/ stage' = "blackening" /\ entireCut' = TRUE
             \/ stage' = "encoding" /\ UNCHANGED entireCut
        BY <1>2 DEF ApplyTimelapse
    <2> QED BY <2>1
<1>3. ASSUME EncodePiece PROVE FileInv'
    BY <1>3 DEF EncodePiece
<1>4. ASSUME Join PROVE FileInv'
    BY <1>4 DEF Join
<1>5. ASSUME CheckResult PROVE FileInv'
    BY <1>5 DEF CheckResult
<1>6. ASSUME WriteBlackPlaceholder PROVE FileInv'
    BY <1>6 DEF WriteBlackPlaceholder
<1>7. ASSUME MakeRoom PROVE FileInv'
    BY <1>7 DEF MakeRoom
<1>8. ASSUME Replace PROVE FileInv'
    BY <1>8 DEF Replace
<1>9. ASSUME RenameFails PROVE FileInv'
    BY <1>9 DEF RenameFails
<1>10. ASSUME Killed PROVE FileInv'
    BY <1>10 DEF Killed
<1> QED BY <1>1, <1>2, <1>3, <1>4, <1>5, <1>6, <1>7, <1>8, <1>9, <1>10 DEF TimelapseNext

(* applyTimelapse: whatever fails, and whenever the process is killed, the *)
(* original is there under one of its names when it is to be kept, and     *)
(* otherwise only a result that has passed the check takes its place.      *)
THEOREM RecordingSurvives == CaptureSpec => []RecordingKept
<1>1. CaptureInit => FileInv
    BY FilesInit DEF CaptureInit
<1>2. FileInv /\ [CaptureNext]_captureVars => FileInv'
    <2>1. FileInv /\ UNCHANGED timelapseVars => FileInv'
        BY DEF timelapseVars, markVars, fileVars, FileInv, Untouched, Passed, RecordingKept
    <2> QED BY <2>1, FilesNext DEF CaptureNext, OfHarness, OfFilm, captureVars
<1>3. FileInv => RecordingKept
    BY DEF FileInv, RecordingKept
<1> QED BY <1>1, <1>2, <1>3, PTL DEF CaptureSpec
-----------------------------------------------------------------------------
(***************************************************************************)
(* The marks of the run, and the film they give.                           *)
(***************************************************************************)
MarksTyped == walkMarks \in Seq(Marks) /\ suiteGate \in Suite \cup {None} /\ now \in Int

LEMMA MarksNext == MarksTyped /\ [TimelapseNext]_timelapseVars => MarksTyped'
<1> SUFFICES ASSUME MarksTyped, [TimelapseNext]_timelapseVars PROVE MarksTyped'
    OBVIOUS
<1>1. ASSUME Received PROVE now' \in Int
    BY <1>1, TimelapseAssumption DEF Received
<1>2. ASSUME NEW t \in Int, NEW suite \in Suite, NEW opens \in BOOLEAN
      PROVE  SuiteMark(suite, opens, t) \in Marks
    BY <1>2 DEF SuiteMark, Marks
<1>3. CASE NoteSegment
    <2>1. PICK kind \in Marked, opens \in BOOLEAN :
            walkMarks' = Append(walkMarks, SegmentMark(kind, opens, now'))
        BY <1>3 DEF NoteSegment
    <2>2. now' \in Int /\ suiteGate' = suiteGate
        BY <1>1, <1>3 DEF NoteSegment
    <2>3. SegmentMark(kind, opens, now') \in Marks
        BY <2>2, TimelapseAssumption DEF SegmentMark, Marks, Kinds
    <2> QED BY <2>1, <2>2, <2>3, AppendProperties DEF MarksTyped
<1>4. CASE SuiteStarts
    <2>1. PICK suite \in Suite \ {suiteGate}, t \in {i \in Issued : i <= now'} \cup {now'} :
            /\ walkMarks' = walkMarks \o
                 (IF suiteGate = None THEN <<>> ELSE <<SuiteMark(suiteGate, FALSE, t)>>)
                   \o <<SuiteMark(suite, TRUE, t)>>
            /\ suiteGate' = suite
        BY <1>4 DEF SuiteStarts
    <2>2. now' \in Int /\ t \in Int
        BY <1>1, <1>4, TimelapseAssumption DEF SuiteStarts
    <2> DEFINE ended == IF suiteGate = None THEN <<>> ELSE <<SuiteMark(suiteGate, FALSE, t)>>
    <2>3. ended \in Seq(Marks) /\ <<SuiteMark(suite, TRUE, t)>> \in Seq(Marks)
        <3>1. SuiteMark(suite, TRUE, t) \in Marks
            BY <1>2, <2>2
        <3>2. suiteGate # None => SuiteMark(suiteGate, FALSE, t) \in Marks
            BY <1>2, <2>2 DEF MarksTyped
        <3>3. ASSUME NEW mark \in Marks PROVE <<mark>> \in Seq(Marks)
            OBVIOUS
        <3>4. << >> \in Seq(Marks)
            OBVIOUS
        <3>5. CASE suiteGate = None
            BY <3>1, <3>3, <3>4, <3>5
        <3>6. CASE suiteGate # None
            BY <3>1, <3>2, <3>3, <3>6
        <3> QED BY <3>5, <3>6
    <2>4. walkMarks' \in Seq(Marks)
        <3> HIDE DEF ended
        <3>1. walkMarks \o ended \in Seq(Marks)
            BY <2>3, ConcatProperties DEF MarksTyped
        <3>2. walkMarks \o ended \o <<SuiteMark(suite, TRUE, t)>> \in Seq(Marks)
            BY <2>3, <3>1, ConcatProperties
        <3>3. walkMarks' = walkMarks \o ended \o <<SuiteMark(suite, TRUE, t)>>
            BY <2>1 DEF ended
        <3> QED BY <3>2, <3>3
    <2>5. suiteGate' \in Suite
        BY <2>1
    <2> QED BY <2>2, <2>4, <2>5 DEF MarksTyped
<1>5. CASE SuiteEnds
    <2>1. PICK t \in {i \in Issued : i <= now'} \cup {now'} :
            walkMarks' = Append(walkMarks, SuiteMark(suiteGate, FALSE, t))
        BY <1>5 DEF SuiteEnds
    <2>2. now' \in Int /\ t \in Int /\ suiteGate \in Suite /\ suiteGate' = None
        BY <1>1, <1>5, TimelapseAssumption DEF SuiteEnds, MarksTyped
    <2> QED BY <1>2, <2>1, <2>2, AppendProperties DEF MarksTyped
<1>6. CASE ApplyTimelapse
    <2>1. walkMarks' = <<>> /\ suiteGate' = None /\ now' = 0
        BY <1>6 DEF ApplyTimelapse
    <2> QED BY <2>1 DEF MarksTyped
<1>7. ASSUME UNCHANGED markVars PROVE MarksTyped'
    BY <1>7 DEF MarksTyped, markVars
<1>8. CASE EncodePiece \/ Join \/ CheckResult \/ WriteBlackPlaceholder
           \/ MakeRoom \/ Replace \/ RenameFails \/ Killed
    BY <1>7, <1>8 DEF EncodePiece, Join, CheckResult, WriteBlackPlaceholder, MakeRoom, Replace,
       RenameFails, Killed, Files
<1>9. CASE UNCHANGED timelapseVars
    BY <1>7, <1>9 DEF timelapseVars
<1> QED BY <1>3, <1>4, <1>5, <1>6, <1>8, <1>9 DEF TimelapseNext

(* timelapse.ts:2-13, for any number of marks that come lost, doubled or   *)
(* late, any length of the recording and any policy: every instant is cut  *)
(* or shown once, at the speed of what prevails there, and when the        *)
(* intervals have to be capped no highlight and no walk is lost.           *)
THEOREM MarkedShown == CaptureSpec => []FilmShowsWhatIsMarked
<1>1. CaptureInit => MarksTyped
    BY DEF CaptureInit, TimelapseInit, MarksTyped
<1>2. MarksTyped /\ [CaptureNext]_captureVars => MarksTyped'
    <2>1. [CaptureNext]_captureVars => [TimelapseNext]_timelapseVars
        BY DEF CaptureNext, OfHarness, OfFilm, captureVars
    <2> QED BY <2>1, MarksNext
<1>3. MarksTyped => FilmShowsWhatIsMarked
    BY MarksShown DEF MarksTyped
<1> QED BY <1>1, <1>2, <1>3, PTL DEF CaptureSpec
=============================================================================
