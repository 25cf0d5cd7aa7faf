------------------------------- MODULE Capture ------------------------------
(***************************************************************************)
(* The capture process: the life of the harness, and what it does with the *)
(* marks of a run once the recording is there.  The harness keeps its      *)
(* marks in order and hands them over when it has ended, so a behaviour is *)
(* one of the two, chosen at the start.                                    *)
(***************************************************************************)
EXTENDS CaptureHarness, Timelapse

VARIABLE part

captureVars == <<part, vars, timelapseVars>>

OfHarness(A) == part = "harness" /\ A /\ UNCHANGED <<part, timelapseVars>>
OfFilm(A) == part = "film" /\ A /\ UNCHANGED <<part, vars>>

CaptureInit == part \in {"harness", "film"} /\ Init /\ TimelapseInit

CaptureNext == OfHarness(Next) \/ OfFilm(TimelapseNext)

(* The fairness of CaptureHarness. *)
CaptureSpec ==
    /\ CaptureInit /\ [][CaptureNext]_captureVars
    /\ WF_captureVars(OfHarness(HandleMark \/ StartCapture \/ CaptureStep
                                \/ PostArtifact \/ PostCaptureError))
    /\ WF_captureVars(OfHarness(SaveSegment \/ OpenFresh \/ Recovered))
    /\ WF_captureVars(OfHarness(Launch \/ Ready \/ LoadFails \/ StreamDone \/ Drained
                                \/ TailFlushed \/ CloseLastPage \/ UploadRunVideo))
    /\ WF_captureVars(OfHarness(SseResponds \/ SseRefused))
    /\ WF_captureVars(OfHarness(CapTimer))

-----------------------------------------------------------------------------
(* CaptureHarness: every capture is answered and the harness comes to an   *)
(* end.                                                                    *)
HarnessRunEnds == CapturesAnswered /\ (part = "harness" => HarnessEnds)
=============================================================================
