----------------------------- MODULE Navigation -----------------------------
(***************************************************************************)
(* The navigateToBlock instruction (gotestbds/instruction/                 *)
(* navigate_to_block.go) and the navigation of the actor behind it         *)
(* (gotestbds/actor/navigation.go).  Run installs a callback and starts a  *)
(* leg in one task, then waits on a channel of capacity one; the tick loop *)
(* follows the path, tick by tick, and fires the callback when the leg     *)
(* ends.                                                                   *)
(*                                                                         *)
(* Every run has a target of its own, so targets are named by runs.  What  *)
(* the world decides (the path found, arrival, progress, missing columns)  *)
(* is left open.  The distance to the target is a number from 1 to MaxDist *)
(* counted in units of navProgressEps; a distance of exactly zero, which   *)
(* the code would take for "not measured yet", is left out.  The task      *)
(* queue (256 in the code) holds all the tasks there are.                  *)
(***************************************************************************)
EXTENDS Integers, Sequences

CONSTANTS
  Run,              \* navigateToBlock instructions given to the bot
  None,             \* no run
  MaxStops,         \* bound on stopNavigating instructions
  CooldownTicks,    \* repathCooldownTicks (10)
  FruitlessLimit,   \* fruitlessRepathLimit (3)
  EmptyWaitTicks,   \* emptyPathWaitTicks (60)
  NoProgressLimit,  \* navNoProgressLimit (300)
  MaxDist           \* bound on distances

ASSUME NavigationAssumption ==
  /\ None \notin Run
  /\ MaxStops \in Nat /\ EmptyWaitTicks \in Nat /\ NoProgressLimit \in Nat
  /\ CooldownTicks \in Nat \ {0, 1}
  /\ FruitlessLimit \in Nat \ {0} /\ MaxDist \in Nat \ {0}

VARIABLES
  run,        \* where each Run is, or what it returned
  answer,     \* its channel: "none", "yes" or "no"
  tasks,      \* tasks queued on the tick loop
  stops,      \* stopNavigating instructions so far
  callback,   \* the run whose callback is installed
  path,       \* "none", "empty", "walking" or "done"
  target,     \* navigationTarget
  detail,     \* navFailDetail: "", "stopped" or "failed"
  cooldown, fruitless, emptyWaits,
  best,       \* navBestDist, 0 when not measured yet
  noProgress, \* navNoProgressTicks
  again,      \* repathTowardTarget has called tickNavigating
  ended       \* history: how each run's leg ended

progressVars == <<best, noProgress>>
counters == <<cooldown, fruitless, emptyWaits>>
vars == <<run, answer, tasks, stops, callback, path, target, detail,
          cooldown, fruitless, emptyWaits, best, noProgress, again, ended>>

Returned == {"reached", "explained", "bare", "gaveUp", "timedOut"}
Task(do, r) == [do |-> do, run |-> r]

Init ==
  /\ run = [r \in Run |-> "new"]
  /\ answer = [r \in Run |-> "none"]
  /\ tasks = << >> /\ stops = 0
  /\ callback = None
  /\ path = "none" /\ target = None /\ detail = ""
  /\ cooldown = 0 /\ fruitless = 0 /\ emptyWaits = 0
  /\ best = 0 /\ noProgress = 0
  /\ again = FALSE
  /\ ended = [r \in Run |-> "no"]

-----------------------------------------------------------------------------
(* The goroutines that run the instructions. *)
navVars == <<callback, path, target, detail, counters, progressVars, again, ended>>

Call(r) ==
  /\ run[r] = "new"
  /\ run' = [run EXCEPT ![r] = "starting"]
  /\ tasks' = Append(tasks, Task("start", r))
  /\ UNCHANGED <<answer, stops, navVars>>

(* The select after the start: the answer or the deadline. *)
TakeAnswer(r) ==
  /\ run[r] = "waiting"
  /\ \/ /\ answer[r] = "yes"
        /\ run' = [run EXCEPT ![r] = "reached"]
        /\ UNCHANGED tasks
     \/ /\ answer[r] = "no"
        /\ run' = [run EXCEPT ![r] = "asking"]
        /\ tasks' = Append(tasks, Task("ask", r))
  /\ UNCHANGED <<answer, stops, navVars>>

Deadline(r) ==
  /\ \/ /\ run[r] = "waiting"
        /\ run' = [run EXCEPT ![r] = "stopping"]
        /\ tasks' = Append(tasks, Task("stop", r))
     \/ /\ run[r] = "asking"
        /\ run' = [run EXCEPT ![r] = "timedOut"]
        /\ UNCHANGED tasks
  /\ UNCHANGED <<answer, stops, navVars>>

(* navDetailWait: the loop has not run the task within five seconds.       *)
GiveUp(r) ==
  /\ run[r] \in {"stopping", "asking"}
  /\ run' = [run EXCEPT ![r] = IF @ = "asking" THEN "gaveUp" ELSE "timedOut"]
  /\ UNCHANGED <<answer, tasks, stops, navVars>>

StopInstruction ==
  /\ stops < MaxStops
  /\ stops' = stops + 1
  /\ tasks' = Append(tasks, Task("stop", None))
  /\ UNCHANGED <<run, answer, navVars>>

-----------------------------------------------------------------------------
(* Navigate: a path is found, empty or not.  The measurements are reset at *)
(* the first Navigate of a leg only, counters and cooldown not at all.     *)
FindPath == path' \in {"empty", "walking"}

(* The handler fires the callback installed, once: a send that never waits *)
(* (the channel has room, or the answer is dropped).                       *)
MutantSendWaits(reply) ==
  /\ callback # None => run[callback] = "waiting"
  /\ callback' = None
  /\ answer' = IF callback # None THEN [answer EXCEPT ![callback] = reply] ELSE answer
Fire(reply) ==
  /\ callback' = None
  /\ answer' = IF callback # None /\ answer[callback] = "none"
                 THEN [answer EXCEPT ![callback] = reply] ELSE answer

(* How the three ends of a leg clear it.  Only arrival leaves the cooldown *)
(* running.                                                                *)
ClearLeg ==
  /\ path' = "none"
  /\ fruitless' = 0 /\ emptyWaits' = 0
  /\ best' = 0 /\ noProgress' = 0
  /\ again' = FALSE

MutantFailQuietly ==
  /\ ClearLeg
  /\ cooldown' = 0
  /\ detail' = "failed"
  /\ ended' = [ended EXCEPT ![target] = "failed"]
  /\ UNCHANGED <<target, callback, answer>>
failNavigation ==
  /\ ClearLeg
  /\ cooldown' = 0
  /\ detail' = "failed"
  /\ ended' = [ended EXCEPT ![target] = "failed"]
  /\ Fire("no")
  /\ UNCHANGED target

ReachTarget(cd) ==
  /\ ClearLeg
  /\ cooldown' = cd
  /\ detail' = ""
  /\ ended' = [ended EXCEPT ![target] = "reached"]
  /\ Fire("yes")
  /\ UNCHANGED target

MutantStopForgets ==
  /\ ClearLeg
  /\ cooldown' = 0
  /\ detail' = "stopped"
  /\ ended' = IF path = "none" THEN ended ELSE [ended EXCEPT ![target] = "stopped"]
  /\ Fire("no")
  /\ UNCHANGED target
StopNavigating ==
  /\ ClearLeg
  /\ cooldown' = 0
  /\ detail' = IF detail = "" THEN "stopped" ELSE detail
  /\ ended' = IF path = "none" THEN ended ELSE [ended EXCEPT ![target] = "stopped"]
  /\ Fire("no")
  /\ UNCHANGED target

-----------------------------------------------------------------------------
(* Tasks, in the order they were queued and never in the middle of a tick. *)
NextTask(do) == ~again /\ tasks # << >> /\ Head(tasks).do = do /\ tasks' = Tail(tasks)

MutantKeepsTarget(r) == IF path = "none" THEN r ELSE target
NewTarget(r) == r

RunStart ==
  /\ NextTask("start")
  /\ LET r == Head(tasks).run IN
       /\ run' = [run EXCEPT ![r] = "waiting"]
       /\ callback' = r
       /\ target' = NewTarget(r)
  /\ FindPath
  /\ detail' = ""
  /\ IF path = "none" THEN best' = 0 /\ noProgress' = 0 ELSE UNCHANGED progressVars
  /\ UNCHANGED <<answer, stops, counters, again, ended>>

RunStop ==
  /\ NextTask("stop")
  /\ LET r == Head(tasks).run IN
       run' = IF r # None /\ run[r] = "stopping"
                THEN [run EXCEPT ![r] = "timedOut"] ELSE run
  /\ StopNavigating
  /\ UNCHANGED stops

(* The diagnostic is read before the leg, whosever it is now, is stopped.  *)
RunAsk ==
  /\ NextTask("ask")
  /\ LET r == Head(tasks).run IN
       run' = IF run[r] # "asking" THEN run
              ELSE [run EXCEPT ![r] =
                      IF detail \in {"", "stopped"} THEN "bare" ELSE "explained"]
  /\ StopNavigating
  /\ UNCHANGED stops

-----------------------------------------------------------------------------
(* One pass of tickNavigating. *)
MutantAnyMoveIsProgress(d) == best' = d /\ noProgress' = 0
noteNavProgress(d) ==
  \/ (best = 0 \/ d < best) /\ best' = d /\ noProgress' = 0
  \/ /\ best # 0 /\ d >= best /\ noProgress < NoProgressLimit
     /\ noProgress' = noProgress + 1
     /\ UNCHANGED best

NoProgress(d) ==
  /\ best # 0 /\ d >= best /\ noProgress = NoProgressLimit
  /\ failNavigation

(* A leg that goes on. *)
Going == UNCHANGED <<answer, callback, target, ended>>

(* repathTowardTarget, with cd ticks of cooldown left. *)
RepathLater(cd) ==
  /\ cd > 0
  /\ cooldown' = cd
  /\ Going
  /\ UNCHANGED <<fruitless, detail>>
  /\ again' = FALSE

RepathFruitless(cd) ==
  /\ cd = 0
  /\ fruitless + 1 < FruitlessLimit
  /\ FindPath
  /\ fruitless' = fruitless + 1
  /\ cooldown' = CooldownTicks /\ detail' = "" /\ again' = FALSE
  /\ Going

RepathUseful(cd) ==
  /\ cd = 0
  /\ path' = "walking"
  /\ fruitless' = 0
  /\ cooldown' = CooldownTicks /\ detail' = "" /\ again' = TRUE
  /\ Going

RepathExhausted(cd) ==
  /\ cd = 0
  /\ fruitless + 1 >= FruitlessLimit
  /\ ReachTarget(CooldownTicks) \/ failNavigation

(* An empty path: reached, worth waiting for columns, or a failure.        *)
EmptyPath(d, cd) ==
  /\ path = "empty"
  /\ \/ ReachTarget(cd)
     \/ failNavigation
     \/ /\ emptyWaits < EmptyWaitTicks
        /\ emptyWaits' = emptyWaits + 1
        /\ IF cd = 0 THEN FindPath /\ cooldown' = CooldownTicks /\ detail' = ""
                     ELSE cooldown' = cd /\ UNCHANGED <<path, detail>>
        /\ noteNavProgress(d)
        /\ again' = FALSE
        /\ Going /\ UNCHANGED fruitless

(* The path is walked to its end, now or earlier. *)
PathDone(d, cd) ==
  /\ path \in {"walking", "done"}
  /\ \/ ReachTarget(cd)
     \/ RepathExhausted(cd)
     \/ /\ \/ RepathLater(cd) /\ path' = "done"
           \/ RepathFruitless(cd)
           \/ RepathUseful(cd)
        /\ emptyWaits' = 0
        /\ noteNavProgress(d)

(* The move towards the next node is refused or leads nowhere. *)
Stuck(d, cd) ==
  /\ path = "walking"
  /\ \/ RepathExhausted(cd)
     \/ /\ (RepathLater(cd) /\ UNCHANGED path) \/ RepathFruitless(cd)
        /\ emptyWaits' = 0
        /\ noteNavProgress(d)

Moved(d, cd) ==
  /\ path = "walking"
  /\ fruitless' = 0 /\ emptyWaits' = 0
  /\ cooldown' = cd
  /\ again' = FALSE
  /\ noteNavProgress(d)
  /\ Going
  /\ UNCHANGED <<path, detail>>

(* No progress ends the leg before anything else is looked at. *)
tickNavigating ==
  /\ path # "none"
  /\ \E d \in 1..MaxDist :
       LET cd == IF cooldown > 0 THEN cooldown - 1 ELSE 0
       IN  \/ NoProgress(d)
           \/ /\ best = 0 \/ d < best \/ noProgress < NoProgressLimit
              /\ EmptyPath(d, cd) \/ PathDone(d, cd) \/ Stuck(d, cd) \/ Moved(d, cd)
  /\ UNCHANGED <<run, tasks, stops>>

-----------------------------------------------------------------------------
RunTask == RunStart \/ RunStop \/ RunAsk
Next ==
  \/ \E r \in Run : Call(r) \/ TakeAnswer(r) \/ Deadline(r) \/ GiveUp(r)
  \/ StopInstruction
  \/ RunTask
  \/ tickNavigating

Spec == Init /\ [][Next]_vars

(* The loop gives ticks and tasks their turns (TickLoop), goroutines run   *)
(* and navDetailWait passes.  Deadlines may be minutes away: that one ever *)
(* fires is not assumed.                                                   *)
Fairness ==
  /\ WF_vars(tickNavigating) /\ SF_vars(RunTask)
  /\ \A r \in Run : WF_vars(TakeAnswer(r)) /\ WF_vars(GiveUp(r))
FairSpec == Spec /\ Fairness

-----------------------------------------------------------------------------
(* Every variable keeps its type; the counters stay below their limits.    *)
TypeOK ==
  /\ run \in [Run -> {"new", "starting", "waiting", "stopping", "asking"}
                       \cup Returned]
  /\ answer \in [Run -> {"none", "yes", "no"}]
  /\ tasks \in Seq([do : {"start", "stop", "ask"}, run : Run \cup {None}])
  /\ stops \in 0..MaxStops
  /\ callback \in Run \cup {None}
  /\ path \in {"none", "empty", "walking", "done"}
  /\ target \in Run \cup {None}
  /\ detail \in {"", "stopped", "failed"}
  /\ cooldown \in 0..CooldownTicks
  /\ fruitless \in 0..(FruitlessLimit - 1)
  /\ emptyWaits \in 0..EmptyWaitTicks
  /\ best \in 0..MaxDist
  /\ noProgress \in 0..NoProgressLimit
  /\ again \in BOOLEAN /\ (again => path # "none")
  /\ ended \in [Run -> {"no", "reached", "failed", "stopped"}]

(* The callback installed is that of the leg under way, and there is one:  *)
(* every one of the seven ends of a leg answers its run, and a run that    *)
(* starts takes over the leg together with the callback.                   *)
CallbackHasLeg == callback # None => path # "none" /\ target = callback

(* A run reports success only if its own target was reached. *)
ReachedIsTruthful == \A r \in Run : run[r] = "reached" => ended[r] = "reached"

(* A leg that failed by itself is reported with its diagnostic, unless     *)
(* another Navigate has cleared it or the loop took longer than five       *)
(* seconds: StopNavigating keeps what failNavigation has written, and Run  *)
(* waits for the task that reads it (navigate_to_block.go 54-57).          *)
FailureExplained ==
  \A r \in Run : run[r] = "bare" /\ ended[r] = "failed" => target # r

(* Every leg ends, however the bot jitters: progress towards the target is *)
(* the only thing that keeps it going (navigation.go 54-58).               *)
EveryLegEnds == (path # "none") ~> (path = "none")

(* Without the help of a deadline every call returns, except one whose     *)
(* callback another Navigate has taken; and a deadline that fires just as  *)
(* the leg ends holds up nobody, for the loop never waits for a run.       *)
Superseded(r) == run[r] = "waiting" /\ target # r
EveryRunReturns ==
  \A r \in Run : (run[r] # "new") ~> (run[r] \in Returned \/ Superseded(r))
=============================================================================
