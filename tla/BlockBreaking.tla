--------------------------- MODULE BlockBreaking ---------------------------
(***************************************************************************)
(* The breakBlock instruction (gotestbds/instruction/break_block.go) and   *)
(* what it waits for.  Run installs a callback and starts the break in one *)
(* task of the tick loop, then waits on an unbuffered channel.  The        *)
(* callback is a bare send on that channel, made by the tick loop from     *)
(* HandleBlockBreak or HandleAbortBreaking; the handler keeps one callback *)
(* and clears it after the send.                                           *)
(*                                                                         *)
(* Every run breaks a block of its own, so blocks are named by the runs.   *)
(* The number of ticks a break takes is left open, as is the order of      *)
(* ticks and tasks (see TickLoop).  The task queue (256 in the code) holds *)
(* all the tasks there are.                                                *)
(***************************************************************************)
EXTENDS Integers, Sequences

CONSTANTS
  Run,        \* breakBlock instructions given to the bot
  None,       \* no run
  Creative,   \* may the bot be in creative mode?
  MaxStops    \* bound on stopBreakingBlock instructions

BlockBreakingAssumption == None \notin Run /\ MaxStops \in Nat

VARIABLES
  run,       \* where each Run is, or what it returned
  tasks,     \* tasks queued on the tick loop
  loop,      \* what the tick loop is doing
  callback,  \* the run whose callback is installed
  breaking,  \* breakingBlock
  target,    \* breakingPos
  abort,     \* abortBreaking
  broken,    \* blocks the client has set to air
  stops      \* stopBreakingBlock instructions so far

vars == <<run, tasks, loop, callback, breaking, target, abort, broken, stops>>
worldVars == <<breaking, target, abort, broken>>

Returned == {"broke", "aborted", "failed", "timedOut"}
Start(r) == [do |-> "start", run |-> r]
Abort == [do |-> "abort", run |-> None]
Free == [at |-> "free", to |-> None, ok |-> FALSE, for |-> "none"]
(* The loop in the middle of a callback: sending, then carrying on.        *)
InCallback(at, r, ok, for) == [at |-> at, to |-> r, ok |-> ok, for |-> for]

Init ==
  /\ run = [r \in Run |-> "new"]
  /\ tasks = << >>
  /\ loop = Free
  /\ callback = None
  /\ breaking = FALSE /\ target = None /\ abort = FALSE
  /\ broken = {}
  /\ stops = 0

-----------------------------------------------------------------------------
(* Run's goroutine: queue the start and wait for the task to be done.      *)
Call(r) ==
  /\ run[r] = "new"
  /\ run' = [run EXCEPT ![r] = "starting"]
  /\ tasks' = Append(tasks, Start(r))
  /\ UNCHANGED <<loop, callback, worldVars, stops>>

(* Only the select after the start sees the deadline. *)
Deadline(r) ==
  /\ run[r] = "waiting"
  /\ run' = [run EXCEPT ![r] = "timedOut"]
  /\ tasks' = Append(tasks, Abort)
  /\ UNCHANGED <<loop, callback, worldVars, stops>>

(* The send meets the receive. *)
Receive(r) ==
  /\ run[r] = "waiting"
  /\ loop.at = "sending" /\ loop.to = r
  /\ run' = [run EXCEPT ![r] = IF loop.ok THEN "broke" ELSE "aborted"]
  /\ loop' = InCallback("sent", r, loop.ok, loop.for)
  /\ UNCHANGED <<tasks, callback, worldVars, stops>>

StopBreakingBlock ==
  /\ stops < MaxStops
  /\ stops' = stops + 1
  /\ tasks' = Append(tasks, Abort)
  /\ UNCHANGED <<run, loop, callback, worldVars>>

-----------------------------------------------------------------------------
(* The tick loop runs the start task.  The callback is installed first, so *)
(* it stays installed when the block is out of reach or unbreakable.       *)
FailToStart(r) ==
  /\ run' = [run EXCEPT ![r] = "failed"]
  /\ UNCHANGED <<loop, breaking, target, abort>>

MutantKeepsTarget(r) ==
  /\ run' = [run EXCEPT ![r] = "waiting"]
  /\ breaking' = TRUE /\ target' = (IF breaking THEN target ELSE r) /\ abort' = FALSE
  /\ UNCHANGED loop
StartBreaking(r) ==
  /\ run' = [run EXCEPT ![r] = "waiting"]
  /\ breaking' = TRUE /\ target' = r /\ abort' = FALSE
  /\ UNCHANGED loop

(* In creative mode the block breaks at once and HandleBlockBreak fires    *)
(* inside the task the run is still waiting for.                           *)
BreakAtOnce(r) ==
  /\ Creative
  /\ loop' = InCallback("sending", r, TRUE, "start")
  /\ UNCHANGED <<run, breaking, target, abort>>

RunStart ==
  /\ loop = Free
  /\ tasks # << >> /\ Head(tasks).do = "start"
  /\ LET r == Head(tasks).run IN
       /\ callback' = r
       /\ FailToStart(r) \/ StartBreaking(r) \/ BreakAtOnce(r)
  /\ tasks' = Tail(tasks)
  /\ UNCHANGED <<broken, stops>>

(* What follows the callback, or takes place without one. *)
AfterCallback(for) ==
  \/ /\ for = "tick"
     /\ broken' = broken \cup {target}
     /\ breaking' = FALSE /\ abort' = FALSE
     /\ UNCHANGED target
  \/ for = "abort" /\ abort' = TRUE /\ UNCHANGED <<breaking, target, broken>>
  \/ /\ for = "start"
     /\ broken' = broken \cup {loop.to} /\ UNCHANGED <<breaking, target, abort>>

CallbackThen(ok, for) ==
  IF callback # None
    THEN loop' = InCallback("sending", callback, ok, for) /\ UNCHANGED worldVars
    ELSE loop' = Free /\ AfterCallback(for)

(* AbortBreaking, for a stopBreakingBlock or a run past its deadline.      *)
RunAbort ==
  /\ loop = Free
  /\ tasks # << >> /\ Head(tasks).do = "abort"
  /\ tasks' = Tail(tasks)
  /\ CallbackThen(FALSE, "abort")
  /\ UNCHANGED <<run, callback, stops>>

(* blockActions at the tick in which the break time is over: the break     *)
(* completes whether or not it has been aborted.                           *)
BreakCompletes ==
  /\ loop = Free
  /\ breaking
  /\ CallbackThen(TRUE, "tick")
  /\ UNCHANGED <<run, tasks, callback, stops>>

(* blockActions before that. *)
AbortTakesEffect ==
  /\ loop = Free
  /\ breaking /\ abort
  /\ breaking' = FALSE /\ abort' = FALSE
  /\ UNCHANGED <<run, tasks, loop, callback, target, broken, stops>>

(* The callback has returned: clear it and carry on.  (One fired inside    *)
(* the start task never returns: its run is not waiting yet.)              *)
MutantCallbackKept ==
  /\ loop.at = "sent"
  /\ loop' = Free
  /\ AfterCallback(loop.for)
  /\ UNCHANGED <<run, tasks, callback, stops>>
Resume ==
  /\ loop.at = "sent"
  /\ callback' = None
  /\ loop' = Free
  /\ AfterCallback(loop.for)
  /\ UNCHANGED <<run, tasks, stops>>

-----------------------------------------------------------------------------
LoopStep == RunStart \/ RunAbort \/ BreakCompletes \/ AbortTakesEffect \/ Resume
Next ==
  \/ \E r \in Run : Call(r) \/ Deadline(r) \/ Receive(r)
  \/ StopBreakingBlock
  \/ LoopStep

Spec == Init /\ [][Next]_vars

-----------------------------------------------------------------------------
(* A run that reports success broke its own block and no other run's: the  *)
(* loop may still be about to set it to air, but then no later task can    *)
(* see it unbroken.                                                        *)
SuccessIsTruthful ==
  \A r \in Run : run[r] = "broke" =>
    r \in broken \/ (loop.at = "sent" /\ loop.for = "tick" /\ target = r)

(* A callback is one-shot: the loop never sends to a run that already got  *)
(* its answer.                                                             *)
OneShot == loop.at = "sending" => run[loop.to] \notin {"broke", "aborted"}

(* Every answer is the run's own, and it gets one.                         *)
OneTruthfulAnswer == SuccessIsTruthful /\ OneShot

(* navigate_to_block.go 79-82 of the same kind of callback, fired on the   *)
(* tick loop when Run may have returned: "a bare send would freeze the     *)
(* tick loop for good".  So no send of the loop may be one nobody will     *)
(* receive.                                                                *)
CallbackNeverBlocks == loop.at = "sending" => run[loop.to] = "waiting"
=============================================================================
