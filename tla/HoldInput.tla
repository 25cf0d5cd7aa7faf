------------------------------ MODULE HoldInput ------------------------------
(***************************************************************************)
(* The holdInput instruction (gotestbds/instruction/hold_input.go) and the *)
(* hold of the actor behind it (gotestbds/actor/movement.go).  Run starts  *)
(* a hold in one task of the tick loop and waits on a channel of capacity  *)
(* one; the tick loop applies the input, tick by tick, and signals the     *)
(* channel when the hold is over.  The actor has one hold at a time.       *)
(*                                                                         *)
(* What the input does to the actor or its vehicle is left out; the task   *)
(* queue (256 in the code) holds all the tasks there are.                  *)
(***************************************************************************)
EXTENDS Integers, Sequences

CONSTANTS
  Run,        \* holdInput instructions given to the bot
  None,       \* no run
  HoldLimit,  \* the longest hold StartHold accepts (600 ticks)
  MaxTicks    \* bound on the ticks asked for

HoldInputAssumption == None \notin Run /\ HoldLimit \in Nat /\ MaxTicks \in Nat

VARIABLES
  run,      \* where each Run is, or what it returned
  asked,    \* the ticks it asks for
  signal,   \* is there a signal in its channel?
  tasks,    \* tasks queued on the tick loop
  holder,   \* holdDone: whose channel it is
  left,     \* holdTicks
  held      \* history: the ticks each run's input has been applied

vars == <<run, asked, signal, tasks, holder, left, held>>

Start(r) == [do |-> "start", run |-> r]
Stop == [do |-> "stop", run |-> None]

Init ==
  /\ run = [r \in Run |-> "new"]
  /\ asked \in [Run -> 0..MaxTicks]
  /\ signal = [r \in Run |-> FALSE]
  /\ tasks = << >>
  /\ holder = None /\ left = 0
  /\ held = [r \in Run |-> 0]

-----------------------------------------------------------------------------
(* Run's goroutine: queue the start and wait for the task to be done.      *)
Call(r) ==
  /\ run[r] = "new"
  /\ run' = [run EXCEPT ![r] = "starting"]
  /\ tasks' = Append(tasks, Start(r))
  /\ UNCHANGED <<asked, signal, holder, left, held>>

(* The select takes the deadline, also when the channel has its signal: a  *)
(* stop is queued, and Run returns without waiting for it.                 *)
Deadline(r) ==
  /\ run[r] = "waiting"
  /\ run' = [run EXCEPT ![r] = "timedOut"]
  /\ tasks' = Append(tasks, Stop)
  /\ UNCHANGED <<asked, signal, holder, left, held>>

TakeSignal(r) ==
  /\ run[r] = "waiting"
  /\ signal[r]
  /\ run' = [run EXCEPT ![r] = "done"]
  /\ signal' = [signal EXCEPT ![r] = FALSE]
  /\ UNCHANGED <<asked, tasks, holder, left, held>>

-----------------------------------------------------------------------------
(* The tick loop. *)
InRange(ticks) == ticks \in 1..HoldLimit

MutantTakesOver(r) ==
  IF InRange(asked[r])
    THEN holder' = r /\ left' = asked[r] /\ run' = [run EXCEPT ![r] = "waiting"]
    ELSE run' = [run EXCEPT ![r] = "refused"] /\ UNCHANGED <<holder, left>>
StartHold(r) ==
  IF InRange(asked[r]) /\ holder = None
    THEN holder' = r /\ left' = asked[r] /\ run' = [run EXCEPT ![r] = "waiting"]
    ELSE run' = [run EXCEPT ![r] = "refused"] /\ UNCHANGED <<holder, left>>

RunStart ==
  /\ tasks # << >> /\ Head(tasks).do = "start"
  /\ StartHold(Head(tasks).run)
  /\ tasks' = Tail(tasks)
  /\ UNCHANGED <<asked, signal, held>>

(* finishHold: a stop ends the hold there is, whosever it is. *)
finishHold ==
  /\ holder' = None /\ left' = 0
  /\ signal' = IF holder = None THEN signal ELSE [signal EXCEPT ![holder] = TRUE]

RunStop ==
  /\ tasks # << >> /\ Head(tasks).do = "stop"
  /\ finishHold
  /\ tasks' = Tail(tasks)
  /\ UNCHANGED <<run, asked, held>>

tickHoldInput ==
  /\ holder # None /\ left > 0
  /\ held' = [held EXCEPT ![holder] = @ + 1]
  /\ IF left = 1 THEN finishHold
                 ELSE left' = left - 1 /\ UNCHANGED <<holder, signal>>
  /\ UNCHANGED <<run, asked, tasks>>

-----------------------------------------------------------------------------
RunTask == RunStart \/ RunStop
Next ==
  \/ \E r \in Run : Call(r) \/ Deadline(r) \/ TakeSignal(r)
  \/ RunTask
  \/ tickHoldInput

Spec == Init /\ [][Next]_vars

-----------------------------------------------------------------------------
(* A run waits only for a hold that is going on or for a signal that is    *)
(* there, and the hold going on ends within the ticks asked for: StartHold *)
(* promises that its channel "is written exactly once", and a second hold  *)
(* or a stop may not take the channel away.                                *)
SignalOwed ==
  /\ \A r \in Run : run[r] = "waiting" =>
       IF holder = r THEN ~signal[r] /\ left \in 1..(asked[r] - held[r]) ELSE signal[r]
  /\ holder # None => run[holder] \in {"waiting", "timedOut"}

(* holdInput "holds stick and buttons for Ticks actor ticks": a run that   *)
(* reports success has.                                                    *)
HeldInFull == \A r \in Run : run[r] = "done" => held[r] = asked[r]
=============================================================================
