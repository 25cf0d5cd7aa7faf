---------------------------- MODULE Instructions ----------------------------
(***************************************************************************)
(* Instructions, and the tests that give them.  Instructions that wait for *)
(* the tick loop to call them back: navigateToBlock, whose channel holds   *)
(* an answer ("navigation"), breakBlock, whose channel does not ("break"), *)
(* and holdInput ("hold").  And of the addon the test runner ("tests") and *)
(* two of the longer helpers of the tests, the walk through forms          *)
(* ("forms") and the synchronised reading of the inventory ("inventory").  *)
(* They share no state, so a behaviour is one of the six, chosen at the    *)
(* start.                                                                  *)
(***************************************************************************)
EXTENDS Navigation

CONSTANTS
  Breaker, Creative, MaxBreakStops,        \* see BlockBreaking
  InputHolder, HoldLimit, MaxTicks,        \* see HoldInput
  Suites, Skipped, NoTest, MaxTracked,     \* see SuiteRunner
  Walker, Form, MaxForms,                  \* see FormWalk
  Reader, FreeSlots, MaxWrites             \* see InventorySync

VARIABLES
  part,
  breakRun, breakTasks, loop, breakCallback, breaking, breakTarget, abort, broken, breakStops,
  holdRun, asked, signal, holdTasks, holder, left, held,
  stopOnFirst, phase, suite, nth, body, timer, error, setupError, hookError,
  cleanups, tracked, status, reported, trouble,
  unsent, open, goal, walkAt, shown, answered, pressed, madeFor, late,
  server, client, wire, callAt, since, result, tangled

Breaks == INSTANCE BlockBreaking WITH
  Run <- Breaker, MaxStops <- MaxBreakStops,
  run <- breakRun, tasks <- breakTasks, callback <- breakCallback, target <- breakTarget,
  stops <- breakStops
Holds == INSTANCE HoldInput WITH Run <- InputHolder, run <- holdRun, tasks <- holdTasks
Tests == INSTANCE SuiteRunner
Forms == INSTANCE FormWalk WITH at <- walkAt
Inventory == INSTANCE InventorySync WITH at <- callAt

ASSUME InstructionsAssumption ==
  /\ Breaks!BlockBreakingAssumption
  /\ Holds!HoldInputAssumption
  /\ Tests!SuiteRunnerAssumption
  /\ Forms!FormWalkAssumption
  /\ Inventory!InventorySyncAssumption

breakVars == <<breakRun, breakTasks, loop, breakCallback, breaking, breakTarget, abort, broken,
               breakStops>>
holdVars == <<holdRun, asked, signal, holdTasks, holder, left, held>>
testVars == <<stopOnFirst, phase, suite, nth, body, timer, error, setupError, hookError,
              cleanups, tracked, status, reported, trouble>>
formVars == <<unsent, open, goal, walkAt, shown, answered, pressed, madeFor, late>>
inventoryVars == <<server, client, wire, callAt, since, result, tangled>>
helperVars == <<formVars, inventoryVars>>
instructionVars == <<part, vars, breakVars, holdVars, testVars, helperVars>>

InstructionsInit ==
  /\ part \in {"navigation", "break", "hold", "tests", "forms", "inventory"}
  /\ Init
  /\ Breaks!Init
  /\ Holds!Init /\ (part # "hold" => asked = [r \in InputHolder |-> 0])
  /\ Tests!Init /\ (part # "tests" => ~stopOnFirst)
  /\ Forms!Init
  /\ Inventory!Init

Navigating(A) ==
  part = "navigation" /\ A /\ UNCHANGED <<part, breakVars, holdVars, testVars, helperVars>>
BreakingBlocks(A) ==
  part = "break" /\ A /\ UNCHANGED <<part, vars, holdVars, testVars, helperVars>>
Holding(A) ==
  part = "hold" /\ A /\ UNCHANGED <<part, vars, breakVars, testVars, helperVars>>
Testing(A) ==
  part = "tests" /\ A /\ UNCHANGED <<part, vars, breakVars, holdVars, helperVars>>
Helping(A, name, otherVars) ==
  part = name /\ A /\ UNCHANGED <<part, vars, breakVars, holdVars, testVars, otherVars>>

InstructionsNext ==
  \/ Navigating(Next)
  \/ BreakingBlocks(Breaks!Next)
  \/ Holding(Holds!Next)
  \/ Testing(Tests!Next)
  \/ Helping(Forms!Next, "forms", inventoryVars)
  \/ Helping(Inventory!Next, "inventory", formVars)

(* The fairness of Navigation and of SuiteRunner; holds and what waits for *)
(* them are as fair as legs.                                               *)
InstructionsSpec ==
  /\ InstructionsInit /\ [][InstructionsNext]_instructionVars
  /\ WF_instructionVars(Navigating(tickNavigating))
  /\ SF_instructionVars(Navigating(RunTask))
  /\ \A r \in Run : /\ WF_instructionVars(Navigating(TakeAnswer(r)))
                    /\ WF_instructionVars(Navigating(GiveUp(r)))
  /\ WF_instructionVars(Testing(Tests!Runner))
  /\ WF_instructionVars(Testing(Tests!Timeout))

(* BlockBreaking: every answer is the run's own, and it gets one.          *)
(* HoldInput: whoever waits for the end of a hold is told of it.           *)
OneTruthfulAnswer == Breaks!OneTruthfulAnswer /\ Holds!SignalOwed

(* Navigation: whoever waits for a leg gets an answer, because the leg     *)
(* ends.                                                                   *)
EveryInstructionReturns == EveryLegEnds /\ EveryRunReturns

(* SuiteRunner: verdicts are truthful, nothing leaks but what a body       *)
(* tracks after its deadline, and the run ends.                            *)
VerdictsTruthful == Tests!VerdictsTruthful
LeaksOnlyPastDeadline == Tests!LeaksOnlyPastDeadline
RunEnds == part = "tests" => Tests!RunEnds

(* FormWalk and InventorySync: what a helper returns is what happened.     *)
WalkFaithful == Forms!WalkFaithful
SyncedInTurn == Inventory!SyncedInTurn
=============================================================================
