---------------------------- MODULE SuiteRunner ----------------------------
(***************************************************************************)
(* The test runner of the addon (scripts/runner.ts): suites in order, the  *)
(* tests of a suite in order, hooks around them, a deadline for each test  *)
(* body, cleanups tracked in a context and run newest first, and verdicts  *)
(* that a failing teardown changes after they have been reported.          *)
(*                                                                         *)
(* A body that has passed its deadline cannot be stopped: it outlives it,  *)
(* goes on next to the tests after it and may track cleanups at any time,  *)
(* also in the turn between the last look of runCleanups at its context    *)
(* and the verdict.  Hooks and cleanups are awaited without a deadline.    *)
(* Marks sent to the viewer and artefacts pulled never fail a test and are *)
(* left out; a context is named by its test or by its suite.               *)
(***************************************************************************)
EXTENDS Integers, Sequences

CONSTANTS
  Suites,    \* the selected suites: a sequence of sequences of tests
  Skipped,   \* tests marked skip
  NoTest,    \* no test
  MaxTracked \* bound on the cleanups a context tracks

Suite == 1..Len(Suites)
TestsOf(s) == {Suites[s][i] : i \in 1..Len(Suites[s])}
Test == UNION {TestsOf(s) : s \in Suite}
Context == Test \cup Suite

SuiteRunnerAssumption ==
  /\ Suites \in Seq(Seq(Test)) /\ Suites # << >>
  /\ \A s \in Suite : Suites[s] # << >>   \* a suite left without tests is not selected
  /\ \A s, z \in Suite :                  \* a test is registered once
       \A i \in 1..Len(Suites[s]), j \in 1..Len(Suites[z]) :
         Suites[s][i] = Suites[z][j] => s = z /\ i = j
  /\ Skipped \subseteq Test
  /\ NoTest \notin Test /\ Test \cap Suite = {}
  /\ MaxTracked \in Nat

VARIABLES
  stopOnFirst,  \* stopOnFirstFailure
  phase,        \* what runSuites, runSuite or runTest is awaiting
  suite,        \* the suite it is in
  nth,          \* number of the test it is in
  body,         \* what each test's body is doing
  timer,        \* the test whose deadline is scheduled
  error,        \* has the test met an error so far?
  setupError, hookError,
  cleanups,     \* cleanups tracked by each context and not run, oldest first
  tracked,      \* how many it has tracked
  status,       \* the verdict on each test
  reported,     \* history: the last verdict reported
  trouble       \* history: contexts one of whose hooks, bodies or cleanups failed

suiteVars == <<setupError, hookError>>
reportVars == <<status, reported>>
vars == <<stopOnFirst, phase, suite, nth, body, timer, error, setupError,
          hookError, cleanups, tracked, status, reported, trouble>>

cur == Suites[suite][nth]

Init ==
  /\ stopOnFirst \in BOOLEAN
  /\ phase = "setup" /\ suite = 1 /\ nth = 1
  /\ body = [t \in Test |-> "unborn"]
  /\ timer = NoTest
  /\ error = [t \in Test |-> FALSE]
  /\ setupError = FALSE /\ hookError = FALSE
  /\ cleanups = [c \in Context |-> << >>]
  /\ tracked = [c \in Context |-> 0]
  /\ status = [t \in Test |-> "none"]
  /\ reported = [t \in Test |-> "none"]
  /\ trouble = {}

-----------------------------------------------------------------------------
(* A hook or cleanup of context c ends, well or (ok FALSE) with an error.  *)
Blame(c, ok) == trouble' = IF ok THEN trouble ELSE trouble \cup {c}

(* track, called by whatever runs in the context: by a hook, by a cleanup, *)
(* by the body, also long after its test is over.                          *)
Active(c) ==
  \/ c \in Test /\ body[c] \in {"running", "outlives"}
  \/ c \in Test /\ c = cur /\ phase \in {"beforeEach", "afterEach", "undo"}
  \/ c = suite /\ phase \in {"setup", "teardown", "suiteUndo"}

track(c) ==
  /\ Active(c)
  /\ tracked[c] < MaxTracked
  /\ tracked' = [tracked EXCEPT ![c] = @ + 1]
  /\ cleanups' = [cleanups EXCEPT ![c] = Append(@, tracked'[c])]
  /\ UNCHANGED <<stopOnFirst, phase, suite, nth, body, timer, error, suiteVars,
                 reportVars, trouble>>

(* A suite without the hook is one whose hook ends at once. *)
Setup(ok) ==
  /\ phase = "setup"
  /\ setupError' = ~ok
  /\ Blame(suite, ok)
  /\ phase' = IF ok THEN "testStart" ELSE "failAll"
  /\ UNCHANGED <<stopOnFirst, suite, nth, body, timer, error, hookError,
                 cleanups, tracked, reportVars>>

(* The fixture never came up: the tests fail unrun, the skipped are        *)
(* skipped, one after the other.                                           *)
FailUnrun ==
  /\ phase = "failAll"
  /\ LET verdict == IF cur \in Skipped THEN "skipped" ELSE "failed" IN
       /\ status' = [status EXCEPT ![cur] = verdict]
       /\ reported' = [reported EXCEPT ![cur] = verdict]
  /\ IF nth < Len(Suites[suite]) THEN nth' = nth + 1 /\ UNCHANGED phase
                                 ELSE phase' = "teardown" /\ UNCHANGED nth
  /\ UNCHANGED <<stopOnFirst, suite, body, timer, error, suiteVars, cleanups,
                 tracked, trouble>>

TestStart ==
  /\ phase = "testStart"
  /\ IF cur \in Skipped
       THEN status' = [status EXCEPT ![cur] = "skipped"] /\ phase' = "finishTest"
       ELSE phase' = "beforeEach" /\ UNCHANGED status
  /\ UNCHANGED <<stopOnFirst, suite, nth, body, timer, error, suiteVars,
                 cleanups, tracked, reported, trouble>>

(* withTimeout starts the body and schedules its deadline. *)
BeforeEach(ok) ==
  /\ phase = "beforeEach"
  /\ Blame(cur, ok)
  /\ error' = [error EXCEPT ![cur] = ~ok]
  /\ IF ok THEN /\ phase' = "body"
                /\ body' = [body EXCEPT ![cur] = "running"]
                /\ timer' = cur
           ELSE phase' = "afterEach" /\ UNCHANGED <<body, timer>>
  /\ UNCHANGED <<stopOnFirst, suite, nth, suiteVars, cleanups, tracked, reportVars>>

(* The body of t ends.  Nobody awaits it any more when its deadline has    *)
(* passed; otherwise the race is over and the deadline is unscheduled.     *)
BodyEnds(t, ok) ==
  /\ body[t] \in {"running", "outlives"}
  /\ body' = [body EXCEPT ![t] = IF @ = "running" THEN "over" ELSE "outlived"]
  /\ IF t = cur /\ phase = "body"
       THEN /\ phase' = "afterEach"
            /\ timer' = NoTest
            /\ error' = [error EXCEPT ![t] = ~ok]
            /\ Blame(t, ok)
       ELSE UNCHANGED <<phase, timer, error, trouble>>
  /\ UNCHANGED <<stopOnFirst, suite, nth, suiteVars, cleanups, tracked, reportVars>>

(* The deadline cancels every instruction in flight and rejects the race.  *)
MutantWaitsForBody ==
  /\ timer # NoTest
  /\ timer' = NoTest
  /\ Blame(cur, FALSE)
  /\ UNCHANGED <<stopOnFirst, phase, suite, nth, body, error, suiteVars, cleanups,
                 tracked, reportVars>>
Timeout ==
  /\ timer # NoTest
  /\ timer' = NoTest
  /\ IF timer = cur /\ phase = "body"
       THEN /\ phase' = "afterEach"
            /\ body' = [body EXCEPT ![cur] = "outlives"]
            /\ error' = [error EXCEPT ![cur] = TRUE]
            /\ Blame(cur, FALSE)
       ELSE UNCHANGED <<phase, body, error, trouble>>
  /\ UNCHANGED <<stopOnFirst, suite, nth, suiteVars, cleanups, tracked, reportVars>>

AfterEach(ok) ==
  /\ phase = "afterEach"
  /\ phase' = "cleanup"
  /\ error' = [error EXCEPT ![cur] = @ \/ ~ok]
  /\ Blame(cur, ok)
  /\ UNCHANGED <<stopOnFirst, suite, nth, body, timer, suiteVars, cleanups,
                 tracked, reportVars>>

(* runCleanups pops one cleanup after another and awaits it; what it tracks *)
(* meanwhile is popped next.  An error is kept and the rest still run.     *)
Pop(c) ==
  /\ cleanups[c] # << >>
  /\ cleanups' = [cleanups EXCEPT ![c] = SubSeq(@, 1, Len(@) - 1)]

Undo ==
  /\ phase = "cleanup" /\ Pop(cur) /\ phase' = "undo"
  /\ UNCHANGED <<stopOnFirst, suite, nth, body, timer, error, suiteVars, tracked,
                 reportVars, trouble>>

MutantErrorForgotten(ok) ==
  /\ phase = "undo" /\ phase' = "cleanup"
  /\ Blame(cur, ok)
  /\ UNCHANGED <<stopOnFirst, suite, nth, body, timer, error, suiteVars, cleanups,
                 tracked, reportVars>>
MutantGivesUp(ok) ==
  /\ phase = "undo" /\ phase' = IF ok THEN "cleanup" ELSE "verdict"
  /\ error' = [error EXCEPT ![cur] = @ \/ ~ok]
  /\ Blame(cur, ok)
  /\ UNCHANGED <<stopOnFirst, suite, nth, body, timer, suiteVars, cleanups,
                 tracked, reportVars>>
Undone(ok) ==
  /\ phase = "undo" /\ phase' = "cleanup"
  /\ error' = [error EXCEPT ![cur] = @ \/ ~ok]
  /\ Blame(cur, ok)
  /\ UNCHANGED <<stopOnFirst, suite, nth, body, timer, suiteVars, cleanups,
                 tracked, reportVars>>

(* runCleanups finds nothing left and returns.  Its caller goes on in a    *)
(* turn of its own, and a body that outlives its deadline may be first.    *)
CleanedUp ==
  /\ \/ phase = "cleanup" /\ cleanups[cur] = << >> /\ phase' = "verdict"
     \/ phase = "suiteCleanup" /\ cleanups[suite] = << >> /\ phase' = "suiteEnd"
  /\ UNCHANGED <<stopOnFirst, suite, nth, body, timer, error, suiteVars, cleanups,
                 tracked, reportVars, trouble>>

Verdict ==
  /\ phase = "verdict"
  /\ status' = [status EXCEPT ![cur] = IF error[cur] THEN "failed" ELSE "passed"]
  /\ phase' = "finishTest"
  /\ UNCHANGED <<stopOnFirst, suite, nth, body, timer, error, suiteVars,
                 cleanups, tracked, reported, trouble>>

FinishTest ==
  /\ phase = "finishTest"
  /\ reported' = [reported EXCEPT ![cur] = status[cur]]
  /\ IF nth = Len(Suites[suite]) \/ (stopOnFirst /\ status[cur] = "failed")
       THEN phase' = "teardown" /\ UNCHANGED nth
       ELSE phase' = "testStart" /\ nth' = nth + 1
  /\ UNCHANGED <<stopOnFirst, suite, body, timer, error, suiteVars, cleanups,
                 tracked, status, trouble>>

-----------------------------------------------------------------------------
Teardown(ok) ==
  /\ phase = "teardown"
  /\ hookError' = ~ok
  /\ Blame(suite, ok)
  /\ phase' = "suiteCleanup"
  /\ UNCHANGED <<stopOnFirst, suite, nth, body, timer, error, setupError,
                 cleanups, tracked, reportVars>>

SuiteUndo ==
  /\ phase = "suiteCleanup" /\ Pop(suite) /\ phase' = "suiteUndo"
  /\ UNCHANGED <<stopOnFirst, suite, nth, body, timer, error, suiteVars, tracked,
                 reportVars, trouble>>

SuiteUndone(ok) ==
  /\ phase = "suiteUndo" /\ phase' = "suiteCleanup"
  /\ hookError' = (hookError \/ ~ok)
  /\ Blame(suite, ok)
  /\ UNCHANGED <<stopOnFirst, suite, nth, body, timer, error, setupError, cleanups,
                 tracked, reportVars>>

(* A hook of the suite failed: every test that has a verdict and was not   *)
(* skipped fails, and is reported again.                                   *)
Executed == {t \in TestsOf(suite) : status[t] \in {"passed", "failed"}}
Amend ==
  /\ status' = [t \in Test |-> IF t \in Executed THEN "failed" ELSE status[t]]
  /\ reported' = [t \in Test |-> IF t \in Executed THEN "failed" ELSE reported[t]]

SuiteEnd ==
  /\ phase = "suiteEnd"
  /\ IF hookError THEN Amend ELSE UNCHANGED reportVars
  /\ IF \/ suite = Len(Suites)
        \/ stopOnFirst /\ \E t \in TestsOf(suite) : status'[t] = "failed"
       THEN phase' = "runEnd" /\ UNCHANGED <<suite, nth>>
       ELSE phase' = "setup" /\ suite' = suite + 1 /\ nth' = 1
  /\ setupError' = FALSE /\ hookError' = FALSE
  /\ UNCHANGED <<stopOnFirst, body, timer, error, cleanups, tracked, trouble>>

-----------------------------------------------------------------------------
Await(ok) ==
  Setup(ok) \/ BeforeEach(ok) \/ AfterEach(ok) \/ Undone(ok)
    \/ Teardown(ok) \/ SuiteUndone(ok)
Runner == (\E ok \in BOOLEAN : Await(ok))
            \/ FailUnrun \/ TestStart \/ Undo \/ CleanedUp \/ Verdict \/ FinishTest
            \/ SuiteUndo \/ SuiteEnd

Next ==
  \/ Runner
  \/ \E t \in Test, ok \in BOOLEAN : BodyEnds(t, ok)
  \/ Timeout
  \/ \E c \in Context : track(c)

Spec == Init /\ [][Next]_vars

(* Hooks, cleanups and marks end (each is the suite's own code or an       *)
(* instruction, and instructions have deadlines); a scheduled deadline     *)
(* fires.  A body need not end.                                            *)
FairSpec == Spec /\ WF_vars(Runner) /\ WF_vars(Timeout)

-----------------------------------------------------------------------------
(* What a judged test has left to undo, its own body has tracked after     *)
(* the deadline, and then the test has failed: a fixture that leaks is     *)
(* never behind a pass, nor behind a test that failed in time, whichever   *)
(* of its hooks and cleanups fail or track more, and nothing of a suite    *)
(* leaks (runner.ts:452-454 and 552-556).                                  *)
LeaksOnlyPastDeadline ==
  /\ \A t \in Test : status[t] # "none" /\ cleanups[t] # << >>
       => body[t] \in {"outlives", "outlived"} /\ status[t] = "failed"
  /\ \A s \in Suite : s < suite \/ (phase = "runEnd" /\ s = suite) => cleanups[s] = << >>

(* At the end of a suite the last report on each test is its verdict, and  *)
(* a test passed exactly if neither it nor its suite had any trouble: no   *)
(* error is lost because another came before, after or during the report.  *)
Truth(s, t) ==
  IF t \in Skipped THEN "skipped"
  ELSE IF {s, t} \cap trouble = {} THEN "passed" ELSE "failed"
VerdictsTruthful ==
  \A s \in Suite : (s < suite \/ (phase = "runEnd" /\ s = suite)) =>
    \A t \in TestsOf(s) : /\ reported[t] = status[t]
                          /\ status[t] \in {"none", Truth(s, t)}
                          /\ status[t] = "none" => stopOnFirst

(* track promises that a cleanup runs when the test finishes, whether it    *)
(* passed, failed or timed out.  It does not hold: what a body tracks after *)
(* its deadline, when the cleanups of its test have run, nobody runs.      *)
EveryCleanupRuns == phase = "runEnd" => \A c \in Test : cleanups[c] = << >>

(* The run ends, also when bodies never do. *)
RunEnds == <>(phase = "runEnd")
=============================================================================
