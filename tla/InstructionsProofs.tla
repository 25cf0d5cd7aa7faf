------------------------- MODULE InstructionsProofs -------------------------
(***************************************************************************)
(* What the instructions and the tests that give them promise, proved for  *)
(* any number of runs, suites, tests, forms and calls.                     *)
(*                                                                         *)
(* The parts share no variables, so each has an invariant of its own,      *)
(* which the steps of the others leave alone.                              *)
(***************************************************************************)
EXTENDS Instructions, SequenceTheorems, TLAPS

(***************************************************************************)
(* Task queues of the tick loop.  Each run queues one start, and is        *)
(* "starting" until that has been run.                                     *)
(***************************************************************************)
Tasks(runs, other) == [do : {"start"}, run : runs] \cup {other}

NoStart(queue, r) == \A i \in 1..Len(queue) : queue[i].do = "start" => queue[i].run # r

StartsOnce(queue, at) ==
  /\ \A i \in 1..Len(queue) : queue[i].do = "start" => at[queue[i].run] = "starting"
  /\ \A i, j \in 1..Len(queue) :
       queue[i].do = "start" /\ queue[j].do = "start" /\ queue[i].run = queue[j].run => i = j

LEMMA StartsKept ==
  ASSUME NEW R, NEW other, other.do # "start", NEW q \in Seq(Tasks(R, other)),
         NEW at, NEW at2, StartsOnce(q, at),
         \A r \in R : at[r] = "starting" => at2[r] = "starting"
  PROVE  StartsOnce(q, at2)
<1>1. \A i \in 1..Len(q) : q[i] \in Tasks(R, other)
  BY ElementOfSeq
<1>2. \A i \in 1..Len(q) : q[i].do = "start" => q[i].run \in R
  BY <1>1 DEF Tasks
<1> QED
  BY <1>2 DEF StartsOnce

LEMMA TaskQueued ==
  ASSUME NEW R, NEW other, other.do # "start", NEW q \in Seq(Tasks(R, other)),
         NEW t \in Tasks(R, other), NEW at, NEW at2, StartsOnce(q, at),
         \A r \in R : at[r] = "starting" => at2[r] = "starting",
         t.do = "start" => at[t.run] # "starting" /\ at2[t.run] = "starting"
  PROVE  /\ Append(q, t) \in Seq(Tasks(R, other))
         /\ StartsOnce(Append(q, t), at2)
         /\ \A r : NoStart(q, r) /\ (t.do = "start" => t.run # r) => NoStart(Append(q, t), r)
<1> DEFINE a == Append(q, t)
<1>1. /\ a \in Seq(Tasks(R, other)) /\ Len(a) = Len(q) + 1
      /\ \A i \in 1..Len(q) : a[i] = q[i]
      /\ a[Len(q) + 1] = t
  BY AppendProperties
<1>2. Len(q) \in Nat
  OBVIOUS
<1>3. \A i \in 1..Len(a) : i \in 1..Len(q) \/ i = Len(q) + 1
  BY <1>1, <1>2
<1>4. StartsOnce(q, at2)
  <2>1. \A i \in 1..Len(q) : q[i] \in Tasks(R, other)
    BY ElementOfSeq
  <2>2. \A i \in 1..Len(q) : q[i].do = "start" => q[i].run \in R
    BY <2>1 DEF Tasks
  <2> QED
    BY <2>2 DEF StartsOnce
<1>5. \A i \in 1..Len(q) : q[i].do = "start" => at[q[i].run] = "starting"
  BY DEF StartsOnce
<1> HIDE DEF a
<1>6. \A i \in 1..Len(a) : a[i].do = "start" => at2[a[i].run] = "starting"
  BY <1>1, <1>3, <1>4 DEF StartsOnce
<1>7. \A i, j \in 1..Len(a) :
        a[i].do = "start" /\ a[j].do = "start" /\ a[i].run = a[j].run => i = j
  BY <1>1, <1>3, <1>4, <1>5 DEF StartsOnce
<1>8. \A r : NoStart(q, r) /\ (t.do = "start" => t.run # r) => NoStart(a, r)
  BY <1>1, <1>3 DEF NoStart
<1> QED
  BY <1>1, <1>6, <1>7, <1>8 DEF StartsOnce, a

LEMMA TaskTaken ==
  ASSUME NEW R, NEW other, other.do # "start", NEW q \in Seq(Tasks(R, other)), q # << >>,
         NEW at, NEW at2, StartsOnce(q, at),
         \A r \in R : at[r] = "starting" =>
                        at2[r] = "starting" \/ (Head(q).do = "start" /\ Head(q).run = r)
  PROVE  /\ Tail(q) \in Seq(Tasks(R, other))
         /\ StartsOnce(Tail(q), at2)
<1> DEFINE l == Tail(q)
<1>1. /\ Head(q) \in Tasks(R, other) /\ l \in Seq(Tasks(R, other)) /\ Len(l) = Len(q) - 1
      /\ \A i \in 1..Len(l) : l[i] = q[i + 1]
  BY HeadTailProperties
<1>2. Len(q) \in Nat \ {0} /\ Head(q) = q[1]
  OBVIOUS
<1>3. \A n \in Nat \ {0} : 1 \in 1..n /\ \A i \in 1..(n - 1) : i + 1 \in 1..n /\ i + 1 # 1
  OBVIOUS
<1>4. 1 \in 1..Len(q) /\ \A i \in 1..Len(l) : i + 1 \in 1..Len(q) /\ i + 1 # 1
  BY <1>1, <1>2, <1>3
<1>5. \A i \in 1..Len(q) : q[i] \in Tasks(R, other)
  BY ElementOfSeq
<1>6. \A i \in 1..Len(q) : q[i].do = "start" => q[i].run \in R
  BY <1>5 DEF Tasks
<1>7. Head(q).do = "start" => \A i \in 1..Len(l) : l[i].do = "start" => l[i].run # Head(q).run
  BY <1>1, <1>2, <1>4 DEF StartsOnce
<1> HIDE DEF l
<1>8. \A i \in 1..Len(l) : l[i].do = "start" => at2[l[i].run] = "starting"
  BY <1>1, <1>4, <1>6, <1>7 DEF StartsOnce
<1>9. \A i, j \in 1..Len(l) :
        l[i].do = "start" /\ l[j].do = "start" /\ l[i].run = l[j].run => i = j
  <2> SUFFICES ASSUME NEW i \in 1..Len(l), NEW j \in 1..Len(l), l[i].do = "start",
                      l[j].do = "start", l[i].run = l[j].run
               PROVE  i = j
    OBVIOUS
  <2>1. i + 1 = j + 1
    BY <1>1, <1>4 DEF StartsOnce
  <2> QED
    BY <2>1
<1> QED
  BY <1>1, <1>8, <1>9 DEF StartsOnce, l

(* The start at the head of a queue is that of a run that is starting, and *)
(* the only one.                                                           *)
LEMMA HeadStarts ==
  ASSUME NEW R, NEW other, other.do # "start", NEW q \in Seq(Tasks(R, other)), q # << >>,
         NEW at, StartsOnce(q, at), Head(q).do = "start"
  PROVE  /\ Head(q).run \in R /\ at[Head(q).run] = "starting"
         /\ NoStart(Tail(q), Head(q).run)
<1>1. /\ Head(q) \in Tasks(R, other) /\ Len(Tail(q)) = Len(q) - 1
      /\ \A i \in 1..Len(Tail(q)) : Tail(q)[i] = q[i + 1]
  BY HeadTailProperties
<1>2. Len(q) \in Nat \ {0} /\ Head(q) = q[1]
  OBVIOUS
<1>3. \A n \in Nat \ {0} : 1 \in 1..n /\ \A i \in 1..(n - 1) : i + 1 \in 1..n /\ i + 1 # 1
  OBVIOUS
<1>4. 1 \in 1..Len(q) /\ \A i \in 1..Len(Tail(q)) : i + 1 \in 1..Len(q) /\ i + 1 # 1
  BY <1>1, <1>2, <1>3
<1>5. Head(q).run \in R
  BY <1>1 DEF Tasks
<1>6. at[Head(q).run] = "starting"
  BY <1>2, <1>4 DEF StartsOnce
<1>7. \A i \in 1..Len(Tail(q)) : Tail(q)[i].do = "start" => Tail(q)[i].run # Head(q).run
  BY <1>1, <1>2, <1>4 DEF StartsOnce
<1> QED
  BY <1>5, <1>6, <1>7 DEF NoStart

(***************************************************************************)
(* breakBlock.  The callback installed belongs to a run without an answer, *)
(* and while that run waits the block being broken is its own.             *)
(***************************************************************************)
BreakTypes ==
  /\ breakRun \in [Breaker -> {"new", "starting", "waiting"} \cup Breaks!Returned]
  /\ breakTasks \in Seq(Tasks(Breaker, Breaks!Abort))
  /\ loop \in [at : {"free", "sending", "sent"}, to : Breaker \cup {None}, ok : BOOLEAN,
               for : {"none", "tick", "abort", "start"}]
  /\ breakCallback \in Breaker \cup {None}

(* The loop in a callback calls that of the handler, and reports success   *)
(* only of a break; a callback inside a start task is never received.      *)
InCallback ==
  /\ loop.at = "free" => loop = Breaks!Free
  /\ loop.at # "free" => /\ breakCallback # None /\ loop.to = breakCallback
                         /\ loop.ok => loop.for \in {"tick", "start"}
  /\ loop.at # "free" /\ loop.for = "start" =>
       /\ loop.at = "sending" /\ breakRun[loop.to] = "starting" /\ NoStart(breakTasks, loop.to)

CallbackOwed ==
  breakCallback # None =>
    /\ loop.at # "sent" => breakRun[breakCallback] \notin {"broke", "aborted"}
    /\ breakRun[breakCallback] = "waiting" => breakTarget = breakCallback

BreakInv == /\ BreakTypes /\ StartsOnce(breakTasks, breakRun) /\ InCallback /\ CallbackOwed
            /\ Breaks!SuccessIsTruthful

LEMMA AbortIsNoStart == Breaks!Abort.do # "start" /\ Breaks!Abort \in Tasks(Breaker, Breaks!Abort)
  BY DEF Breaks!Abort, Tasks

LEMMA BreakInit == Breaks!Init => BreakInv
  BY InstructionsAssumption DEF Breaks!BlockBreakingAssumption,
     Breaks!Init, Breaks!Free, Breaks!Returned, Breaks!SuccessIsTruthful,
     BreakInv, BreakTypes, InCallback, CallbackOwed, StartsOnce, NoStart

(* Run's goroutine. *)
LEMMA BreakRunSteps ==
  ASSUME BreakInv, NEW r \in Breaker, Breaks!Call(r) \/ Breaks!Deadline(r) \/ Breaks!Receive(r)
  PROVE  BreakInv'
<1> USE DEF BreakInv
<1>0. None \notin Breaker /\ breakTasks \in Seq(Tasks(Breaker, Breaks!Abort))
  BY InstructionsAssumption DEF Breaks!BlockBreakingAssumption, BreakTypes
<1>1. CASE Breaks!Call(r)
  <2>1. /\ breakRun[r] = "new" /\ breakRun' = [breakRun EXCEPT ![r] = "starting"]
        /\ breakTasks' = Append(breakTasks, Breaks!Start(r))
        /\ UNCHANGED <<loop, breakCallback, breaking, breakTarget, abort, broken>>
    BY <1>1 DEF Breaks!Call, Breaks!worldVars
  <2>2. Breaks!Start(r) \in Tasks(Breaker, Breaks!Abort) /\ Breaks!Start(r).do = "start"
        /\ Breaks!Start(r).run = r
    BY DEF Breaks!Start, Tasks
  <2>3. \A q \in Breaker : breakRun[q] = "starting" => breakRun'[q] = "starting"
    BY <2>1 DEF BreakTypes
  <2>4. breakRun'[r] = "starting" /\ breakRun[r] # "starting"
    BY <2>1 DEF BreakTypes
  <2>5. /\ breakTasks' \in Seq(Tasks(Breaker, Breaks!Abort)) /\ StartsOnce(breakTasks', breakRun')
        /\ \A q : NoStart(breakTasks, q) /\ r # q => NoStart(breakTasks', q)
    <3>1. breakTasks' = Append(breakTasks, Breaks!Start(r))
      BY <2>1
    <3> QED
      BY <1>0, <2>2, <2>3, <2>4, <3>1, AbortIsNoStart, TaskQueued
  <2>6. BreakTypes'
    BY <2>1, <2>5 DEF BreakTypes
  <2>7. InCallback'
    BY <2>1, <2>5 DEF InCallback, BreakTypes
  <2>8. CallbackOwed' /\ Breaks!SuccessIsTruthful'
    BY <2>1 DEF CallbackOwed, BreakTypes, Breaks!SuccessIsTruthful
  <2> QED
    BY <2>5, <2>6, <2>7, <2>8
<1>2. CASE Breaks!Deadline(r)
  <2>1. /\ breakRun[r] = "waiting" /\ breakRun' = [breakRun EXCEPT ![r] = "timedOut"]
        /\ breakTasks' = Append(breakTasks, Breaks!Abort)
        /\ UNCHANGED <<loop, breakCallback, breaking, breakTarget, abort, broken>>
    BY <1>2 DEF Breaks!Deadline, Breaks!worldVars
  <2>2. \A q \in Breaker : breakRun[q] = "starting" => breakRun'[q] = "starting"
    BY <2>1 DEF BreakTypes
  <2>3. /\ breakTasks' \in Seq(Tasks(Breaker, Breaks!Abort)) /\ StartsOnce(breakTasks', breakRun')
        /\ \A q : NoStart(breakTasks, q) => NoStart(breakTasks', q)
    BY <1>0, <2>1, <2>2, AbortIsNoStart, TaskQueued
  <2>4. BreakTypes'
    BY <2>1, <2>3 DEF BreakTypes, Breaks!Returned
  <2>5. InCallback'
    BY <2>1, <2>3 DEF InCallback, BreakTypes
  <2>6. CallbackOwed' /\ Breaks!SuccessIsTruthful'
    BY <2>1 DEF CallbackOwed, BreakTypes, Breaks!SuccessIsTruthful
  <2> QED
    BY <2>3, <2>4, <2>5, <2>6
<1>3. CASE Breaks!Receive(r)
  <2>1. /\ breakRun[r] = "waiting" /\ loop.at = "sending" /\ loop.to = r
        /\ breakRun' = [breakRun EXCEPT ![r] = IF loop.ok THEN "broke" ELSE "aborted"]
        /\ loop' = [at |-> "sent", to |-> r, ok |-> loop.ok, for |-> loop.for]
        /\ UNCHANGED <<breakTasks, breakCallback, breaking, breakTarget, abort, broken>>
    BY <1>3 DEF Breaks!Receive, Breaks!worldVars, Breaks!InCallback
  <2>2. \A q \in Breaker : breakRun[q] = "starting" => breakRun'[q] = "starting"
    BY <2>1 DEF BreakTypes
  <2>3. StartsOnce(breakTasks', breakRun')
    <3>1. breakTasks' = breakTasks
      BY <2>1
    <3> QED
      BY <1>0, <2>2, <3>1, AbortIsNoStart, StartsKept
  <2>4. loop.for # "start" /\ breakCallback = r /\ breakTarget = r
    BY <1>0, <2>1 DEF InCallback, CallbackOwed
  <2>5. BreakTypes'
    BY <2>1 DEF BreakTypes, Breaks!Returned
  <2>6. InCallback'
    BY <2>1, <2>4 DEF InCallback, BreakTypes
  <2>7. CallbackOwed'
    BY <2>1, <2>4 DEF CallbackOwed, BreakTypes
  <2>8. Breaks!SuccessIsTruthful'
    <3>1. ASSUME NEW q \in Breaker, breakRun'[q] = "broke", q # r PROVE q \in broken'
      BY <2>1, <3>1 DEF Breaks!SuccessIsTruthful, BreakTypes
    <3>2. breakRun'[r] = "broke" => loop.ok
      BY <2>1 DEF BreakTypes
    <3>3. loop.ok => loop'.for = "tick"
      BY <2>1, <2>4 DEF InCallback
    <3> QED
      BY <2>1, <2>4, <3>1, <3>2, <3>3 DEF Breaks!SuccessIsTruthful
  <2> QED
    BY <2>3, <2>5, <2>6, <2>7, <2>8
<1> QED
  BY <1>1, <1>2, <1>3

LEMMA BreakStop == ASSUME BreakInv, Breaks!StopBreakingBlock PROVE BreakInv'
<1> USE DEF BreakInv
<1>1. /\ breakTasks' = Append(breakTasks, Breaks!Abort)
      /\ UNCHANGED <<breakRun, loop, breakCallback, breaking, breakTarget, abort, broken>>
  BY DEF Breaks!StopBreakingBlock, Breaks!worldVars
<1>2. /\ breakTasks' \in Seq(Tasks(Breaker, Breaks!Abort)) /\ StartsOnce(breakTasks', breakRun')
      /\ \A q : NoStart(breakTasks, q) => NoStart(breakTasks', q)
  BY <1>1, AbortIsNoStart, TaskQueued DEF BreakTypes
<1> QED
  BY <1>1, <1>2 DEF BreakTypes, InCallback, CallbackOwed, Breaks!SuccessIsTruthful

(* The tick loop runs a start task. *)
LEMMA BreakStart == ASSUME BreakInv, Breaks!RunStart PROVE BreakInv'
<1> USE DEF BreakInv
<1>0. None \notin Breaker
  BY InstructionsAssumption DEF Breaks!BlockBreakingAssumption
<1>1. PICK r : r = Head(breakTasks).run
  OBVIOUS
<1>2. /\ loop = Breaks!Free /\ breakTasks # << >> /\ Head(breakTasks).do = "start"
      /\ breakTasks' = Tail(breakTasks) /\ breakCallback' = r
      /\ Breaks!FailToStart(r) \/ Breaks!StartBreaking(r) \/ Breaks!BreakAtOnce(r)
      /\ UNCHANGED broken
  BY <1>1 DEF Breaks!RunStart
<1>3. \A q \in Breaker : q # r => breakRun'[q] = breakRun[q]
  BY <1>2 DEF BreakTypes, Breaks!FailToStart, Breaks!StartBreaking, Breaks!BreakAtOnce
<1>4. \A q \in Breaker : breakRun[q] = "starting" => breakRun'[q] = "starting" \/ r = q
  BY <1>3
<1>5. /\ breakTasks' \in Seq(Tasks(Breaker, Breaks!Abort)) /\ StartsOnce(breakTasks', breakRun')
      /\ r \in Breaker /\ breakRun[r] = "starting" /\ NoStart(breakTasks', r)
  <2>1. breakTasks \in Seq(Tasks(Breaker, Breaks!Abort)) /\ breakTasks # << >>
        /\ Head(breakTasks).do = "start" /\ breakTasks' = Tail(breakTasks)
    BY <1>2 DEF BreakTypes
  <2>2. \A q \in Breaker : breakRun[q] = "starting" =>
           breakRun'[q] = "starting" \/ (Head(breakTasks).do = "start" /\ Head(breakTasks).run = q)
    BY <1>1, <1>4, <2>1
  <2>3. Tail(breakTasks) \in Seq(Tasks(Breaker, Breaks!Abort))
        /\ StartsOnce(Tail(breakTasks), breakRun')
    BY <2>1, <2>2, AbortIsNoStart, TaskTaken
  <2>4. /\ Head(breakTasks).run \in Breaker /\ breakRun[Head(breakTasks).run] = "starting"
        /\ NoStart(Tail(breakTasks), Head(breakTasks).run)
    BY <2>1, AbortIsNoStart, HeadStarts
  <2> QED
    BY <1>1, <2>1, <2>3, <2>4
<1>6. loop.at = "free"
  BY <1>2 DEF Breaks!Free
<1>7. /\ breakRun' \in [Breaker -> {"new", "starting", "waiting"} \cup Breaks!Returned]
      /\ breakRun'[r] \in {"starting", "waiting", "failed"}
      /\ breakRun'[r] = "waiting" => breakTarget' = r
      /\ \/ loop' = loop
         \/ loop' = [at |-> "sending", to |-> r, ok |-> TRUE, for |-> "start"]
            /\ breakRun'[r] = "starting"
  BY <1>2, <1>5 DEF BreakTypes, Breaks!FailToStart, Breaks!StartBreaking, Breaks!BreakAtOnce,
     Breaks!InCallback, Breaks!Returned
<1>8. BreakTypes'
  <2>1. loop' \in [at : {"free", "sending", "sent"}, to : Breaker \cup {None}, ok : BOOLEAN,
                   for : {"none", "tick", "abort", "start"}]
    <3>1. CASE loop' = loop
      BY <3>1 DEF BreakTypes
    <3>2. CASE loop' = [at |-> "sending", to |-> r, ok |-> TRUE, for |-> "start"]
      BY <1>5, <3>2
    <3> QED
      BY <1>7, <3>1, <3>2
  <2> QED
    BY <1>2, <1>5, <1>7, <2>1 DEF BreakTypes
<1>9. InCallback'
  BY <1>0, <1>2, <1>5, <1>6, <1>7 DEF InCallback
<1>10. CallbackOwed'
  BY <1>2, <1>7 DEF CallbackOwed
<1>11. Breaks!SuccessIsTruthful'
  BY <1>2, <1>3, <1>6, <1>7 DEF Breaks!SuccessIsTruthful
<1> QED
  BY <1>5, <1>8, <1>9, <1>10, <1>11

(* It fires the callback there is, for an abort or for a break that        *)
(* completes; an abort may also just take effect.                          *)
LEMMA BreakFires ==
  ASSUME BreakInv, loop = Breaks!Free,
         \/ breakTasks' = breakTasks
         \/ breakTasks # << >> /\ breakTasks' = Tail(breakTasks) /\ Head(breakTasks).do = "abort",
         UNCHANGED <<breakRun, breakCallback, breakTarget>>,
         broken \subseteq broken',
         \/ loop' = loop
         \/ \E ok \in BOOLEAN, for \in {"tick", "abort"} :
              /\ breakCallback # None /\ (ok => for = "tick")
              /\ loop' = Breaks!InCallback("sending", breakCallback, ok, for)
  PROVE  BreakInv'
<1> USE DEF BreakInv
<1>1. /\ breakTasks' \in Seq(Tasks(Breaker, Breaks!Abort)) /\ StartsOnce(breakTasks', breakRun')
  <2>1. CASE breakTasks' = breakTasks
    BY <2>1 DEF BreakTypes
  <2>2. CASE breakTasks # << >> /\ breakTasks' = Tail(breakTasks)
    <3>1. \A q \in Breaker : breakRun[q] = "starting" => breakRun'[q] = "starting"
      OBVIOUS
    <3> QED
      BY <2>2, <3>1, AbortIsNoStart, TaskTaken DEF BreakTypes
  <2> QED
    BY <2>1, <2>2
<1>2. loop.at = "free"
  BY DEF Breaks!Free
<1>3. BreakTypes'
  BY <1>1 DEF BreakTypes, Breaks!InCallback
<1>4. InCallback'
  BY <1>2 DEF InCallback, Breaks!InCallback
<1>5. CallbackOwed'
  BY <1>2 DEF CallbackOwed
<1>6. Breaks!SuccessIsTruthful'
  BY <1>2 DEF Breaks!SuccessIsTruthful
<1> QED
  BY <1>1, <1>3, <1>4, <1>5, <1>6

LEMMA BreakLoopSteps ==
  ASSUME BreakInv, Breaks!RunAbort \/ Breaks!BreakCompletes \/ Breaks!AbortTakesEffect
  PROVE  BreakInv'
<1>1. ASSUME NEW ok \in BOOLEAN, NEW for \in {"tick", "abort"}, ok => for = "tick",
             loop = Breaks!Free, Breaks!CallbackThen(ok, for)
      PROVE  /\ broken \subseteq broken' /\ UNCHANGED breakTarget
             /\ \/ loop' = loop
                \/ breakCallback # None /\ loop' = Breaks!InCallback("sending", breakCallback, ok, for)
  BY <1>1 DEF Breaks!CallbackThen, Breaks!AfterCallback, Breaks!worldVars
<1>2. CASE Breaks!RunAbort
  <2>1. /\ loop = Breaks!Free /\ breakTasks # << >> /\ Head(breakTasks).do = "abort"
        /\ breakTasks' = Tail(breakTasks) /\ UNCHANGED <<breakRun, breakCallback>>
        /\ Breaks!CallbackThen(FALSE, "abort")
    BY <1>2 DEF Breaks!RunAbort
  <2>2. /\ broken \subseteq broken' /\ UNCHANGED breakTarget
        /\ \/ loop' = loop
           \/ /\ breakCallback # None
              /\ loop' = Breaks!InCallback("sending", breakCallback, FALSE, "abort")
    BY <1>1, <2>1
  <2> QED
    BY <2>1, <2>2, BreakFires
<1>3. CASE Breaks!BreakCompletes
  <2>1. /\ loop = Breaks!Free /\ UNCHANGED <<breakTasks, breakRun, breakCallback>>
        /\ Breaks!CallbackThen(TRUE, "tick")
    BY <1>3 DEF Breaks!BreakCompletes
  <2>2. /\ broken \subseteq broken' /\ UNCHANGED breakTarget
        /\ \/ loop' = loop
           \/ /\ breakCallback # None
              /\ loop' = Breaks!InCallback("sending", breakCallback, TRUE, "tick")
    BY <1>1, <2>1
  <2> QED
    BY <2>1, <2>2, BreakFires
<1>4. CASE Breaks!AbortTakesEffect
  BY <1>4, BreakFires DEF Breaks!AbortTakesEffect
<1> QED
  BY <1>2, <1>3, <1>4

(* The callback has returned: the block of a run told so is broken. *)
LEMMA BreakResume == ASSUME BreakInv, Breaks!Resume PROVE BreakInv'
<1> USE DEF BreakInv
<1>1. /\ loop.at = "sent" /\ loop' = Breaks!Free /\ breakCallback' = None
      /\ UNCHANGED <<breakRun, breakTasks>> /\ Breaks!AfterCallback(loop.for)
  BY DEF Breaks!Resume
<1>2. broken \subseteq broken' /\ (loop.for = "tick" => breakTarget \in broken')
  BY <1>1 DEF Breaks!AfterCallback
<1>3. BreakTypes'
  BY <1>1 DEF BreakTypes, Breaks!Free
<1>4. InCallback' /\ CallbackOwed'
  BY <1>1 DEF InCallback, CallbackOwed, Breaks!Free
<1>5. Breaks!SuccessIsTruthful'
  BY <1>1, <1>2 DEF Breaks!SuccessIsTruthful
<1> QED
  BY <1>1, <1>3, <1>4, <1>5

LEMMA BreakNext == BreakInv /\ Breaks!Next => BreakInv'
  BY BreakRunSteps, BreakStop, BreakStart, BreakLoopSteps, BreakResume
  DEF Breaks!Next, Breaks!LoopStep

LEMMA BreakUntouched == BreakInv /\ UNCHANGED breakVars => BreakInv'
  BY DEF breakVars, BreakInv, BreakTypes, InCallback, CallbackOwed, StartsOnce, NoStart,
     Breaks!SuccessIsTruthful

LEMMA BreakOneShot == BreakInv => Breaks!OneTruthfulAnswer
  BY DEF BreakInv, InCallback, CallbackOwed, Breaks!OneTruthfulAnswer, Breaks!OneShot

(***************************************************************************)
(* holdInput.  The hold there is has the ticks left that its run asked for *)
(* and has not been held; whoever waits holds, or has its signal.          *)
(***************************************************************************)
HoldTypes ==
  /\ holdRun \in [InputHolder -> {"new", "starting", "waiting", "timedOut", "done", "refused"}]
  /\ asked \in [InputHolder -> Nat] /\ held \in [InputHolder -> Nat]
  /\ signal \in [InputHolder -> BOOLEAN]
  /\ holdTasks \in Seq(Tasks(InputHolder, Holds!Stop))
  /\ holder \in InputHolder \cup {None} /\ left \in Nat

(* A run that has not started has no signal and has not been held. *)
Unheld == \A r \in InputHolder : holdRun[r] \in {"new", "starting"} => ~signal[r] /\ held[r] = 0

HolderServed ==
  /\ holder # None => /\ holdRun[holder] \in {"waiting", "timedOut"} /\ ~signal[holder]
                      /\ left > 0 /\ left = asked[holder] - held[holder]
  /\ \A r \in InputHolder : holdRun[r] = "waiting" => holder = r \/ signal[r]

HoldInv == HoldTypes /\ StartsOnce(holdTasks, holdRun) /\ Unheld /\ HolderServed

LEMMA StopIsNoStart == Holds!Stop.do # "start" /\ Holds!Stop \in Tasks(InputHolder, Holds!Stop)
  BY DEF Holds!Stop, Tasks

LEMMA NoneHolds == None \notin InputHolder /\ HoldLimit \in Nat /\ MaxTicks \in Nat
  BY InstructionsAssumption DEF Holds!HoldInputAssumption

LEMMA HoldInit == Holds!Init => HoldInv
  BY NoneHolds DEF Holds!Init, HoldInv, HoldTypes, Unheld, HolderServed, StartsOnce

LEMMA HoldRunSteps ==
  ASSUME HoldInv, NEW r \in InputHolder,
         Holds!Call(r) \/ Holds!Deadline(r) \/ Holds!TakeSignal(r)
  PROVE  HoldInv'
<1> USE DEF HoldInv
<1>0. holdTasks \in Seq(Tasks(InputHolder, Holds!Stop)) /\ r # None
  BY NoneHolds DEF HoldTypes
<1>1. CASE Holds!Call(r)
  <2>1. /\ holdRun[r] = "new" /\ holdRun' = [holdRun EXCEPT ![r] = "starting"]
        /\ UNCHANGED <<asked, signal, holder, left, held>>
    BY <1>1 DEF Holds!Call
  <2>2. Holds!Start(r) \in Tasks(InputHolder, Holds!Stop) /\ Holds!Start(r).do = "start"
        /\ Holds!Start(r).run = r
    BY DEF Holds!Start, Tasks
  <2>3. \A q \in InputHolder : holdRun[q] = "starting" => holdRun'[q] = "starting"
    BY <2>1 DEF HoldTypes
  <2>4. holdRun'[r] = "starting" /\ holdRun[r] # "starting"
    BY <2>1 DEF HoldTypes
  <2>5. holdTasks' \in Seq(Tasks(InputHolder, Holds!Stop)) /\ StartsOnce(holdTasks', holdRun')
    <3>1. holdTasks' = Append(holdTasks, Holds!Start(r))
      BY <1>1 DEF Holds!Call
    <3> QED
      BY <1>0, <2>2, <2>3, <2>4, <3>1, StopIsNoStart, TaskQueued
  <2>6. HoldTypes'
    BY <2>1, <2>5 DEF HoldTypes
  <2>7. Unheld' /\ HolderServed'
    BY <2>1 DEF HoldTypes, Unheld, HolderServed
  <2> QED
    BY <2>5, <2>6, <2>7
<1>2. CASE Holds!Deadline(r)
  <2>1. /\ holdRun[r] = "waiting" /\ holdRun' = [holdRun EXCEPT ![r] = "timedOut"]
        /\ UNCHANGED <<asked, signal, holder, left, held>>
    BY <1>2 DEF Holds!Deadline
  <2>2. \A q \in InputHolder : holdRun[q] = "starting" => holdRun'[q] = "starting"
    BY <2>1 DEF HoldTypes
  <2>3. holdTasks' \in Seq(Tasks(InputHolder, Holds!Stop)) /\ StartsOnce(holdTasks', holdRun')
    <3>1. holdTasks' = Append(holdTasks, Holds!Stop)
      BY <1>2 DEF Holds!Deadline
    <3> QED
      BY <1>0, <2>2, <3>1, StopIsNoStart, TaskQueued
  <2>4. HoldTypes'
    BY <2>1, <2>3 DEF HoldTypes
  <2>5. Unheld' /\ HolderServed'
    BY <2>1 DEF HoldTypes, Unheld, HolderServed
  <2> QED
    BY <2>3, <2>4, <2>5
<1>3. CASE Holds!TakeSignal(r)
  <2>1. /\ holdRun[r] = "waiting" /\ signal[r]
        /\ holdRun' = [holdRun EXCEPT ![r] = "done"] /\ signal' = [signal EXCEPT ![r] = FALSE]
        /\ UNCHANGED <<asked, holder, left, held>>
    BY <1>3 DEF Holds!TakeSignal
  <2>2. \A q \in InputHolder : holdRun[q] = "starting" => holdRun'[q] = "starting"
    BY <2>1 DEF HoldTypes
  <2>3. holdTasks' \in Seq(Tasks(InputHolder, Holds!Stop)) /\ StartsOnce(holdTasks', holdRun')
    <3>1. holdTasks' = holdTasks
      BY <1>3 DEF Holds!TakeSignal
    <3> QED
      BY <1>0, <2>2, <3>1, StopIsNoStart, StartsKept
  <2>4. holder # r
    BY <1>0, <2>1 DEF HolderServed
  <2>5. HoldTypes'
    BY <2>1, <2>3 DEF HoldTypes
  <2>6. Unheld'
    BY <2>1 DEF HoldTypes, Unheld
  <2>7. HolderServed'
    BY <2>1, <2>4 DEF HoldTypes, HolderServed
  <2> QED
    BY <2>3, <2>5, <2>6, <2>7
<1> QED
  BY <1>1, <1>2, <1>3

(* A hold starts when there is none, or is refused. *)
LEMMA HoldStart == ASSUME HoldInv, Holds!RunStart PROVE HoldInv'
<1> USE DEF HoldInv
<1>1. PICK r : r = Head(holdTasks).run
  OBVIOUS
<1>2. /\ holdTasks # << >> /\ Head(holdTasks).do = "start" /\ holdTasks' = Tail(holdTasks)
      /\ Holds!StartHold(r) /\ UNCHANGED <<asked, signal, held>>
  BY <1>1 DEF Holds!RunStart
<1>3. \A q \in InputHolder : q # r => holdRun'[q] = holdRun[q]
  BY <1>2 DEF HoldTypes, Holds!StartHold
<1>4. \A q \in InputHolder : holdRun[q] = "starting" => holdRun'[q] = "starting" \/ r = q
  BY <1>3
<1>5. /\ holdTasks' \in Seq(Tasks(InputHolder, Holds!Stop)) /\ StartsOnce(holdTasks', holdRun')
      /\ r \in InputHolder /\ holdRun[r] = "starting"
  <2>1. holdTasks \in Seq(Tasks(InputHolder, Holds!Stop)) /\ holdTasks # << >>
        /\ Head(holdTasks).do = "start" /\ holdTasks' = Tail(holdTasks)
    BY <1>2 DEF HoldTypes
  <2>2. \A q \in InputHolder : holdRun[q] = "starting" =>
           holdRun'[q] = "starting" \/ (Head(holdTasks).do = "start" /\ Head(holdTasks).run = q)
    BY <1>1, <1>4, <2>1
  <2>3. Tail(holdTasks) \in Seq(Tasks(InputHolder, Holds!Stop))
        /\ StartsOnce(Tail(holdTasks), holdRun')
    BY <2>1, <2>2, StopIsNoStart, TaskTaken
  <2>4. Head(holdTasks).run \in InputHolder /\ holdRun[Head(holdTasks).run] = "starting"
    BY <2>1, StopIsNoStart, HeadStarts
  <2> QED
    BY <1>1, <2>1, <2>3, <2>4
<1>6. r # None /\ r # holder /\ held[r] = 0 /\ ~signal[r] /\ asked[r] \in Nat
  BY <1>5, NoneHolds DEF HoldTypes, Unheld, HolderServed
<1>7. CASE Holds!InRange(asked[r]) /\ holder = None
  <2>1. /\ holder' = r /\ left' = asked[r] /\ holdRun' = [holdRun EXCEPT ![r] = "waiting"]
        /\ left' > 0
    BY <1>2, <1>6, <1>7, NoneHolds DEF Holds!StartHold, Holds!InRange
  <2>2. HoldTypes'
    BY <1>2, <1>5, <1>6, <2>1 DEF HoldTypes
  <2>3. Unheld'
    BY <1>2, <2>1 DEF HoldTypes, Unheld
  <2>4. HolderServed'
    <3>1. holdRun'[r] = "waiting" /\ \A q \in InputHolder : q # r => holdRun'[q] = holdRun[q]
      BY <1>3, <1>5, <2>1 DEF HoldTypes
    <3>2. left' = asked'[r] - held'[r]
      BY <1>2, <1>6, <2>1
    <3>3. ASSUME NEW q \in InputHolder, holdRun'[q] = "waiting", q # r PROVE signal'[q]
      BY <1>2, <1>7, <3>1, <3>3, NoneHolds DEF HolderServed
    <3> QED
      BY <1>2, <1>6, <2>1, <3>1, <3>2, <3>3 DEF HolderServed
  <2> QED
    BY <1>5, <2>2, <2>3, <2>4
<1>8. CASE ~(Holds!InRange(asked[r]) /\ holder = None)
  <2>1. holdRun' = [holdRun EXCEPT ![r] = "refused"] /\ UNCHANGED <<holder, left>>
    BY <1>2, <1>8 DEF Holds!StartHold
  <2>2. HoldTypes'
    BY <1>2, <1>5, <2>1 DEF HoldTypes
  <2>3. Unheld' /\ HolderServed'
    BY <1>2, <1>6, <2>1 DEF HoldTypes, Unheld, HolderServed
  <2> QED
    BY <1>5, <2>2, <2>3
<1> QED
  BY <1>7, <1>8

(* The end of the hold there is signals whoever holds. *)
LEMMA HoldFinishes ==
  ASSUME HoldTypes, Unheld, HolderServed, Holds!finishHold, UNCHANGED <<holdRun, asked>>
  PROVE  /\ signal' \in [InputHolder -> BOOLEAN] /\ holder' = None /\ left' = 0
         /\ HolderServed'
         /\ \A r \in InputHolder : holdRun[r] \in {"new", "starting"} => ~signal'[r]
<1>1. holder' = None /\ left' = 0
  BY DEF Holds!finishHold
<1>2. CASE holder = None
  BY <1>1, <1>2 DEF Holds!finishHold, HoldTypes, Unheld, HolderServed
<1>3. CASE holder # None
  <2>1. holder \in InputHolder /\ signal' = [signal EXCEPT ![holder] = TRUE]
    BY <1>3 DEF Holds!finishHold, HoldTypes
  <2> QED
    BY <1>1, <1>3, <2>1 DEF HoldTypes, Unheld, HolderServed
<1> QED
  BY <1>2, <1>3

LEMMA HoldStop == ASSUME HoldInv, Holds!RunStop PROVE HoldInv'
<1> USE DEF HoldInv
<1>1. /\ holdTasks # << >> /\ Head(holdTasks).do = "stop" /\ holdTasks' = Tail(holdTasks)
      /\ Holds!finishHold /\ UNCHANGED <<holdRun, asked, held>>
  BY DEF Holds!RunStop
<1>2. /\ signal' \in [InputHolder -> BOOLEAN] /\ holder' = None /\ left' = 0
      /\ HolderServed'
      /\ \A r \in InputHolder : holdRun[r] \in {"new", "starting"} => ~signal'[r]
  BY <1>1, HoldFinishes
<1>3. \A q \in InputHolder : holdRun[q] = "starting" => holdRun'[q] = "starting"
  BY <1>1
<1>4. holdTasks' \in Seq(Tasks(InputHolder, Holds!Stop)) /\ StartsOnce(holdTasks', holdRun')
  BY <1>1, <1>3, StopIsNoStart, TaskTaken DEF HoldTypes
<1> QED
  BY <1>1, <1>2, <1>4 DEF HoldTypes, Unheld

LEMMA HoldTick == ASSUME HoldInv, Holds!tickHoldInput PROVE HoldInv'
<1> USE DEF HoldInv
<1>1. /\ holder # None /\ holder \in InputHolder /\ left > 0
      /\ held' = [held EXCEPT ![holder] = @ + 1]
      /\ UNCHANGED <<holdRun, asked, holdTasks>>
  BY DEF Holds!tickHoldInput, HoldTypes
<1>2. held' \in [InputHolder -> Nat] /\ held'[holder] = held[holder] + 1
      /\ \A r \in InputHolder : r # holder => held'[r] = held[r]
  BY <1>1 DEF HoldTypes
<1>3. holdRun[holder] \notin {"new", "starting"}
  BY <1>1 DEF HolderServed
<1>4. CASE left = 1
  <2>1. Holds!finishHold
    BY <1>4 DEF Holds!tickHoldInput
  <2>2. /\ signal' \in [InputHolder -> BOOLEAN] /\ holder' = None /\ left' = 0
        /\ HolderServed'
        /\ \A r \in InputHolder : holdRun[r] \in {"new", "starting"} => ~signal'[r]
    BY <1>1, <2>1, HoldFinishes
  <2> QED
    BY <1>1, <1>2, <1>3, <2>2 DEF HoldTypes, Unheld, StartsOnce
<1>5. CASE left # 1
  <2>1. left' = left - 1 /\ UNCHANGED <<holder, signal>>
    BY <1>5 DEF Holds!tickHoldInput
  <2>2. HoldTypes'
    BY <1>1, <1>2, <2>1 DEF HoldTypes
  <2>3. Unheld'
    BY <1>1, <1>2, <1>3, <2>1 DEF Unheld
  <2>4. HolderServed'
    <3>1. /\ holdRun[holder] \in {"waiting", "timedOut"} /\ ~signal[holder]
          /\ left = asked[holder] - held[holder]
      BY <1>1 DEF HolderServed
    <3>2. left \in Nat /\ asked[holder] \in Nat /\ held[holder] \in Nat
      BY <1>1 DEF HoldTypes
    <3>3. left' > 0 /\ left' = asked'[holder] - held'[holder]
      BY <1>1, <1>2, <1>5, <2>1, <3>1, <3>2
    <3> QED
      BY <1>1, <2>1, <3>1, <3>3 DEF HolderServed
  <2> QED
    BY <1>1, <2>2, <2>3, <2>4 DEF StartsOnce
<1> QED
  BY <1>4, <1>5

LEMMA HoldNext == HoldInv /\ Holds!Next => HoldInv'
  BY HoldRunSteps, HoldStart, HoldStop, HoldTick DEF Holds!Next, Holds!RunTask

LEMMA HoldUntouched == HoldInv /\ UNCHANGED holdVars => HoldInv'
  BY DEF holdVars, HoldInv, HoldTypes, Unheld, HolderServed, StartsOnce

LEMMA HoldSignals == HoldInv => Holds!SignalOwed
<1> SUFFICES ASSUME HoldInv PROVE Holds!SignalOwed
  OBVIOUS
<1> USE NoneHolds DEF HoldInv, HoldTypes, HolderServed
<1>1. ASSUME NEW r \in InputHolder, holdRun[r] = "waiting", holder = r
      PROVE  ~signal[r] /\ left \in 1..(asked[r] - held[r])
  BY <1>1
<1> QED
  BY <1>1 DEF Holds!SignalOwed

-----------------------------------------------------------------------------
(* Instructions answer truthfully: a breakBlock that reports success broke *)
(* its own block, whoever's callback was fired, and is answered once; a    *)
(* holdInput that waits holds, with its ticks still to come, or has its    *)
(* signal.                                                                 *)
THEOREM AnswersTruthful == InstructionsSpec => []OneTruthfulAnswer
<1>1. InstructionsInit => BreakInv /\ HoldInv
  BY BreakInit, HoldInit DEF InstructionsInit
<1>2. BreakInv /\ [InstructionsNext]_instructionVars => BreakInv'
  BY BreakNext, BreakUntouched DEF InstructionsNext, Navigating, BreakingBlocks, Holding, Testing,
     Helping, instructionVars
<1>3. HoldInv /\ [InstructionsNext]_instructionVars => HoldInv'
  BY HoldNext, HoldUntouched DEF InstructionsNext, Navigating, BreakingBlocks, Holding, Testing,
     Helping, instructionVars
<1>4. BreakInv /\ HoldInv => OneTruthfulAnswer
  BY BreakOneShot, HoldSignals DEF OneTruthfulAnswer
<1> QED
  BY <1>1, <1>2, <1>3, <1>4, PTL DEF InstructionsSpec

(***************************************************************************)
(* clickThrough.  The form in hand is the open one as long as nobody else  *)
(* walks the same bot; the forms answered are those pressed and, while     *)
(* there is one, the form in hand.                                         *)
(***************************************************************************)
OneWalker == \A v, w \in Walker : v = w

WalkTypes ==
  /\ open \in Form \cup {None} /\ goal \in BOOLEAN
  /\ walkAt \in [Walker -> {"until", "waitForForm", "hover", "click", "abandoned", "failed",
                            "returned", "tooMany", "timedOut"}]
  /\ shown \in [Walker -> Form \cup {None}]
  /\ answered \in [Walker -> Seq(Form)] /\ pressed \in [Walker -> Seq(Form)]
  /\ madeFor \in [Form -> Form \cup {None}]
  /\ late \in [Walker -> Nat]

InHand == {"hover", "click", "abandoned"}

Accounted(w) ==
  /\ walkAt[w] \in InHand =>
       open = shown[w] /\ open # None /\ answered[w] = Append(pressed[w], shown[w])
  /\ walkAt[w] \notin InHand \cup {"failed"} => answered[w] = pressed[w]
  /\ walkAt[w] = "failed" => answered[w] \in {pressed[w], Append(pressed[w], shown[w])}

(* A press after the goal is the last: until comes next. *)
Stopping(w) ==
  /\ walkAt[w] \in InHand \cup {"waitForForm"} => late[w] = 0
  /\ late[w] <= 1 /\ (late[w] = 1 => goal)
  /\ walkAt[w] = "waitForForm" => Len(answered[w]) < MaxForms
  /\ Len(answered[w]) <= MaxForms

WalkInv == /\ WalkTypes /\ Forms!ChosenForIt
           /\ \A w \in Walker : Accounted(w) /\ Stopping(w)

LEMMA WalkAssumed == None \notin Form /\ MaxForms \in Nat
  BY InstructionsAssumption DEF Forms!FormWalkAssumption

LEMMA WalkInit == Forms!Init => WalkInv
<1> SUFFICES ASSUME Forms!Init PROVE WalkInv
  OBVIOUS
<1>1. WalkTypes
  <2>1. << >> \in Seq(Form)
    OBVIOUS
  <2>2. answered = [w \in Walker |-> << >>] /\ pressed = [w \in Walker |-> << >>]
    BY DEF Forms!Init
  <2>3. answered \in [Walker -> Seq(Form)] /\ pressed \in [Walker -> Seq(Form)]
    BY <2>1, <2>2
  <2> QED
    BY <2>3 DEF Forms!Init, WalkTypes
<1>2. \A w \in Walker : Accounted(w)
  BY DEF Forms!Init, Accounted, InHand
<1>3. \A w \in Walker : Stopping(w)
  BY WalkAssumed DEF Forms!Init, Stopping, InHand
<1>4. Forms!ChosenForIt
  BY DEF Forms!Init, Forms!ChosenForIt
<1> QED
  BY <1>1, <1>2, <1>3, <1>4 DEF WalkInv

(* The server sends a form, or the goal is reached. *)
LEMMA WalkServer ==
  ASSUME WalkInv, (\E f \in Form : Forms!ServerSendsForm(f)) \/ Forms!GoalReached
  PROVE  WalkInv'
<1> USE DEF WalkInv
<1>1. UNCHANGED <<walkAt, shown, answered, pressed, madeFor, late>>
  BY DEF Forms!ServerSendsForm, Forms!GoalReached, Forms!pressVars
<1>2. /\ open' \in Form \cup {None} /\ (open # None => open' = open)
      /\ goal' \in BOOLEAN /\ (goal => goal')
  BY DEF Forms!ServerSendsForm, Forms!GoalReached, Forms!ReceiveForm, WalkTypes
<1>3. WalkTypes'
  BY <1>1, <1>2 DEF WalkTypes
<1>4. ASSUME NEW w \in Walker PROVE Accounted(w)' /\ Stopping(w)'
  BY <1>1, <1>2 DEF Accounted, Stopping
<1> QED
  BY <1>1, <1>3, <1>4 DEF Forms!ChosenForIt

(* The steps of a walker that leave its forms alone. *)
LEMMA WalkMoves ==
  ASSUME WalkInv, NEW w \in Walker,
         NEW to \in {"waitForForm", "failed", "click", "abandoned", "returned", "tooMany",
                     "timedOut"},
         Forms!To(w, to),
         UNCHANGED <<open, goal, shown, answered, pressed, madeFor, late>>,
         to = "waitForForm" => ~goal /\ Len(answered[w]) < MaxForms,
         to \in InHand \cup {"failed"} => walkAt[w] \in InHand,
         to \notin InHand \cup {"failed"} => walkAt[w] \notin InHand \cup {"failed"}
  PROVE  WalkInv'
<1> USE DEF WalkInv
<1>1. WalkTypes'
  BY DEF WalkTypes, Forms!To
<1>2. walkAt'[w] = to /\ \A v \in Walker : v # w => walkAt'[v] = walkAt[v]
  BY DEF WalkTypes, Forms!To
<1>3. ASSUME NEW v \in Walker, v # w PROVE Accounted(v)' /\ Stopping(v)'
  BY <1>2, <1>3 DEF Accounted, Stopping
<1>4. Accounted(w)'
  BY <1>2 DEF Accounted, InHand
<1>5. Stopping(w)'
  BY <1>2 DEF Stopping, InHand, WalkTypes
<1> QED
  BY <1>1, <1>3, <1>4, <1>5 DEF Forms!ChosenForIt

LEMMA WalkTakesForm ==
  ASSUME WalkInv, NEW w \in Walker, Forms!WaitForForm(w) PROVE WalkInv'
<1> USE DEF WalkInv
<1>1. /\ walkAt[w] = "waitForForm" /\ open # None /\ open \in Form
      /\ shown' = [shown EXCEPT ![w] = open]
      /\ answered' = [answered EXCEPT ![w] = Append(@, open)]
      /\ walkAt' = [walkAt EXCEPT ![w] = "hover"]
      /\ UNCHANGED <<open, goal, pressed, madeFor, late>>
  BY DEF Forms!WaitForForm, Forms!To, Forms!serverVars, Forms!pressVars, WalkTypes
<1>2. /\ Append(answered[w], open) \in Seq(Form)
      /\ Len(Append(answered[w], open)) = Len(answered[w]) + 1
  <2>1. answered[w] \in Seq(Form)
    BY DEF WalkTypes
  <2> QED
    BY <1>1, <2>1, AppendProperties
<1>3. WalkTypes'
  BY <1>1, <1>2 DEF WalkTypes
<1>4. /\ walkAt'[w] = "hover" /\ shown'[w] = open /\ answered'[w] = Append(answered[w], open)
      /\ \A v \in Walker : v # w => /\ walkAt'[v] = walkAt[v] /\ shown'[v] = shown[v]
                                    /\ answered'[v] = answered[v]
  BY <1>1 DEF WalkTypes
<1>5. ASSUME NEW v \in Walker, v # w PROVE Accounted(v)' /\ Stopping(v)'
  BY <1>1, <1>4, <1>5 DEF Accounted, Stopping
<1>6. answered[w] = pressed[w]
  BY <1>1 DEF Accounted, InHand
<1>7. Accounted(w)'
  BY <1>1, <1>4, <1>6 DEF Accounted, InHand
<1>8. Stopping(w)'
  <2>1. Len(answered[w]) \in Nat /\ Len(answered[w]) < MaxForms /\ late[w] = 0
    BY <1>1 DEF Stopping, InHand, WalkTypes
  <2>2. \A n \in Nat : n < MaxForms => n + 1 <= MaxForms
    BY WalkAssumed
  <2>3. Len(answered'[w]) <= MaxForms
    BY <1>2, <1>4, <2>1, <2>2
  <2> QED
    BY <1>1, <1>4, <2>1, <2>3 DEF Stopping
<1> QED
  BY <1>1, <1>3, <1>5, <1>7, <1>8 DEF Forms!ChosenForIt

(* The button is pressed on the form that is open: with one walker, the    *)
(* form in hand.                                                           *)
LEMMA WalkPresses ==
  ASSUME OneWalker, WalkInv, NEW w \in Walker, Forms!Click(w) PROVE WalkInv'
<1> USE DEF WalkInv
<1>1. PICK to : to = IF walkAt[w] = "click" THEN "until" ELSE "failed"
  OBVIOUS
<1>2. /\ walkAt[w] \in {"click", "abandoned"} /\ open # None /\ open \in Form /\ open' = None
      /\ pressed' = [pressed EXCEPT ![w] = Append(@, open)]
      /\ madeFor' = [madeFor EXCEPT ![open] = shown[w]]
      /\ late' = [late EXCEPT ![w] = @ + (IF goal THEN 1 ELSE 0)]
      /\ walkAt' = [walkAt EXCEPT ![w] = to]
      /\ UNCHANGED <<goal, shown, answered>>
  BY <1>1 DEF Forms!Click, Forms!Press, Forms!To, WalkTypes
<1>3. open = shown[w] /\ answered[w] = Append(pressed[w], shown[w]) /\ late[w] = 0
  BY <1>2 DEF Accounted, Stopping, InHand
<1>4. Append(pressed[w], open) \in Seq(Form)
  <2>1. pressed[w] \in Seq(Form)
    BY DEF WalkTypes
  <2> QED
    BY <1>2, <2>1, AppendProperties
<1>5. /\ walkAt'[w] = to /\ pressed'[w] = answered[w]
      /\ late'[w] = IF goal THEN 1 ELSE 0
  BY <1>2, <1>3 DEF WalkTypes
<1>6. WalkTypes'
  <2>1. walkAt' \in [Walker -> {"until", "waitForForm", "hover", "click", "abandoned", "failed",
                                "returned", "tooMany", "timedOut"}]
    BY <1>1, <1>2 DEF WalkTypes
  <2>2. late' \in [Walker -> Nat]
    BY <1>2 DEF WalkTypes
  <2>3. madeFor' \in [Form -> Form \cup {None}]
    BY <1>2, <1>3 DEF WalkTypes
  <2>4. pressed' \in [Walker -> Seq(Form)]
    BY <1>2, <1>4 DEF WalkTypes
  <2> QED
    BY <1>2, <2>1, <2>2, <2>3, <2>4 DEF WalkTypes
<1>7. Forms!ChosenForIt'
  BY <1>2, <1>3 DEF Forms!ChosenForIt, WalkTypes
<1>8. Accounted(w)'
  BY <1>1, <1>2, <1>5 DEF Accounted, InHand
<1>9. Stopping(w)'
  BY <1>1, <1>2, <1>5 DEF Stopping, InHand, WalkTypes
<1> QED
  BY <1>6, <1>7, <1>8, <1>9 DEF OneWalker

LEMMA WalkNext == OneWalker /\ WalkInv /\ Forms!Next => WalkInv'
<1> SUFFICES ASSUME OneWalker, WalkInv, Forms!Next PROVE WalkInv'
  OBVIOUS
<1> USE DEF Forms!serverVars, Forms!pressVars
<1>1. ASSUME NEW w \in Walker, Forms!Until(w) PROVE WalkInv'
  <2>1. PICK to : to = IF goal THEN "returned"
                       ELSE IF Len(answered[w]) >= MaxForms THEN "tooMany" ELSE "waitForForm"
    OBVIOUS
  <2>2. walkAt[w] = "until" /\ Forms!To(w, to)
        /\ UNCHANGED <<open, goal, shown, answered, pressed, madeFor, late>>
    BY <1>1, <2>1 DEF Forms!Until
  <2>3. Len(answered[w]) \in Nat
    BY DEF WalkInv, WalkTypes
  <2>4. to = "waitForForm" => ~goal /\ Len(answered[w]) < MaxForms
    BY <2>1, <2>3, WalkAssumed
  <2>5. to \in {"returned", "tooMany", "waitForForm"}
    BY <2>1
  <2> QED
    BY <2>2, <2>4, <2>5, WalkMoves DEF InHand
<1>2. ASSUME NEW w \in Walker, Forms!NoForm(w) PROVE WalkInv'
  <2>1. PICK to \in {"returned", "timedOut"} : Forms!To(w, to)
    BY <1>2 DEF Forms!NoForm
  <2>2. walkAt[w] = "waitForForm"
        /\ UNCHANGED <<open, goal, shown, answered, pressed, madeFor, late>>
    BY <1>2 DEF Forms!NoForm
  <2> QED
    BY <2>1, <2>2, WalkMoves DEF InHand
<1>3. ASSUME NEW w \in Walker, Forms!Hover(w) PROVE WalkInv'
  <2>1. /\ walkAt[w] = "hover" /\ Forms!To(w, "click")
        /\ UNCHANGED <<open, goal, shown, answered, pressed, madeFor, late>>
    BY <1>3 DEF Forms!Hover
  <2> QED
    BY <2>1, WalkMoves DEF InHand
<1>4. ASSUME NEW w \in Walker, Forms!ClickFails(w) PROVE WalkInv'
  <2>1. PICK to \in {"failed", "abandoned"} : Forms!To(w, to)
    BY <1>4 DEF Forms!ClickFails
  <2>2. walkAt[w] = "click"
        /\ UNCHANGED <<open, goal, shown, answered, pressed, madeFor, late>>
    BY <1>4 DEF Forms!ClickFails
  <2> QED
    BY <2>1, <2>2, WalkMoves DEF InHand
<1> QED
  BY <1>1, <1>2, <1>3, <1>4, WalkServer, WalkTakesForm, WalkPresses DEF Forms!Next

LEMMA WalkUntouched == WalkInv /\ UNCHANGED formVars => WalkInv'
  BY DEF formVars, WalkInv, WalkTypes, Accounted, Stopping, Forms!ChosenForIt

LEMMA WalkIsFaithful == WalkInv => Forms!WalkFaithful
  BY DEF WalkInv, Accounted, Stopping, InHand, WalkTypes,
     Forms!WalkFaithful, Forms!AnswersAccounted, Forms!StopsAtGoal

(* clickThrough, walking a bot alone: every button pressed is the one      *)
(* chosen for that form, the forms returned are those answered, and the    *)
(* walk stops at its goal or limit.  A second walker on the same bot could *)
(* press the button of the first one's form.                               *)
THEOREM WalksFaithful == ASSUME OneWalker PROVE InstructionsSpec => []WalkFaithful
<1>1. InstructionsInit => WalkInv
  BY WalkInit DEF InstructionsInit
<1>2. WalkInv /\ [InstructionsNext]_instructionVars => WalkInv'
  BY WalkNext, WalkUntouched DEF InstructionsNext, Navigating, BreakingBlocks, Holding, Testing,
     Helping, helperVars, instructionVars
<1>3. WalkInv => WalkFaithful
  BY WalkIsFaithful DEF WalkFaithful
<1> QED
  BY <1>1, <1>2, <1>3, PTL DEF InstructionsSpec

-----------------------------------------------------------------------------
(***************************************************************************)
(* getInventory.  While calls are made in turn, at most one copy is on its *)
(* way, and the newest one there is shows the marker the server holds.     *)
(***************************************************************************)
Copy == [writes : Nat, markers : Nat]

SyncTypes ==
  /\ server \in Copy /\ client \in Copy /\ wire \in Seq(Copy)
  /\ callAt \in [Reader -> {"new", "refused", "giveMarker", "dropMarker", "returned", "gaveUp"}]
  /\ since \in [Reader -> Nat] /\ result \in [Reader -> Nat]
  /\ tangled \in BOOLEAN

(* The newest copy: the one on the wire, or else the client's. *)
Newest == IF wire = << >> THEN client ELSE wire[1]

Alone == \A c, d \in Inventory!UnderWay : c = d
Idle == Inventory!UnderWay = {} => wire = << >> /\ client.markers = 0 /\ server.markers = 0
Syncing(c) ==
  /\ Newest.writes >= since[c] /\ Newest.markers = server.markers
  /\ wire # << >> => client.markers = 1 - server.markers
  /\ server.markers = IF callAt[c] = "giveMarker" THEN 1 ELSE 0

InTurn == /\ Inventory!InventoryFresh /\ Len(wire) <= 1 /\ Alone /\ Idle
          /\ \A c \in Inventory!UnderWay : Syncing(c)

SyncInv == SyncTypes /\ (\A c \in Reader : since[c] <= server.writes) /\ (~tangled => InTurn)

LEMMA SyncInit == Inventory!Init => SyncInv
<1> SUFFICES ASSUME Inventory!Init PROVE SyncInv
  OBVIOUS
<1>1. SyncTypes
  <2>1. << >> \in Seq(Copy)
    OBVIOUS
  <2> QED
    BY <2>1 DEF Inventory!Init, SyncTypes, Copy
<1>2. \A c \in Reader : since[c] <= server.writes
  BY DEF Inventory!Init
<1>3. InTurn
  BY DEF Inventory!Init, InTurn, Alone, Idle, Inventory!UnderWay, Inventory!InventoryFresh
<1> QED
  BY <1>1, <1>2, <1>3 DEF SyncInv

LEMMA WriteSyncs == ASSUME SyncInv, Inventory!ScriptWrites PROVE SyncInv'
<1> USE DEF SyncInv
<1>1. /\ server' = [writes |-> server.writes + 1, markers |-> server.markers]
      /\ UNCHANGED <<client, wire, callAt, since, result, tangled>>
  BY DEF Inventory!ScriptWrites
<1>2. server.writes \in Nat /\ server.markers \in Nat /\ server' \in Copy
  BY <1>1 DEF SyncTypes, Copy
<1>3. SyncTypes'
  BY <1>1, <1>2 DEF SyncTypes
<1>4. \A c \in Reader : since'[c] <= server'.writes
  BY <1>1, <1>2 DEF SyncTypes
<1>5. ASSUME InTurn PROVE InTurn'
  BY <1>1, <1>5 DEF InTurn, Inventory!InventoryFresh, Inventory!Fresh, Inventory!UnderWay,
     Alone, Idle, Syncing, Newest
<1> QED
  BY <1>1, <1>3, <1>4, <1>5

LEMMA ReceiveSyncs == ASSUME SyncInv, Inventory!ClientReceives PROVE SyncInv'
<1> USE DEF SyncInv
<1>1. /\ wire # << >> /\ client' = Head(wire) /\ wire' = Tail(wire)
      /\ UNCHANGED <<server, callAt, since, result, tangled>>
  BY DEF Inventory!ClientReceives
<1>2. wire \in Seq(Copy) /\ wire # << >>
  BY <1>1 DEF SyncTypes
<1>3. client' \in Copy /\ wire' \in Seq(Copy)
  BY <1>1, <1>2, HeadTailProperties
<1>4. SyncTypes'
  BY <1>1, <1>3 DEF SyncTypes
<1>5. Inventory!UnderWay' = Inventory!UnderWay
  BY <1>1 DEF Inventory!UnderWay
<1>6. ASSUME InTurn PROVE InTurn'
  <2>1. Len(wire) <= 1 /\ Inventory!UnderWay # {}
    BY <1>1, <1>6 DEF InTurn, Idle
  <2>2. wire' = << >> /\ client' = wire[1]
    BY <1>1, <1>2, <2>1
  <2>3. Newest' = Newest
    BY <1>1, <2>2 DEF Newest
  <2>4. ASSUME NEW c \in Inventory!UnderWay PROVE Syncing(c)'
    BY <1>1, <1>6, <2>2, <2>3 DEF InTurn, Syncing
  <2>5. Inventory!InventoryFresh'
    BY <1>1, <1>6 DEF InTurn, Inventory!InventoryFresh, Inventory!Fresh
  <2>6. Alone' /\ Idle' /\ Len(wire') <= 1
    BY <1>5, <1>6, <2>1, <2>2 DEF InTurn, Alone, Idle
  <2> QED
    BY <1>5, <2>4, <2>5, <2>6 DEF InTurn
<1> QED
  BY <1>1, <1>4, <1>6

LEMMA RefusalSyncs ==
  ASSUME SyncInv, NEW c \in Reader, Inventory!Refuse(c) PROVE SyncInv'
<1> USE DEF SyncInv
<1>1. /\ callAt[c] = "new" /\ callAt' = [callAt EXCEPT ![c] = "refused"]
      /\ UNCHANGED <<server, client, wire, since, result, tangled>>
  BY DEF Inventory!Refuse
<1>2. SyncTypes'
  BY <1>1 DEF SyncTypes
<1>3. Inventory!UnderWay' = Inventory!UnderWay
  BY <1>1 DEF Inventory!UnderWay, SyncTypes
<1>4. \A d \in Inventory!UnderWay : callAt'[d] = callAt[d]
  BY <1>1 DEF Inventory!UnderWay, SyncTypes
<1>5. ASSUME InTurn PROVE InTurn'
  <2>1. \A d \in Inventory!UnderWay : Syncing(d)'
    BY <1>1, <1>4, <1>5 DEF InTurn, Syncing, Newest
  <2>2. Inventory!InventoryFresh'
    BY <1>1, <1>5 DEF InTurn, Inventory!InventoryFresh, Inventory!Fresh, SyncTypes
  <2> QED
    BY <1>1, <1>3, <1>5, <2>1, <2>2 DEF InTurn, Alone, Idle
<1> QED
  BY <1>1, <1>2, <1>5

(* A transaction puts a copy of what the server then holds on the wire. *)
LEMMA TransactionSyncs ==
  ASSUME SyncTypes, NEW n \in Nat, Inventory!Transaction(n)
  PROVE  /\ server' \in Copy /\ server'.writes = server.writes /\ server'.markers = n
         /\ wire' \in Seq(Copy)
         /\ wire = << >> => Len(wire') = 1 /\ wire' # << >> /\ wire'[1] = server'
<1>1. server' = [writes |-> server.writes, markers |-> n] /\ wire' = Append(wire, server')
  BY DEF Inventory!Transaction
<1>2. server' \in Copy /\ server'.writes = server.writes /\ server'.markers = n
  BY <1>1 DEF SyncTypes, Copy
<1>3. wire' \in Seq(Copy) /\ Len(wire') = Len(wire) + 1 /\ wire'[Len(wire) + 1] = server'
  <2>1. wire \in Seq(Copy)
    BY DEF SyncTypes
  <2>2. wire' = Append(wire, server')
    BY <1>1
  <2> QED
    BY <1>2, <2>1, <2>2, AppendProperties
<1> QED
  BY <1>2, <1>3

LEMMA CallSyncs ==
  ASSUME SyncInv, NEW c \in Reader, Inventory!getInventory(c) PROVE SyncInv'
<1> USE DEF SyncInv
<1>1. /\ callAt[c] = "new" /\ Inventory!Transaction(server.markers + 1)
      /\ callAt' = [callAt EXCEPT ![c] = "giveMarker"]
      /\ since' = [since EXCEPT ![c] = server.writes]
      /\ tangled' = (tangled \/ Inventory!UnderWay # {})
      /\ UNCHANGED <<client, result>>
  BY DEF Inventory!getInventory
<1>2. server.writes \in Nat /\ server.markers \in Nat /\ server.markers + 1 \in Nat
  BY DEF SyncTypes, Copy
<1>3. /\ server' \in Copy /\ server'.writes = server.writes
      /\ server'.markers = server.markers + 1 /\ wire' \in Seq(Copy)
      /\ wire = << >> => Len(wire') = 1 /\ wire' # << >> /\ wire'[1] = server'
  <2>1. Inventory!Transaction(server.markers + 1)
    BY <1>1
  <2> QED
    BY <1>2, <2>1, TransactionSyncs
<1>4. SyncTypes'
  BY <1>1, <1>2, <1>3 DEF SyncTypes
<1>5. \A d \in Reader : since'[d] <= server'.writes
  BY <1>1, <1>2, <1>3 DEF SyncTypes
<1>6. ASSUME ~tangled' PROVE InTurn'
  <2>1. InTurn /\ Inventory!UnderWay = {}
    BY <1>1, <1>6
  <2>2. wire = << >> /\ client.markers = 0 /\ server.markers = 0
    BY <2>1 DEF InTurn, Idle
  <2>3. Inventory!UnderWay' = {c}
    BY <1>1, <2>1 DEF Inventory!UnderWay, SyncTypes
  <2>4. Newest' = server'
    BY <1>3, <2>2 DEF Newest
  <2>5. since'[c] = server.writes /\ callAt'[c] = "giveMarker"
    BY <1>1 DEF SyncTypes
  <2>6. Syncing(c)'
    BY <1>1, <1>2, <1>3, <2>2, <2>4, <2>5 DEF Syncing
  <2>7. Inventory!InventoryFresh'
    BY <1>1, <2>1 DEF InTurn, Inventory!InventoryFresh, Inventory!Fresh, SyncTypes
  <2>8. Len(wire') = 1
    BY <1>3, <2>2
  <2> QED
    BY <2>3, <2>6, <2>7, <2>8 DEF InTurn, Alone, Idle
<1> QED
  BY <1>4, <1>5, <1>6

LEMMA ClearSyncs ==
  ASSUME SyncInv, NEW c \in Reader, Inventory!ClientHasMarker(c) PROVE SyncInv'
<1> USE DEF SyncInv
<1>1. /\ callAt[c] = "giveMarker" /\ client.markers > 0
      /\ callAt' = [callAt EXCEPT ![c] = "dropMarker"]
      /\ UNCHANGED <<client, since, result, tangled>>
  BY DEF Inventory!ClientHasMarker
<1>2. /\ server.markers > 0 => Inventory!Transaction(server.markers - 1)
      /\ ~(server.markers > 0) => UNCHANGED <<server, wire>>
  BY DEF Inventory!ClientHasMarker
<1>3. server.writes \in Nat /\ server.markers \in Nat
  BY DEF SyncTypes, Copy
<1>4. ASSUME server.markers > 0
      PROVE  /\ server' \in Copy /\ server'.writes = server.writes
             /\ server'.markers = server.markers - 1 /\ wire' \in Seq(Copy)
             /\ wire = << >> => Len(wire') = 1 /\ wire' # << >> /\ wire'[1] = server'
  <2>1. server.markers - 1 \in Nat
    BY <1>3, <1>4
  <2> QED
    BY <1>2, <1>4, <2>1, TransactionSyncs
<1>5. server' \in Copy /\ server'.writes = server.writes /\ wire' \in Seq(Copy)
  BY <1>2, <1>4 DEF SyncTypes
<1>6. SyncTypes'
  BY <1>1, <1>5 DEF SyncTypes
<1>7. \A d \in Reader : since'[d] <= server'.writes
  BY <1>1, <1>5
<1>8. ASSUME InTurn PROVE InTurn'
  <2>1. c \in Inventory!UnderWay
    BY <1>1 DEF Inventory!UnderWay
  <2>2. Inventory!UnderWay = {c} /\ Inventory!UnderWay' = {c}
    BY <1>1, <1>8, <2>1 DEF InTurn, Alone, Inventory!UnderWay, SyncTypes
  <2>3. Syncing(c) /\ server.markers = 1
    BY <1>1, <1>8, <2>1 DEF InTurn, Syncing
  <2>4. wire = << >> /\ client.markers = 1
    BY <1>1, <2>3 DEF Syncing, Newest
  <2>5. /\ server'.markers = 0 /\ Len(wire') = 1 /\ wire' # << >> /\ wire'[1] = server'
    BY <1>4, <2>3, <2>4
  <2>6. Newest' = server'
    BY <2>5 DEF Newest
  <2>7. callAt'[c] = "dropMarker" /\ since'[c] <= server'.writes
    BY <1>1, <1>7 DEF SyncTypes
  <2>8. since'[c] \in Nat /\ server'.writes \in Nat
    BY <1>3, <1>5, <1>6 DEF SyncTypes
  <2>9. Syncing(c)'
    BY <1>1, <2>4, <2>5, <2>6, <2>7, <2>8 DEF Syncing
  <2>10. Inventory!InventoryFresh'
    BY <1>1, <1>8 DEF InTurn, Inventory!InventoryFresh, Inventory!Fresh, SyncTypes
  <2> QED
    BY <2>2, <2>5, <2>9, <2>10 DEF InTurn, Alone, Idle
<1> QED
  BY <1>1, <1>6, <1>7, <1>8

(* The client shows no marker any more: nothing is on the wire, so its copy *)
(* is the newest.                                                          *)
LEMMA ReturnSyncs ==
  ASSUME SyncInv, NEW c \in Reader, Inventory!ClientDroppedMarker(c) PROVE SyncInv'
<1> USE DEF SyncInv
<1>1. /\ callAt[c] = "dropMarker" /\ client.markers = 0
      /\ callAt' = [callAt EXCEPT ![c] = "returned"]
      /\ result' = [result EXCEPT ![c] = client.writes]
      /\ UNCHANGED <<server, client, wire, since, tangled>>
  BY DEF Inventory!ClientDroppedMarker
<1>2. SyncTypes'
  BY <1>1 DEF SyncTypes, Copy
<1>3. ASSUME InTurn PROVE InTurn'
  <2>1. c \in Inventory!UnderWay
    BY <1>1 DEF Inventory!UnderWay
  <2>2. Inventory!UnderWay = {c} /\ Inventory!UnderWay' = {}
    BY <1>1, <1>3, <2>1 DEF InTurn, Alone, Inventory!UnderWay, SyncTypes
  <2>3. Syncing(c) /\ server.markers = 0
    BY <1>1, <1>3, <2>1 DEF InTurn, Syncing
  <2>4. wire = << >> /\ client.writes >= since[c]
    BY <1>1, <2>3 DEF Syncing, Newest
  <2>5. /\ callAt'[c] = "returned" /\ result'[c] = client.writes
        /\ \A d \in Reader : d # c => callAt'[d] = callAt[d] /\ result'[d] = result[d]
    BY <1>1 DEF SyncTypes
  <2>6. Inventory!InventoryFresh'
    BY <1>1, <1>3, <2>4, <2>5 DEF InTurn, Inventory!InventoryFresh, Inventory!Fresh
  <2> QED
    BY <1>1, <1>3, <2>2, <2>3, <2>4, <2>6 DEF InTurn, Alone, Idle
<1> QED
  BY <1>1, <1>2, <1>3

LEMMA GivingUpSyncs ==
  ASSUME SyncInv, NEW c \in Reader, Inventory!GiveUp(c) PROVE SyncInv'
  BY DEF SyncInv, SyncTypes, Inventory!GiveUp

LEMMA SyncNext == SyncInv /\ Inventory!Next => SyncInv'
  BY WriteSyncs, ReceiveSyncs, RefusalSyncs, CallSyncs, ClearSyncs, ReturnSyncs, GivingUpSyncs
     DEF Inventory!Next

LEMMA SyncUntouched == SyncInv /\ UNCHANGED inventoryVars => SyncInv'
  BY DEF inventoryVars, SyncInv, SyncTypes, InTurn, Inventory!InventoryFresh, Inventory!Fresh,
     Inventory!UnderWay, Alone, Idle, Syncing, Newest

(* getInventory with sync, its calls made in turn and none given up: what  *)
(* a call returns shows every write made before it, and when none is under *)
(* way no marker is left in the inventory.                                 *)
THEOREM InventoryInTurn == InstructionsSpec => []SyncedInTurn
<1>1. InstructionsInit => SyncInv
  BY SyncInit DEF InstructionsInit
<1>2. SyncInv /\ [InstructionsNext]_instructionVars => SyncInv'
  BY SyncNext, SyncUntouched DEF InstructionsNext, Navigating, BreakingBlocks, Holding, Testing,
     Helping, helperVars, instructionVars
<1>3. SyncInv => SyncedInTurn
  BY DEF SyncInv, InTurn, Idle, SyncedInTurn, Inventory!SyncedInTurn
<1> QED
  BY <1>1, <1>2, <1>3, PTL DEF InstructionsSpec

-----------------------------------------------------------------------------
(***************************************************************************)
(* The test runner.  The tests before the one it is in have been judged,   *)
(* those after it are untouched, and the judgement on a test is fixed by   *)
(* the trouble it had.  What a body does after its deadline touches no     *)
(* test that is still to come, because it is the body of one that began.   *)
(***************************************************************************)
Early == {"setup", "failAll", "testStart"}
Within == {"beforeEach", "body", "afterEach", "cleanup", "undo", "verdict"}
Ongoing == Early \cup Within \cup {"finishTest"}
SuiteOver == {"teardown", "suiteCleanup", "suiteUndo", "suiteEnd"}

TestTypes ==
  /\ stopOnFirst \in BOOLEAN
  /\ phase \in Ongoing \cup SuiteOver \cup {"runEnd"}
  /\ suite \in Tests!Suite /\ nth \in 1..Len(Suites[suite])
  /\ body \in [Tests!Test -> {"unborn", "running", "outlives", "over", "outlived"}]
  /\ error \in [Tests!Test -> BOOLEAN]
  /\ setupError \in BOOLEAN /\ hookError \in BOOLEAN
  /\ cleanups \in [Tests!Context -> Seq(Nat)]
  /\ tracked \in [Tests!Context -> Nat]
  /\ status \in [Tests!Test -> {"none", "passed", "failed", "skipped"}]
  /\ reported \in [Tests!Test -> {"none", "passed", "failed", "skipped"}]

Pristine(t) == /\ status[t] = "none" /\ reported[t] = "none" /\ t \notin trouble
               /\ body[t] = "unborn" /\ cleanups[t] = << >>

Judged(t) ==
  status[t] = IF t \in Skipped THEN "skipped"
              ELSE IF setupError \/ t \in trouble THEN "failed" ELSE "passed"
Reported(t) == Judged(t) /\ reported[t] = status[t]

(* The test of a suite that has ended. *)
Settled(s, t) == /\ reported[t] = status[t]
                 /\ status[t] \in {"none", Tests!Truth(s, t)}
                 /\ status[t] = "none" => stopOnFirst

(* The test the runner is in. *)
Present(t) ==
  /\ phase \in Early => Pristine(t)
  /\ phase = "failAll" => setupError
  /\ phase \in Ongoing \ {"failAll"} => ~setupError
  /\ phase \in Within => t \notin Skipped /\ status[t] = "none" /\ reported[t] = "none"
  /\ phase \in {"beforeEach", "body"} => t \notin trouble
  /\ phase = "beforeEach" => body[t] = "unborn"
  /\ phase \in {"afterEach", "cleanup", "undo", "verdict"} => (error[t] <=> t \in trouble)
  /\ phase = "finishTest" => Judged(t) /\ reported[t] = "none"

Standing(s, i) ==
  LET t == Suites[s][i] IN
  /\ s < suite => Settled(s, t)
  /\ s > suite => Pristine(t)
  /\ s = suite =>
       /\ phase \in Ongoing => /\ i < nth => Reported(t)
                               /\ i = nth => Present(t)
                               /\ i > nth => Pristine(t)
       /\ phase \in SuiteOver => /\ i <= nth => Reported(t)
                                 /\ i > nth => Pristine(t) /\ stopOnFirst
       /\ phase = "runEnd" => Settled(s, t)

(* The trouble of suites. *)
SuiteTrouble ==
  /\ \A s \in Tests!Suite : s > suite => s \notin trouble
  /\ phase # "runEnd" => (suite \in trouble <=> setupError \/ hookError)
  /\ phase = "setup" => nth = 1
  /\ phase \notin {"suiteCleanup", "suiteUndo", "suiteEnd"} => ~hookError
  /\ phase \in {"setup", "runEnd"} => ~setupError

AllStanding == \A s \in Tests!Suite : \A i \in 1..Len(Suites[s]) : Standing(s, i)

TestInv == TestTypes /\ SuiteTrouble /\ AllStanding

LEMMA Registered ==
  /\ Len(Suites) \in Nat \ {0}
  /\ Tests!Suite = 1..Len(Suites)
  /\ \A s \in Tests!Suite : Suites[s] \in Seq(Tests!Test) /\ Len(Suites[s]) \in Nat \ {0}
  /\ \A s \in Tests!Suite : \A i \in 1..Len(Suites[s]) : Suites[s][i] \in Tests!Test
  /\ \A s, z \in Tests!Suite : \A i \in 1..Len(Suites[s]), j \in 1..Len(Suites[z]) :
       Suites[s][i] = Suites[z][j] => s = z /\ i = j
  /\ Skipped \subseteq Tests!Test /\ Tests!Test \cap Tests!Suite = {}
<1>1. Tests!SuiteRunnerAssumption
  BY InstructionsAssumption
<1>2. Suites \in Seq(Seq(Tests!Test)) /\ Suites # << >>
  BY <1>1 DEF Tests!SuiteRunnerAssumption
<1>3. Len(Suites) \in Nat \ {0} /\ \A s \in 1..Len(Suites) : Suites[s] \in Seq(Tests!Test)
  BY <1>2, ElementOfSeq
<1>4. \A s \in Tests!Suite : Suites[s] \in Seq(Tests!Test) /\ Suites[s] # << >>
  BY <1>1, <1>3 DEF Tests!SuiteRunnerAssumption, Tests!Suite
<1>5. ASSUME NEW q \in Seq(Tests!Test), q # << >>
      PROVE  Len(q) \in Nat \ {0} /\ \A i \in 1..Len(q) : q[i] \in Tests!Test
  BY <1>5, ElementOfSeq
<1> QED
  BY <1>1, <1>3, <1>4, <1>5 DEF Tests!SuiteRunnerAssumption, Tests!Suite

LEMMA CurIsTest ==
  ASSUME TestTypes
  PROVE  /\ Tests!cur \in Tests!Test /\ Tests!cur \notin Tests!Suite
         /\ Tests!cur = Suites[suite][nth]
         /\ \A s \in Tests!Suite : \A i \in 1..Len(Suites[s]) :
              Suites[s][i] = Tests!cur => s = suite /\ i = nth
  BY Registered DEF TestTypes, Tests!cur

LEMMA TestInit == Tests!Init => TestInv
<1> SUFFICES ASSUME Tests!Init PROVE TestInv
  OBVIOUS
<1>1. TestTypes
  <2>1. << >> \in Seq(Nat)
    OBVIOUS
  <2>2. cleanups \in [Tests!Context -> Seq(Nat)]
    BY <2>1 DEF Tests!Init
  <2>3. suite \in Tests!Suite /\ nth \in 1..Len(Suites[suite])
    BY Registered DEF Tests!Init
  <2> QED
    BY <2>2, <2>3 DEF Tests!Init, TestTypes, Ongoing, Early
<1>2. SuiteTrouble
  BY DEF Tests!Init, SuiteTrouble
<1>3. \A t \in Tests!Test : Pristine(t)
  BY DEF Tests!Init, Pristine, Tests!Context
<1>4. phase = "setup" /\ suite = 1 /\ nth = 1 /\ ~setupError
  BY DEF Tests!Init
<1>5. ASSUME NEW s \in Tests!Suite, NEW i \in 1..Len(Suites[s]) PROVE Standing(s, i)
  <2>1. Pristine(Suites[s][i])
    BY <1>3, Registered
  <2>2. Present(Suites[s][i])
    BY <1>4, <2>1 DEF Present, Within
  <2>3. s >= 1 /\ i >= 1 /\ ~(s < 1) /\ ~(i < 1)
    BY Registered
  <2> QED
    BY <1>4, <2>1, <2>2, <2>3 DEF Standing, SuiteOver
<1> QED
  BY <1>1, <1>2, <1>5 DEF TestInv, AllStanding

(***************************************************************************)
(* Steps that leave the place of the runner alone.                         *)
(***************************************************************************)
Kept(t) == /\ status'[t] = status[t] /\ reported'[t] = reported[t]
           /\ t \in trouble' <=> t \in trouble
           /\ Pristine(t) => Pristine(t)'

(* A step in a test that leaves the other tests as they were. *)
LEMMA OthersStand ==
  ASSUME TestInv, UNCHANGED <<suite, nth, stopOnFirst>>, setupError' = setupError \/ nth = 1,
         phase \in Ongoing, phase' \in Ongoing,
         \A t \in Tests!Test : t # Tests!cur => Kept(t),
         \A s \in Tests!Suite : s < suite => (s \in trouble' <=> s \in trouble),
         Present(Tests!cur)'
  PROVE  AllStanding'
<1>1. Tests!cur' = Tests!cur
  BY DEF Tests!cur
<1>2. phase' # "runEnd" /\ phase' \notin SuiteOver
  BY DEF Ongoing, Early, Within, SuiteOver
<1> SUFFICES ASSUME NEW s \in Tests!Suite, NEW i \in 1..Len(Suites[s]) PROVE Standing(s, i)'
  BY DEF AllStanding
<1>3. Suites[s][i] \in Tests!Test /\ Standing(s, i)
  BY Registered DEF TestInv, AllStanding
<1>4. s \in Nat /\ suite \in Nat /\ i \in Nat /\ nth \in Nat /\ nth >= 1 /\ i >= 1
  BY Registered DEF TestInv, TestTypes
<1>5. CASE s = suite /\ i = nth
  <2>1. Suites[s][i] = Tests!cur'
    BY <1>1, <1>5 DEF Tests!cur
  <2> QED
    BY <1>2, <1>4, <1>5, <2>1 DEF Standing
<1>6. CASE ~(s = suite /\ i = nth)
  <2>1. Kept(Suites[s][i])
    BY <1>3, <1>6, CurIsTest DEF TestInv
  <2>2. s < suite => Settled(s, Suites[s][i])'
    BY <1>3, <2>1 DEF Standing, Settled, Kept, Tests!Truth
  <2>3. s > suite \/ (s = suite /\ i > nth) => Pristine(Suites[s][i])'
    BY <1>3, <2>1 DEF Standing, Kept
  <2>4. s = suite /\ i < nth => Reported(Suites[s][i])'
    <3>1. i < nth => setupError' = setupError
      BY <1>4
    <3> QED
      BY <1>3, <2>1, <3>1 DEF Standing, Reported, Judged, Kept
  <2> QED
    BY <1>2, <1>4, <1>6, <2>2, <2>3, <2>4 DEF Standing
<1> QED
  BY <1>5, <1>6

(* A step after the tests of a suite. *)
LEMMA SuiteStands ==
  ASSUME TestInv, UNCHANGED <<suite, nth, stopOnFirst, setupError>>,
         phase \in SuiteOver, phase' \in SuiteOver,
         \A t \in Tests!Test : Kept(t),
         \A s \in Tests!Suite : s < suite => (s \in trouble' <=> s \in trouble)
  PROVE  AllStanding'
<1>1. phase' # "runEnd" /\ phase' \notin Ongoing
  BY DEF Ongoing, Early, Within, SuiteOver
<1> SUFFICES ASSUME NEW s \in Tests!Suite, NEW i \in 1..Len(Suites[s]) PROVE Standing(s, i)'
  BY DEF AllStanding
<1>2. Suites[s][i] \in Tests!Test /\ Standing(s, i)
  BY Registered DEF TestInv, AllStanding
<1>3. Kept(Suites[s][i])
  BY <1>2
<1>4. s < suite => Settled(s, Suites[s][i])'
  BY <1>2, <1>3 DEF Standing, Settled, Kept, Tests!Truth
<1>5. Reported(Suites[s][i]) => Reported(Suites[s][i])'
  BY <1>3 DEF Reported, Judged, Kept
<1>6. Pristine(Suites[s][i]) => Pristine(Suites[s][i])'
  BY <1>3 DEF Kept
<1> QED
  BY <1>1, <1>2, <1>4, <1>5, <1>6 DEF Standing

(* A step of a body or a context behind the back of the runner. *)
LEMMA AllStand ==
  ASSUME TestInv,
         UNCHANGED <<suite, nth, stopOnFirst, setupError, hookError, phase, error, status, reported,
                     trouble>>,
         \A t \in Tests!Test : body[t] = "unborn" => body'[t] = "unborn",
         \A t \in Tests!Test : Pristine(t) /\ ~(t = Tests!cur /\ phase \in Within) =>
                                  cleanups'[t] = cleanups[t]
  PROVE  SuiteTrouble' /\ AllStanding'
<1>1. SuiteTrouble'
  BY DEF TestInv, SuiteTrouble
<1> SUFFICES ASSUME NEW s \in Tests!Suite, NEW i \in 1..Len(Suites[s]) PROVE Standing(s, i)'
  BY <1>1 DEF AllStanding
<1>2. Suites[s][i] \in Tests!Test /\ Standing(s, i)
  BY Registered DEF TestInv, AllStanding
<1>3. Pristine(Suites[s][i]) /\ ~(s = suite /\ i = nth /\ phase \in Within) =>
        Pristine(Suites[s][i])'
  BY <1>2, CurIsTest DEF TestInv, Pristine
<1>4. Present(Suites[s][i]) => Present(Suites[s][i])'
  <2>1. phase \in Within => phase \notin Early
    BY DEF Early, Within
  <2> QED
    BY <1>2, <1>3, <2>1 DEF Present, Judged
<1>5. Settled(s, Suites[s][i]) => Settled(s, Suites[s][i])'
  BY DEF Settled, Tests!Truth
<1>6. Reported(Suites[s][i]) => Reported(Suites[s][i])'
  BY DEF Reported, Judged
<1>7. s \in Nat /\ suite \in Nat /\ i \in Nat /\ nth \in Nat
  BY Registered DEF TestInv, TestTypes
<1>8. /\ s > suite \/ (s = suite /\ i > nth) => ~(s = suite /\ i = nth)
      /\ phase \in SuiteOver => phase \notin Within
  BY <1>7 DEF Within, SuiteOver
<1> QED
  BY <1>2, <1>3, <1>4, <1>5, <1>6, <1>8 DEF Standing

(* The trouble and the cleanups that steps of a test leave behind. *)
LEMMA Blamed ==
  ASSUME NEW c, NEW ok \in BOOLEAN, Tests!Blame(c, ok)
  PROVE  \A x : x \in trouble' <=> x \in trouble \/ (x = c /\ ~ok)
  BY DEF Tests!Blame

LEMMA PoppedType ==
  ASSUME NEW q \in Seq(Nat), q # << >>
  PROVE  SubSeq(q, 1, Len(q) - 1) \in Seq(Nat)
<1>1. Len(q) \in Nat \ {0}
  OBVIOUS
<1>2. \A i \in 1..(Len(q) - 1) : q[i] \in Nat
  BY <1>1, ElementOfSeq
<1> QED
  BY <1>1, <1>2, SubSeqProperties

(* A step of the runner in a test that touches that test only. *)
LEMMA TestStands ==
  ASSUME TestInv, TestTypes',
         UNCHANGED <<suite, nth, stopOnFirst, setupError, hookError, reported>>,
         phase \in Within \cup {"testStart"}, phase' \in Within \cup {"finishTest"},
         \A t \in Tests!Test : t # Tests!cur => /\ status'[t] = status[t] /\ body'[t] = body[t]
                                                /\ cleanups'[t] = cleanups[t],
         \A x : x # Tests!cur => (x \in trouble' <=> x \in trouble),
         Present(Tests!cur)'
  PROVE  TestInv'
<1>1. \A t \in Tests!Test : t # Tests!cur => Kept(t)
  BY DEF Kept, Pristine
<1>2. \A s \in Tests!Suite : s \in trouble' <=> s \in trouble
  BY CurIsTest DEF TestInv
<1>3. suite \in Tests!Suite
  BY DEF TestInv, TestTypes
<1>4. SuiteTrouble'
  BY <1>2, <1>3 DEF TestInv, SuiteTrouble, Within
<1>5. AllStanding'
  <2>1. phase \in Ongoing /\ phase' \in Ongoing /\ (setupError' = setupError \/ nth = 1)
    BY DEF Ongoing, Early
  <2> QED
    BY <1>1, <1>2, <2>1, OthersStand
<1> QED
  BY <1>4, <1>5 DEF TestInv

LEMMA TestCur ==
  ASSUME TestInv
  PROVE  /\ phase \in Ongoing => Present(Tests!cur)
         /\ phase \in SuiteOver => Reported(Tests!cur)
         /\ suite' = suite /\ nth' = nth => Tests!cur' = Tests!cur
<1>1. suite \in Tests!Suite /\ nth \in 1..Len(Suites[suite]) /\ Tests!cur = Suites[suite][nth]
  BY DEF TestInv, TestTypes, Tests!cur
<1>2. Standing(suite, nth)
  BY <1>1 DEF TestInv, AllStanding
<1>3. nth <= nth
  BY <1>1, Registered
<1> QED
  BY <1>1, <1>2, <1>3 DEF Standing, Tests!cur

LEMMA TestBegins == ASSUME TestInv, Tests!TestStart PROVE TestInv'
<1>1. /\ phase = "testStart"
      /\ UNCHANGED <<stopOnFirst, suite, nth, body, error, setupError, hookError, cleanups, tracked,
                     reported, trouble>>
      /\ \/ /\ Tests!cur \in Skipped /\ phase' = "finishTest"
            /\ status' = [status EXCEPT ![Tests!cur] = "skipped"]
         \/ Tests!cur \notin Skipped /\ phase' = "beforeEach" /\ UNCHANGED status
  BY DEF Tests!TestStart, Tests!suiteVars
<1>2. Pristine(Tests!cur) /\ ~setupError
  BY <1>1, TestCur DEF Ongoing, Early, Present
<1>3. Tests!cur \in Tests!Test /\ Tests!cur' = Tests!cur
  BY <1>1, CurIsTest, TestCur DEF TestInv
<1>4. TestTypes'
  BY <1>1, <1>3 DEF TestInv, TestTypes, Ongoing, Within
<1>5. /\ \A t \in Tests!Test : t # Tests!cur => status'[t] = status[t]
      /\ Tests!cur \in Skipped => phase' = "finishTest" /\ status'[Tests!cur] = "skipped"
      /\ Tests!cur \notin Skipped =>
           phase' = "beforeEach" /\ status'[Tests!cur] = status[Tests!cur]
  BY <1>1, <1>3 DEF TestInv, TestTypes
<1>6. Present(Tests!cur)'
  BY <1>1, <1>2, <1>3, <1>5 DEF Present, Early, Within, Judged, Pristine
<1>7. phase \in Within \cup {"testStart"} /\ phase' \in Within \cup {"finishTest"}
  BY <1>1 DEF Within
<1> QED
  BY <1>1, <1>4, <1>5, <1>6, <1>7, TestStands

LEMMA TestPrepares ==
  ASSUME TestInv, NEW ok \in BOOLEAN, Tests!BeforeEach(ok) PROVE TestInv'
<1>1. /\ phase = "beforeEach" /\ Tests!Blame(Tests!cur, ok)
      /\ error' = [error EXCEPT ![Tests!cur] = ~ok]
      /\ UNCHANGED <<stopOnFirst, suite, nth, setupError, hookError, cleanups, tracked, status,
                     reported>>
      /\ \/ ok /\ phase' = "body" /\ body' = [body EXCEPT ![Tests!cur] = "running"]
         \/ ~ok /\ phase' = "afterEach" /\ UNCHANGED body
  BY DEF Tests!BeforeEach, Tests!suiteVars, Tests!reportVars
<1>2. /\ Tests!cur \notin Skipped /\ Tests!cur \notin trouble /\ ~setupError
      /\ status[Tests!cur] = "none" /\ reported[Tests!cur] = "none"
  BY <1>1, TestCur DEF Ongoing, Within, Present
<1>3. Tests!cur \in Tests!Test /\ Tests!cur' = Tests!cur
  BY <1>1, CurIsTest, TestCur DEF TestInv
<1>4. TestTypes'
  BY <1>1, <1>3 DEF TestInv, TestTypes, Ongoing, Within
<1>5. /\ \A t \in Tests!Test : t # Tests!cur => body'[t] = body[t]
      /\ error'[Tests!cur] = ~ok /\ (ok => phase' = "body") /\ (~ok => phase' = "afterEach")
  BY <1>1, <1>3 DEF TestInv, TestTypes
<1>6. \A x : x \in trouble' <=> x \in trouble \/ (x = Tests!cur /\ ~ok)
  BY <1>1, Blamed
<1>7. Present(Tests!cur)'
  BY <1>1, <1>2, <1>3, <1>5, <1>6 DEF Present, Early, Within
<1>8. phase \in Within \cup {"testStart"} /\ phase' \in Within \cup {"finishTest"}
  BY <1>1 DEF Within
<1> QED
  BY <1>1, <1>4, <1>5, <1>6, <1>7, <1>8, TestStands

(* The race between a body and its deadline is over. *)
LEMMA RaceEnds ==
  ASSUME TestInv, NEW ok \in BOOLEAN, phase = "body", phase' = "afterEach", TestTypes',
         UNCHANGED <<stopOnFirst, suite, nth, setupError, hookError, cleanups, tracked, status,
                     reported>>,
         \A t \in Tests!Test : t # Tests!cur => body'[t] = body[t],
         error'[Tests!cur] = ~ok, Tests!Blame(Tests!cur, ok)
  PROVE  TestInv'
<1>1. /\ Tests!cur \notin Skipped /\ Tests!cur \notin trouble /\ ~setupError
      /\ status[Tests!cur] = "none" /\ reported[Tests!cur] = "none"
  BY TestCur DEF Ongoing, Within, Present
<1>2. Tests!cur' = Tests!cur
  BY TestCur
<1>3. \A x : x \in trouble' <=> x \in trouble \/ (x = Tests!cur /\ ~ok)
  BY Blamed
<1>4. Present(Tests!cur)'
  BY <1>1, <1>2, <1>3 DEF Present, Early, Within
<1>5. phase \in Within \cup {"testStart"} /\ phase' \in Within \cup {"finishTest"}
  BY DEF Within
<1> QED
  BY <1>3, <1>4, <1>5, TestStands

LEMMA BodyStops ==
  ASSUME TestInv, NEW t \in Tests!Test, NEW ok \in BOOLEAN, Tests!BodyEnds(t, ok) PROVE TestInv'
<1> PICK b : b = IF body[t] = "running" THEN "over" ELSE "outlived"
  OBVIOUS
<1>1. /\ body[t] # "unborn" /\ body' = [body EXCEPT ![t] = b] /\ b \in {"over", "outlived"}
      /\ UNCHANGED <<stopOnFirst, suite, nth, setupError, hookError, cleanups, tracked, status,
                     reported>>
  BY DEF Tests!BodyEnds, Tests!suiteVars, Tests!reportVars
<1>2. CASE t = Tests!cur /\ phase = "body"
  <2>1. /\ phase' = "afterEach" /\ error' = [error EXCEPT ![t] = ~ok]
        /\ Tests!Blame(Tests!cur, ok)
    BY <1>2 DEF Tests!BodyEnds
  <2>2. TestTypes'
    BY <1>1, <2>1 DEF TestInv, TestTypes, Ongoing, Within
  <2>3. /\ \A u \in Tests!Test : u # Tests!cur => body'[u] = body[u]
        /\ error'[Tests!cur] = ~ok
    BY <1>1, <1>2, <2>1 DEF TestInv, TestTypes
  <2>4. phase' = "afterEach" /\ Tests!Blame(Tests!cur, ok)
    BY <2>1
  <2>5. UNCHANGED <<stopOnFirst, suite, nth, setupError, hookError, cleanups, tracked, status,
                    reported>>
    BY <1>1
  <2> QED
    BY <1>2, <2>2, <2>3, <2>4, <2>5, RaceEnds
<1>3. CASE ~(t = Tests!cur /\ phase = "body")
  <2>1. UNCHANGED <<phase, error, trouble>>
    BY <1>3 DEF Tests!BodyEnds
  <2>2. TestTypes'
    BY <1>1, <2>1 DEF TestInv, TestTypes
  <2>3. \A u \in Tests!Test : body[u] = "unborn" => body'[u] = "unborn"
    BY <1>1 DEF TestInv, TestTypes
  <2>4. UNCHANGED <<suite, nth, stopOnFirst, setupError, hookError, phase, error, status, reported,
                    trouble, cleanups>>
    BY <1>1, <2>1
  <2> QED
    BY <2>2, <2>3, <2>4, AllStand DEF TestInv
<1> QED
  BY <1>2, <1>3

LEMMA DeadlinePasses == ASSUME TestInv, Tests!Timeout PROVE TestInv'
<1>1. UNCHANGED <<stopOnFirst, suite, nth, setupError, hookError, cleanups, tracked, status,
                  reported>>
  BY DEF Tests!Timeout, Tests!suiteVars, Tests!reportVars
<1>2. CASE timer = Tests!cur /\ phase = "body"
  <2>1. /\ phase' = "afterEach" /\ error' = [error EXCEPT ![Tests!cur] = TRUE]
        /\ body' = [body EXCEPT ![Tests!cur] = "outlives"]
        /\ Tests!Blame(Tests!cur, FALSE)
    BY <1>2 DEF Tests!Timeout
  <2>2. Tests!cur \in Tests!Test
    BY CurIsTest DEF TestInv
  <2>3. TestTypes'
    BY <1>1, <2>1, <2>2 DEF TestInv, TestTypes, Ongoing, Within
  <2>4. /\ error'[Tests!cur] = ~FALSE
        /\ \A t \in Tests!Test : t # Tests!cur => body'[t] = body[t]
    BY <2>1, <2>2 DEF TestInv, TestTypes
  <2>5. phase' = "afterEach" /\ Tests!Blame(Tests!cur, FALSE)
    BY <2>1
  <2> QED
    BY <1>1, <1>2, <2>3, <2>4, <2>5, RaceEnds
<1>3. CASE ~(timer = Tests!cur /\ phase = "body")
  <2>1. UNCHANGED <<phase, body, error, trouble>>
    BY <1>3 DEF Tests!Timeout
  <2>2. TestTypes'
    BY <1>1, <2>1 DEF TestInv, TestTypes
  <2> QED
    BY <1>1, <2>1, <2>2, AllStand DEF TestInv
<1> QED
  BY <1>2, <1>3

(* The hooks after a body, and the cleanups, add to the trouble. *)
LEMMA TestWindsUp ==
  ASSUME TestInv, NEW ok \in BOOLEAN, Tests!AfterEach(ok) \/ Tests!Undone(ok) PROVE TestInv'
<1>1. /\ phase \in {"afterEach", "undo"} /\ phase' = "cleanup" /\ Tests!Blame(Tests!cur, ok)
      /\ error' = [error EXCEPT ![Tests!cur] = @ \/ ~ok]
      /\ UNCHANGED <<stopOnFirst, suite, nth, setupError, hookError, body, cleanups, tracked, status,
                     reported>>
  BY DEF Tests!AfterEach, Tests!Undone, Tests!suiteVars, Tests!reportVars
<1>2. /\ Tests!cur \notin Skipped /\ (error[Tests!cur] <=> Tests!cur \in trouble) /\ ~setupError
      /\ status[Tests!cur] = "none" /\ reported[Tests!cur] = "none"
  BY <1>1, TestCur DEF Ongoing, Within, Present
<1>3. Tests!cur \in Tests!Test /\ Tests!cur' = Tests!cur
  BY <1>1, CurIsTest, TestCur DEF TestInv
<1>4. TestTypes'
  BY <1>1, <1>3 DEF TestInv, TestTypes, Ongoing, Within
<1>5. error'[Tests!cur] = (error[Tests!cur] \/ ~ok)
  BY <1>1, <1>3 DEF TestInv, TestTypes
<1>6. \A x : x \in trouble' <=> x \in trouble \/ (x = Tests!cur /\ ~ok)
  BY <1>1, Blamed
<1>7. Present(Tests!cur)'
  BY <1>1, <1>2, <1>3, <1>5, <1>6 DEF Present, Early, Within
<1>8. phase \in Within \cup {"testStart"} /\ phase' \in Within \cup {"finishTest"}
  BY <1>1 DEF Within
<1> QED
  BY <1>1, <1>4, <1>6, <1>7, <1>8, TestStands

LEMMA TestUndoes == ASSUME TestInv, Tests!Undo PROVE TestInv'
<1>1. /\ phase = "cleanup" /\ phase' = "undo" /\ cleanups[Tests!cur] # << >>
      /\ cleanups' = [cleanups EXCEPT ![Tests!cur] =
                        SubSeq(cleanups[Tests!cur], 1, Len(cleanups[Tests!cur]) - 1)]
      /\ UNCHANGED <<stopOnFirst, suite, nth, body, error, setupError, hookError, tracked, status,
                     reported, trouble>>
  BY DEF Tests!Undo, Tests!Pop, Tests!suiteVars, Tests!reportVars
<1>2. Tests!cur \in Tests!Test /\ Tests!cur \in Tests!Context /\ Tests!cur' = Tests!cur
  BY <1>1, CurIsTest, TestCur DEF TestInv, Tests!Context
<1>3. SubSeq(cleanups[Tests!cur], 1, Len(cleanups[Tests!cur]) - 1) \in Seq(Nat)
  <2>1. cleanups[Tests!cur] \in Seq(Nat)
    BY <1>2 DEF TestInv, TestTypes
  <2> QED
    BY <1>1, <2>1, PoppedType
<1>4. TestTypes'
  BY <1>1, <1>2, <1>3 DEF TestInv, TestTypes, Ongoing, Within
<1>5. \A t \in Tests!Test : t # Tests!cur => cleanups'[t] = cleanups[t]
  BY <1>1 DEF TestInv, TestTypes, Tests!Context
<1>6. Present(Tests!cur)'
  BY <1>1, <1>2, TestCur DEF Present, Ongoing, Early, Within
<1>7. /\ phase \in Within \cup {"testStart"} /\ phase' \in Within \cup {"finishTest"}
      /\ UNCHANGED <<stopOnFirst, suite, nth, body, error, setupError, hookError, tracked, status,
                     reported, trouble>>
  BY <1>1 DEF Within
<1> QED
  BY <1>4, <1>5, <1>6, <1>7, TestStands

(* runCleanups returns, to runTest or to runSuite. *)
LEMMA AllUndone == ASSUME TestInv, Tests!CleanedUp PROVE TestInv'
<1>1. UNCHANGED <<stopOnFirst, suite, nth, body, error, setupError, hookError, cleanups, tracked,
                  status, reported, trouble>>
  BY DEF Tests!CleanedUp, Tests!suiteVars, Tests!reportVars
<1>2. CASE phase = "cleanup"
  <2>1. phase' = "verdict"
    BY <1>2 DEF Tests!CleanedUp
  <2>2. TestTypes'
    BY <1>1, <2>1 DEF TestInv, TestTypes, Ongoing, Within
  <2>3. Tests!cur' = Tests!cur /\ Present(Tests!cur)
    BY <1>1, <1>2, TestCur DEF Ongoing, Within
  <2>4. Present(Tests!cur)'
    BY <1>1, <1>2, <2>1, <2>3 DEF Present, Ongoing, Early, Within
  <2>5. phase \in Within \cup {"testStart"} /\ phase' \in Within \cup {"finishTest"}
    BY <1>2, <2>1 DEF Within
  <2> QED
    BY <1>1, <2>2, <2>4, <2>5, TestStands
<1>3. CASE phase # "cleanup"
  <2>1. phase = "suiteCleanup" /\ phase' = "suiteEnd"
    BY <1>3 DEF Tests!CleanedUp
  <2>2. TestTypes'
    BY <1>1, <2>1 DEF TestInv, TestTypes, SuiteOver
  <2>3. SuiteTrouble'
    BY <1>1, <2>1 DEF TestInv, SuiteTrouble
  <2>4. \A t \in Tests!Test : Kept(t)
    BY <1>1 DEF Kept, Pristine
  <2>5. phase \in SuiteOver /\ phase' \in SuiteOver
    BY <2>1 DEF SuiteOver
  <2> QED
    BY <1>1, <2>2, <2>3, <2>4, <2>5, SuiteStands DEF TestInv
<1> QED
  BY <1>2, <1>3

LEMMA TestJudged == ASSUME TestInv, Tests!Verdict PROVE TestInv'
<1>1. /\ phase = "verdict" /\ phase' = "finishTest"
      /\ status' = [status EXCEPT ![Tests!cur] =
                      IF error[Tests!cur] THEN "failed" ELSE "passed"]
      /\ UNCHANGED <<stopOnFirst, suite, nth, body, error, setupError, hookError, cleanups, tracked,
                     reported, trouble>>
  BY DEF Tests!Verdict, Tests!suiteVars
<1>2. /\ Tests!cur \notin Skipped /\ (error[Tests!cur] <=> Tests!cur \in trouble) /\ ~setupError
      /\ status[Tests!cur] = "none" /\ reported[Tests!cur] = "none"
  BY <1>1, TestCur DEF Ongoing, Within, Present
<1>3. Tests!cur \in Tests!Test /\ Tests!cur' = Tests!cur
  BY <1>1, CurIsTest, TestCur DEF TestInv
<1>4. TestTypes'
  BY <1>1, <1>3 DEF TestInv, TestTypes, Ongoing
<1>5. /\ \A t \in Tests!Test : t # Tests!cur => status'[t] = status[t]
      /\ status'[Tests!cur] = IF error[Tests!cur] THEN "failed" ELSE "passed"
  BY <1>1, <1>3 DEF TestInv, TestTypes
<1>6. Present(Tests!cur)'
  BY <1>1, <1>2, <1>3, <1>5 DEF Present, Early, Within, Judged
<1>7. phase \in Within \cup {"testStart"} /\ phase' \in Within \cup {"finishTest"}
  BY <1>1 DEF Within
<1> QED
  BY <1>1, <1>4, <1>5, <1>6, <1>7, TestStands

(***************************************************************************)
(* Steps from one test to the next, and those of a suite.                  *)
(***************************************************************************)
LEMMA SuiteBegins ==
  ASSUME TestInv, NEW ok \in BOOLEAN, Tests!Setup(ok) PROVE TestInv'
<1>1. /\ phase = "setup" /\ setupError' = ~ok /\ Tests!Blame(suite, ok)
      /\ phase' = (IF ok THEN "testStart" ELSE "failAll")
      /\ UNCHANGED <<stopOnFirst, suite, nth, body, error, hookError, cleanups, tracked, status,
                     reported>>
  BY DEF Tests!Setup, Tests!reportVars
<1>2. TestTypes'
  BY <1>1 DEF TestInv, TestTypes, Ongoing, Early
<1>3. \A x : x \in trouble' <=> x \in trouble \/ (x = suite /\ ~ok)
  BY <1>1, Blamed
<1>4. nth = 1 /\ ~setupError /\ ~hookError /\ suite \notin trouble
  BY <1>1 DEF TestInv, SuiteTrouble
<1>5. suite \in Tests!Suite /\ suite \in Nat
  BY Registered DEF TestInv, TestTypes
<1>6. SuiteTrouble'
  <2>1. \A s \in Tests!Suite : s > suite => s \notin trouble'
    BY <1>3, <1>5 DEF TestInv, SuiteTrouble
  <2>2. suite \in trouble' <=> ~ok
    BY <1>3, <1>4
  <2>3. phase' \notin {"setup", "runEnd"}
    BY <1>1
  <2> QED
    BY <1>1, <1>4, <2>1, <2>2, <2>3 DEF SuiteTrouble
<1>7. \A t \in Tests!Test : Kept(t)
  <2>1. suite \notin Tests!Test
    BY <1>5, Registered
  <2> QED
    BY <1>1, <1>3, <2>1 DEF Kept, Pristine
<1>8. Present(Tests!cur)'
  <2>1. Pristine(Tests!cur) /\ Tests!cur \in Tests!Test /\ Tests!cur' = Tests!cur
    BY <1>1, TestCur, CurIsTest DEF TestInv, Present, Ongoing, Early
  <2>2. Pristine(Tests!cur)'
    BY <1>7, <2>1 DEF Kept
  <2> QED
    BY <1>1, <2>2 DEF Present, Ongoing, Early, Within
<1>9. phase \in Ongoing /\ phase' \in Ongoing
  BY <1>1 DEF Ongoing, Early
<1>10. \A s \in Tests!Suite : s < suite => (s \in trouble' <=> s \in trouble)
  BY <1>3, <1>5
<1>11. UNCHANGED <<suite, nth, stopOnFirst>> /\ (setupError' = setupError \/ nth = 1)
  BY <1>1, <1>4
<1> QED
  BY <1>2, <1>6, <1>7, <1>8, <1>9, <1>10, <1>11, OthersStand DEF TestInv

(* A test is reported, run or not, and the runner goes on to the next one  *)
(* of the suite or to the end of it.                                       *)
LEMMA NextStands ==
  ASSUME TestInv, UNCHANGED <<suite, stopOnFirst, setupError, trouble, body, cleanups>>,
         phase \in {"failAll", "finishTest"},
         NEW t \in Tests!Test, t = Tests!cur, Reported(t)',
         \A u \in Tests!Test : u # t => status'[u] = status[u] /\ reported'[u] = reported[u],
         \/ phase' = "teardown" /\ nth' = nth /\ (nth = Len(Suites[suite]) \/ stopOnFirst)
         \/ /\ nth' = nth + 1 /\ nth < Len(Suites[suite])
            /\ phase' = IF phase = "failAll" THEN "failAll" ELSE "testStart"
  PROVE  AllStanding'
<1>1. \A u \in Tests!Test : u # t => Kept(u)
  BY DEF Kept, Pristine
<1>2. phase \in Ongoing /\ (phase = "failAll" <=> setupError)
  BY TestCur DEF Ongoing, Early, Present
<1> SUFFICES ASSUME NEW s \in Tests!Suite, NEW i \in 1..Len(Suites[s]) PROVE Standing(s, i)'
  BY DEF AllStanding
<1>3. Suites[s][i] \in Tests!Test /\ Standing(s, i)
  BY Registered DEF TestInv, AllStanding
<1>4. /\ s \in Nat /\ suite \in Nat /\ i \in Nat /\ nth \in Nat /\ Len(Suites[s]) \in Nat
      /\ i <= Len(Suites[s])
  BY Registered DEF TestInv, TestTypes
<1>5. phase' # "runEnd"
  OBVIOUS
<1>6. CASE s = suite /\ i = nth
  <2>1. Reported(Suites[s][i])'
    BY <1>6 DEF Tests!cur
  <2>2. phase' \in SuiteOver \/ nth' = nth + 1
    BY DEF SuiteOver
  <2>3. phase' \in SuiteOver => phase' \notin Ongoing
    BY DEF Ongoing, Early, Within, SuiteOver
  <2>4. phase' \in SuiteOver => nth' = nth
    BY DEF SuiteOver
  <2> QED
    BY <1>4, <1>5, <1>6, <2>1, <2>2, <2>3, <2>4 DEF Standing
<1>7. CASE ~(s = suite /\ i = nth)
  <2>1. Kept(Suites[s][i])
    BY <1>1, <1>3, <1>7, CurIsTest DEF TestInv
  <2>2. s < suite => Settled(s, Suites[s][i])'
    BY <1>3, <2>1 DEF Standing, Settled, Kept, Tests!Truth
  <2>3. s > suite \/ (s = suite /\ i > nth) => Pristine(Suites[s][i])'
    BY <1>2, <1>3, <2>1 DEF Standing, Kept
  <2>4. s = suite /\ i < nth => Reported(Suites[s][i])'
    BY <1>2, <1>3, <2>1 DEF Standing, Reported, Judged, Kept
  <2>5. phase' \in {"failAll", "testStart"} /\ Pristine(Suites[s][i])' => Present(Suites[s][i])'
    BY <1>2 DEF Present, Ongoing, Early, Within
  <2>6. phase' = "teardown" /\ s = suite /\ i > nth => stopOnFirst'
    BY <1>4
  <2>7. CASE phase' = "teardown"
    <3>1. phase' \notin Ongoing /\ nth' = nth
      BY <2>7 DEF Ongoing, Early, Within
    <3>2. s = suite => i < nth \/ i > nth
      BY <1>4, <1>7
    <3> QED
      BY <1>4, <1>5, <2>2, <2>3, <2>4, <2>6, <2>7, <3>1, <3>2 DEF Standing
  <2>8. CASE phase' # "teardown"
    <3>1. phase' \in {"failAll", "testStart"} /\ nth' = nth + 1 /\ phase' \notin SuiteOver
      BY <2>8 DEF SuiteOver
    <3>2. s = suite => (i < nth' => i < nth) /\ (i >= nth' => i > nth)
      BY <1>4, <1>7, <3>1
    <3>3. i = nth' => i >= nth' 
      BY <1>4, <3>1
    <3>4. i > nth' => i >= nth' 
      BY <1>4, <3>1
    <3> QED
      BY <1>5, <2>2, <2>3, <2>4, <2>5, <3>1, <3>2, <3>3, <3>4 DEF Standing
  <2> QED
    BY <2>7, <2>8
<1> QED
  BY <1>6, <1>7

LEMMA TestFailsUnrun == ASSUME TestInv, Tests!FailUnrun PROVE TestInv'
<1>1. PICK verdict : verdict = IF Tests!cur \in Skipped THEN "skipped" ELSE "failed"
  OBVIOUS
<1>2. /\ phase = "failAll"
      /\ status' = [status EXCEPT ![Tests!cur] = verdict]
      /\ reported' = [reported EXCEPT ![Tests!cur] = verdict]
      /\ \/ nth < Len(Suites[suite]) /\ nth' = nth + 1 /\ phase' = phase
         \/ ~(nth < Len(Suites[suite])) /\ phase' = "teardown" /\ nth' = nth
      /\ UNCHANGED <<stopOnFirst, suite, body, error, setupError, hookError, cleanups, tracked,
                     trouble>>
  BY <1>1 DEF Tests!FailUnrun, Tests!suiteVars
<1>3. setupError
  BY <1>2, TestCur DEF Ongoing, Early, Present
<1>4. Tests!cur \in Tests!Test /\ Tests!cur = Suites[suite][nth]
  BY CurIsTest DEF TestInv
<1>5. suite \in Tests!Suite /\ nth \in 1..Len(Suites[suite]) /\ Len(Suites[suite]) \in Nat
  BY Registered DEF TestInv, TestTypes
<1>6. nth' \in 1..Len(Suites[suite]) /\ (~(nth < Len(Suites[suite])) => nth = Len(Suites[suite]))
  BY <1>2, <1>5
<1>7. TestTypes'
  <2>1. verdict \in {"none", "passed", "failed", "skipped"}
    BY <1>1
  <2> QED
    BY <1>2, <1>4, <1>6, <2>1 DEF TestInv, TestTypes, Ongoing, Early, SuiteOver
<1>8. SuiteTrouble'
  BY <1>2 DEF TestInv, SuiteTrouble
<1>9. /\ status'[Tests!cur] = verdict /\ reported'[Tests!cur] = verdict
      /\ \A t \in Tests!Test : t # Tests!cur => /\ status'[t] = status[t]
                                                /\ reported'[t] = reported[t]
  BY <1>2, <1>4 DEF TestInv, TestTypes
<1>10. ASSUME NEW t, t = Tests!cur PROVE Reported(t)'
  BY <1>1, <1>2, <1>3, <1>9, <1>10 DEF Reported, Judged
<1> QED
  BY <1>2, <1>4, <1>6, <1>7, <1>8, <1>9, <1>10, NextStands DEF TestInv

LEMMA TestEnds == ASSUME TestInv, Tests!FinishTest PROVE TestInv'
<1>1. /\ phase = "finishTest"
      /\ reported' = [reported EXCEPT ![Tests!cur] = status[Tests!cur]]
      /\ \/ /\ nth = Len(Suites[suite]) \/ stopOnFirst
            /\ phase' = "teardown" /\ nth' = nth
         \/ nth # Len(Suites[suite]) /\ phase' = "testStart" /\ nth' = nth + 1
      /\ UNCHANGED <<stopOnFirst, suite, body, error, setupError, hookError, cleanups, tracked,
                     status, trouble>>
  BY DEF Tests!FinishTest, Tests!suiteVars
<1>2. Judged(Tests!cur)
  BY <1>1, TestCur DEF Ongoing, Present
<1>3. Tests!cur \in Tests!Test /\ Tests!cur = Suites[suite][nth]
  BY CurIsTest DEF TestInv
<1>4. suite \in Tests!Suite /\ nth \in 1..Len(Suites[suite]) /\ Len(Suites[suite]) \in Nat
  BY Registered DEF TestInv, TestTypes
<1>5. nth' \in 1..Len(Suites[suite]) /\ (nth # Len(Suites[suite]) => nth < Len(Suites[suite]))
  BY <1>1, <1>4
<1>6. TestTypes'
  <2>1. status[Tests!cur] \in {"none", "passed", "failed", "skipped"}
    BY <1>3 DEF TestInv, TestTypes
  <2> QED
    BY <1>1, <1>3, <1>5, <2>1 DEF TestInv, TestTypes, Ongoing, Early, SuiteOver
<1>7. SuiteTrouble'
  BY <1>1 DEF TestInv, SuiteTrouble
<1>8. /\ reported'[Tests!cur] = status[Tests!cur]
      /\ \A t \in Tests!Test : t # Tests!cur => reported'[t] = reported[t]
  BY <1>1, <1>3 DEF TestInv, TestTypes
<1>9. ASSUME NEW t, t = Tests!cur PROVE Reported(t)'
  BY <1>1, <1>2, <1>8, <1>9 DEF Reported, Judged
<1>10. Tests!cur \in Tests!Test /\ UNCHANGED status
  BY <1>1, <1>3
<1> QED
  BY <1>1, <1>5, <1>6, <1>7, <1>8, <1>9, <1>10, NextStands DEF TestInv

LEMMA SuiteTornDown ==
  ASSUME TestInv, NEW ok \in BOOLEAN, Tests!Teardown(ok) \/ Tests!SuiteUndone(ok) PROVE TestInv'
<1>1. /\ phase \in {"teardown", "suiteUndo"} /\ phase' = "suiteCleanup"
      /\ hookError' = ((phase # "teardown" /\ hookError) \/ ~ok) /\ Tests!Blame(suite, ok)
      /\ UNCHANGED <<stopOnFirst, suite, nth, body, error, setupError, cleanups, tracked, status,
                     reported>>
  BY DEF Tests!Teardown, Tests!SuiteUndone, Tests!reportVars
<1>2. hookError' = (hookError \/ ~ok)
  BY <1>1 DEF TestInv, TestTypes, SuiteTrouble
<1>3. TestTypes'
  BY <1>1, <1>2 DEF TestInv, TestTypes, SuiteOver
<1>4. \A x : x \in trouble' <=> x \in trouble \/ (x = suite /\ ~ok)
  BY <1>1, Blamed
<1>5. suite \in Tests!Suite /\ suite \in Nat /\ suite \notin Tests!Test
  BY Registered DEF TestInv, TestTypes
<1>6. SuiteTrouble'
  <2>1. \A s \in Tests!Suite : s > suite => s \notin trouble'
    BY <1>4, <1>5 DEF TestInv, SuiteTrouble
  <2>2. suite \in trouble' <=> setupError \/ hookError \/ ~ok
    BY <1>1, <1>4 DEF TestInv, SuiteTrouble
  <2> QED
    BY <1>1, <1>2, <2>1, <2>2 DEF SuiteTrouble
<1>7. \A t \in Tests!Test : Kept(t)
  BY <1>1, <1>4, <1>5 DEF Kept, Pristine
<1>8. \A s \in Tests!Suite : s < suite => (s \in trouble' <=> s \in trouble)
  BY <1>4, <1>5
<1>9. phase \in SuiteOver /\ phase' \in SuiteOver
  BY <1>1 DEF SuiteOver
<1> QED
  BY <1>1, <1>3, <1>6, <1>7, <1>8, <1>9, SuiteStands DEF TestInv

LEMMA SuiteUndoes == ASSUME TestInv, Tests!SuiteUndo PROVE TestInv'
<1>1. /\ phase = "suiteCleanup" /\ phase' = "suiteUndo" /\ cleanups[suite] # << >>
      /\ cleanups' = [cleanups EXCEPT ![suite] =
                        SubSeq(cleanups[suite], 1, Len(cleanups[suite]) - 1)]
      /\ UNCHANGED <<stopOnFirst, suite, nth, body, error, setupError, hookError, tracked, status,
                     reported, trouble>>
  BY DEF Tests!SuiteUndo, Tests!Pop, Tests!suiteVars, Tests!reportVars
<1>2. suite \in Tests!Suite /\ suite \in Tests!Context /\ suite \notin Tests!Test
  BY Registered DEF TestInv, TestTypes, Tests!Context
<1>3. SubSeq(cleanups[suite], 1, Len(cleanups[suite]) - 1) \in Seq(Nat)
  <2>1. cleanups[suite] \in Seq(Nat)
    BY <1>2 DEF TestInv, TestTypes
  <2> QED
    BY <1>1, <2>1, PoppedType
<1>4. TestTypes'
  BY <1>1, <1>2, <1>3 DEF TestInv, TestTypes, SuiteOver
<1>5. \A t \in Tests!Test : cleanups'[t] = cleanups[t]
  BY <1>1, <1>2 DEF TestInv, TestTypes, Tests!Context
<1>6. \A t \in Tests!Test : Kept(t)
  BY <1>1, <1>5 DEF Kept, Pristine
<1>7. SuiteTrouble'
  BY <1>1 DEF TestInv, SuiteTrouble
<1>8. /\ phase \in SuiteOver /\ phase' \in SuiteOver
      /\ UNCHANGED <<suite, nth, stopOnFirst, setupError, trouble>>
  BY <1>1 DEF SuiteOver
<1> QED
  BY <1>4, <1>6, <1>7, <1>8, SuiteStands DEF TestInv

(* What the end of a suite amends. *)
LEMMA SuiteSettles ==
  ASSUME TestInv, Tests!SuiteEnd, NEW s, s = suite, NEW i \in 1..Len(Suites[s]),
         NEW t, t = Suites[s][i]
  PROVE  Settled(s, t)'
<1>1. /\ phase = "suiteEnd" /\ UNCHANGED <<stopOnFirst, trouble>>
      /\ hookError => Tests!Amend /\ (~hookError => UNCHANGED <<status, reported>>)
  BY DEF Tests!SuiteEnd, Tests!reportVars
<1>2. suite \in Tests!Suite /\ nth \in Nat /\ i \in Nat
  BY Registered DEF TestInv, TestTypes
<1>3. t \in Tests!Test /\ t \in Tests!TestsOf(suite)
  BY <1>2, Registered DEF Tests!TestsOf
<1>4. suite \in trouble <=> setupError \/ hookError
  BY <1>1 DEF TestInv, SuiteTrouble
<1>5. Standing(suite, i)
  BY <1>2 DEF TestInv, AllStanding
<1>6. Reported(t) \/ (Pristine(t) /\ stopOnFirst)
  BY <1>1, <1>2, <1>5 DEF Standing, SuiteOver
<1>7. CASE hookError
  <2>1. /\ status'[t] = IF status[t] \in {"passed", "failed"} THEN "failed" ELSE status[t]
        /\ reported'[t] = IF status[t] \in {"passed", "failed"} THEN "failed" ELSE reported[t]
    BY <1>1, <1>3, <1>7 DEF Tests!Amend, Tests!Executed
  <2> QED
    BY <1>1, <1>4, <1>6, <1>7, <2>1 DEF Settled, Tests!Truth, Reported, Judged, Pristine
<1>8. CASE ~hookError
  <2>1. status'[t] = status[t] /\ reported'[t] = reported[t]
    BY <1>8 DEF Tests!SuiteEnd, Tests!reportVars
  <2> QED
    BY <1>1, <1>4, <1>6, <1>8, <2>1 DEF Settled, Tests!Truth, Reported, Judged, Pristine
<1> QED
  BY <1>7, <1>8

LEMMA SuiteEnds == ASSUME TestInv, Tests!SuiteEnd PROVE TestInv'
<1>1. /\ phase = "suiteEnd" /\ UNCHANGED <<stopOnFirst, body, error, cleanups, tracked, trouble>>
      /\ setupError' = FALSE /\ hookError' = FALSE
      /\ \/ phase' = "runEnd" /\ suite' = suite /\ nth' = nth
         \/ /\ suite # Len(Suites) /\ phase' = "setup" /\ suite' = suite + 1 /\ nth' = 1
  BY DEF Tests!SuiteEnd
<1>2. hookError => Tests!Amend /\ (~hookError => UNCHANGED <<status, reported>>)
  BY DEF Tests!SuiteEnd, Tests!reportVars
<1>3. /\ suite \in Tests!Suite /\ suite \in Nat /\ Len(Suites) \in Nat /\ suite <= Len(Suites)
      /\ nth \in 1..Len(Suites[suite])
  BY Registered DEF TestInv, TestTypes
<1>4. suite' \in Tests!Suite /\ nth' \in 1..Len(Suites[suite'])
  <2>1. suite # Len(Suites) => suite + 1 \in Tests!Suite
    BY <1>3, Registered
  <2>2. suite + 1 \in Tests!Suite => 1 \in 1..Len(Suites[suite + 1])
    BY Registered
  <2> QED
    BY <1>1, <1>3, <2>1, <2>2
<1>5. TestTypes'
  <2>1. /\ status' \in [Tests!Test -> {"none", "passed", "failed", "skipped"}]
        /\ reported' \in [Tests!Test -> {"none", "passed", "failed", "skipped"}]
    <3>1. CASE hookError
      BY <1>2, <3>1 DEF Tests!Amend, TestInv, TestTypes
    <3>2. CASE ~hookError
      BY <3>2 DEF Tests!SuiteEnd, Tests!reportVars, TestInv, TestTypes
    <3> QED
      BY <3>1, <3>2
  <2>2. phase' \in Ongoing \cup SuiteOver \cup {"runEnd"}
    BY <1>1 DEF Ongoing, Early
  <2> QED
    BY <1>1, <1>4, <2>1, <2>2 DEF TestInv, TestTypes
<1>6. SuiteTrouble'
  <2>1. \A s \in Tests!Suite : s > suite => s \notin trouble
    BY DEF TestInv, SuiteTrouble
  <2>2. \A s \in Tests!Suite : s \in Nat
    BY Registered
  <2>3. \A s \in Tests!Suite : s > suite' => s \notin trouble'
    BY <1>1, <1>3, <2>1, <2>2
  <2>4. phase' # "runEnd" => suite' \notin trouble'
    BY <1>1, <1>3, <1>4, <2>1
  <2> QED
    BY <1>1, <2>3, <2>4 DEF SuiteTrouble
<1>7. ASSUME NEW s \in Tests!Suite, s # suite, NEW i \in 1..Len(Suites[s]), NEW t,
             t = Suites[s][i]
      PROVE  status'[t] = status[t] /\ reported'[t] = reported[t]
  <2>1. t \in Tests!Test /\ t \notin Tests!TestsOf(suite)
    BY <1>3, <1>7, Registered DEF Tests!TestsOf
  <2>2. CASE hookError
    BY <1>2, <2>1, <2>2 DEF Tests!Amend, Tests!Executed
  <2>3. CASE ~hookError
    BY <2>3 DEF Tests!SuiteEnd, Tests!reportVars
  <2> QED
    BY <2>2, <2>3
<1>8. ASSUME NEW s \in Tests!Suite, NEW i \in 1..Len(Suites[s]) PROVE Standing(s, i)'
  <2>1. PICK t : t = Suites[s][i]
    OBVIOUS
  <2>2. Standing(s, i) /\ s \in Nat /\ i \in Nat
    BY Registered DEF TestInv, AllStanding
  <2>3. s = suite => Settled(s, t)'
    BY <2>1, SuiteSettles
  <2>4. s < suite => Settled(s, t)'
    <3>1. s < suite => Settled(s, t) /\ s # suite
      BY <1>3, <2>1, <2>2 DEF Standing
    <3> QED
      BY <1>1, <1>7, <2>1, <3>1 DEF Settled, Tests!Truth
  <2>5. s > suite => Pristine(t)'
    <3>1. s > suite => Pristine(t) /\ s # suite
      BY <1>3, <2>1, <2>2 DEF Standing
    <3> QED
      BY <1>1, <1>7, <2>1, <3>1 DEF Pristine
  <2>6. Pristine(t)' /\ phase' = "setup" => Present(t)'
    BY <1>1 DEF Present, Within
  <2>7. CASE phase' = "runEnd"
    <3>1. suite' = suite /\ phase' \notin Ongoing /\ phase' \notin SuiteOver
      BY <1>1, <2>7 DEF Ongoing, Early, Within, SuiteOver
    <3> QED
      BY <2>1, <2>3, <2>4, <2>5, <2>7, <3>1 DEF Standing
  <2>8. CASE phase' # "runEnd"
    <3>1. phase' = "setup" /\ suite' = suite + 1 /\ nth' = 1 /\ phase' \notin SuiteOver
      BY <1>1, <2>8 DEF SuiteOver
    <3>2. /\ s < suite' => s = suite \/ s < suite
          /\ s > suite' \/ s = suite' => s > suite
          /\ ~(i < nth')
      BY <1>3, <2>2, <3>1
    <3> QED
      BY <2>1, <2>3, <2>4, <2>5, <2>6, <2>8, <3>1, <3>2 DEF Standing
  <2> QED
    BY <2>7, <2>8
<1> QED
  BY <1>5, <1>6, <1>8 DEF TestInv, AllStanding

(* A cleanup is tracked, perhaps by a body whose test is long over. *)
LEMMA CleanupTracked ==
  ASSUME TestInv, NEW c \in Tests!Context, Tests!track(c) PROVE TestInv'
<1>1. /\ Tests!Active(c)
      /\ tracked' = [tracked EXCEPT ![c] = @ + 1]
      /\ cleanups' = [cleanups EXCEPT ![c] = Append(cleanups[c], tracked[c] + 1)]
      /\ UNCHANGED <<stopOnFirst, phase, suite, nth, body, error, setupError, hookError, status,
                     reported, trouble>>
  BY DEF Tests!track, Tests!suiteVars, Tests!reportVars, TestInv, TestTypes
<1>2. Append(cleanups[c], tracked[c] + 1) \in Seq(Nat) /\ tracked[c] + 1 \in Nat
  BY DEF TestInv, TestTypes
<1>3. TestTypes'
  BY <1>1, <1>2 DEF TestInv, TestTypes
<1>4. ASSUME NEW t \in Tests!Test, Pristine(t), ~(t = Tests!cur /\ phase \in Within)
      PROVE  cleanups'[t] = cleanups[t]
  <2>1. t # c
    <3>1. t \notin Tests!Suite /\ suite \in Tests!Suite
      BY Registered DEF TestInv, TestTypes
    <3> QED
      BY <1>1, <1>4, <3>1 DEF Tests!Active, Pristine, Within
  <2> QED
    BY <1>1, <2>1 DEF TestInv, TestTypes, Tests!Context
<1>5. /\ \A t \in Tests!Test : body[t] = "unborn" => body'[t] = "unborn"
      /\ UNCHANGED <<suite, nth, stopOnFirst, setupError, hookError, phase, error, status, reported,
                     trouble>>
  BY <1>1
<1> QED
  BY <1>3, <1>4, <1>5, AllStand DEF TestInv

LEMMA TestNext == TestInv /\ Tests!Next => TestInv'
<1> SUFFICES ASSUME TestInv, Tests!Next PROVE TestInv'
  OBVIOUS
<1>1. ASSUME NEW ok \in BOOLEAN, Tests!Await(ok) PROVE TestInv'
  BY <1>1, SuiteBegins, TestPrepares, TestWindsUp, SuiteTornDown DEF Tests!Await
<1>2. ASSUME Tests!Runner PROVE TestInv'
  BY <1>1, <1>2, TestFailsUnrun, TestBegins, TestUndoes, AllUndone, TestJudged, TestEnds, SuiteUndoes,
     SuiteEnds DEF Tests!Runner
<1> QED
  BY <1>2, BodyStops, DeadlinePasses, CleanupTracked DEF Tests!Next

LEMMA TestUntouched == TestInv /\ UNCHANGED testVars => TestInv'
<1> SUFFICES ASSUME TestInv, UNCHANGED testVars PROVE TestInv'
  OBVIOUS
<1>1. TestTypes'
  BY DEF testVars, TestInv, TestTypes
<1>2. UNCHANGED <<suite, nth, stopOnFirst, setupError, hookError, phase, error, status, reported,
                  trouble, body, cleanups>>
  BY DEF testVars
<1> QED
  BY <1>1, <1>2, AllStand DEF TestInv

LEMMA TestsInvariant == InstructionsSpec => []TestInv
<1>1. InstructionsInit => TestInv
  BY TestInit DEF InstructionsInit
<1>2. TestInv /\ [InstructionsNext]_instructionVars => TestInv'
  BY TestNext, TestUntouched DEF InstructionsNext, Navigating, BreakingBlocks, Holding, Testing,
     Helping, helperVars, instructionVars
<1> QED
  BY <1>1, <1>2, PTL DEF InstructionsSpec

(* runSuites: when a suite has ended the last report on each of its tests  *)
(* is its verdict, and a test passed exactly if neither it nor its suite   *)
(* had any trouble, in a hook, the body, a cleanup or a late teardown.     *)
THEOREM Verdicts == InstructionsSpec => []VerdictsTruthful
<1>1. ASSUME TestInv PROVE VerdictsTruthful
  <2>1. \A s \in Tests!Suite : \A i \in 1..Len(Suites[s]) :
          s < suite \/ (phase = "runEnd" /\ s = suite) => Settled(s, Suites[s][i])
    BY <1>1 DEF TestInv, AllStanding, Standing
  <2> QED
    BY <2>1 DEF VerdictsTruthful, Tests!VerdictsTruthful, Tests!TestsOf, Settled
<1> QED
  BY <1>1, TestsInvariant, PTL

(***************************************************************************)
(* Leaks.  Until runCleanups has returned anything in the test may track;  *)
(* from then on only a body that outlives its deadline, and that body has  *)
(* blamed its test when the deadline passed, before any verdict.           *)
(***************************************************************************)
Late == {"outlives", "outlived"}
Tidying == Within \ {"verdict"}

Leaks(t) ==
  /\ body[t] \in Late => t \in trouble /\ status[t] \in {"none", "failed"}
  /\ body[t] = "running" => t = Tests!cur /\ phase = "body"
  /\ cleanups[t] # << >> /\ body[t] \notin Late => t = Tests!cur /\ phase \in Tidying

SuiteTidy == \A s \in Tests!Suite :
  cleanups[s] # << >> => s = suite /\ phase \notin {"suiteEnd", "runEnd"}

LeakInv == TestInv /\ SuiteTidy /\ \A t \in Tests!Test : Leaks(t)

LEMMA LeakInit == Tests!Init => LeakInv
<1> SUFFICES ASSUME Tests!Init PROVE LeakInv
  OBVIOUS
<1>1. \A c \in Tests!Context : cleanups[c] = << >>
  BY DEF Tests!Init
<1>2. \A t \in Tests!Test : body[t] = "unborn"
  BY DEF Tests!Init
<1> QED
  BY <1>1, <1>2, TestInit DEF LeakInv, Leaks, SuiteTidy, Late, Tests!Context

(* A step of the runner that touches neither bodies nor cleanups. *)
LEMMA LeaksKept ==
  ASSUME LeakInv, TestInv', UNCHANGED <<body, cleanups>>,
         \A t \in Tests!Test : t \in trouble => t \in trouble',
         \A t \in Tests!Test : body[t] \in Late => status'[t] \in {"none", "failed"},
         phase # "body",
         phase \in Tidying => /\ suite' = suite /\ nth' = nth
                              /\ phase' \in Tidying \/ cleanups[Tests!cur] = << >>,
         SuiteTidy'
  PROVE  LeakInv'
<1>1. phase \in Tidying => Tests!cur' = Tests!cur
  BY DEF Tests!cur
<1>2. ASSUME NEW t \in Tests!Test PROVE Leaks(t)'
  <2>1. Leaks(t)
    BY DEF LeakInv
  <2> QED
    BY <1>1, <2>1 DEF Leaks
<1> QED
  BY <1>2 DEF LeakInv

(* The tests whose bodies have passed their deadline are neither skipped   *)
(* nor still to come.                                                      *)
LEMMA LateIsPast ==
  ASSUME LeakInv
  PROVE  /\ Tests!cur \in Tests!Test
         /\ phase \in Early \cup {"beforeEach", "body"} => body[Tests!cur] \notin Late
<1>1. Tests!cur \in Tests!Test
  BY CurIsTest DEF LeakInv, TestInv
<1>2. Leaks(Tests!cur) /\ (phase \in Ongoing => Present(Tests!cur))
  BY <1>1, TestCur DEF LeakInv
<1> QED
  BY <1>1, <1>2 DEF Present, Pristine, Leaks, Late, Ongoing, Early, Within

LEMMA LeaksOfHooks ==
  ASSUME LeakInv, NEW ok \in BOOLEAN,
         \/ Tests!Setup(ok) \/ Tests!AfterEach(ok) \/ Tests!Undone(ok)
         \/ Tests!Teardown(ok) \/ Tests!SuiteUndone(ok)
  PROVE  LeakInv'
<1>1. UNCHANGED <<suite, nth, body, cleanups, status>>
  BY DEF Tests!Setup, Tests!AfterEach, Tests!Undone, Tests!Teardown, Tests!SuiteUndone,
     Tests!reportVars
<1>2. /\ phase # "body" /\ phase' \notin {"suiteEnd", "runEnd"}
      /\ phase \in Tidying => phase' \in Tidying
  BY DEF Tests!Setup, Tests!AfterEach, Tests!Undone, Tests!Teardown, Tests!SuiteUndone, Tidying,
     Within
<1>3. \A t \in Tests!Test : t \in trouble => t \in trouble'
  BY DEF Tests!Setup, Tests!AfterEach, Tests!Undone, Tests!Teardown, Tests!SuiteUndone, Tests!Blame
<1>4. TestInv'
  BY SuiteBegins, TestWindsUp, SuiteTornDown DEF LeakInv
<1>5. \A t \in Tests!Test : body[t] \in Late => status'[t] \in {"none", "failed"}
  BY <1>1 DEF LeakInv, Leaks
<1>6. SuiteTidy'
  BY <1>1, <1>2 DEF LeakInv, SuiteTidy
<1> QED
  BY <1>1, <1>2, <1>3, <1>4, <1>5, <1>6, LeaksKept

LEMMA LeaksOfOrder ==
  ASSUME LeakInv, Tests!FailUnrun \/ Tests!TestStart \/ Tests!CleanedUp \/ Tests!FinishTest
  PROVE  LeakInv'
<1>1. UNCHANGED <<suite, body, cleanups, trouble>>
  BY DEF Tests!FailUnrun, Tests!TestStart, Tests!CleanedUp, Tests!FinishTest
<1>2. /\ phase # "body"
      /\ phase \in Tidying => nth' = nth /\ cleanups[Tests!cur] = << >>
      /\ phase' \in {"suiteEnd", "runEnd"} => cleanups[suite] = << >>
  BY DEF Tests!FailUnrun, Tests!TestStart, Tests!CleanedUp, Tests!FinishTest, Tidying, Within
<1>3. TestInv'
  BY TestFailsUnrun, TestBegins, AllUndone, TestEnds DEF LeakInv
<1>4. \A t \in Tests!Test : body[t] \in Late => status'[t] = status[t]
  <2>1. Tests!FailUnrun \/ Tests!TestStart => body[Tests!cur] \notin Late
    BY LateIsPast DEF Tests!FailUnrun, Tests!TestStart, Early
  <2>2. status \in [Tests!Test -> {"none", "passed", "failed", "skipped"}]
    BY DEF LeakInv, TestInv, TestTypes
  <2>3. CASE Tests!FailUnrun \/ Tests!TestStart
    BY <2>1, <2>2, <2>3 DEF Tests!FailUnrun, Tests!TestStart
  <2>4. CASE Tests!CleanedUp \/ Tests!FinishTest
    BY <2>4 DEF Tests!CleanedUp, Tests!FinishTest, Tests!reportVars
  <2> QED
    BY <2>3, <2>4
<1>5. \A t \in Tests!Test : body[t] \in Late => status'[t] \in {"none", "failed"}
  BY <1>4 DEF LeakInv, Leaks
<1>6. SuiteTidy'
  BY <1>1, <1>2 DEF LeakInv, SuiteTidy
<1> QED
  BY <1>1, <1>2, <1>3, <1>5, <1>6, LeaksKept

(* The verdict on a test whose body outlives its deadline is a failure. *)
LEMMA LeaksOfVerdict == ASSUME LeakInv, Tests!Verdict PROVE LeakInv'
<1>1. /\ phase = "verdict" /\ phase' = "finishTest"
      /\ status' = [status EXCEPT ![Tests!cur] = IF error[Tests!cur] THEN "failed" ELSE "passed"]
      /\ UNCHANGED <<suite, nth, body, cleanups, trouble>>
  BY DEF Tests!Verdict
<1>2. TestInv'
  BY TestJudged DEF LeakInv
<1>3. error[Tests!cur] <=> Tests!cur \in trouble
  BY <1>1, TestCur DEF LeakInv, Ongoing, Within, Present
<1>4. ASSUME NEW t \in Tests!Test, body[t] \in Late PROVE status'[t] \in {"none", "failed"}
  <2>1. Leaks(t) /\ status \in [Tests!Test -> {"none", "passed", "failed", "skipped"}]
    BY DEF LeakInv, TestInv, TestTypes
  <2> QED
    BY <1>1, <1>3, <1>4, <2>1 DEF Leaks
<1>5. SuiteTidy'
  BY <1>1 DEF LeakInv, SuiteTidy
<1>6. phase # "body" /\ phase \notin Tidying
  BY <1>1 DEF Tidying
<1> QED
  BY <1>1, <1>2, <1>4, <1>5, <1>6, LeaksKept

LEMMA LeaksOfSuite == ASSUME LeakInv, Tests!SuiteEnd PROVE LeakInv'
<1>1. phase = "suiteEnd" /\ UNCHANGED <<body, cleanups, trouble>>
  BY DEF Tests!SuiteEnd
<1>2. TestInv'
  BY SuiteEnds DEF LeakInv
<1>3. ASSUME NEW t \in Tests!Test, body[t] \in Late PROVE status'[t] \in {"none", "failed"}
  <2>1. Leaks(t)
    BY DEF LeakInv
  <2> QED
    BY <1>3, <2>1 DEF Leaks, Tests!SuiteEnd, Tests!Amend, Tests!reportVars
<1>4. \A s \in Tests!Suite : cleanups[s] = << >>
  BY <1>1 DEF LeakInv, SuiteTidy
<1>5. SuiteTidy'
  BY <1>1, <1>4 DEF SuiteTidy
<1>6. phase # "body" /\ phase \notin Tidying
  BY <1>1 DEF Tidying, Within
<1> QED
  BY <1>1, <1>2, <1>3, <1>5, <1>6, LeaksKept

(* Steps that start or end a body. *)
LEMMA LeaksOfBody ==
  ASSUME LeakInv, TestInv', NEW u \in Tests!Test, NEW b, body' = [body EXCEPT ![u] = b],
         UNCHANGED <<suite, nth, cleanups, status>>,
         \A t \in Tests!Test : t \in trouble => t \in trouble',
         b \in Late => /\ u \in trouble' /\ status[u] \in {"none", "failed"},
         b = "running" => u = Tests!cur /\ phase' = "body",
         body[u] \in Late => b \in Late,
         phase = "body" => phase' = "body" \/ u = Tests!cur,
         phase \in Tidying => phase' \in Tidying,
         phase' \in {"suiteEnd", "runEnd"} => phase' = phase
  PROVE  LeakInv'
<1>1. Tests!cur' = Tests!cur
  BY DEF Tests!cur
<1>2. ASSUME NEW t \in Tests!Test PROVE Leaks(t)'
  <2>1. Leaks(t)
    BY DEF LeakInv
  <2>2. body'[t] = IF t = u THEN b ELSE body[t]
    BY DEF LeakInv, TestInv, TestTypes
  <2> QED
    BY <1>1, <2>1, <2>2 DEF Leaks
<1>3. SuiteTidy'
  BY DEF LeakInv, SuiteTidy
<1> QED
  BY <1>2, <1>3 DEF LeakInv

LEMMA LeaksOfBeforeEach ==
  ASSUME LeakInv, NEW ok \in BOOLEAN, Tests!BeforeEach(ok) PROVE LeakInv'
<1>1. /\ phase = "beforeEach" /\ UNCHANGED <<suite, nth, cleanups, status>>
      /\ ok => phase' = "body" /\ body' = [body EXCEPT ![Tests!cur] = "running"]
      /\ ~ok => phase' = "afterEach" /\ body' = body
  BY DEF Tests!BeforeEach, Tests!reportVars
<1>2. TestInv'
  BY TestPrepares DEF LeakInv
<1>3. \A t \in Tests!Test : t \in trouble => t \in trouble'
  BY DEF Tests!BeforeEach, Tests!Blame
<1>4. Tests!cur \in Tests!Test /\ body[Tests!cur] \notin Late
  BY <1>1, LateIsPast
<1>5. phase' \in Tidying
  BY <1>1 DEF Tidying, Within
<1>6. phase' \notin {"suiteEnd", "runEnd"} /\ phase # "body"
  BY <1>1
<1>7. CASE ok
  <2>1. "running" \notin Late
    BY DEF Late
  <2> QED
    BY <1>1, <1>2, <1>3, <1>4, <1>5, <1>6, <1>7, <2>1, LeaksOfBody
<1>8. CASE ~ok
  <2>1. \A t \in Tests!Test : body[t] \in Late => status'[t] \in {"none", "failed"}
    BY <1>1 DEF LeakInv, Leaks
  <2>2. SuiteTidy'
    BY <1>1, <1>6 DEF LeakInv, SuiteTidy
  <2> QED
    BY <1>1, <1>2, <1>3, <1>5, <1>6, <1>8, <2>1, <2>2, LeaksKept
<1> QED
  BY <1>7, <1>8

LEMMA LeaksOfEnd ==
  ASSUME LeakInv, NEW t \in Tests!Test, NEW ok \in BOOLEAN, Tests!BodyEnds(t, ok)
  PROVE  LeakInv'
<1> PICK b : b = IF body[t] = "running" THEN "over" ELSE "outlived"
  OBVIOUS
<1>1. /\ body[t] \in {"running", "outlives"} /\ body' = [body EXCEPT ![t] = b]
      /\ UNCHANGED <<suite, nth, cleanups, status>>
  BY DEF Tests!BodyEnds, Tests!reportVars
<1>2. TestInv'
  BY BodyStops DEF LeakInv
<1>3. \A u \in Tests!Test : u \in trouble => u \in trouble'
  BY DEF Tests!BodyEnds, Tests!Blame
<1>4. Leaks(t)
  BY DEF LeakInv
<1>5. /\ b \in Late => body[t] \in Late
      /\ body[t] \in Late => b \in Late
      /\ b # "running"
  BY <1>1 DEF Late
<1>6. /\ phase = "body" => phase' = "body" \/ t = Tests!cur
      /\ phase \in Tidying => phase' \in Tidying
      /\ phase' \in {"suiteEnd", "runEnd"} => phase' = phase
  BY DEF Tests!BodyEnds, Tidying, Within
<1>7. b \in Late => t \in trouble' /\ status[t] \in {"none", "failed"}
  BY <1>3, <1>4, <1>5 DEF Leaks
<1> QED
  BY <1>1, <1>2, <1>3, <1>5, <1>6, <1>7, LeaksOfBody

LEMMA LeaksOfTimeout == ASSUME LeakInv, Tests!Timeout PROVE LeakInv'
<1>1. UNCHANGED <<suite, nth, cleanups, status>>
  BY DEF Tests!Timeout, Tests!reportVars
<1>2. TestInv'
  BY DeadlinePasses DEF LeakInv
<1>3. CASE timer = Tests!cur /\ phase = "body"
  <2>1. /\ phase' = "afterEach" /\ body' = [body EXCEPT ![Tests!cur] = "outlives"]
        /\ trouble' = trouble \cup {Tests!cur}
    BY <1>3 DEF Tests!Timeout, Tests!Blame
  <2>2. Tests!cur \in Tests!Test /\ status[Tests!cur] = "none"
    BY <1>3, LateIsPast, TestCur DEF LeakInv, Ongoing, Within, Present
  <2>3. "outlives" \in Late /\ phase' \in Tidying
    BY <2>1 DEF Late, Tidying, Within
  <2>4. \A t \in Tests!Test : t \in trouble => t \in trouble'
    BY <2>1
  <2> QED
    BY <1>1, <1>2, <1>3, <2>1, <2>2, <2>3, <2>4, LeaksOfBody
<1>4. CASE ~(timer = Tests!cur /\ phase = "body")
  <2>1. UNCHANGED <<phase, body, trouble>>
    BY <1>4 DEF Tests!Timeout
  <2>2. Tests!cur' = Tests!cur
    BY <1>1 DEF Tests!cur
  <2> QED
    BY <1>1, <1>2, <2>1, <2>2 DEF LeakInv, Leaks, SuiteTidy
<1> QED
  BY <1>3, <1>4

(* Steps that add or take a cleanup. *)
LEMMA LeaksOfContext ==
  ASSUME LeakInv, TestInv', NEW c \in Tests!Context, NEW q, cleanups' = [cleanups EXCEPT ![c] = q],
         UNCHANGED <<suite, nth, body, status, trouble>>,
         c \in Tests!Test => body[c] \in Late \/ (c = Tests!cur /\ phase' \in Tidying),
         c \in Tests!Suite => c = suite /\ phase' \notin {"suiteEnd", "runEnd"},
         phase' = phase \/ /\ phase # "body" /\ phase' \notin {"suiteEnd", "runEnd"}
                           /\ phase \in Tidying => phase' \in Tidying
  PROVE  LeakInv'
<1>1. Tests!cur' = Tests!cur
  BY DEF Tests!cur
<1>2. \A x \in Tests!Context : cleanups'[x] = IF x = c THEN q ELSE cleanups[x]
  BY DEF LeakInv, TestInv, TestTypes
<1>3. ASSUME NEW t \in Tests!Test PROVE Leaks(t)'
  <2>1. Leaks(t) /\ t \in Tests!Context
    BY DEF LeakInv, Tests!Context
  <2>2. t # c => cleanups'[t] = cleanups[t]
    BY <1>2, <2>1
  <2> QED
    BY <1>1, <2>1, <2>2 DEF Leaks
<1>4. SuiteTidy'
  <2>1. \A s \in Tests!Suite : s # c => cleanups'[s] = cleanups[s]
    BY <1>2 DEF Tests!Context
  <2> QED
    BY <2>1 DEF LeakInv, SuiteTidy
<1> QED
  BY <1>3, <1>4 DEF LeakInv

LEMMA LeaksOfUndo == ASSUME LeakInv, Tests!Undo \/ Tests!SuiteUndo PROVE LeakInv'
<1> PICK c : c = IF phase = "cleanup" THEN Tests!cur ELSE suite
  OBVIOUS
<1> PICK q : q = SubSeq(cleanups[c], 1, Len(cleanups[c]) - 1)
  OBVIOUS
<1>1. /\ cleanups' = [cleanups EXCEPT ![c] = q]
      /\ UNCHANGED <<suite, nth, body, status, trouble>>
      /\ \/ phase = "cleanup" /\ phase' = "undo"
         \/ phase = "suiteCleanup" /\ phase' = "suiteUndo"
  BY DEF Tests!Undo, Tests!SuiteUndo, Tests!Pop, Tests!reportVars
<1>2. TestInv'
  BY TestUndoes, SuiteUndoes DEF LeakInv
<1>3. /\ Tests!cur \in Tests!Test /\ Tests!cur \notin Tests!Suite
      /\ suite \in Tests!Suite /\ suite \notin Tests!Test
  BY CurIsTest, Registered DEF LeakInv, TestInv, TestTypes
<1>4. c \in Tests!Context
  BY <1>3 DEF Tests!Context
<1>5. c \in Tests!Test => c = Tests!cur /\ phase' \in Tidying
  BY <1>1, <1>3 DEF Tidying, Within
<1>6. c \in Tests!Suite => c = suite /\ phase' \notin {"suiteEnd", "runEnd"}
  BY <1>1, <1>3
<1>7. /\ phase # "body" /\ phase' \notin {"suiteEnd", "runEnd"}
      /\ phase \in Tidying => phase' \in Tidying
  BY <1>1 DEF Tidying, Within
<1> QED
  BY <1>1, <1>2, <1>4, <1>5, <1>6, <1>7, LeaksOfContext

LEMMA LeaksOfTrack ==
  ASSUME LeakInv, NEW c \in Tests!Context, Tests!track(c) PROVE LeakInv'
<1> PICK q : q = Append(cleanups[c], tracked'[c])
  OBVIOUS
<1>1. /\ Tests!Active(c) /\ cleanups' = [cleanups EXCEPT ![c] = q]
      /\ UNCHANGED <<phase, suite, nth, body, status, trouble>>
  BY DEF Tests!track, Tests!reportVars
<1>2. TestInv'
  BY CleanupTracked DEF LeakInv
<1>3. suite \in Tests!Suite /\ Tests!Test \cap Tests!Suite = {}
  BY Registered DEF LeakInv, TestInv, TestTypes
<1>4. c \in Tests!Test => body[c] \in Late \/ (c = Tests!cur /\ phase' \in Tidying)
  <2>1. c \in Tests!Test => Leaks(c)
    BY DEF LeakInv
  <2> QED
    BY <1>1, <1>3, <2>1 DEF Tests!Active, Leaks, Late, Tidying, Within
<1>5. c \in Tests!Suite => c = suite /\ phase' \notin {"suiteEnd", "runEnd"}
  BY <1>1, <1>3 DEF Tests!Active
<1> QED
  BY <1>1, <1>2, <1>4, <1>5, LeaksOfContext

LEMMA LeakNext == LeakInv /\ Tests!Next => LeakInv'
<1> SUFFICES ASSUME LeakInv, Tests!Next PROVE LeakInv'
  OBVIOUS
<1>1. ASSUME NEW ok \in BOOLEAN, Tests!Await(ok) PROVE LeakInv'
  BY <1>1, LeaksOfHooks, LeaksOfBeforeEach DEF Tests!Await
<1>2. ASSUME Tests!Runner PROVE LeakInv'
  BY <1>1, <1>2, LeaksOfOrder, LeaksOfVerdict, LeaksOfSuite, LeaksOfUndo DEF Tests!Runner
<1> QED
  BY <1>2, LeaksOfEnd, LeaksOfTimeout, LeaksOfTrack DEF Tests!Next

(* runTest and runSuite, 452-467 and 351: what is left to undo when a test *)
(* is judged was tracked by its body after the deadline, and the test has  *)
(* failed; a suite leaves nothing.  However many tests, hooks that fail,   *)
(* cleanups that fail or track more, and bodies that go on there are.      *)
THEOREM NothingLeaks == InstructionsSpec => []LeaksOnlyPastDeadline
<1>1. InstructionsInit => LeakInv
  BY LeakInit DEF InstructionsInit
<1>2. LeakInv /\ UNCHANGED testVars => LeakInv'
  <2> SUFFICES ASSUME LeakInv, UNCHANGED testVars PROVE LeakInv'
    OBVIOUS
  <2>1. TestInv' /\ Tests!cur' = Tests!cur
    BY TestUntouched DEF LeakInv, testVars, Tests!cur
  <2> QED
    BY <2>1 DEF testVars, LeakInv, Leaks, SuiteTidy
<1>3. LeakInv /\ [InstructionsNext]_instructionVars => LeakInv'
  BY <1>2, LeakNext DEF InstructionsNext, Navigating, BreakingBlocks, Holding, Testing,
     Helping, helperVars, instructionVars
<1>4. ASSUME LeakInv PROVE LeaksOnlyPastDeadline
  <2>1. ASSUME NEW t \in Tests!Test, status[t] # "none", cleanups[t] # << >>
        PROVE  body[t] \in Late /\ status[t] = "failed"
    <3>1. phase \in Within => status[Tests!cur] = "none"
      BY <1>4, TestCur DEF LeakInv, Present, Ongoing
    <3>2. Leaks(t)
      BY <1>4 DEF LeakInv
    <3> QED
      BY <2>1, <3>1, <3>2 DEF Leaks, Tidying
  <2>2. ASSUME NEW s \in Tests!Suite, s < suite \/ (phase = "runEnd" /\ s = suite)
        PROVE  cleanups[s] = << >>
    <3>1. s \in Nat /\ suite \in Nat
      BY <1>4, Registered DEF LeakInv, TestInv, TestTypes
    <3> QED
      BY <1>4, <2>2, <3>1 DEF LeakInv, SuiteTidy
  <2> QED
    BY <2>1, <2>2 DEF LeaksOnlyPastDeadline, Tests!LeaksOnlyPastDeadline, Late
<1> QED
  BY <1>1, <1>3, <1>4, PTL DEF InstructionsSpec

-----------------------------------------------------------------------------
(***************************************************************************)
(* Navigation, for any number of runs and any limits: what navigateToBlock *)
(* tells its caller is what became of the caller's leg.  Spec, Init and    *)
(* Next are those of Navigation.                                           *)
(***************************************************************************)
NavigationTasks == [do : {"start", "stop", "ask"}, run : Run \cup {None}]

(* A run that has not started has left no trace, and its start is queued   *)
(* once at most.                                                           *)
NoTrace ==
  \A r \in Run : run[r] \in {"new", "starting"}
                   => answer[r] = "none" /\ target # r /\ ended[r] = "no"

NavigatesOnce ==
  /\ \A i \in 1..Len(tasks) :
       tasks[i].do = "start" => tasks[i].run \in Run /\ run[tasks[i].run] = "starting"
  /\ \A i, j \in 1..Len(tasks) :
       tasks[i].do = "start" /\ tasks[j].do = "start" /\ tasks[i].run = tasks[j].run
         => i = j

(* While a leg is under way its run has no answer and its end is open. *)
LegOpen ==
  path # "none" => target \in Run /\ ended[target] = "no" /\ answer[target] = "none"

(* What a run has been told, and what it makes of it. *)
Answers ==
  \A r \in Run :
    /\ answer[r] = "yes" => ended[r] = "reached"
    /\ run[r] = "reached" => answer[r] = "yes"
    /\ run[r] \in {"asking", "explained", "bare", "gaveUp"} => answer[r] = "no"

(* The diagnostic of the last leg is kept until another one starts. *)
DetailKept == \A r \in Run : ended[r] = "failed" /\ target = r => detail = "failed"

Story == /\ CallbackHasLeg
         /\ NoTrace
         /\ LegOpen
         /\ Answers
         /\ DetailKept
         /\ FailureExplained

IInv == TypeOK /\ NavigatesOnce /\ Story

-----------------------------------------------------------------------------
(* The queue of tasks. *)
LEMMA QueueStart ==
  ASSUME TypeOK, NavigatesOnce, NEW r \in Run, run[r] = "new",
         tasks' = Append(tasks, Task("start", r)), run' = [run EXCEPT ![r] = "starting"]
  PROVE  NavigatesOnce'
<1>0. tasks \in Seq(NavigationTasks) /\ Task("start", r) \in NavigationTasks
  BY DEF TypeOK, NavigationTasks, Task
<1>1. Len(tasks') = Len(tasks) + 1 /\ Len(tasks) \in Nat
  BY <1>0, AppendProperties
<1>2. \A i \in 1..Len(tasks) : tasks'[i] = tasks[i]
  BY <1>0, AppendProperties
<1>3. tasks'[Len(tasks')].do = "start" /\ tasks'[Len(tasks')].run = r
  <2>1. tasks'[Len(tasks) + 1] = Task("start", r)
    BY <1>0, AppendProperties
  <2> QED BY <1>1, <2>1 DEF Task
<1>4. \A i \in 1..Len(tasks) : tasks[i].do = "start" => tasks[i].run # r
  BY DEF NavigatesOnce
<1>5. \A i \in 1..Len(tasks') : i \in 1..Len(tasks) \/ i = Len(tasks')
  BY <1>1
<1>6. \A i \in 1..Len(tasks') :
        tasks'[i].do = "start" => tasks'[i].run \in Run /\ run'[tasks'[i].run] = "starting"
  <2>1. \A q \in Run : run[q] = "starting" => run'[q] = "starting"
    BY DEF TypeOK
  <2>2. run'[r] = "starting"
    BY DEF TypeOK
  <2> QED BY <1>2, <1>3, <1>5, <2>1, <2>2 DEF NavigatesOnce
<1>7. \A i, j \in 1..Len(tasks') :
        tasks'[i].do = "start" /\ tasks'[j].do = "start" /\ tasks'[i].run = tasks'[j].run
          => i = j
  BY <1>2, <1>3, <1>4, <1>5 DEF NavigatesOnce
<1> QED BY <1>6, <1>7 DEF NavigatesOnce

LEMMA QueueOther ==
  ASSUME TypeOK, NavigatesOnce, NEW t \in [do : {"stop", "ask"}, run : Run \cup {None}],
         tasks' = tasks \/ tasks' = Append(tasks, t),
         \A r \in Run : run[r] = "starting" => run'[r] = "starting"
  PROVE  NavigatesOnce'
<1>1. CASE tasks' = tasks
  BY <1>1 DEF NavigatesOnce
<1>2. CASE tasks' = Append(tasks, t)
  <2>0. tasks \in Seq(NavigationTasks) /\ t \in NavigationTasks
    BY DEF TypeOK, NavigationTasks
  <2>1. \A i \in 1..Len(tasks') :
          (i \in 1..Len(tasks) /\ tasks'[i] = tasks[i]) \/ tasks'[i] = t
    BY <1>2, <2>0, AppendProperties
  <2>2. t.do # "start"
    OBVIOUS
  <2> QED BY <2>1, <2>2 DEF NavigatesOnce
<1> QED BY <1>1, <1>2

LEMMA Dequeue ==
  ASSUME TypeOK, NavigatesOnce, tasks # << >>, tasks' = Tail(tasks),
         \A r \in Run : run[r] = "starting" /\ run'[r] # "starting"
                          => Head(tasks).do = "start" /\ Head(tasks).run = r
  PROVE  NavigatesOnce'
<1>0. tasks \in Seq(NavigationTasks)
  BY DEF TypeOK, NavigationTasks
<1>1. /\ Len(tasks) \in Nat \ {0} /\ Len(tasks') = Len(tasks) - 1
      /\ Head(tasks) = tasks[1]
  BY <1>0, HeadTailProperties, EmptySeq
<1>2. \A i \in 1..Len(tasks') : tasks'[i] = tasks[i + 1]
  BY <1>0, HeadTailProperties
<1>3. \A i \in 1..Len(tasks') : i + 1 \in 1..Len(tasks) /\ i + 1 # 1
  BY <1>1
<1>4. \A i \in 1..Len(tasks') :
        tasks'[i].do = "start" => tasks'[i].run \in Run /\ run'[tasks'[i].run] = "starting"
  <2> SUFFICES ASSUME NEW i \in 1..Len(tasks'), tasks'[i].do = "start"
               PROVE  tasks'[i].run \in Run /\ run'[tasks'[i].run] = "starting"
    OBVIOUS
  <2>1. tasks'[i] = tasks[i + 1] /\ i + 1 \in 1..Len(tasks) /\ i + 1 # 1 /\ 1 \in 1..Len(tasks)
    BY <1>1, <1>2, <1>3
  <2>2. tasks[i + 1].run \in Run /\ run[tasks[i + 1].run] = "starting"
    BY <2>1 DEF NavigatesOnce
  <2>3. ~(Head(tasks).do = "start" /\ Head(tasks).run = tasks[i + 1].run)
    BY <1>1, <2>1 DEF NavigatesOnce
  <2> QED BY <2>1, <2>2, <2>3
<1>5. \A i, j \in 1..Len(tasks') :
        tasks'[i].do = "start" /\ tasks'[j].do = "start" /\ tasks'[i].run = tasks'[j].run
          => i = j
  <2> SUFFICES ASSUME NEW i \in 1..Len(tasks'), NEW j \in 1..Len(tasks'),
                      tasks'[i].do = "start", tasks'[j].do = "start",
                      tasks'[i].run = tasks'[j].run
               PROVE  i = j
    OBVIOUS
  <2>1. i + 1 = j + 1
    BY <1>2, <1>3 DEF NavigatesOnce
  <2> QED BY <2>1
<1> QED BY <1>4, <1>5 DEF NavigatesOnce

-----------------------------------------------------------------------------
(* A tick either leaves the leg under way, or ends it and says so. *)
LegGoesOn ==
  /\ path # "none" /\ path' # "none"
  /\ UNCHANGED <<run, answer, callback, target, ended>>

LegEnds(end, reply) ==
  /\ path # "none" /\ path' = "none"
  /\ detail' = IF end = "failed" THEN "failed" ELSE ""
  /\ ended' = [ended EXCEPT ![target] = end]
  /\ Fire(reply)
  /\ UNCHANGED <<run, target>>

LEMMA LegGoesOnKeepsStory ==
  ASSUME TypeOK, Story, LegGoesOn
  PROVE  Story'
<1> USE DEF Story, LegGoesOn
<1>1. CallbackHasLeg' /\ NoTrace' /\ LegOpen' /\ Answers' /\ FailureExplained'
  BY DEF CallbackHasLeg, NoTrace, LegOpen, Answers, FailureExplained
<1>2. DetailKept'
  BY DEF DetailKept, LegOpen
<1> QED BY <1>1, <1>2

LEMMA LegEndsKeepsStory ==
  ASSUME TypeOK, Story, NEW end, NEW reply,
         <<end, reply>> \in {<<"failed", "no">>, <<"reached", "yes">>},
         LegEnds(end, reply)
  PROVE  Story'
<1> USE DEF Story, LegEnds, Fire
<1>1. target \in Run /\ ended[target] = "no" /\ answer[target] = "none"
  BY DEF LegOpen
<1>2. run[target] \notin {"new", "starting", "asking", "explained", "bare", "gaveUp", "reached"}
  BY <1>1 DEF NoTrace, Answers
<1>3. /\ ended' \in [Run -> {"no", "reached", "failed", "stopped"}]
      /\ ended'[target] = end
      /\ \A r \in Run \ {target} : ended'[r] = ended[r]
  BY <1>1 DEF TypeOK
<1>4. /\ answer'[target] \in {"none", reply}
      /\ \A r \in Run \ {target} : answer'[r] = answer[r]
  BY <1>1 DEF TypeOK, CallbackHasLeg
<1>5. CallbackHasLeg' /\ LegOpen'
  BY DEF CallbackHasLeg, LegOpen
<1>6. NoTrace'
  BY <1>2, <1>3, <1>4 DEF NoTrace
<1>7. Answers'
  BY <1>2, <1>3, <1>4 DEF Answers
<1>8. DetailKept'
  BY <1>3 DEF DetailKept
<1>9. FailureExplained'
  BY <1>2, <1>3 DEF FailureExplained
<1> QED BY <1>5, <1>6, <1>7, <1>8, <1>9

(* StopNavigating, whoever asks for it, as long as the runs that change    *)
(* with it are those that timed out or have read the diagnostic.           *)
LEMMA StopKeepsStory ==
  ASSUME TypeOK, Story, StopNavigating,
         \A r \in Run :
           \/ run'[r] = run[r]
           \/ run[r] = "stopping" /\ run'[r] = "timedOut"
           \/ run[r] = "asking" /\ run'[r] = "explained"
           \/ run[r] = "asking" /\ run'[r] = "bare" /\ detail # "failed"
  PROVE  Story'
<1> USE DEF Story, StopNavigating, ClearLeg, Fire
<1>1. CASE path = "none"
  <2>1. callback = None /\ UNCHANGED <<callback, answer, ended, target, path>>
    BY <1>1 DEF CallbackHasLeg
  <2>2. CallbackHasLeg' /\ LegOpen' /\ NoTrace'
    BY <1>1, <2>1 DEF CallbackHasLeg, LegOpen, NoTrace
  <2>3. Answers'
    BY <2>1 DEF Answers
  <2>4. DetailKept'
    BY <2>1 DEF DetailKept
  <2>5. FailureExplained'
    BY <2>1 DEF FailureExplained, DetailKept
  <2> QED BY <2>2, <2>3, <2>4, <2>5
<1>2. CASE path # "none"
  <2>1. target \in Run /\ ended[target] = "no" /\ answer[target] = "none"
    BY <1>2 DEF LegOpen
  <2>2. run[target] \notin {"new", "starting", "asking", "explained", "bare", "gaveUp", "reached"}
    BY <2>1 DEF NoTrace, Answers
  <2>3. /\ ended'[target] = "stopped"
        /\ \A r \in Run \ {target} : ended'[r] = ended[r]
    BY <1>2, <2>1 DEF TypeOK
  <2>4. /\ answer'[target] \in {"none", "no"}
        /\ \A r \in Run \ {target} : answer'[r] = answer[r]
    BY <2>1 DEF TypeOK, CallbackHasLeg
  <2>5. CallbackHasLeg' /\ LegOpen'
    BY DEF CallbackHasLeg, LegOpen
  <2>6. NoTrace'
    BY <2>2, <2>3, <2>4 DEF NoTrace
  <2>7. Answers'
    <3> SUFFICES ASSUME NEW r \in Run
                 PROVE  /\ answer'[r] = "yes" => ended'[r] = "reached"
                        /\ run'[r] = "reached" => answer'[r] = "yes"
                        /\ run'[r] \in {"asking", "explained", "bare", "gaveUp"}
                             => answer'[r] = "no"
      BY DEF Answers
    <3>1. CASE r = target
      BY <2>2, <2>4, <3>1
    <3>2. CASE r # target
      <4>1. ended'[r] = ended[r] /\ answer'[r] = answer[r]
        BY <2>3, <2>4, <3>2
      <4>2. /\ run'[r] = "reached" => run[r] = "reached"
            /\ run'[r] \in {"asking", "explained", "bare", "gaveUp"}
                 => run[r] \in {"asking", "explained", "bare", "gaveUp"}
        OBVIOUS
      <4> QED BY <4>1, <4>2 DEF Answers
    <3> QED BY <3>1, <3>2
  <2>8. DetailKept'
    BY <2>3 DEF DetailKept
  <2>9. FailureExplained'
    BY <2>2, <2>3 DEF FailureExplained
  <2> QED BY <2>5, <2>6, <2>7, <2>8, <2>9
<1> QED BY <1>1, <1>2

-----------------------------------------------------------------------------
(* One pass of tickNavigating. *)
Limits == /\ cooldown \in 0..CooldownTicks
          /\ fruitless \in 0..(FruitlessLimit - 1)
          /\ emptyWaits \in 0..EmptyWaitTicks
          /\ best \in 0..MaxDist
          /\ noProgress \in 0..NoProgressLimit

LEMMA Progress ==
  ASSUME Limits, NEW d \in 1..MaxDist, noteNavProgress(d)
  PROVE  best' \in 0..MaxDist /\ noProgress' \in 0..NoProgressLimit
BY NavigationAssumption DEF Limits, noteNavProgress

(* A counter that has not reached its limit can be raised. *)
LEMMA Raised ==
  ASSUME Limits
  PROVE  /\ emptyWaits < EmptyWaitTicks => emptyWaits + 1 \in 0..EmptyWaitTicks
         /\ fruitless + 1 < FruitlessLimit => fruitless + 1 \in 0..(FruitlessLimit - 1)
BY NavigationAssumption DEF Limits

LEMMA Zeros == /\ 0 \in 0..CooldownTicks /\ CooldownTicks \in 0..CooldownTicks
               /\ 0 \in 0..(FruitlessLimit - 1) /\ 0 \in 0..EmptyWaitTicks
               /\ 0 \in 0..MaxDist /\ 0 \in 0..NoProgressLimit
BY NavigationAssumption

LEMMA FireTyped ==
  ASSUME TypeOK, NEW reply \in {"yes", "no"}, Fire(reply)
  PROVE  callback' \in Run \cup {None} /\ answer' \in [Run -> {"none", "yes", "no"}]
<1>1. answer \in [Run -> {"none", "yes", "no"}]
  BY DEF TypeOK
<1> QED BY <1>1 DEF Fire

LEMMA EndTyped ==
  ASSUME TypeOK, NEW end \in {"reached", "failed", "stopped"},
         ended' = [ended EXCEPT ![target] = end]
  PROVE  ended' \in [Run -> {"no", "reached", "failed", "stopped"}]
<1>1. ended \in [Run -> {"no", "reached", "failed", "stopped"}]
  BY DEF TypeOK
<1> QED BY <1>1

LEMMA FailEnds ==
  ASSUME TypeOK, path # "none", failNavigation, UNCHANGED <<run, tasks, stops>>
  PROVE  TypeOK' /\ LegEnds("failed", "no")
<1>1. LegEnds("failed", "no")
  BY DEF failNavigation, ClearLeg, LegEnds
<1> QED BY <1>1, FireTyped, EndTyped, Zeros DEF TypeOK, failNavigation, ClearLeg

LEMMA ReachEnds ==
  ASSUME TypeOK, path # "none", NEW cd \in 0..CooldownTicks, ReachTarget(cd),
         UNCHANGED <<run, tasks, stops>>
  PROVE  TypeOK' /\ LegEnds("reached", "yes")
<1>1. LegEnds("reached", "yes")
  BY DEF ReachTarget, ClearLeg, LegEnds
<1> QED BY <1>1, FireTyped, EndTyped, Zeros DEF TypeOK, ReachTarget, ClearLeg

LEMMA TickCases ==
  ASSUME TypeOK, tickNavigating
  PROVE  /\ TypeOK'
         /\ LegGoesOn \/ LegEnds("failed", "no") \/ LegEnds("reached", "yes")
<1> DEFINE cd == IF cooldown > 0 THEN cooldown - 1 ELSE 0
<1>a. Limits
  BY DEF TypeOK, Limits
<1>0. /\ path # "none" /\ UNCHANGED <<run, tasks, stops>>
      /\ cd \in 0..CooldownTicks
  BY <1>a, NavigationAssumption DEF Limits, tickNavigating
<1>1. PICK d \in 1..MaxDist :
        \/ NoProgress(d)
        \/ EmptyPath(d, cd) \/ PathDone(d, cd) \/ Stuck(d, cd) \/ Moved(d, cd)
  BY DEF tickNavigating
<1> HIDE DEF cd
<1>2. CASE NoProgress(d)
  BY <1>0, <1>2, FailEnds DEF NoProgress
<1>3. CASE RepathExhausted(cd)
  <2>1. CooldownTicks \in 0..CooldownTicks
    BY NavigationAssumption
  <2> QED BY <1>0, <1>3, <2>1, FailEnds, ReachEnds DEF RepathExhausted
<1>4. CASE failNavigation \/ ReachTarget(cd)
  BY <1>0, <1>4, FailEnds, ReachEnds
<1>5. ASSUME noteNavProgress(d), Going, path' \in {"empty", "walking", "done"},
             cooldown' \in 0..CooldownTicks, fruitless' \in 0..(FruitlessLimit - 1),
             emptyWaits' \in 0..EmptyWaitTicks, detail' \in {"", detail},
             again' \in BOOLEAN
      PROVE  TypeOK' /\ LegGoesOn
  BY <1>a, <1>0, <1>5, Progress DEF TypeOK, Going, LegGoesOn
<1>6. 0 \in 0..EmptyWaitTicks /\ 0 \in 0..(FruitlessLimit - 1) /\ CooldownTicks \in 0..CooldownTicks
  BY Zeros
<1>7. CASE EmptyPath(d, cd)
  <2>1. CASE /\ emptyWaits < EmptyWaitTicks
             /\ emptyWaits' = emptyWaits + 1
             /\ IF cd = 0 THEN FindPath /\ cooldown' = CooldownTicks /\ detail' = ""
                          ELSE cooldown' = cd /\ UNCHANGED <<path, detail>>
             /\ noteNavProgress(d)
             /\ again' = FALSE
             /\ Going /\ UNCHANGED fruitless
    <3>1. path' \in {"empty", "walking"} /\ cooldown' \in 0..CooldownTicks /\ detail' \in {"", detail}
      BY <1>0, <1>6, <1>7, <2>1 DEF EmptyPath, FindPath
    <3>2. emptyWaits' \in 0..EmptyWaitTicks /\ fruitless' \in 0..(FruitlessLimit - 1)
      BY <1>a, <2>1, Raised DEF Limits
    <3> QED BY <1>5, <2>1, <3>1, <3>2
  <2> QED BY <1>4, <1>7, <2>1 DEF EmptyPath
<1>8. CASE PathDone(d, cd)
  <2>1. CASE RepathLater(cd) /\ path' = "done" /\ emptyWaits' = 0 /\ noteNavProgress(d)
    BY <1>0, <1>5, <1>6, <2>1 DEF RepathLater, TypeOK
  <2>2. CASE RepathFruitless(cd) /\ emptyWaits' = 0 /\ noteNavProgress(d)
    <3>1. fruitless' \in 0..(FruitlessLimit - 1)
      BY <1>a, <2>2, Raised DEF RepathFruitless
    <3> QED BY <1>5, <1>6, <2>2, <3>1 DEF RepathFruitless, FindPath
  <2>3. CASE RepathUseful(cd) /\ emptyWaits' = 0 /\ noteNavProgress(d)
    BY <1>5, <1>6, <2>3 DEF RepathUseful
  <2> QED BY <1>3, <1>4, <1>8, <2>1, <2>2, <2>3 DEF PathDone
<1>9. CASE Stuck(d, cd)
  <2>1. CASE RepathLater(cd) /\ UNCHANGED path /\ emptyWaits' = 0 /\ noteNavProgress(d)
    BY <1>0, <1>5, <1>6, <1>9, <2>1 DEF Stuck, RepathLater, TypeOK
  <2>2. CASE RepathFruitless(cd) /\ emptyWaits' = 0 /\ noteNavProgress(d)
    <3>1. fruitless' \in 0..(FruitlessLimit - 1)
      BY <1>a, <2>2, Raised DEF RepathFruitless
    <3> QED BY <1>5, <1>6, <2>2, <3>1 DEF RepathFruitless, FindPath
  <2> QED BY <1>3, <1>9, <2>1, <2>2 DEF Stuck
<1>10. CASE Moved(d, cd)
  BY <1>0, <1>5, <1>6, <1>10 DEF Moved
<1> QED BY <1>1, <1>2, <1>7, <1>8, <1>9, <1>10

-----------------------------------------------------------------------------
(* The other actions. *)
LEMMA CallStep ==
  ASSUME IInv, NEW r \in Run, Call(r)
  PROVE  IInv'
<1> USE DEF IInv, Call, navVars, counters, progressVars
<1>1. NavigatesOnce'
  BY QueueStart
<1>2. tasks' \in Seq(NavigationTasks)
  <2>1. Task("start", r) \in NavigationTasks /\ tasks \in Seq(NavigationTasks)
    BY DEF Task, NavigationTasks, TypeOK
  <2> QED BY <2>1, AppendProperties
<1>3. TypeOK'
  BY <1>2 DEF TypeOK, NavigationTasks
<1>4. run' = [run EXCEPT ![r] = "starting"] /\ run \in [Run -> {"new", "starting", "waiting",
                "stopping", "asking"} \cup Returned]
  BY DEF TypeOK
<1>5. Story'
  BY <1>4 DEF Story, CallbackHasLeg, NoTrace, LegOpen, Answers, DetailKept, FailureExplained
<1> QED BY <1>1, <1>3, <1>5

(* A run goes on by itself: its answer, its deadline, its patience. *)
LEMMA WaiterStep ==
  ASSUME IInv, NEW r \in Run, TakeAnswer(r) \/ Deadline(r) \/ GiveUp(r)
  PROVE  IInv'
<1> USE DEF IInv, TakeAnswer, Deadline, GiveUp, navVars, counters, progressVars
<1>1. PICK t \in [do : {"stop", "ask"}, run : Run \cup {None}] :
        tasks' = tasks \/ tasks' = Append(tasks, t)
  <2>1. Task("ask", r) \in [do : {"stop", "ask"}, run : Run \cup {None}]
        /\ Task("stop", r) \in [do : {"stop", "ask"}, run : Run \cup {None}]
    BY DEF Task
  <2> QED BY <2>1
<1>2. PICK to \in {"reached", "asking", "stopping", "timedOut", "gaveUp"} :
        /\ run' = [run EXCEPT ![r] = to]
        /\ run[r] \in {"waiting", "stopping", "asking"}
        /\ to = "reached" => answer[r] = "yes"
        /\ to = "asking" => answer[r] = "no"
        /\ to = "gaveUp" => run[r] = "asking"
  OBVIOUS
<1>3. run \in [Run -> {"new", "starting", "waiting", "stopping", "asking"} \cup Returned]
  BY DEF TypeOK
<1>4. NavigatesOnce'
  BY <1>1, <1>2, <1>3, QueueOther
<1>5. tasks' \in Seq(NavigationTasks)
  <2>1. t \in NavigationTasks /\ tasks \in Seq(NavigationTasks)
    BY DEF NavigationTasks, TypeOK
  <2> QED BY <1>1, <2>1, AppendProperties
<1>6. UNCHANGED <<answer, stops, navVars>>
  OBVIOUS
<1>7. TypeOK'
  BY <1>2, <1>3, <1>5, <1>6 DEF TypeOK, NavigationTasks, Returned
<1>8. Story'
  BY <1>2, <1>3, <1>6
     DEF Story, CallbackHasLeg, NoTrace, LegOpen, Answers, DetailKept, FailureExplained
<1> QED BY <1>4, <1>7, <1>8

LEMMA StopInstructionStep ==
  ASSUME IInv, StopInstruction
  PROVE  IInv'
<1> USE DEF IInv, StopInstruction, navVars, counters, progressVars
<1>1. Task("stop", None) \in [do : {"stop", "ask"}, run : Run \cup {None}]
  BY DEF Task
<1>2. NavigatesOnce'
  BY <1>1, QueueOther
<1>3. tasks' \in Seq(NavigationTasks)
  <2>1. Task("stop", None) \in NavigationTasks /\ tasks \in Seq(NavigationTasks)
    BY <1>1 DEF NavigationTasks, TypeOK
  <2> QED BY <2>1, AppendProperties
<1>4. stops' \in 0..MaxStops
  <2>1. stops \in 0..MaxStops
    BY DEF TypeOK
  <2> QED BY <2>1, NavigationAssumption
<1>5. TypeOK'
  BY <1>3, <1>4 DEF TypeOK, NavigationTasks
<1>6. Story'
  BY DEF Story, CallbackHasLeg, NoTrace, LegOpen, Answers, DetailKept, FailureExplained
<1> QED BY <1>2, <1>5, <1>6

LEMMA NavigationTaken ==
  ASSUME TypeOK, NEW do, NextTask(do)
  PROVE  /\ tasks' \in Seq(NavigationTasks) /\ Head(tasks) \in NavigationTasks /\ Head(tasks).do = do
         /\ Len(tasks) \in Nat \ {0} /\ Head(tasks) = tasks[1]
<1>1. tasks \in Seq(NavigationTasks) /\ tasks # << >>
  BY DEF TypeOK, NavigationTasks, NextTask
<1> QED BY <1>1, HeadTailProperties, EmptySeq DEF NextTask

LEMMA StartStep ==
  ASSUME IInv, RunStart
  PROVE  IInv'
<1> DEFINE r == Head(tasks).run
<1>1. NextTask("start") /\ tasks' = Tail(tasks) /\ tasks # << >>
  BY DEF RunStart, NextTask
<1>2. tasks' \in Seq(NavigationTasks) /\ Head(tasks).do = "start"
  BY <1>1, NavigationTaken DEF IInv
<1>3. r \in Run /\ run[r] = "starting"
  BY <1>1, NavigationTaken DEF IInv, NavigatesOnce
<1>4. /\ run' = [run EXCEPT ![r] = "waiting"] /\ callback' = r /\ target' = r
      /\ path' \in {"empty", "walking"} /\ detail' = ""
      /\ UNCHANGED <<answer, stops, counters, again, ended>>
  BY DEF RunStart, NewTarget, FindPath
<1>5. run \in [Run -> {"new", "starting", "waiting", "stopping", "asking"} \cup Returned]
  BY DEF IInv, TypeOK
<1> HIDE DEF r
<1>6. NavigatesOnce'
  <2>1. \A q \in Run : run[q] = "starting" /\ run'[q] # "starting" => q = r
    BY <1>3, <1>4, <1>5
  <2> QED BY <1>1, <1>2, <2>1, Dequeue DEF IInv, r
<1>7. best' \in 0..MaxDist /\ noProgress' \in 0..NoProgressLimit
  BY Zeros DEF IInv, TypeOK, RunStart, progressVars
<1>8. TypeOK'
  BY <1>2, <1>3, <1>4, <1>5, <1>7 DEF IInv, TypeOK, counters, NavigationTasks
<1>9. answer[r] = "none" /\ target # r /\ ended[r] = "no"
  BY <1>3 DEF IInv, Story, NoTrace
<1>10. Story'
  <2>1. CallbackHasLeg' /\ LegOpen'
    BY <1>3, <1>4, <1>9 DEF CallbackHasLeg, LegOpen
  <2>2. NoTrace'
    BY <1>3, <1>4, <1>5 DEF IInv, Story, NoTrace
  <2>3. Answers'
    BY <1>3, <1>4, <1>5 DEF IInv, Story, Answers
  <2>4. DetailKept' /\ FailureExplained'
    BY <1>4, <1>5, <1>9 DEF IInv, Story, DetailKept, FailureExplained
  <2> QED BY <2>1, <2>2, <2>3, <2>4 DEF Story
<1> QED BY <1>6, <1>8, <1>10 DEF IInv

(* The two tasks that stop the leg under way. *)
LEMMA StopTaskStep ==
  ASSUME IInv, RunStop \/ RunAsk
  PROVE  IInv'
<1> DEFINE r == Head(tasks).run
<1>1. PICK do \in {"stop", "ask"} : NextTask(do)
  BY DEF RunStop, RunAsk
<1>2. /\ tasks' \in Seq(NavigationTasks) /\ Head(tasks).do # "start" /\ r \in Run \cup {None}
      /\ tasks' = Tail(tasks) /\ tasks # << >>
  BY <1>1, NavigationTaken DEF IInv, NextTask, NavigationTasks
<1>3. StopNavigating /\ UNCHANGED stops
  BY DEF RunStop, RunAsk
<1>4. \/ run' = run
      \/ /\ r # None /\ run[r] = "stopping"
         /\ run' = [run EXCEPT ![r] = "timedOut"]
      \/ /\ run[r] = "asking"
         /\ \/ run' = [run EXCEPT ![r] = "explained"]
            \/ run' = [run EXCEPT ![r] = "bare"] /\ detail \in {"", "stopped"}
  BY DEF RunStop, RunAsk
<1>5. run \in [Run -> {"new", "starting", "waiting", "stopping", "asking"} \cup Returned]
  BY DEF IInv, TypeOK
<1> HIDE DEF r
<1>6. \A q \in Run :
           \/ run'[q] = run[q]
           \/ run[q] = "stopping" /\ run'[q] = "timedOut"
           \/ run[q] = "asking" /\ run'[q] = "explained"
           \/ run[q] = "asking" /\ run'[q] = "bare" /\ detail # "failed"
  BY <1>4, <1>5
<1>7. run' \in [Run -> {"new", "starting", "waiting", "stopping", "asking"} \cup Returned]
  BY <1>4, <1>5 DEF Returned
<1>8. NavigatesOnce'
  <2>1. \A q \in Run : run[q] = "starting" => run'[q] = "starting"
    BY <1>6
  <2> QED BY <1>2, <2>1, Dequeue DEF IInv
<1>9. Story'
  BY <1>3, <1>6, StopKeepsStory DEF IInv
<1>10. TypeOK'
  <2>1. ended' \in [Run -> {"no", "reached", "failed", "stopped"}]
    BY <1>3, EndTyped DEF IInv, StopNavigating, TypeOK
  <2>2. callback' \in Run \cup {None} /\ answer' \in [Run -> {"none", "yes", "no"}]
    BY <1>3, FireTyped DEF IInv, StopNavigating
  <2> QED BY <1>2, <1>3, <1>7, <2>1, <2>2, Zeros
          DEF IInv, TypeOK, StopNavigating, ClearLeg, NavigationTasks
<1> QED BY <1>8, <1>9, <1>10 DEF IInv

LEMMA TickStep ==
  ASSUME IInv, tickNavigating
  PROVE  IInv'
<1>1. TypeOK' /\ (LegGoesOn \/ LegEnds("failed", "no") \/ LegEnds("reached", "yes"))
  BY TickCases DEF IInv
<1>2. UNCHANGED <<run, tasks>>
  BY DEF tickNavigating
<1>3. NavigatesOnce'
  BY <1>2 DEF IInv, NavigatesOnce
<1>4. Story'
  BY <1>1, LegGoesOnKeepsStory, LegEndsKeepsStory DEF IInv
<1> QED BY <1>1, <1>3, <1>4 DEF IInv

-----------------------------------------------------------------------------
THEOREM Invariance == Spec => []IInv
<1>1. Init => IInv
  <2> SUFFICES ASSUME Init PROVE IInv
    OBVIOUS
  <2>1. tasks \in Seq(NavigationTasks) /\ Len(tasks) = 0
    BY EmptySeq DEF Init
  <2>2. TypeOK
    <3>1. 0 \in 0..MaxStops
      BY NavigationAssumption
    <3>2. /\ run \in [Run -> {"new", "starting", "waiting", "stopping", "asking"} \cup Returned]
          /\ answer \in [Run -> {"none", "yes", "no"}]
          /\ ended \in [Run -> {"no", "reached", "failed", "stopped"}]
      BY DEF Init
    <3> QED BY <2>1, <3>1, <3>2, Zeros DEF Init, TypeOK, NavigationTasks
  <2>3. NavigatesOnce
    BY <2>1 DEF NavigatesOnce
  <2>4. Story
    BY NavigationAssumption
       DEF Init, Story, CallbackHasLeg, NoTrace, LegOpen, Answers, DetailKept, FailureExplained
  <2> QED BY <2>2, <2>3, <2>4 DEF IInv
<1>2. IInv /\ [Next]_vars => IInv'
  <2> SUFFICES ASSUME IInv, [Next]_vars PROVE IInv'
    OBVIOUS
  <2>1. ASSUME NEW r \in Run, Call(r) PROVE IInv'
    BY <2>1, CallStep
  <2>2. ASSUME NEW r \in Run, TakeAnswer(r) \/ Deadline(r) \/ GiveUp(r) PROVE IInv'
    BY <2>2, WaiterStep
  <2>3. CASE StopInstruction
    BY <2>3, StopInstructionStep
  <2>4. CASE RunTask
    BY <2>4, StartStep, StopTaskStep DEF RunTask
  <2>5. CASE tickNavigating
    BY <2>5, TickStep
  <2>6. CASE UNCHANGED vars
    BY <2>6 DEF vars, IInv, TypeOK, NavigatesOnce, Story, CallbackHasLeg, NoTrace, LegOpen,
                Answers, DetailKept, FailureExplained
  <2> QED BY <2>1, <2>2, <2>3, <2>4, <2>5, <2>6 DEF Next
<1> QED BY <1>1, <1>2, PTL DEF Spec

(* Every variable of the model keeps its type, and the counters of         *)
(* navigation.go stay below the limits that end a leg.                     *)
THEOREM TypeCorrect == Spec => []TypeOK
<1>1. IInv => TypeOK
  BY DEF IInv
<1> QED BY <1>1, Invariance, PTL

(* The callback navigate_to_block.go installs is answered by the end of    *)
(* its leg: none is left over when a leg has ended, by whichever way.      *)
THEOREM NoCallbackLeftOver == Spec => []CallbackHasLeg
<1>1. IInv => CallbackHasLeg
  BY DEF IInv, Story
<1> QED BY <1>1, Invariance, PTL

(* A run that reports success has reached its own target, however many     *)
(* runs and stops compete for the bot.                                     *)
THEOREM SuccessIsOwn == Spec => []ReachedIsTruthful
<1>1. IInv => ReachedIsTruthful
  BY DEF IInv, Story, Answers, ReachedIsTruthful
<1> QED BY <1>1, Invariance, PTL

(* A failure comes with its diagnostic unless another Navigate has cleared *)
(* it or the loop took too long to read it.                                *)
THEOREM FailuresExplained == Spec => []FailureExplained
<1>1. IInv => FailureExplained
  BY DEF IInv, Story
<1> QED BY <1>1, Invariance, PTL
=============================================================================
