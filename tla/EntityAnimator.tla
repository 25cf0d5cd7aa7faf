--------------------------- MODULE EntityAnimator ---------------------------
(***************************************************************************)
(* The animator of one entity of the viewer page                           *)
(* (viewer/src/entity/controllerRuntime.ts).  Controllers of the resource  *)
(* pack are state machines; a state plays animations and may refer to      *)
(* other controllers.  Animations the server asks for are layered on top;  *)
(* when one stops it may start a follow-up.                                *)
(*                                                                         *)
(* Time is counted in steps of 50 ms.  A frame shorter than a step moves   *)
(* everything by less, which changes nothing here, and a longer one is cut *)
(* into steps.  Molang is left open: a condition, a weight or a stop       *)
(* expression yields what it likes, except that a controller may ask       *)
(* whether the animations of its state have finished.  Poses, animations   *)
(* outside controllers and scripts are left out.                           *)
(***************************************************************************)
EXTENDS Integers, Sequences, FiniteSets, SequencesExt, FiniteSetsExt

CONSTANTS
    Controllers, Roots,   \* those scripts.animate names
    Anims,
    Initial,      \* the first state of each controller
    StatesOf,     \* its states; a state belongs to one controller
    AnimsOf, ChildrenOf, BlendOf,   \* of each state
    Conditions,   \* Molang that some transition or weight asks for
    NextOf,       \* the transitions of each state in order: [to, when]
    Length, Loops, StartDelay,      \* of each animation
    Requests,     \* what the server asks for: [anim, controller, next, stop, blendOut]
    Nothing,
    MaxFrame,     \* bound: steps of a frame
    MaxHead,      \* bound: a playhead beyond any length
    MaxPlays, MaxClock   \* bounds

VARIABLES
    clock,        \* performance.now() of the frame
    left,         \* steps of the frame not taken yet
    controllers,  \* state, blendFrom, blendT and playheads of each
    plays,        \* serverPlays; their order is that of layers and left out
    asked,        \* history: the requests and when they came
    begun         \* history: of each request, when follow-ups began

animatorVars == <<clock, left, controllers, plays, asked, begun>>

AllStates == UNION {StatesOf[c] : c \in Controllers}

AnimatorAssumption ==
    /\ Roots \subseteq Controllers /\ IsFiniteSet(Controllers)
    /\ \A c \in Controllers : Initial[c] \in StatesOf[c] /\ Nothing \notin StatesOf[c]
    /\ \A s \in AllStates : BlendOf[s] \in Nat /\ DOMAIN NextOf[s] \subseteq Nat
    /\ Nothing \notin Anims /\ Length \in [Anims -> Nat] /\ StartDelay \in [Anims -> Nat]
    /\ Loops \in [Anims -> BOOLEAN]
    /\ \A request \in Requests :
         /\ request.anim \in Anims /\ request.controller \in Controllers \cup {Nothing}
         /\ request.stop \in {"empty", "once", "molang"} /\ request.blendOut \in Nat
    /\ MaxFrame \in Nat /\ MaxHead \in Int

(* A playhead below zero waits for the start delay to pass. *)
Rewound == [a \in Anims |-> -StartDelay[a]]
BootController(c) ==
    [state |-> Initial[c], from |-> Nothing, blendT |-> 0, heads |-> Rewound]

-----------------------------------------------------------------------------
(* Controllers.                                                            *)

AllFinished(inst) ==
    /\ AnimsOf[inst.state] # {}
    /\ \A a \in AnimsOf[inst.state] : inst.heads[a] >= Length[a]

(* The blend clock runs before the transition that may restart it. *)
BlendAdvanced(inst) ==
    IF inst.from = Nothing THEN inst
    ELSE IF inst.blendT + 1 >= BlendOf[inst.from] THEN [inst EXCEPT !.from = Nothing, !.blendT = 0]
    ELSE [inst EXCEPT !.blendT = @ + 1]

(* The first transition whose condition is true is the only one tried. *)
Transitioned(c, inst, truthy) ==
    LET next == NextOf[inst.state]
        holding == {i \in DOMAIN next : IF next[i].when = "all_animations_finished"
                                        THEN AllFinished(inst) ELSE next[i].when \in truthy}
        to == next[Min(holding)].to
    IN  IF holding = {} \/ to \notin StatesOf[c] \/ to = inst.state THEN inst
        ELSE IF BlendOf[inst.state] > 0
        THEN [inst EXCEPT !.state = to, !.from = inst.state, !.blendT = 0]
        ELSE [inst EXCEPT !.state = to, !.from = Nothing]

Ticked(c, inst, truthy) == Transitioned(c, BlendAdvanced(inst), truthy)

(* Parents first.  A controller that both the state and the state blended  *)
(* from refer to is in the queue twice.                                    *)
MutantSeen(c, visited) == FALSE
Seen(c, visited) == c \in visited

Referred(s, weighed) == IF s = Nothing THEN <<>> ELSE SetToSeq(ChildrenOf[s] \cap weighed)

Visit(acc, truthy, weighed) ==
    LET c == Head(acc.queue)
        inst == Ticked(c, acc.insts[c], truthy)
    IN  IF acc.queue = <<>> THEN acc
        ELSE IF Seen(c, acc.visited) THEN [acc EXCEPT !.queue = Tail(@)]
        ELSE [queue |-> Tail(acc.queue) \o Referred(inst.state, weighed) \o Referred(inst.from, weighed),
              visited |-> acc.visited \cup {c},
              insts |-> [acc.insts EXCEPT ![c] = inst]]

(* A controller refers to each other one twice at most, and only once.     *)
MostVisits == Cardinality(Controllers) * (2 * Cardinality(Controllers) + 1)
Visiting(active, truthy, weighed) ==
    LET acc[n \in 0..MostVisits] ==
          IF n = 0 THEN [queue |-> SetToSeq(active), visited |-> {}, insts |-> controllers]
          ELSE Visit(acc[n - 1], truthy, weighed)
    IN  acc

(* Every animation of the two states, one state after the other. *)
AdvancePlayheads(inst) ==
    LET playing == {s \in {inst.state, inst.from} : s # Nothing}
        Times(a) == Cardinality({s \in playing : a \in AnimsOf[s]})
    IN  [inst EXCEPT !.heads = [a \in Anims |-> Min({MaxHead, @[a] + Times(a)})]]

TickControllers(active, truthy, weighed) ==
    LET ticked == Visiting(active, truthy, weighed)[MostVisits]
    IN  [c \in Controllers |-> IF c \in ticked.visited THEN AdvancePlayheads(ticked.insts[c])
                               ELSE controllers[c]]

(* nextState of a request for a controller: nothing of the old state stays. *)
JumpController(c, to) ==
    IF to \notin StatesOf[c] \/ controllers[c].state = to THEN controllers
    ELSE [controllers EXCEPT ![c] = [BootController(c) EXCEPT !.state = to]]

-----------------------------------------------------------------------------
(* Animations the server asks for.                                         *)

Never == -1
Elapsed(play) == clock - play.start

(* "stop" is the kind of the stop expression: empty, the end of the first  *)
(* pass, or any other Molang, which is held to its first true value.       *)
ServerStopAt(play) ==
    IF play.stop = "molang" THEN play.stoppedAt
    ELSE IF Loops[play.anim] /\ (play.stop = "empty" \/ Length[play.anim] = 0) THEN Never
    ELSE IF Length[play.anim] = 0 /\ Elapsed(play) = 0 THEN Never
    ELSE Length[play.anim]

Stopped(play) == ServerStopAt(play) # Never /\ Elapsed(play) >= ServerStopAt(play)
Over(play) == Stopped(play) /\ Elapsed(play) - ServerStopAt(play) >= play.blendOut

ServerPlay(of, request, start) ==
    [of |-> of, anim |-> request.anim, start |-> start, stop |-> request.stop,
     blendOut |-> request.blendOut, stoppedAt |-> Never,
     then |-> IF request.controller = Nothing /\ request.next \in Anims THEN request.next
              ELSE Nothing]
FollowUp(play) ==
    ServerPlay(play.of, [anim |-> play.then, controller |-> Nothing, next |-> Nothing,
                         stop |-> "empty", blendOut |-> 0], play.start + ServerStopAt(play))

(* serverPlayView: a play that has stopped starts its follow-up once. *)
MutantViewed(play) == play
Viewed(play) == IF Stopped(play) THEN [play EXCEPT !.then = Nothing] ELSE play

Latched(play, stopping) ==
    IF play.stop = "molang" /\ play.stoppedAt = Never /\ play.of \in stopping
    THEN [play EXCEPT !.stoppedAt = Elapsed(play)] ELSE play

SampleServerPlays(stopping) ==
    LET latched == {Latched(p, stopping) : p \in plays}
        followed == {p \in latched : Stopped(p) /\ p.then # Nothing}
        Ending(k) == SetToSeq({p \in followed : p.of = k})
    IN  /\ plays' = {p \in {Viewed(q) : q \in latched} \cup {FollowUp(q) : q \in followed} :
                       ~Over(p)}
        /\ begun' = [k \in DOMAIN begun |-> begun[k] \o
                       [i \in DOMAIN Ending(k) |-> FollowUp(Ending(k)[i]).start]]

-----------------------------------------------------------------------------
PlayServerAnimation(request) ==
    /\ left = 0 /\ Len(asked) < MaxPlays
    /\ controllers' = IF request.controller # Nothing /\ request.next # Nothing
                      THEN JumpController(request.controller, request.next) ELSE controllers
    /\ asked' = Append(asked, [request |-> request, start |-> clock])
    /\ plays' = plays \cup {ServerPlay(Len(asked) + 1, request, clock)}
    /\ begun' = Append(begun, <<>>)
    /\ UNCHANGED <<clock, left>>

Frame ==
    /\ left = 0
    /\ \E n \in 1..MaxFrame :
         /\ clock + n <= MaxClock
         /\ clock' = clock + n /\ left' = n
    /\ UNCHANGED <<controllers, plays, asked, begun>>

(* The steps of a frame all see the clock of the frame. *)
Step ==
    /\ left > 0
    /\ left' = left - 1
    /\ controllers' \in {TickControllers(active, truthy, weighed) :
                          active \in SUBSET Roots, truthy \in SUBSET Conditions,
                          weighed \in SUBSET (Controllers \ Roots)}
    /\ \E stopping \in SUBSET {p.of : p \in {q \in plays : q.stop = "molang"}} :
         SampleServerPlays(stopping)
    /\ UNCHANGED <<clock, asked>>

AnimatorInit ==
    /\ clock = 0 /\ left = 0
    /\ controllers = [c \in Controllers |-> BootController(c)]
    /\ plays = {} /\ asked = <<>> /\ begun = <<>>

AnimatorNext ==
    \/ \E request \in Requests : PlayServerAnimation(request)
    \/ Frame
    \/ Step

-----------------------------------------------------------------------------
(* A step takes a controller through one transition at most; a blend       *)
(* starts at weight 0 and neither it nor a playhead runs faster than the   *)
(* clock.  An animation that both blended states play does run twice as    *)
(* fast, and is excepted.                                                  *)
KeepsTime(c) ==
    LET was == controllers[c]
        is == controllers'[c]
        shared(a) == is.from # Nothing /\ a \in AnimsOf[is.state] \cap AnimsOf[is.from]
    IN  /\ is.state # was.state =>
             /\ \E i \in DOMAIN NextOf[was.state] : NextOf[was.state][i].to = is.state
             /\ BlendOf[was.state] > 0 => is.from = was.state /\ is.blendT = 0
        /\ is.blendT <= was.blendT + 1
        /\ \A a \in Anims : shared(a) \/ is.heads[a] <= was.heads[a] + 1

(* Between frames, each follow-up that is due has begun, once, and when    *)
(* the animation before it stopped, however long the frames were.  One     *)
(* without a length stops in the frame after it began, unless it loops.    *)
FollowUpsOnTime ==
    \A k \in DOMAIN asked :
      LET request == asked[k].request
          length == Length[request.anim]
          due == asked[k].start + length
          expected ==
            /\ request.controller = Nothing /\ request.next \in Anims
            /\ ~Loops[request.anim] \/ (request.stop = "once" /\ length > 0)
            /\ clock >= due /\ clock > asked[k].start
      IN  IF request.stop = "molang" THEN Len(begun[k]) <= 1
          ELSE begun[k] = (IF expected THEN <<due>> ELSE <<>>)

StepsInTime ==
    /\ left' < left => \A c \in Controllers : KeepsTime(c)
    /\ left' = 0 => FollowUpsOnTime'

AnimatorKeepsTime == [][StepsInTime]_animatorVars
=============================================================================
