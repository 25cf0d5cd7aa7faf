----------------------- MODULE InstructionClientProofs -----------------------
(***************************************************************************)
(* Theorems about InstructionClient, for any set of bots and envelopes and *)
(* any bounds: whatever status lines arrive, in whatever order, the client *)
(* keeps its map, its timers and its buffers consistent and settles every  *)
(* request at most once, by its own bot.                                   *)
(***************************************************************************)
EXTENDS InstructionClient, TLAPS

(* What makes the invariants inductive: a pending request was made, and to *)
(* the bot the map names; an id beyond the last one handed out is          *)
(* untouched.                                                              *)
Requested ==
  \A r \in Id : /\ r \in Pending => sentTo[r] = pending[r] /\ r <= nextRequestId
                /\ r > nextRequestId => settlements[r] = 0 /\ promise[r] = "unsent"

IInv == /\ TypeOK
        /\ TimerPerPending
        /\ SettledOnce
        /\ OwnBotReplies
        /\ Requested

(* Leave takes a set of pending requests out of the map, settles each once *)
(* and keeps everything the invariant says about requests.                 *)
LEMMA LeaveSettles ==
  ASSUME IInv, NEW R \in SUBSET Pending,
         NEW o \in {"resolved", "timeout", "cancelled"},
         Leave(R, o), UNCHANGED <<nextRequestId, sentTo>>
  PROVE  /\ pending' \in [Id -> Bot \cup {NoBot}]
         /\ timers' \subseteq Id
         /\ promise' \in [Id -> Outcome]
         /\ settlements' \in [Id -> Nat]
         /\ Pending' = Pending \ R
         /\ TimerPerPending'
         /\ SettledOnce'
         /\ Requested'
<1> USE ClientAssumption DEF IInv, TypeOK, Leave
<1>1. pending' \in [Id -> Bot \cup {NoBot}] /\ timers' \subseteq Id
  OBVIOUS
<1>2. promise' \in [Id -> Outcome]
  BY DEF Outcome
<1>3. settlements' \in [Id -> Nat]
  BY DEF Pending
<1>4. Pending' = Pending \ R
  BY DEF Pending
<1>5. TimerPerPending'
  BY <1>4 DEF TimerPerPending
<1>6. SettledOnce'
  <2> SUFFICES ASSUME NEW r \in Id
               PROVE  /\ r \in Pending' => settlements'[r] = 0
                      /\ r \in 1..nextRequestId' \ Pending' => settlements'[r] = 1
                      /\ promise'[r] = "waiting" => r \in Pending'
    BY DEF SettledOnce
  <2>1. CASE r \in R
    BY <1>4, <2>1 DEF SettledOnce, Requested, Pending
  <2>2. CASE r \notin R
    BY <1>4, <2>2 DEF SettledOnce, Pending
  <2> QED BY <2>1, <2>2
<1>7. Requested'
  <2> SUFFICES ASSUME NEW r \in Id
               PROVE  /\ r \in Pending' => /\ sentTo'[r] = pending'[r]
                                           /\ r <= nextRequestId'
                      /\ r > nextRequestId' => /\ settlements'[r] = 0
                                               /\ promise'[r] = "unsent"
    BY DEF Requested
  <2>1. r \in Pending' => sentTo'[r] = pending'[r] /\ r <= nextRequestId'
    BY <1>4 DEF Requested, Pending
  <2>2. r > nextRequestId' => r \notin R
    BY DEF Requested, Pending, Id
  <2>3. r > nextRequestId' => settlements'[r] = 0 /\ promise'[r] = "unsent"
    BY <2>2 DEF Requested
  <2> QED BY <2>1, <2>3
<1> QED BY <1>1, <1>2, <1>3, <1>4, <1>5, <1>6, <1>7

(* A stored fragment lands in a buffer of the announced total. *)
LEMMA BufferedType ==
  ASSUME NEW old \in Buffer, NEW total \in 1..MaxParts, NEW index \in 1..total,
         NEW env \in Envelope
  PROVE  /\ Buffered(old, index, total, env) \in Slots(total)
         /\ Buffered(old, index, total, env)[index] = env
<1> DEFINE slots == IF DOMAIN old = 1..total THEN old
                                             ELSE [i \in 1..total |-> Hole]
<1>1. old \in Slots(total) \/ DOMAIN old # 1..total
  BY DEF Buffer, Slots
<1>2. slots \in Slots(total)
  BY <1>1 DEF Slots
<1> HIDE DEF slots
<1>3. [slots EXCEPT ![index] = env] \in Slots(total)
  BY <1>2 DEF Slots
<1>4. [slots EXCEPT ![index] = env][index] = env
  BY <1>2 DEF Slots
<1> QED BY <1>3, <1>4 DEF Buffered, slots

LEMMA NoBufferType == NoBuffer \in Buffer
<1>1. 0 \in 0..MaxParts
  BY ClientAssumption
<1>2. NoBuffer \in Slots(0)
  BY DEF NoBuffer, Slots
<1> QED BY <1>1, <1>2 DEF Buffer

(* The tail of the listener keeps the invariant, whichever buffers it is   *)
(* handed.                                                                 *)
LEMMA DeliverKeeps ==
  ASSUME IInv, NEW b \in Bot, NEW id \in Id \cup {NoId},
         NEW buffers \in [Bot \X Id -> Buffer], Deliver(b, id, buffers)
  PROVE  IInv'
<1>1. CASE Addressee(b, id) = {} /\ partBuffers' = buffers
           /\ UNCHANGED <<requestVars, historyVars>>
  BY <1>1 DEF IInv, TypeOK, requestVars, historyVars, TimerPerPending,
     SettledOnce, OwnBotReplies, Requested, Pending
<1>2. ASSUME NEW r \in Addressee(b, id),
             Leave({r}, "resolved"),
             partBuffers' = [buffers EXCEPT ![<<b, r>>] = NoBuffer],
             repliedBy' = [repliedBy EXCEPT ![r] = b],
             UNCHANGED <<nextRequestId, sentTo>>
      PROVE  IInv'
  <2>1. r \in Pending /\ r \in Id /\ pending[r] = b
    BY <1>2 DEF Addressee, Pending
  <2>2. /\ pending' \in [Id -> Bot \cup {NoBot}]
        /\ timers' \subseteq Id
        /\ promise' \in [Id -> Outcome]
        /\ settlements' \in [Id -> Nat]
        /\ TimerPerPending' /\ SettledOnce' /\ Requested'
    BY <1>2, <2>1, LeaveSettles
  <2>3. TypeOK'
    BY <1>2, <2>1, <2>2, NoBufferType DEF IInv, TypeOK
  <2>4. OwnBotReplies'
    BY <1>2, <2>1 DEF IInv, TypeOK, OwnBotReplies, Requested, Leave
  <2> QED BY <2>2, <2>3, <2>4 DEF IInv
<1> QED BY <1>1, <1>2 DEF Deliver

LEMMA InitEstablishes == Init => IInv
<1> SUFFICES ASSUME Init PROVE IInv
  OBVIOUS
<1>1. TypeOK
  BY NoBufferType, ClientAssumption DEF Init, TypeOK, Outcome
<1>2. Pending = {}
  BY DEF Init, Pending
<1> QED BY <1>1, <1>2 DEF Init, IInv, TimerPerPending, SettledOnce,
           OwnBotReplies, Requested

LEMMA NextKeeps == IInv /\ [Next]_vars => IInv'
<1> SUFFICES ASSUME IInv, [Next]_vars PROVE IInv'
  OBVIOUS
<1>1. ASSUME NEW b \in Bot, RunAction(b) PROVE IInv'
  <2> DEFINE r == nextRequestId + 1
  <2>1. r \in Id /\ r \notin 1..nextRequestId
    BY <1>1, ClientAssumption DEF RunAction, IInv, TypeOK, Id
  <2>2. PICK sent \in {"waiting", "threw"} : promise' = [promise EXCEPT ![r] = sent]
    BY <1>1 DEF RunAction, FreshId
  <2>3. /\ nextRequestId' = r
        /\ pending' = [pending EXCEPT ![r] = b]
        /\ timers' = timers \cup {r}
        /\ sentTo' = [sentTo EXCEPT ![r] = b]
        /\ UNCHANGED <<partBuffers, repliedBy, settlements>>
    BY <1>1 DEF RunAction, FreshId
  <2> HIDE DEF r
  <2>4. r \in 0..MaxRequest
    BY <2>1, ClientAssumption DEF Id
  <2>5. TypeOK'
    BY <2>1, <2>2, <2>3, <2>4 DEF IInv, TypeOK, Outcome
  <2>6. Pending' = Pending \cup {r}
    BY <2>1, <2>3, ClientAssumption DEF IInv, TypeOK, Pending
  <2>7. TimerPerPending'
    BY <2>3, <2>6 DEF IInv, TimerPerPending
  <2>8. settlements[r] = 0 /\ promise[r] = "unsent"
    BY <2>1, ClientAssumption DEF IInv, TypeOK, Requested, Id
  <2>9. nextRequestId < r /\ \A q \in Id : q <= r => q = r \/ q <= nextRequestId
    BY ClientAssumption DEF r, IInv, TypeOK, Id
  <2>10. SettledOnce'
    <3> SUFFICES ASSUME NEW q \in Id
                 PROVE  /\ q \in Pending' => settlements'[q] = 0
                        /\ q \in 1..nextRequestId' \ Pending' => settlements'[q] = 1
                        /\ promise'[q] = "waiting" => q \in Pending'
      BY DEF SettledOnce
    <3>1. CASE q = r
      BY <2>3, <2>6, <2>8, <3>1
    <3>2. CASE q # r
      <4>1. q \in 1..nextRequestId' => q \in 1..nextRequestId
        BY <2>3, <2>9, <3>2 DEF IInv, TypeOK, Id
      <4>2. promise'[q] = promise[q]
        BY <2>1, <2>2, <3>2 DEF IInv, TypeOK
      <4> QED BY <2>3, <2>6, <3>2, <4>1, <4>2 DEF IInv, SettledOnce
    <3> QED BY <3>1, <3>2
  <2>11. OwnBotReplies'
    BY <2>1, <2>2, <2>3 DEF IInv, TypeOK, OwnBotReplies
  <2>12. Requested'
    BY <2>1, <2>2, <2>3, <2>6, <2>9, ClientAssumption
    DEF IInv, TypeOK, Requested, Id
  <2> QED BY <2>5, <2>7, <2>10, <2>11, <2>12 DEF IInv
<1>2. ASSUME NEW b \in Bot, NEW id \in Id \cup {NoId}, ReceiveStatus(b, id)
      PROVE IInv'
  BY <1>2, DeliverKeeps DEF ReceiveStatus, IInv, TypeOK
<1>3. ASSUME NEW b \in Bot, NEW id \in Id, NEW total \in 1..MaxParts,
             NEW env \in Envelope, NEW index \in 1..total,
             ReceiveStatusPart(b, id, index, total, env)
      PROVE IInv'
  <2> DEFINE key   == <<b, id>>
             slots == Buffered(partBuffers[key], index, total, env)
  <2>1. partBuffers[key] \in Buffer /\ partBuffers \in [Bot \X Id -> Buffer]
    BY DEF IInv, TypeOK
  <2>2. slots \in Buffer
    BY <2>1, BufferedType DEF Buffer
  <2> HIDE DEF slots
  <2>3. /\ [partBuffers EXCEPT ![key] = slots] \in [Bot \X Id -> Buffer]
        /\ [partBuffers EXCEPT ![key] = NoBuffer] \in [Bot \X Id -> Buffer]
    BY <2>1, <2>2, NoBufferType
  <2>4. CASE /\ \/ partBuffers' = [partBuffers EXCEPT ![key] = slots]
                \/ partBuffers' = [partBuffers EXCEPT ![key] = NoBuffer]
             /\ UNCHANGED <<requestVars, historyVars>>
    BY <2>3, <2>4 DEF IInv, TypeOK, requestVars, historyVars, TimerPerPending,
       SettledOnce, OwnBotReplies, Requested, Pending
  <2>5. CASE Deliver(b, id, [partBuffers EXCEPT ![key] = NoBuffer])
    BY <2>3, <2>5, DeliverKeeps
  <2> QED BY <1>3, <2>4, <2>5 DEF ReceiveStatusPart, slots
<1>4. ASSUME NEW r \in Id, Timeout(r) PROVE IInv'
  <2>1. r \in Pending /\ pending[r] \in Bot
    BY <1>4 DEF Timeout, IInv, TypeOK, TimerPerPending, Pending
  <2>2. /\ pending' \in [Id -> Bot \cup {NoBot}]
        /\ timers' \subseteq Id
        /\ promise' \in [Id -> Outcome]
        /\ settlements' \in [Id -> Nat]
        /\ TimerPerPending' /\ SettledOnce' /\ Requested'
    BY <1>4, <2>1, LeaveSettles DEF Timeout
  <2>3. TypeOK'
    BY <1>4, <2>2, NoBufferType DEF Timeout, IInv, TypeOK
  <2>4. OwnBotReplies'
    BY <1>4 DEF Timeout, IInv, TypeOK, OwnBotReplies, Leave
  <2> QED BY <2>2, <2>3, <2>4 DEF IInv
<1>5. CASE CancelAllInstructions
  <2>1. /\ pending' \in [Id -> Bot \cup {NoBot}]
        /\ timers' \subseteq Id
        /\ promise' \in [Id -> Outcome]
        /\ settlements' \in [Id -> Nat]
        /\ TimerPerPending' /\ SettledOnce' /\ Requested'
    BY <1>5, LeaveSettles DEF CancelAllInstructions
  <2>2. TypeOK'
    BY <1>5, <2>1 DEF CancelAllInstructions, IInv, TypeOK
  <2>3. OwnBotReplies'
    BY <1>5 DEF CancelAllInstructions, IInv, TypeOK, OwnBotReplies, Leave
  <2> QED BY <2>1, <2>2, <2>3 DEF IInv
<1>6. CASE UNCHANGED vars
  BY <1>6 DEF vars, IInv, TypeOK, TimerPerPending, SettledOnce, OwnBotReplies,
     Requested, Pending
<1> QED BY <1>1, <1>2, <1>3, <1>4, <1>5, <1>6 DEF Next

(* The inductive invariant holds of every behaviour. *)
THEOREM Invariance == Spec => []IInv
<1> QED BY InitEstablishes, NextKeeps, PTL DEF Spec

(* Every variable keeps its type. *)
THEOREM TypeCorrect == Spec => []TypeOK
<1>1. IInv => TypeOK
  BY DEF IInv
<1> QED BY <1>1, Invariance, PTL

(* Pending requests and deadline timers are the same set: settling,        *)
(* timing out and cancelling each do both.                                 *)
THEOREM TimersFollowPending == Spec => []TimerPerPending
<1>1. IInv => TimerPerPending
  BY DEF IInv
<1> QED BY <1>1, Invariance, PTL

(* Reply, deadline and cancellation never settle a request twice, and no   *)
(* request leaves the map unsettled.                                       *)
THEOREM ExactlyOneSettlement == Spec => []SettledOnce
<1>1. IInv => SettledOnce
  BY DEF IInv
<1> QED BY <1>1, Invariance, PTL

(* A request resolves only with a status of the bot it was made to.        *)
THEOREM RepliesComeFromOwnBot == Spec => []OwnBotReplies
<1>1. IInv => OwnBotReplies
  BY DEF IInv
<1> QED BY <1>1, Invariance, PTL
=============================================================================
