-------------------------- MODULE InstructionClient --------------------------
(***************************************************************************)
(* The addon side of the instruction RPC (scripts/client.ts): the map of   *)
(* pending requests, their deadline timers, the reassembly buffers of      *)
(* chunked status envelopes and the single chatSend listener that routes   *)
(* every status line to a request.                                         *)
(*                                                                         *)
(* The environment is the most general one: at any moment any bot may send *)
(* any status line, for any id, late, repeated or out of order.  What the  *)
(* client guarantees here it guarantees whatever the bots and the server   *)
(* do with the chat.  Module StatusChannel puts real bots behind it.       *)
(***************************************************************************)
EXTENDS Integers, FiniteSets

CONSTANTS
  Bot,          \* entity ids of bot players
  NoBot,        \* marks an id that is not pending
  Envelope,     \* the texts a fragment can be cut from
  Hole,         \* the slot of a fragment that has not arrived (undefined)
  MaxRequest,   \* bound on nextRequestId
  MaxParts      \* bound on the fragments of one envelope

ASSUME ClientAssumption ==
  /\ NoBot \notin Bot
  /\ Hole \notin Envelope
  /\ MaxRequest \in Nat
  /\ MaxParts \in Nat

VARIABLES
  nextRequestId,  \* last id handed out
  pending,        \* id -> bot of the pending request, or NoBot
  timers,         \* ids whose deadline timer is scheduled
  partBuffers,    \* <<bot, id>> -> slots of the buffer; NoBuffer: no entry
  promise,        \* history: id -> what the caller of runAction sees
  sentTo,         \* history: id -> bot the request was made to
  repliedBy,      \* history: id -> sender of the status it resolved with
  settlements     \* history: id -> calls made to resolve or reject

requestVars == <<nextRequestId, pending, timers>>
historyVars == <<promise, sentTo, repliedBy, settlements>>
vars == <<nextRequestId, pending, timers, partBuffers,
          promise, sentTo, repliedBy, settlements>>

Id == 1..MaxRequest
NoId == 0                    \* statusEnvelope omits an empty id
Outcome == {"unsent", "waiting", "threw", "resolved", "timeout", "cancelled"}

Slots(n) == [1..n -> Envelope \cup {Hole}]
Buffer == UNION {Slots(n) : n \in 0..MaxParts}
NoBuffer == [i \in {} |-> Hole]

Pending == {r \in Id : pending[r] # NoBot}

-----------------------------------------------------------------------------
Init ==
  /\ nextRequestId = 0
  /\ pending = [r \in Id |-> NoBot]
  /\ timers = {}
  /\ partBuffers = [k \in Bot \X Id |-> NoBuffer]
  /\ promise = [r \in Id |-> "unsent"]
  /\ sentTo = [r \in Id |-> NoBot]
  /\ repliedBy = [r \in Id |-> NoBot]
  /\ settlements = [r \in Id |-> 0]

(* Every id is fresh for the life of the script.                           *)
FreshId == nextRequestId + 1

(* runAction: the entry and its timer exist before the instruction is      *)
(* sent, so a sendMessage that throws leaves both behind: the caller sees  *)
(* the exception, the request stays pending until its deadline.            *)
RunAction(b) ==
  /\ nextRequestId < MaxRequest
  /\ nextRequestId' = FreshId
  /\ pending' = [pending EXCEPT ![FreshId] = b]
  /\ timers' = timers \cup {FreshId}
  /\ sentTo' = [sentTo EXCEPT ![FreshId] = b]
  /\ \E sent \in {"waiting", "threw"} :
       promise' = [promise EXCEPT ![FreshId] = sent]
  /\ UNCHANGED <<partBuffers, repliedBy, settlements>>

(* The requests in R leave the map, their timers are cleared and their     *)
(* promises settle; a promise keeps its first settlement, and a caller     *)
(* that saw sendMessage throw sees nothing more.                           *)
MutantOneSettled(R, outcome) ==
  /\ pending' = [r \in Id |-> IF r \in R THEN NoBot ELSE pending[r]]
  /\ timers' = timers \ R
  /\ \E one \in R : promise' = [promise EXCEPT ![one] = outcome]
  /\ settlements' = [r \in Id |-> settlements[r] + IF r \in R THEN 1 ELSE 0]
Leave(R, outcome) ==
  /\ pending' = [r \in Id |-> IF r \in R THEN NoBot ELSE pending[r]]
  /\ timers' = timers \ R
  /\ promise' = [r \in Id |->
       IF r \in R /\ promise[r] = "waiting" THEN outcome ELSE promise[r]]
  /\ settlements' = [r \in Id |-> settlements[r] + IF r \in R THEN 1 ELSE 0]

(* The request a status of bot b is routed to: the one it names, or else   *)
(* the oldest of that bot; a request made to another bot is never matched. *)
MutantAnyBot(b, id) ==
  {r \in Pending : IF id = NoId THEN \A q \in Pending : r <= q ELSE r = id}
MutantSettledToo(b, id) == {r \in Id : sentTo[r] = b /\ r = id}
Addressee(b, id) ==
  {r \in Pending : /\ pending[r] = b
                   /\ IF id = NoId
                        THEN \A q \in Pending : pending[q] = b => r <= q
                        ELSE r = id}

(* The tail of the listener, with the buffers as bufferStatusPart left     *)
(* them: settle drops the entry, its timer and its buffer.                 *)
Deliver(b, id, buffers) ==
  \/ /\ Addressee(b, id) = {}
     /\ partBuffers' = buffers
     /\ UNCHANGED <<requestVars, historyVars>>
  \/ \E r \in Addressee(b, id) :
       /\ Leave({r}, "resolved")
       /\ partBuffers' = [buffers EXCEPT ![<<b, r>>] = NoBuffer]
       /\ repliedBy' = [repliedBy EXCEPT ![r] = b]
       /\ UNCHANGED <<nextRequestId, sentTo>>

(* A whole [STATUS] line from bot b. *)
ReceiveStatus(b, id) == Deliver(b, id, partBuffers)

(* The slots of a key once the fragment is stored.  A total that differs   *)
(* from the buffer's restarts it.                                          *)
MutantFirstNotStored(old, index, total, env) ==
  IF DOMAIN old = 1..total THEN [old EXCEPT ![index] = env]
                            ELSE [i \in 1..total |-> Hole]
Buffered(old, index, total, env) ==
  LET slots == IF DOMAIN old = 1..total THEN old
                                        ELSE [i \in 1..total |-> Hole]
  IN  [slots EXCEPT ![index] = env]

Complete(slots) == \A i \in DOMAIN slots : slots[i] # Hole
Parses(slots) == \A i, j \in DOMAIN slots : slots[i] = slots[j]

(* A [STATUSPART] line: incomplete envelopes wait, complete ones leave the *)
(* buffer and are routed unless the joined text does not parse.            *)
ReceiveStatusPart(b, id, index, total, env) ==
  LET key   == <<b, id>>
      slots == Buffered(partBuffers[key], index, total, env)
  IN  \/ /\ ~Complete(slots)
         /\ partBuffers' = [partBuffers EXCEPT ![key] = slots]
         /\ UNCHANGED <<requestVars, historyVars>>
      \/ /\ Complete(slots)
         /\ ~Parses(slots)
         /\ partBuffers' = [partBuffers EXCEPT ![key] = NoBuffer]
         /\ UNCHANGED <<requestVars, historyVars>>
      \/ /\ Complete(slots)
         /\ Parses(slots)
         /\ Deliver(b, id, [partBuffers EXCEPT ![key] = NoBuffer])

(* The deadline timer fires (msToTicks(timeoutMs) + 10 ticks). *)
Timeout(r) ==
  /\ r \in timers
  /\ Leave({r}, "timeout")
  /\ partBuffers' = [partBuffers EXCEPT ![<<sentTo[r], r>>] = NoBuffer]
  /\ UNCHANGED <<nextRequestId, sentTo, repliedBy>>

(* cancelAllInstructions rejects every pending request.  It leaves the     *)
(* reassembly buffers as they are.                                         *)
CancelAllInstructions ==
  /\ Pending # {}
  /\ Leave(Pending, "cancelled")
  /\ UNCHANGED <<nextRequestId, partBuffers, sentTo, repliedBy>>

Next ==
  \/ \E b \in Bot : RunAction(b)
  \/ \E b \in Bot, id \in Id \cup {NoId} : ReceiveStatus(b, id)
  \/ \E b \in Bot, id \in Id, total \in 1..MaxParts, env \in Envelope :
       \E index \in 1..total : ReceiveStatusPart(b, id, index, total, env)
  \/ \E r \in Id : Timeout(r)
  \/ CancelAllInstructions

Spec == Init /\ [][Next]_vars

(* The server runs a scheduled timer when its tick comes; nothing promises *)
(* that any status ever arrives.                                           *)
FairSpec == Spec /\ \A r \in Id : WF_vars(Timeout(r))

-----------------------------------------------------------------------------
(* Every variable keeps its type. *)
TypeOK ==
  /\ nextRequestId \in 0..MaxRequest
  /\ pending \in [Id -> Bot \cup {NoBot}]
  /\ timers \subseteq Id
  /\ partBuffers \in [Bot \X Id -> Buffer]
  /\ promise \in [Id -> Outcome]
  /\ sentTo \in [Id -> Bot \cup {NoBot}]
  /\ repliedBy \in [Id -> Bot \cup {NoBot}]
  /\ settlements \in [Id -> Nat]

(* The map and the timers agree: a pending request always has a deadline   *)
(* ahead of it, and no timer outlives its request (client.ts settles,      *)
(* cancels and times out in three places, each of which must do both).     *)
TimerPerPending == timers = Pending

(* A promise is settled by exactly one of reply, deadline and cancellation *)
(* and a request leaves the map exactly when it is settled: nobody waits   *)
(* on a request that can no longer be settled.                             *)
SettledOnce ==
  \A r \in Id : /\ r \in Pending => settlements[r] = 0
                /\ r \in 1..nextRequestId \ Pending => settlements[r] = 1
                /\ promise[r] = "waiting" => r \in Pending

(* A status resolves only a request made to the bot that sent it, whatever *)
(* id it carries and also when it carries none.                            *)
OwnBotReplies ==
  \A r \in Id : promise[r] = "resolved" => repliedBy[r] = sentTo[r]

(* Every request issued is settled in the end, even when no bot ever       *)
(* answers.                                                                *)
EverySettles == \A r \in Id : (promise[r] = "waiting") ~> (promise[r] # "waiting")
=============================================================================
