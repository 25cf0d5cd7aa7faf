---------------------------- MODULE StatusChannel ----------------------------
(***************************************************************************)
(* The instruction RPC end to end: the addon's client (InstructionClient)  *)
(* on one side, the runAction goroutines and chat writer of a bot          *)
(* (ChatOut) on the other, and between them a server that hands the bot's  *)
(* chat to the script in order and silently drops lines it finds too long  *)
(* or too frequent.                                                        *)
(*                                                                         *)
(* A process of the bot is named by the id of the instruction it runs.     *)
(* Foreign processes run actions nobody's client asked for, whose JSON did *)
(* not decode: their report carries no id.                                 *)
(***************************************************************************)
EXTENDS Integers, Sequences, FiniteSets

CONSTANTS
  bot,          \* the bot the client talks to
  NoBot, Hole,
  MaxRequest,   \* bound on the requests of the client
  Foreign,      \* processes with an undecodable action
  MaxLines,     \* bound on the lines of one status
  ChatOutBuf    \* capacity of the bot's chat buffer

Id == 1..MaxRequest
Process == Id \cup Foreign
NoId == 0

ASSUME ChannelAssumption ==
  /\ MaxRequest \in Nat
  /\ MaxLines \in Nat
  /\ NoBot # bot
  /\ Hole \notin Process
  /\ IsFiniteSet(Foreign)
  /\ Foreign \cap (Id \cup {NoId}) = {}

VARIABLES
  nextRequestId, pending, timers, partBuffers,   \* the client's state
  promise, sentTo, repliedBy, settlements,       \* its history
  pc, size, next, chatOut, writer, writing, closed, sent, lost,   \* the bot's
  taken,        \* how many of the lines sent the server has dealt with
  relayed       \* history: lines the script has received

clientVars == <<nextRequestId, pending, timers, partBuffers,
                promise, sentTo, repliedBy, settlements>>
botVars == <<pc, size, next, chatOut, writer, writing, closed, sent, lost>>
vars == <<clientVars, botVars, taken, relayed>>

Client == INSTANCE InstructionClient WITH
            Bot <- {bot}, Envelope <- Process, MaxParts <- MaxLines
Out == INSTANCE ChatOut

Init ==
  /\ Client!Init
  /\ Out!Init
  /\ taken = 0
  /\ relayed = {}

-----------------------------------------------------------------------------
(* The instruction of request p has reached the bot (a request whose       *)
(* sendMessage threw never does), ran, and reports.                        *)
Arrived(p) == p \in Id => promise[p] \notin {"unsent", "threw"}
BotReports(p) ==
  /\ Arrived(p)
  /\ \E n \in 1..MaxLines : Out!BroadcastStatus(p, n)
  /\ UNCHANGED <<clientVars, taken, relayed>>

OfBot(A) == A /\ UNCHANGED <<clientVars, taken, relayed>>
BotSteps == OfBot((\E p \in Process : Out!Report(p)) \/ Out!Writer \/ Out!Close)

(* The id a process echoes: runAction passes env.Id on, and "" when the    *)
(* action did not decode; statusEnvelope omits an empty id.                *)
EchoedId(p) == IF p \in Foreign THEN NoId ELSE p

(* What the listener does with a line.  A fragment without an id has a     *)
(* header decodeStatusPart does not match: the line stays plain chat.      *)
MutantFirstFragment(l) == Client!ReceiveStatus(bot, EchoedId(l[1]))
Listen(l) ==
  LET p == l[1]
  IN  CASE size[p] = 1 -> Client!ReceiveStatus(bot, EchoedId(p))
        [] size[p] > 1 /\ EchoedId(p) # NoId ->
             Client!ReceiveStatusPart(bot, p, l[2], size[p], p)
        [] OTHER -> UNCHANGED clientVars

(* The server hands the next line to the script, or drops it. *)
ServerRelays ==
  /\ taken < Len(sent)
  /\ taken' = taken + 1
  /\ relayed' = relayed \cup {sent[taken + 1]}
  /\ Listen(sent[taken + 1])
  /\ UNCHANGED botVars

ServerDrops ==
  /\ taken < Len(sent)
  /\ taken' = taken + 1
  /\ UNCHANGED <<clientVars, botVars, relayed>>

ClientSteps ==
  /\ \/ Client!RunAction(bot)
     \/ \E r \in Id : Client!Timeout(r)
     \/ Client!CancelAllInstructions
  /\ UNCHANGED <<botVars, taken, relayed>>

Next ==
  \/ \E p \in Process : BotReports(p)
  \/ BotSteps
  \/ ServerRelays
  \/ ServerDrops
  \/ ClientSteps

Spec == Init /\ [][Next]_vars

(* The fairness of ChatOut: goroutines keep running and timers fire, but a *)
(* write may never return and nobody need close the bot.                   *)
FairSpec ==
  /\ Spec
  /\ \A p \in Process : WF_vars(OfBot(Out!Report(p)))
  /\ WF_vars(OfBot(Out!TakeLine)) /\ WF_vars(OfBot(Out!WriteSeen))
  /\ WF_vars(OfBot(Out!WriteTimesOut)) /\ WF_vars(OfBot(Out!WriterExits))

-----------------------------------------------------------------------------
(* Every line of p's status has reached the script. *)
WholeReply(p) == size[p] > 0 /\ \A k \in 1..size[p] : <<p, k>> \in relayed

(* A request resolves only with the whole status of its own instruction:   *)
(* no other instruction's reply, and no reassembly short of a fragment,    *)
(* whatever is interleaved, dropped or late.                               *)
ResolvedByWholeOwnReply ==
  \A r \in Id : promise[r] = "resolved" => WholeReply(r)

(* And the other way: once the whole status of a request has reached the   *)
(* script the request is not pending any more, so a deadline that fires    *)
(* afterwards finds nothing to reject.                                     *)
WholeReplySettles ==
  \A r \in Id : WholeReply(r) => r \notin Client!Pending

(* The bot's buffer and its writer are a queue that may lose lines but     *)
(* never reorders, repeats or invents one (EnqueueChat, startChatWriter).  *)
Abstract == INSTANCE LossyFifo WITH
              Message <- Out!Line, inFlight <- writing \o chatOut, delivered <- sent
ImplementsLossyFifo == Abstract!Spec

(* A queued line does not stay queued: it is taken, or dropped, or the bot *)
(* is closed.  A write that never returns closes the bot.                  *)
QueueDrains == \A l \in Out!Line : Out!Queued(l) ~> (~Out!Queued(l) \/ closed)
=============================================================================
