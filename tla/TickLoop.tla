------------------------------ MODULE TickLoop ------------------------------
(***************************************************************************)
(* The goroutine that owns a bot (gotestbds/bot/bot.go, StartTickLoop): it *)
(* alone touches the actor, and divides its time between due ticks, tasks  *)
(* queued with Execute and packets queued by the connection's reader.  Due *)
(* ticks come first, but only MaxPriorityTicks in a row.                   *)
(*                                                                         *)
(* A step of the loop is one pass through its body.  The ticker may fire   *)
(* at any moment, so a tick that takes longer than the tick interval is a  *)
(* Tick after which TickerFires comes before the loop's next step.         *)
(***************************************************************************)
EXTENDS Integers, Sequences, FiniteSets

CONSTANTS
  Caller,            \* goroutines that call Execute or TryExecute
  MaxPriorityTicks,  \* maxPriorityTicks (3 in the code)
  TaskBuf,           \* capacity of b.tasks (256 in the code)
  PacketBuf,         \* packetBuf (16384 in the code)
  MaxPackets         \* bound on the packets read

ASSUME TickLoopAssumption ==
  /\ MaxPriorityTicks \in Nat
  /\ TaskBuf \in Nat \ {0}
  /\ PacketBuf \in Nat \ {0}
  /\ MaxPackets \in Nat

VARIABLES
  loop,           \* "priority", "select" or "ended"
  priorityTicks,  \* ticks taken in a row by the first select
  due,            \* the ticker's channel holds a tick
  caller,         \* what each caller is doing
  tasks,          \* queued tasks, by the caller that queued them
  reader,         \* where handlePackets is
  read,           \* packets read so far; packets are numbered by this
  packets,        \* queued packets
  closed,
  handled,        \* history: packets handled, in order
  lost            \* history: packets dropped by enqueuePacket

loopVars == <<loop, priorityTicks, due>>
taskVars == <<caller, tasks>>
packetVars == <<reader, read, packets, handled, lost>>
vars == <<loop, priorityTicks, due, caller, tasks,
          reader, read, packets, closed, handled, lost>>

Packet == 1..MaxPackets

Init ==
  /\ loop = "priority"
  /\ priorityTicks = 0
  /\ due = FALSE
  /\ caller = [c \in Caller |-> "idle"]
  /\ tasks = << >>
  /\ reader = "reading"
  /\ read = 0
  /\ packets = << >>
  /\ closed = FALSE
  /\ handled = << >>
  /\ lost = {}

-----------------------------------------------------------------------------
(* time.Ticker holds one tick and drops the rest. *)
TickerFires ==
  /\ ~due
  /\ loop # "ended"
  /\ due' = TRUE
  /\ UNCHANGED <<loop, priorityTicks, taskVars, packetVars, closed>>

(* May the first select take another tick? *)
MutantAlwaysFirst(n) == TRUE
TicksFirst(n) == n < MaxPriorityTicks

(* The first select takes a due tick and starts over. *)
PriorityTick ==
  /\ loop = "priority"
  /\ TicksFirst(priorityTicks)
  /\ due
  /\ due' = FALSE
  /\ priorityTicks' = IF priorityTicks < MaxPriorityTicks
                        THEN priorityTicks + 1 ELSE priorityTicks
  /\ UNCHANGED <<loop, taskVars, packetVars, closed>>

(* No tick is due and the bot is open, or ticks have had their share: the  *)
(* loop waits in the second select for whatever comes.                     *)
OfferAll ==
  /\ loop = "priority"
  /\ TicksFirst(priorityTicks) => ~due /\ ~closed
  /\ priorityTicks' = 0
  /\ loop' = "select"
  /\ UNCHANGED <<due, taskVars, packetVars, closed>>

(* The second select picks at random among the cases that are ready. *)
Tick ==
  /\ loop = "select"
  /\ due
  /\ due' = FALSE
  /\ loop' = "priority"
  /\ UNCHANGED <<priorityTicks, taskVars, packetVars, closed>>

MutantDoneFirst ==
  /\ loop = "select"
  /\ tasks # << >>
  /\ caller' = [caller EXCEPT ![tasks[Len(tasks)]] = "returned"]
  /\ tasks' = Tail(tasks)
  /\ loop' = "priority"
  /\ UNCHANGED <<priorityTicks, due, packetVars, closed>>
RunTask ==
  /\ loop = "select"
  /\ tasks # << >>
  /\ caller' = [caller EXCEPT ![Head(tasks)] = "returned"]
  /\ tasks' = Tail(tasks)
  /\ loop' = "priority"
  /\ UNCHANGED <<priorityTicks, due, packetVars, closed>>

MutantHandleTwice ==
  /\ loop = "select"
  /\ packets # << >>
  /\ handled' = Append(handled, Head(packets))
  /\ loop' = "priority"
  /\ UNCHANGED <<priorityTicks, due, taskVars, reader, read, packets, lost,
                 closed>>
HandlePacket ==
  /\ loop = "select"
  /\ packets # << >>
  /\ handled' = Append(handled, Head(packets))
  /\ packets' = Tail(packets)
  /\ loop' = "priority"
  /\ UNCHANGED <<priorityTicks, due, taskVars, reader, read, lost, closed>>

(* Either select may see the close; the actor and connection close next.   *)
MutantNoCloseCase == FALSE /\ UNCHANGED vars
LoopEnds ==
  /\ closed
  /\ \/ loop = "priority" /\ TicksFirst(priorityTicks)
     \/ loop = "select"
  /\ loop' = "ended"
  /\ UNCHANGED <<priorityTicks, due, taskVars, packetVars, closed>>

-----------------------------------------------------------------------------
(* Execute blocks until the task is queued or the bot is closed; with both *)
(* possible the select picks at random.  A queued caller waits for its     *)
(* task; one that met a closed bot gets a channel closed already.          *)
CallExecute(c) ==
  /\ caller[c] = "idle"
  /\ caller' = [caller EXCEPT ![c] = "executing"]
  /\ UNCHANGED <<loopVars, tasks, packetVars, closed>>

Execute(c) ==
  /\ caller[c] = "executing"
  /\ \/ /\ Len(tasks) < TaskBuf
        /\ tasks' = Append(tasks, c)
        /\ caller' = [caller EXCEPT ![c] = "awaiting"]
     \/ /\ closed
        /\ caller' = [caller EXCEPT ![c] = "refused"]
        /\ UNCHANGED tasks
  /\ UNCHANGED <<loopVars, packetVars, closed>>

(* TryExecute does not wait, neither for room nor for the task.            *)
TryExecute(c) ==
  /\ caller[c] = "idle"
  /\ \/ /\ Len(tasks) < TaskBuf
        /\ tasks' = Append(tasks, c)
        /\ caller' = [caller EXCEPT ![c] = "queued"]
     \/ /\ Len(tasks) = TaskBuf \/ closed
        /\ caller' = [caller EXCEPT ![c] = "refused"]
        /\ UNCHANGED tasks
  /\ UNCHANGED <<loopVars, packetVars, closed>>

-----------------------------------------------------------------------------
(* handlePackets: ReadPacket returns a packet, or an error that closes the *)
(* bot.  An error may come at any time and must come once the loop has     *)
(* closed the connection.                                                  *)
ReadPacket ==
  /\ reader = "reading"
  /\ read < MaxPackets
  /\ read' = read + 1
  /\ reader' = "offer"
  /\ UNCHANGED <<loopVars, taskVars, packets, handled, lost, closed>>

ReadError ==
  /\ reader = "reading"
  /\ reader' = "stopped"
  /\ closed' = TRUE
  /\ UNCHANGED <<loopVars, taskVars, read, packets, handled, lost>>

(* enqueuePacket, one step per select. *)
SeesClosed ==
  /\ reader \in {"offer", "retry"}
  /\ closed
  /\ reader' = "stopped"
  /\ UNCHANGED <<loopVars, taskVars, read, packets, handled, lost, closed>>

Room == Len(packets) < PacketBuf

OfferPacket ==
  /\ reader = "offer"
  /\ \/ /\ Room
        /\ packets' = Append(packets, read)
        /\ reader' = "reading"
     \/ /\ ~Room /\ ~closed
        /\ reader' = "dropOldest"
        /\ UNCHANGED packets
  /\ UNCHANGED <<loopVars, taskVars, read, handled, lost, closed>>

MutantDropNewest ==
  /\ reader = "dropOldest"
  /\ packets # << >>
  /\ packets' = SubSeq(packets, 1, Len(packets) - 1)
  /\ lost' = lost \cup {packets[Len(packets)]}
  /\ reader' = "retry"
  /\ UNCHANGED <<loopVars, taskVars, read, handled, closed>>
DropOldestPacket ==
  /\ reader = "dropOldest"
  /\ \/ /\ packets # << >>
        /\ packets' = Tail(packets)
        /\ lost' = lost \cup {Head(packets)}
     \/ /\ packets = << >>
        /\ UNCHANGED <<packets, lost>>
  /\ reader' = "retry"
  /\ UNCHANGED <<loopVars, taskVars, read, handled, closed>>

RetryPacket ==
  /\ reader = "retry"
  /\ \/ /\ Room
        /\ packets' = Append(packets, read)
        /\ UNCHANGED lost
     \/ /\ ~Room /\ ~closed
        /\ lost' = lost \cup {read}
        /\ UNCHANGED packets
  /\ reader' = "reading"
  /\ UNCHANGED <<loopVars, taskVars, read, handled, closed>>

(* Bot.Close, by anyone and any number of times: closeOnce. *)
Close ==
  /\ ~closed
  /\ closed' = TRUE
  /\ UNCHANGED <<loopVars, taskVars, packetVars>>

-----------------------------------------------------------------------------
LoopStep == PriorityTick \/ OfferAll \/ Tick \/ RunTask \/ HandlePacket
              \/ LoopEnds
EnqueuePacket == SeesClosed \/ OfferPacket \/ DropOldestPacket \/ RetryPacket

Next ==
  \/ TickerFires
  \/ LoopStep
  \/ \E c \in Caller : CallExecute(c) \/ Execute(c) \/ TryExecute(c)
  \/ ReadPacket \/ ReadError \/ EnqueuePacket
  \/ Close

Spec == Init /\ [][Next]_vars

(* The loop keeps going round; Go's select picks uniformly among the ready *)
(* cases, so a case that is ready again and again is picked in the end.    *)
LoopFairness ==
  /\ WF_vars(LoopStep)
  /\ SF_vars(Tick) /\ SF_vars(RunTask) /\ SF_vars(HandlePacket)
  /\ SF_vars(LoopEnds)
CallerFairness == \A c \in Caller : SF_vars(Execute(c))
(* A closed connection makes ReadPacket return an error. *)
ReaderFairness == WF_vars(EnqueuePacket) /\ WF_vars(loop = "ended" /\ ReadError)
FairSpec == Spec /\ LoopFairness /\ CallerFairness /\ ReaderFairness

-----------------------------------------------------------------------------
(* Every variable keeps its type and no queue exceeds its capacity.        *)
TypeOK ==
  /\ loop \in {"priority", "select", "ended"}
  /\ priorityTicks \in 0..MaxPriorityTicks
  /\ due \in BOOLEAN
  /\ caller \in [Caller -> {"idle", "executing", "awaiting", "queued",
                            "returned", "refused"}]
  /\ tasks \in Seq(Caller) /\ Len(tasks) <= TaskBuf
  /\ reader \in {"reading", "offer", "dropOldest", "retry", "stopped"}
  /\ read \in 0..MaxPackets
  /\ packets \in Seq(Packet) /\ Len(packets) <= PacketBuf
  /\ closed \in BOOLEAN
  /\ handled \in Seq(Packet)
  /\ lost \subseteq Packet

(* With a single reader the packet just read always finds the room it made *)
(* (bot.go 277-285 is dead code): what is dropped is never the newest, so  *)
(* fresher state still arrives.                                            *)
NewestPacketKept == reader = "retry" => Room

(* What is dropped is older than all that is queued: a burst never loses a *)
(* packet that came after one it keeps.                                    *)
DropsOldestFirst == \A l \in lost, i \in 1..Len(packets) : l < packets[i]

(* A caller's channel closes only after its own task ran: callers waiting  *)
(* for a result are exactly those with a task in the queue.                *)
AwaitedIsQueued ==
  \A c \in Caller :
    caller[c] \in {"awaiting", "queued"} <=> \E i \in 1..Len(tasks) : tasks[i] = c

(* Packets reach their handlers in the order they were read. *)
Inbound == INSTANCE LossyFifo WITH
             Message <- Packet, inFlight <- packets, delivered <- handled
PacketsInOrder == Inbound!Spec

(* However long ticks take, a queued task runs and a queued packet is      *)
(* handled, or dropped as the oldest, unless the loop ends: the bound on   *)
(* priority ticks is what stops over-budget ticks from starving both       *)
(* (bot.go 82-90 tells of the bot that went silent).                       *)
TasksServed ==
  \A c \in Caller : (caller[c] = "awaiting") ~> (caller[c] = "returned" \/ loop = "ended")
PacketsServed ==
  \A p \in Packet :
    (\E i \in 1..Len(packets) : packets[i] = p)
      ~> ((~\E i \in 1..Len(packets) : packets[i] = p) \/ loop = "ended")

NothingStarves == TasksServed /\ PacketsServed

(* Close ends the loop and, through the connection, the reader.            *)
CloseEndsAll == closed ~> (loop = "ended" /\ reader = "stopped")

=============================================================================
