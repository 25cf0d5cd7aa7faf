------------------------------- MODULE ChatOut -------------------------------
(***************************************************************************)
(* The bot side of the instruction RPC (gotestbds/handler.go and           *)
(* gotestbds/bot/chat_out.go): every finished instruction reports its      *)
(* status as one chat line or as several paced fragments, all of them      *)
(* through one bounded buffer that a background writer drains.             *)
(*                                                                         *)
(* A process p is one runAction goroutine together with the fragment       *)
(* goroutine broadcastStatus may start: the second begins when the first   *)
(* has queued its line, so their steps never overlap.  The three selects   *)
(* of EnqueueChat are three steps, since several processes call it.        *)
(***************************************************************************)
EXTENDS Integers, Sequences, FiniteSets

CONSTANTS
  Process,      \* the runAction goroutines
  MaxLines,     \* bound on the lines EncodeStatusMessages returns
  ChatOutBuf    \* capacity of the buffer (64 in the code)

VARIABLES
  pc,        \* where each process is
  size,      \* lines of the process' envelope; 0 before it reports
  next,      \* number of the line it is queueing or waiting to queue
  chatOut,   \* the buffer
  writer,    \* "ready", "writing" or "exited"
  writing,   \* lines handed to Actor.Chat and not written yet: none or one
  closed,    \* the bot is closed
  sent,      \* history: lines written to the connection, in order
  lost       \* history: lines dropped by EnqueueChat or by a failed write

processVars == <<pc, size, next>>
writerVars == <<writer, writing, sent>>
vars == <<pc, size, next, chatOut, writer, writing, closed, sent, lost>>

Line == Process \X (1..MaxLines)
Current(p) == <<p, next[p]>>
InEnqueue(p) == pc[p] \in {"offer", "dropOldest", "retry"}

Init ==
  /\ pc = [p \in Process |-> "running"]
  /\ size = [p \in Process |-> 0]
  /\ next = [p \in Process |-> 1]
  /\ chatOut = << >>
  /\ writer = "ready"
  /\ writing = << >>
  /\ closed = FALSE
  /\ sent = << >>
  /\ lost = {}

-----------------------------------------------------------------------------
(* The instruction has returned: broadcastStatus encodes the envelope into *)
(* n lines and queues the first, without looking at b.Closed().            *)
BroadcastStatus(p, n) ==
  /\ pc[p] = "running"
  /\ size' = [size EXCEPT ![p] = n]
  /\ pc' = [pc EXCEPT ![p] = "offer"]
  /\ UNCHANGED <<next, chatOut, writerVars, closed, lost>>

(* EnqueueChat has returned: the process is done, or paces itself before   *)
(* the next fragment.                                                      *)
Return(p) ==
  pc' = [pc EXCEPT ![p] = IF next[p] = size[p] THEN "done" ELSE "pacing"]

HasRoom == Len(chatOut) < ChatOutBuf

(* First select: queue the line if the buffer has room. *)
Offer(p) ==
  /\ pc[p] = "offer"
  /\ \/ /\ HasRoom
        /\ chatOut' = Append(chatOut, Current(p))
        /\ Return(p)
     \/ /\ ~HasRoom
        /\ pc' = [pc EXCEPT ![p] = "dropOldest"]
        /\ UNCHANGED chatOut
  /\ UNCHANGED <<size, next, writerVars, closed, lost>>

(* Second select: drop the oldest line, if the writer has not taken it.    *)
DropOldest(p) ==
  /\ pc[p] = "dropOldest"
  /\ \/ /\ chatOut # << >>
        /\ chatOut' = Tail(chatOut)
        /\ lost' = lost \cup {Head(chatOut)}
     \/ /\ chatOut = << >>
        /\ UNCHANGED <<chatOut, lost>>
  /\ pc' = [pc EXCEPT ![p] = "retry"]
  /\ UNCHANGED <<size, next, writerVars, closed>>

(* Third select: another process may have taken the room, and then it is   *)
(* the newest line that is lost.                                           *)
Retry(p) ==
  /\ pc[p] = "retry"
  /\ \/ /\ HasRoom
        /\ chatOut' = Append(chatOut, Current(p))
        /\ UNCHANGED lost
     \/ /\ ~HasRoom
        /\ lost' = lost \cup {Current(p)}
        /\ UNCHANGED chatOut
  /\ Return(p)
  /\ UNCHANGED <<size, next, writerVars, closed>>

(* statusFragmentInterval has passed; a closed bot may still win the       *)
(* select against the interval or lose it.                                 *)
NextFragment(p) ==
  /\ pc[p] = "pacing"
  /\ next' = [next EXCEPT ![p] = @ + 1]
  /\ pc' = [pc EXCEPT ![p] = "offer"]
  /\ UNCHANGED <<size, chatOut, writerVars, closed, lost>>

StopOnClose(p) ==
  /\ pc[p] = "pacing"
  /\ closed
  /\ pc' = [pc EXCEPT ![p] = "done"]
  /\ UNCHANGED <<size, next, chatOut, writerVars, closed, lost>>

(* startChatWriter takes the head of the buffer and hands it to a          *)
(* goroutine of its own that calls Actor.Chat.                             *)
MutantPeek ==
  /\ writer = "ready"
  /\ chatOut # << >>
  /\ writer' = "writing"
  /\ writing' = <<Head(chatOut)>>
  /\ UNCHANGED <<processVars, chatOut, closed, sent, lost>>
TakeLine ==
  /\ writer = "ready"
  /\ chatOut # << >>
  /\ writer' = "writing"
  /\ writing' = <<Head(chatOut)>>
  /\ chatOut' = Tail(chatOut)
  /\ UNCHANGED <<processVars, closed, sent, lost>>

(* Actor.Chat returns.  On a closed bot the write may fail, which Chat     *)
(* ignores.                                                                *)
Written ==
  /\ writing # << >>
  /\ \/ sent' = sent \o writing /\ UNCHANGED lost
     \/ closed /\ lost' = lost \cup {writing[1]} /\ UNCHANGED sent
  /\ writing' = << >>
  /\ UNCHANGED <<processVars, chatOut, writer, closed>>

(* The writer sees that it did, and goes on. *)
WriteSeen ==
  /\ writer = "writing"
  /\ writing = << >>
  /\ writer' = "ready"
  /\ UNCHANGED <<processVars, chatOut, writing, closed, sent, lost>>

MutantWaitForWrite == FALSE /\ UNCHANGED vars
(* The write has taken chatWriteTimeout: the writer closes the bot.        *)
WriteTimesOut ==
  /\ writer = "writing"
  /\ writer' = "exited"
  /\ closed' = TRUE
  /\ UNCHANGED <<processVars, chatOut, writing, sent, lost>>

(* The writer sees the bot closed, between two lines or during a write.    *)
WriterExits ==
  /\ closed
  /\ writer # "exited"
  /\ writer' = "exited"
  /\ UNCHANGED <<processVars, chatOut, writing, closed, sent, lost>>

(* Bot.Close, from anywhere else. *)
Close ==
  /\ ~closed
  /\ closed' = TRUE
  /\ UNCHANGED <<processVars, chatOut, writerVars, lost>>

Enqueue(p) == Offer(p) \/ DropOldest(p) \/ Retry(p)
Report(p) == Enqueue(p) \/ NextFragment(p) \/ StopOnClose(p)
Writer == TakeLine \/ Written \/ WriteSeen \/ WriteTimesOut \/ WriterExits

Next ==
  \/ \E p \in Process, n \in 1..MaxLines : BroadcastStatus(p, n)
  \/ \E p \in Process : Report(p)
  \/ Writer
  \/ Close

Spec == Init /\ [][Next]_vars

-----------------------------------------------------------------------------
(* A line that waits in the buffer.                                        *)
Queued(l) == \E i \in 1..Len(chatOut) : chatOut[i] = l
=============================================================================
