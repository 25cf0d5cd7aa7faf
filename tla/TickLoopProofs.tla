--------------------------- MODULE TickLoopProofs ---------------------------
(***************************************************************************)
(* Theorems about TickLoop for any number of callers and any capacities:   *)
(* what the bounded packet queue drops, and who waits for which task.      *)
(***************************************************************************)
EXTENDS TickLoop, SequenceTheorems, TLAPS

(* The reader has a packet in hand that is not queued yet. *)
InHand == reader \in {"offer", "dropOldest", "retry"}

TypeInv == TypeOK /\ (InHand => read > 0)

(* The queue holds packets in the order they were read; the one in hand is *)
(* newer than all of them and than all that were dropped.                  *)
PacketsSorted ==
  /\ \A i, j \in 1..Len(packets) : i < j => packets[i] < packets[j]
  /\ \A i \in 1..Len(packets) :
       packets[i] <= read /\ (InHand => packets[i] < read)
  /\ \A l \in lost : l <= read /\ (InHand => l < read)

PacketInv == TypeInv /\ NewestPacketKept /\ DropsOldestFirst /\ PacketsSorted

(* No caller has two tasks in the queue. *)
OneTaskEach == \A i, j \in 1..Len(tasks) : tasks[i] = tasks[j] => i = j
TaskInv == TypeInv /\ AwaitedIsQueued /\ OneTaskEach

-----------------------------------------------------------------------------
(* What Append and Tail do to a sequence, element by element. *)
LEMMA AppendElements ==
  ASSUME NEW S, NEW s \in Seq(S), NEW e \in S
  PROVE  /\ Append(s, e) \in Seq(S)
         /\ Len(Append(s, e)) = Len(s) + 1
         /\ \A i \in 1..Len(s) : Append(s, e)[i] = s[i]
         /\ Append(s, e)[Len(s) + 1] = e
OBVIOUS

LEMMA TailElements ==
  ASSUME NEW S, NEW s \in Seq(S), s # << >>
  PROVE  /\ Tail(s) \in Seq(S)
         /\ Len(s) \in Nat /\ Len(s) > 0
         /\ Len(Tail(s)) = Len(s) - 1
         /\ \A i \in 1..Len(Tail(s)) : Tail(s)[i] = s[i + 1]
         /\ Head(s) = s[1]
         /\ Head(s) \in S
OBVIOUS

LEMMA ElementsOf ==
  ASSUME NEW S, NEW s \in Seq(S) PROVE \A i \in 1..Len(s) : s[i] \in S
OBVIOUS

LEMMA PacketsAreNumbers ==
  ASSUME packets \in Seq(Packet) PROVE \A i \in 1..Len(packets) : packets[i] \in Nat
<1>1. \A i \in 1..Len(packets) : packets[i] \in Packet
  BY ElementsOf
<1> QED BY <1>1 DEF Packet

(* A bounded queue that takes one element while it has room, or gives up   *)
(* its head, stays a bounded queue.                                        *)
LEMMA BoundedQueue ==
  ASSUME NEW S, NEW s \in Seq(S), NEW t, NEW e \in S, NEW bound \in Nat,
         Len(s) <= bound,
         \/ t = s
         \/ t = Append(s, e) /\ Len(s) < bound
         \/ s # << >> /\ t = Tail(s)
  PROVE  t \in Seq(S) /\ Len(t) <= bound
<1>0. Len(s) \in Nat
  OBVIOUS
<1>1. CASE t = s
  BY <1>1
<1>2. CASE t = Append(s, e) /\ Len(s) < bound
  BY <1>0, <1>2, AppendElements
<1>3. CASE s # << >> /\ t = Tail(s)
  BY <1>0, <1>3, TailElements
<1> QED BY <1>1, <1>2, <1>3

LEMMA EmptySequence == ASSUME NEW S PROVE << >> \in Seq(S) /\ Len(<< >>) = 0
OBVIOUS

LEMMA TypeInit == Init => TypeInv
<1> SUFFICES ASSUME Init PROVE TypeInv
  OBVIOUS
<1>1. /\ tasks \in Seq(Caller) /\ packets \in Seq(Packet) /\ handled \in Seq(Packet)
      /\ Len(tasks) = 0 /\ Len(packets) = 0
  BY EmptySequence DEF Init
<1>2. due \in BOOLEAN /\ closed \in BOOLEAN /\ ~InHand
  BY DEF Init, InHand
<1>3. /\ priorityTicks \in 0..MaxPriorityTicks /\ read \in 0..MaxPackets
      /\ Len(tasks) <= TaskBuf /\ Len(packets) <= PacketBuf
  BY <1>1, TickLoopAssumption DEF Init
<1> QED BY <1>1, <1>2, <1>3 DEF Init, TypeInv, TypeOK

LEMMA TypeNext == TypeInv /\ [Next]_vars => TypeInv'
<1> SUFFICES ASSUME TypeInv, [Next]_vars PROVE TypeInv'
  OBVIOUS
<1> USE TickLoopAssumption DEF TypeInv
<1>1. CASE TickerFires \/ PriorityTick \/ OfferAll \/ Tick \/ LoopEnds
  <2> USE DEF TickerFires, PriorityTick, OfferAll, Tick, LoopEnds
  <2>1. due' \in BOOLEAN
    BY <1>1 DEF TypeOK
  <2>2. loop' \in {"priority", "select", "ended"}
    BY <1>1 DEF TypeOK
  <2>3. priorityTicks' \in 0..MaxPriorityTicks
    BY <1>1 DEF TypeOK
  <2>4. UNCHANGED <<caller, tasks, reader, read, packets, handled, lost, closed>>
    BY <1>1 DEF taskVars, packetVars
  <2> QED BY <2>1, <2>2, <2>3, <2>4 DEF TypeOK, InHand
<1>2. CASE RunTask
  <2>1. tasks' \in Seq(Caller) /\ Len(tasks') <= TaskBuf
    BY <1>2, TailElements DEF TypeOK, RunTask
  <2>2. caller' \in [Caller -> {"idle", "executing", "awaiting", "queued",
                                "returned", "refused"}]
    BY <1>2 DEF TypeOK, RunTask
  <2> QED BY <1>2, <2>1, <2>2 DEF TypeOK, InHand, RunTask, packetVars
<1>3. CASE HandlePacket
  <2>1. packets' \in Seq(Packet) /\ Len(packets') <= PacketBuf
    BY <1>3, TailElements DEF TypeOK, HandlePacket
  <2>2. handled' \in Seq(Packet)
    BY <1>3, TailElements, AppendElements DEF TypeOK, HandlePacket
  <2> QED BY <1>3, <2>1, <2>2 DEF TypeOK, InHand, HandlePacket, taskVars
<1>4. ASSUME NEW c \in Caller, CallExecute(c) \/ Execute(c) \/ TryExecute(c)
      PROVE TypeInv'
  <2>1. \/ UNCHANGED tasks
        \/ tasks' = Append(tasks, c) /\ Len(tasks) < TaskBuf
    BY <1>4 DEF CallExecute, Execute, TryExecute
  <2>0. tasks \in Seq(Caller) /\ Len(tasks) <= TaskBuf /\ TaskBuf \in Nat
    BY DEF TypeOK
  <2>3. tasks' \in Seq(Caller) /\ Len(tasks') <= TaskBuf
    BY <2>0, <2>1, BoundedQueue
  <2>2. caller' \in [Caller -> {"idle", "executing", "awaiting", "queued",
                                "returned", "refused"}]
    BY <1>4 DEF TypeOK, CallExecute, Execute, TryExecute
  <2> QED BY <1>4, <2>2, <2>3 DEF TypeOK, InHand, CallExecute, Execute,
             TryExecute, loopVars, packetVars
<1>5. CASE ReadPacket \/ ReadError \/ SeesClosed \/ Close
  <2> USE DEF ReadPacket, ReadError, SeesClosed, Close
  <2>1. closed' \in BOOLEAN
    BY <1>5 DEF TypeOK
  <2>2. read' \in 0..MaxPackets /\ (InHand' => read' > 0)
    BY <1>5 DEF TypeOK, InHand, packetVars
  <2>3. reader' \in {"reading", "offer", "dropOldest", "retry", "stopped"}
    BY <1>5 DEF TypeOK, packetVars
  <2>4. UNCHANGED <<loop, priorityTicks, due, caller, tasks, packets, handled, lost>>
    BY <1>5 DEF loopVars, taskVars, packetVars
  <2> QED BY <2>1, <2>2, <2>3, <2>4 DEF TypeOK
<1>6. CASE OfferPacket \/ DropOldestPacket \/ RetryPacket
  <2>1. read \in Packet
    BY <1>6 DEF TypeOK, InHand, OfferPacket, DropOldestPacket, RetryPacket, Packet
  <2>2. \/ UNCHANGED packets
        \/ packets' = Append(packets, read) /\ Len(packets) < PacketBuf
        \/ packets # << >> /\ packets' = Tail(packets)
    BY <1>6 DEF OfferPacket, DropOldestPacket, RetryPacket, Room
  <2>7. packets \in Seq(Packet) /\ Len(packets) <= PacketBuf /\ PacketBuf \in Nat
    BY DEF TypeOK
  <2>3. packets' \in Seq(Packet) /\ Len(packets') <= PacketBuf
    BY <2>1, <2>2, <2>7, BoundedQueue
  <2>4. \/ UNCHANGED lost
        \/ lost' = lost \cup {read}
        \/ packets # << >> /\ lost' = lost \cup {Head(packets)}
    BY <1>6 DEF OfferPacket, DropOldestPacket, RetryPacket
  <2>8. packets # << >> => Head(packets) \in Packet
    BY <2>7, TailElements
  <2>5. lost' \subseteq Packet
    <3>1. lost \subseteq Packet
      BY DEF TypeOK
    <3>2. CASE packets # << >> /\ lost' = lost \cup {Head(packets)}
      BY <2>8, <3>1, <3>2
    <3>3. CASE lost' = lost \cup {read}
      BY <2>1, <3>1, <3>3
    <3> QED BY <2>4, <3>1, <3>2, <3>3
  <2>6. /\ reader' \in {"reading", "dropOldest", "retry"} /\ InHand
        /\ UNCHANGED <<loop, priorityTicks, due, caller, tasks, read, handled, closed>>
    BY <1>6 DEF OfferPacket, DropOldestPacket, RetryPacket, InHand,
       loopVars, taskVars
  <2> QED BY <2>3, <2>5, <2>6 DEF TypeOK
<1>7. CASE UNCHANGED vars
  BY <1>7 DEF TypeOK, InHand, vars
<1> QED BY <1>1, <1>2, <1>3, <1>4, <1>5, <1>6, <1>7
        DEF Next, LoopStep, EnqueuePacket

LEMMA TypeInvariance == Spec => []TypeInv
BY TypeInit, TypeNext, PTL DEF Spec

(* Every variable keeps its type and no queue exceeds its capacity. *)
THEOREM TypeCorrect == Spec => []TypeOK
<1>1. TypeInv => TypeOK
  BY DEF TypeInv
<1> QED BY <1>1, TypeInvariance, PTL

-----------------------------------------------------------------------------
(* A step that leaves the packets and the reader alone keeps what is said  *)
(* of them.                                                                *)
LEMMA PacketStutter ==
  ASSUME PacketInv, TypeInv', UNCHANGED packetVars
  PROVE  PacketInv'
BY DEF PacketInv, packetVars, NewestPacketKept, DropsOldestFirst,
   PacketsSorted, InHand, Room

LEMMA PacketNext == PacketInv /\ [Next]_vars => PacketInv'
<1> SUFFICES ASSUME PacketInv, [Next]_vars PROVE PacketInv'
  OBVIOUS
<1>0. TypeInv /\ TypeInv' /\ packets \in Seq(Packet) /\ read \in Nat
  BY TypeNext, TickLoopAssumption DEF PacketInv, TypeInv, TypeOK
<1>1. CASE \/ TickerFires \/ PriorityTick \/ OfferAll \/ Tick \/ LoopEnds
           \/ RunTask \/ Close
           \/ \E c \in Caller : CallExecute(c) \/ Execute(c) \/ TryExecute(c)
           \/ UNCHANGED vars
  BY <1>0, <1>1, PacketStutter
  DEF TickerFires, PriorityTick, OfferAll, Tick, LoopEnds, RunTask, Close,
      CallExecute, Execute, TryExecute, vars, packetVars
<1>2. CASE HandlePacket
  <2>1. /\ UNCHANGED <<reader, read, lost>>
        /\ packets # << >> /\ packets' = Tail(packets)
    BY <1>2 DEF HandlePacket
  <2>2. /\ Len(packets') = Len(packets) - 1
        /\ Len(packets) \in Nat
        /\ \A i \in 1..Len(packets') : packets'[i] = packets[i + 1]
    BY <1>0, <2>1, TailElements
  <2>3. \A i \in 1..Len(packets') : i + 1 \in 1..Len(packets)
    BY <2>2
  <2>4. NewestPacketKept'
    BY <1>0, <2>1, <2>2, TickLoopAssumption DEF PacketInv, NewestPacketKept, Room
  <2>5. DropsOldestFirst'
    BY <2>1, <2>2, <2>3 DEF PacketInv, DropsOldestFirst
  <2>6. PacketsSorted'
    <3>1. \A i, j \in 1..Len(packets') : i < j => packets'[i] < packets'[j]
      BY <2>2, <2>3 DEF PacketInv, PacketsSorted
    <3> QED BY <2>1, <2>2, <2>3, <3>1 DEF PacketInv, PacketsSorted, InHand
  <2> QED BY <1>0, <2>4, <2>5, <2>6 DEF PacketInv
<1>3. CASE ReadPacket \/ ReadError \/ SeesClosed
  <2>1. /\ UNCHANGED <<packets, lost>> /\ reader' # "retry"
        /\ \/ ~InHand /\ read' = read + 1
           \/ ~InHand' /\ read' = read
    BY <1>3 DEF ReadPacket, ReadError, SeesClosed, InHand
  <2>2. \A i \in 1..Len(packets) : packets[i] \in Nat
    BY <1>0, PacketsAreNumbers
  <2>3. \A l \in lost : l \in Nat
    BY <1>0 DEF TypeInv, TypeOK, Packet
  <2>4. PacketsSorted'
    BY <1>0, <2>1, <2>2, <2>3 DEF PacketInv, PacketsSorted
  <2> QED BY <1>0, <2>1, <2>4 DEF PacketInv, NewestPacketKept, DropsOldestFirst
<1>4. CASE OfferPacket /\ ~Room
  BY <1>0, <1>4 DEF PacketInv, OfferPacket, NewestPacketKept,
     DropsOldestFirst, PacketsSorted, InHand
<1>5. CASE (OfferPacket \/ RetryPacket) /\ Room
  <2>1. /\ InHand /\ reader' = "reading"
        /\ packets' = Append(packets, read)
        /\ UNCHANGED <<read, lost>>
    BY <1>5 DEF OfferPacket, RetryPacket, InHand
  <2>2. read \in Packet
    BY <1>0, <2>1 DEF TypeInv, TypeOK, Packet
  <2>3. /\ Len(packets') = Len(packets) + 1
        /\ Len(packets) \in Nat
        /\ \A i \in 1..Len(packets) : packets'[i] = packets[i]
        /\ packets'[Len(packets) + 1] = read
    BY <1>0, <2>1, <2>2, AppendElements
  <2>4. \A i \in 1..Len(packets') : i \in 1..Len(packets) \/ i = Len(packets) + 1
    BY <2>3
  <2>5. \A i \in 1..Len(packets) : packets[i] \in Nat
    BY <1>0, PacketsAreNumbers
  <2>6. NewestPacketKept'
    BY <2>1 DEF NewestPacketKept
  <2>7. DropsOldestFirst'
    BY <2>1, <2>3, <2>4 DEF PacketInv, DropsOldestFirst, PacketsSorted
  <2>8. PacketsSorted'
    <3>1. \A i, j \in 1..Len(packets') : i < j => packets'[i] < packets'[j]
      BY <2>1, <2>3, <2>4 DEF PacketInv, PacketsSorted
    <3>2. \A i \in 1..Len(packets') : packets'[i] <= read
      BY <1>0, <2>1, <2>3, <2>4 DEF PacketInv, PacketsSorted
    <3> QED BY <2>1, <3>1, <3>2 DEF PacketInv, PacketsSorted, InHand
  <2> QED BY <1>0, <2>6, <2>7, <2>8 DEF PacketInv
<1>6. CASE RetryPacket /\ ~Room
  (* The default branch of the last select is never taken. *)
  BY <1>6 DEF RetryPacket, PacketInv, NewestPacketKept
<1>7. CASE DropOldestPacket /\ packets = << >>
  <2>1. UNCHANGED <<packets, read, lost>> /\ InHand /\ InHand' /\ Len(packets) = 0
    BY <1>7 DEF DropOldestPacket, InHand
  <2> QED BY <1>0, <1>7, <2>1, TickLoopAssumption
          DEF PacketInv, NewestPacketKept, DropsOldestFirst, PacketsSorted, Room
<1>8. CASE DropOldestPacket /\ packets # << >>
  <2>1. /\ UNCHANGED read /\ InHand /\ InHand'
        /\ packets' = Tail(packets)
        /\ lost' = lost \cup {Head(packets)}
    BY <1>8 DEF DropOldestPacket, InHand
  <2>2. /\ Len(packets') = Len(packets) - 1
        /\ Len(packets) \in Nat /\ Len(packets) > 0
        /\ \A i \in 1..Len(packets') : packets'[i] = packets[i + 1]
        /\ Head(packets) = packets[1]
    BY <1>0, <1>8, <2>1, TailElements
  <2>3. \A i \in 1..Len(packets') : i + 1 \in 1..Len(packets) /\ 1 < i + 1
    BY <2>2
  <2>4. NewestPacketKept'
    BY <1>0, <2>2, TickLoopAssumption DEF TypeInv, TypeOK, NewestPacketKept, Room
  <2>5. 1 \in 1..Len(packets)
    BY <2>2
  <2>6. DropsOldestFirst'
    BY <2>1, <2>2, <2>3, <2>5 DEF PacketInv, DropsOldestFirst, PacketsSorted
  <2>7. PacketsSorted'
    <3>1. \A i, j \in 1..Len(packets') : i < j => packets'[i] < packets'[j]
      BY <2>2, <2>3 DEF PacketInv, PacketsSorted
    <3>2. \A l \in lost' : l <= read /\ l < read
      BY <2>1, <2>2, <2>5 DEF PacketInv, PacketsSorted
    <3> QED BY <2>1, <2>2, <2>3, <3>1, <3>2 DEF PacketInv, PacketsSorted
  <2> QED BY <1>0, <2>4, <2>6, <2>7 DEF PacketInv
<1> QED BY <1>1, <1>2, <1>3, <1>4, <1>5, <1>6, <1>7, <1>8
        DEF Next, LoopStep, EnqueuePacket, OfferPacket, RetryPacket

LEMMA PacketInvariance == Spec => []PacketInv
<1>1. Init => PacketInv
  BY TypeInit DEF Init, PacketInv, NewestPacketKept, DropsOldestFirst,
     PacketsSorted, InHand
<1> QED BY <1>1, PacketNext, PTL DEF Spec

(* The reader always finds the room it made: the newest packet is never    *)
(* the one that is dropped.                                                *)
THEOREM NewestKept == Spec => []NewestPacketKept
<1>1. PacketInv => NewestPacketKept
  BY DEF PacketInv
<1> QED BY <1>1, PacketInvariance, PTL

(* Everything dropped is older than everything still queued. *)
THEOREM OldestDropped == Spec => []DropsOldestFirst
<1>1. PacketInv => DropsOldestFirst
  BY DEF PacketInv
<1> QED BY <1>1, PacketInvariance, PTL

-----------------------------------------------------------------------------
LEMMA TaskNext == TaskInv /\ [Next]_vars => TaskInv'
<1> SUFFICES ASSUME TaskInv, [Next]_vars PROVE TaskInv'
  OBVIOUS
<1>0. TypeInv /\ TypeInv' /\ tasks \in Seq(Caller) /\ caller \in [Caller ->
        {"idle", "executing", "awaiting", "queued", "returned", "refused"}]
  BY TypeNext DEF TaskInv, TypeInv, TypeOK
<1>1. ASSUME UNCHANGED taskVars PROVE TaskInv'
  BY <1>0, <1>1 DEF TaskInv, taskVars, AwaitedIsQueued, OneTaskEach
<1>2. ASSUME NEW c \in Caller, NEW to \in {"awaiting", "queued"},
             caller[c] \in {"idle", "executing"},
             tasks' = Append(tasks, c), caller' = [caller EXCEPT ![c] = to]
      PROVE  TaskInv'
  <2>1. /\ Len(tasks') = Len(tasks) + 1
        /\ Len(tasks) \in Nat
        /\ \A i \in 1..Len(tasks) : tasks'[i] = tasks[i]
        /\ tasks'[Len(tasks) + 1] = c
    BY <1>0, <1>2, AppendElements
  <2>2. \A i \in 1..Len(tasks') : i \in 1..Len(tasks) \/ i = Len(tasks) + 1
    BY <2>1
  <2>3. \A i \in 1..Len(tasks) : tasks[i] # c
    BY <1>2 DEF TaskInv, AwaitedIsQueued
  <2>4. OneTaskEach'
    BY <2>1, <2>2, <2>3 DEF TaskInv, OneTaskEach
  <2>5. AwaitedIsQueued'
    <3> SUFFICES ASSUME NEW d \in Caller
                 PROVE  caller'[d] \in {"awaiting", "queued"}
                          <=> \E i \in 1..Len(tasks') : tasks'[i] = d
      BY DEF AwaitedIsQueued
    <3>1. CASE d = c
      BY <1>0, <1>2, <2>1, <3>1
    <3>2. CASE d # c
      BY <1>0, <1>2, <2>1, <2>2, <3>2 DEF TaskInv, AwaitedIsQueued
    <3> QED BY <3>1, <3>2
  <2> QED BY <1>0, <2>4, <2>5 DEF TaskInv
<1>3. ASSUME NEW c \in Caller, NEW to \in {"executing", "refused"},
             caller[c] \in {"idle", "executing"},
             UNCHANGED tasks, caller' = [caller EXCEPT ![c] = to]
      PROVE  TaskInv'
  <2>1. ~\E i \in 1..Len(tasks) : tasks[i] = c
    BY <1>3 DEF TaskInv, AwaitedIsQueued
  <2> QED BY <1>0, <1>3, <2>1 DEF TaskInv, AwaitedIsQueued, OneTaskEach
<1>4. CASE RunTask
  <2> DEFINE c == Head(tasks)
  <2>1. /\ tasks # << >>
        /\ tasks' = Tail(tasks)
        /\ caller' = [caller EXCEPT ![c] = "returned"]
    BY <1>4 DEF RunTask
  <2>2. /\ Len(tasks') = Len(tasks) - 1
        /\ Len(tasks) \in Nat /\ Len(tasks) > 0
        /\ \A i \in 1..Len(tasks') : tasks'[i] = tasks[i + 1]
        /\ c = tasks[1] /\ c \in Caller
    BY <1>0, <2>1, TailElements
  <2> HIDE DEF c
  <2>3. \A i \in 1..Len(tasks') : i + 1 \in 1..Len(tasks) /\ i + 1 # 1
    BY <2>2
  <2>4. \A i \in 1..Len(tasks) : i = 1 \/ i - 1 \in 1..Len(tasks')
    BY <2>2
  <2>5. OneTaskEach'
    BY <2>2, <2>3 DEF TaskInv, OneTaskEach
  <2>6. AwaitedIsQueued'
    <3> SUFFICES ASSUME NEW d \in Caller
                 PROVE  caller'[d] \in {"awaiting", "queued"}
                          <=> \E i \in 1..Len(tasks') : tasks'[i] = d
      BY DEF AwaitedIsQueued
    <3>1. CASE d = c
      <4>1. caller'[d] = "returned"
        BY <1>0, <2>1, <2>2, <3>1
      <4>2. 1 \in 1..Len(tasks)
        BY <2>2
      <4>3. \A i \in 1..Len(tasks') : tasks'[i] # c
        BY <2>2, <2>3, <4>2 DEF TaskInv, OneTaskEach
      <4> QED BY <3>1, <4>1, <4>3
    <3>2. CASE d # c
      <4>1. caller'[d] = caller[d]
        BY <1>0, <2>1, <2>2, <3>2
      <4>2. (\E i \in 1..Len(tasks') : tasks'[i] = d)
              => \E i \in 1..Len(tasks) : tasks[i] = d
        BY <2>2, <2>3
      <4>3. ASSUME NEW i \in 1..Len(tasks), tasks[i] = d
            PROVE  \E j \in 1..Len(tasks') : tasks'[j] = d
        <5>1. i # 1
          BY <2>2, <3>2, <4>3
        <5>2. i - 1 \in 1..Len(tasks') /\ (i - 1) + 1 = i
          BY <2>4, <5>1
        <5>3. tasks'[i - 1] = tasks[(i - 1) + 1]
          BY <2>2, <5>2
        <5> QED BY <4>3, <5>2, <5>3
      <4> QED BY <4>1, <4>2, <4>3 DEF TaskInv, AwaitedIsQueued
    <3> QED BY <3>1, <3>2
  <2> QED BY <1>0, <2>5, <2>6 DEF TaskInv
<1>5. CASE \/ TickerFires \/ PriorityTick \/ OfferAll \/ Tick \/ LoopEnds
           \/ HandlePacket \/ ReadPacket \/ ReadError \/ SeesClosed
           \/ OfferPacket \/ DropOldestPacket \/ RetryPacket \/ Close
           \/ UNCHANGED vars
  BY <1>1, <1>5 DEF TickerFires, PriorityTick, OfferAll, Tick, LoopEnds,
     HandlePacket, ReadPacket, ReadError, SeesClosed, OfferPacket,
     DropOldestPacket, RetryPacket, Close, vars, taskVars
<1>6. ASSUME NEW c \in Caller, CallExecute(c) \/ Execute(c) \/ TryExecute(c)
      PROVE TaskInv'
  BY <1>2, <1>3, <1>6 DEF CallExecute, Execute, TryExecute
<1> QED BY <1>4, <1>5, <1>6 DEF Next, LoopStep, EnqueuePacket

(* The callers that wait for a task are those whose task is queued: no     *)
(* caller is released by somebody else's task, none waits for nothing.     *)
THEOREM WaitersHaveTasks == Spec => []AwaitedIsQueued
<1>1. Init => TaskInv
  BY TypeInit DEF Init, TaskInv, AwaitedIsQueued, OneTaskEach
<1>2. TaskInv => AwaitedIsQueued
  BY DEF TaskInv
<1> QED BY <1>1, <1>2, TaskNext, PTL DEF Spec
-----------------------------------------------------------------------------
(* Taking the head of a queue off is losing its first message.             *)
LEMMA LoseHead ==
  ASSUME NEW S, NEW s \in Seq(S), s # << >>
  PROVE  /\ 1 \in 1..Len(s)
         /\ Tail(s) = SubSeq(s, 1, 1 - 1) \o SubSeq(s, 1 + 1, Len(s))
<1>1. Len(s) \in Nat /\ 1 \in 1..Len(s)
  BY TailElements
<1>2. SubSeq(s, 1, 1 - 1) = << >>
  BY <1>1, SubSeqEmpty
<1>3. Tail(s) = SubSeq(s, 1 + 1, Len(s)) /\ Tail(s) \in Seq(S)
  BY TailIsSubSeq, TailElements
<1>4. << >> \o Tail(s) = Tail(s)
  BY <1>3, ConcatEmptySeq
<1> QED BY <1>1, <1>2, <1>3, <1>4

(* Every step of the loop, its callers and its reader is a step of the     *)
(* abstract queue or leaves it alone.                                      *)
LEMMA InboundStep ==
  PacketInv /\ [Next]_vars => [Inbound!Next]_(Inbound!vars)
<1> SUFFICES ASSUME PacketInv, [Next]_vars
             PROVE  [Inbound!Next]_(Inbound!vars)
  OBVIOUS
<1>0. packets \in Seq(Packet)
  BY DEF PacketInv, TypeInv, TypeOK
<1>1. ASSUME UNCHANGED <<packets, handled>> PROVE UNCHANGED Inbound!vars
  BY <1>1 DEF Inbound!vars
<1>2. CASE \/ TickerFires \/ PriorityTick \/ OfferAll \/ Tick \/ LoopEnds
           \/ RunTask \/ Close
           \/ \E c \in Caller : CallExecute(c) \/ Execute(c) \/ TryExecute(c)
           \/ ReadPacket \/ ReadError \/ SeesClosed
           \/ UNCHANGED vars
  BY <1>1, <1>2
  DEF TickerFires, PriorityTick, OfferAll, Tick, LoopEnds, RunTask, Close,
      CallExecute, Execute, TryExecute, ReadPacket, ReadError, SeesClosed,
      vars, packetVars
<1>3. CASE HandlePacket
  BY <1>3 DEF HandlePacket, Inbound!Next, Inbound!Deliver
<1>4. ASSUME OfferPacket \/ RetryPacket PROVE [Inbound!Next]_(Inbound!vars)
  <2>1. \/ packets' = Append(packets, read)
        \/ UNCHANGED packets
    BY <1>4 DEF OfferPacket, RetryPacket
  <2>2. read \in Packet /\ UNCHANGED handled
    BY <1>4 DEF OfferPacket, RetryPacket, PacketInv, TypeInv, TypeOK, InHand,
       Packet
  <2> QED BY <1>1, <2>1, <2>2 DEF Inbound!Next, Inbound!Accept
<1>5. CASE DropOldestPacket
  <2>1. UNCHANGED handled /\ (UNCHANGED packets \/ (packets # << >> /\ packets' = Tail(packets)))
    BY <1>5 DEF DropOldestPacket
  <2>2. ASSUME packets # << >>, packets' = Tail(packets) PROVE Inbound!Lose
    BY <1>0, <2>1, <2>2, LoseHead DEF Inbound!Lose
  <2> QED BY <1>1, <2>1, <2>2 DEF Inbound!Next
<1> QED BY <1>2, <1>3, <1>4, <1>5 DEF Next, LoopStep, EnqueuePacket

(* Packets reach their handlers in the order in which they were read, each *)
(* at most once: reader, queue and loop implement a queue that may lose.   *)
THEOREM PacketsKeepOrder == Spec => PacketsInOrder
<1>1. Init => Inbound!Init
  BY DEF Init, Inbound!Init
<1> QED BY <1>1, PacketInvariance, InboundStep, PTL DEF Spec, PacketsInOrder,
           Inbound!Spec
=============================================================================
