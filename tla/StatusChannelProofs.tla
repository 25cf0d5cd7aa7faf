------------------------- MODULE StatusChannelProofs -------------------------
(***************************************************************************)
(* Theorems about the instruction RPC end to end, for any number of        *)
(* requests, lines and undecodable actions and any capacity of the bot's   *)
(* buffer: the buffer and its writer implement a lossy queue, the client   *)
(* behaves as InstructionClient alone does, a whole reply settles its      *)
(* request and, when every action decodes, nothing else resolves it.       *)
(***************************************************************************)
EXTENDS StatusChannel, SequenceTheorems, TLAPS

(* The client's own module with its theorems.                              *)
Addon == INSTANCE InstructionClientProofs WITH
           Bot <- {bot}, Envelope <- Process, MaxParts <- MaxLines

(* The lines of the statuses reported so far.                              *)
RealLine == {l \in Out!Line : l[2] <= size[l[1]]}

(* What a process has reported and how far it has come.                    *)
Reported ==
  /\ pc \in [Process -> {"running", "offer", "dropOldest", "retry", "pacing", "done"}]
  /\ size \in [Process -> 0..MaxLines]
  /\ next \in [Process -> Nat \ {0}]
  /\ \A p \in Process :
       /\ pc[p] = "running" => size[p] = 0 /\ next[p] = 1
       /\ Out!InEnqueue(p) => next[p] <= size[p]
       /\ pc[p] = "pacing" => next[p] < size[p]

(* Whatever is on its way was reported, and the writer has one line in its *)
(* hands at most.                                                          *)
OnTheWay ==
  /\ chatOut \in Seq(RealLine)
  /\ writing \in Seq(RealLine)
  /\ sent \in Seq(RealLine)
  /\ Len(writing) <= 1
  /\ writer = "ready" => writing = << >>
  /\ taken \in Nat
  /\ relayed \subseteq RealLine

Slots(r) == partBuffers[<<bot, r>>]
Fragments(r) == {k \in 1..size[r] : <<r, k>> \in relayed}
Filled(r) == {k \in DOMAIN Slots(r) : Slots(r)[k] # Hole}

(* The buffer of a request holds only fragments of its own reply that the  *)
(* script has received, and of a pending request all of those, which are   *)
(* not all there are.  An instruction that never left reports nothing.     *)
Reassembly(r) ==
  /\ \/ Slots(r) = Client!NoBuffer
     \/ size[r] > 1 /\ Slots(r) \in [1..size[r] -> {r, Hole}]
  /\ Filled(r) \subseteq Fragments(r)
  /\ r \in Client!Pending => Fragments(r) \subseteq Filled(r) /\ ~WholeReply(r)
  /\ promise[r] \in {"unsent", "threw"} => size[r] = 0
  /\ Foreign = {} /\ promise[r] = "resolved" => WholeReply(r)

IInv ==
  /\ Addon!IInv
  /\ Reported
  /\ OnTheWay
  /\ \A r \in Id : Reassembly(r)

-----------------------------------------------------------------------------
(* The client of the channel is the client of InstructionClient.           *)
LEMMA ClientAssumed == Addon!ClientAssumption
<1> QED BY ChannelAssumption DEF Addon!ClientAssumption, Process

LEMMA ClientStep ==
  ASSUME Reported, OnTheWay, [Next]_vars
  PROVE  [Addon!Next]_(Addon!vars)
<1>1. ASSUME UNCHANGED clientVars PROVE UNCHANGED Addon!vars
  BY <1>1 DEF clientVars, Addon!vars
<1>2. CASE \/ \E p \in Process : BotReports(p)
           \/ BotSteps \/ ServerDrops \/ UNCHANGED vars
  BY <1>1, <1>2 DEF BotReports, BotSteps, OfBot, ServerDrops, vars
<1>3. CASE ServerRelays
  <2> DEFINE l == sent[taken + 1]
             p == l[1]
  <2>1. taken + 1 \in 1..Len(sent) /\ Listen(l)
    BY <1>3 DEF ServerRelays, OnTheWay
  <2>2. l \in RealLine
    BY <2>1, ElementOfSeq DEF OnTheWay
  <2> HIDE DEF l
  <2>3. /\ p \in Process /\ l[2] \in 1..size[p] /\ size[p] \in 1..MaxLines
        /\ l[2] \in 1..MaxLines
    BY <2>2 DEF RealLine, Out!Line, Reported
  <2>4. EchoedId(p) \in Id \cup {NoId}
    BY <2>3 DEF EchoedId, Process
  <2>5. CASE Client!ReceiveStatus(bot, EchoedId(p))
    <3>1. Addon!ReceiveStatus(bot, EchoedId(p))
      BY <2>5 DEF Client!ReceiveStatus, Client!Deliver, Addon!ReceiveStatus, Addon!Deliver,
                  Client!Addressee, Addon!Addressee, Client!Leave, Addon!Leave,
                  Client!Pending, Addon!Pending, Client!Id, Addon!Id, Client!NoId, Addon!NoId,
                  Client!NoBuffer, Addon!NoBuffer,
                  Client!requestVars, Addon!requestVars, Client!historyVars, Addon!historyVars
    <3> QED BY <2>4, <3>1 DEF Addon!Next, Addon!Id, Addon!NoId, Id, NoId
  <2>6. CASE EchoedId(p) # NoId /\ Client!ReceiveStatusPart(bot, p, l[2], size[p], p)
    <3>1. Addon!ReceiveStatusPart(bot, p, l[2], size[p], p)
      BY <2>6 DEF Client!ReceiveStatusPart, Addon!ReceiveStatusPart,
                  Client!Buffered, Addon!Buffered, Client!Complete, Addon!Complete,
                  Client!Parses, Addon!Parses, Client!Deliver, Addon!Deliver,
                  Client!Addressee, Addon!Addressee, Client!Leave, Addon!Leave,
                  Client!Pending, Addon!Pending, Client!Id, Addon!Id, Client!NoId, Addon!NoId,
                  Client!NoBuffer, Addon!NoBuffer,
                  Client!requestVars, Addon!requestVars, Client!historyVars, Addon!historyVars
    <3>2. p \in Id
      BY <2>3, <2>6 DEF EchoedId, Process
    <3> QED BY <2>3, <3>1, <3>2 DEF Addon!Next, Addon!Id, Id
  <2>7. CASE UNCHANGED clientVars
    BY <1>1, <2>7
  <2> QED BY <2>1, <2>5, <2>6, <2>7 DEF Listen
<1>4. CASE ClientSteps
  <2>1. CASE Client!RunAction(bot)
    BY <2>1 DEF Addon!Next, Client!RunAction, Addon!RunAction, Client!FreshId, Addon!FreshId
  <2>2. ASSUME NEW r \in Id, Client!Timeout(r) PROVE Addon!Next
    <3>1. Addon!Timeout(r)
      BY <2>2 DEF Client!Timeout, Addon!Timeout, Client!Leave, Addon!Leave,
                  Client!Id, Addon!Id, Client!NoBuffer, Addon!NoBuffer
    <3> QED BY <3>1 DEF Addon!Next, Addon!Id, Id
  <2>3. CASE Client!CancelAllInstructions
    <3>1. Addon!CancelAllInstructions
      BY <2>3 DEF Client!CancelAllInstructions, Addon!CancelAllInstructions,
                  Client!Leave, Addon!Leave, Client!Pending, Addon!Pending,
                  Client!Id, Addon!Id
    <3> QED BY <3>1 DEF Addon!Next
  <2> QED BY <1>4, <2>1, <2>2, <2>3 DEF ClientSteps
<1> QED BY <1>2, <1>3, <1>4 DEF Next

-----------------------------------------------------------------------------
LEMMA InitEstablishes == Init => IInv
<1> SUFFICES ASSUME Init PROVE IInv
  OBVIOUS
<1> USE DEF Init, Client!Init, Out!Init
<1>1. Addon!IInv
  <2>1. Addon!Init
    BY DEF Addon!Init, Client!NoBuffer, Addon!NoBuffer, Client!Id, Addon!Id
  <2> QED BY <2>1, ClientAssumed, Addon!InitEstablishes
<1>2. Reported
  BY ChannelAssumption DEF Reported, Out!InEnqueue
<1>3. OnTheWay
  BY DEF OnTheWay
<1>4. \A r \in Id : size[r] = 0 /\ promise[r] = "unsent" /\ pending[r] = NoBot
                    /\ Slots(r) = Client!NoBuffer
  BY DEF Process, Id, Client!Id, Slots
<1>5. \A r \in Id : Reassembly(r)
  BY <1>4 DEF Reassembly, Fragments, Filled, WholeReply, Client!Pending, Client!NoBuffer
<1> QED BY <1>1, <1>2, <1>3, <1>5 DEF IInv

(* A step of the bot's goroutines, of its writer or of Close.  No size     *)
(* changes, so nothing that is on its way stops being a line of a status.  *)
LEMMA BotKeeps ==
  ASSUME Reported, OnTheWay, BotSteps
  PROVE  Reported' /\ OnTheWay' /\ UNCHANGED <<size, clientVars, relayed>>
<1>1. UNCHANGED <<clientVars, taken, relayed>>
  BY DEF BotSteps, OfBot
<1> USE DEF Out!processVars, Out!writerVars
<1>2. ASSUME UNCHANGED <<size, chatOut, writing, sent>>,
             writer' # "ready" \/ writer' = writer \/ writing = << >>
      PROVE  OnTheWay'
  BY <1>1, <1>2 DEF OnTheWay, RealLine, Out!Line
<1>3. ASSUME NEW p \in Process, Out!Enqueue(p) PROVE Reported' /\ OnTheWay' /\ size' = size
  <2>1. /\ pc[p] \in {"offer", "dropOldest", "retry"}
        /\ UNCHANGED <<size, next, writer, writing, sent>>
    BY <1>3 DEF Out!Enqueue, Out!Offer, Out!DropOldest, Out!Retry
  <2>2. next[p] <= size[p] /\ next[p] \in Nat \ {0} /\ size[p] \in 0..MaxLines
    BY <2>1 DEF Reported, Out!InEnqueue
  <2>3. <<p, next[p]>> \in RealLine
    BY <2>2, ChannelAssumption DEF RealLine, Out!Line
  <2>4. \/ chatOut' = Append(chatOut, <<p, next[p]>>)
        \/ chatOut # << >> /\ chatOut' = Tail(chatOut)
        \/ chatOut' = chatOut
    BY <1>3 DEF Out!Enqueue, Out!Offer, Out!DropOldest, Out!Retry, Out!Current
  <2>5. chatOut' \in Seq(RealLine)
    <3>1. chatOut \in Seq(RealLine)
      BY DEF OnTheWay
    <3>2. Append(chatOut, <<p, next[p]>>) \in Seq(RealLine)
      BY <2>3, <3>1, AppendProperties
    <3>3. chatOut # << >> => Tail(chatOut) \in Seq(RealLine)
      BY <3>1, HeadTailProperties
    <3> QED BY <2>4, <3>1, <3>2, <3>3
  <2>6. OnTheWay'
    BY <1>1, <2>1, <2>5 DEF OnTheWay, RealLine, Out!Line
  <2>7. \/ pc' = [pc EXCEPT ![p] = IF next[p] = size[p] THEN "done" ELSE "pacing"]
        \/ pc' = [pc EXCEPT ![p] = "dropOldest"]
        \/ pc' = [pc EXCEPT ![p] = "retry"]
    BY <1>3 DEF Out!Enqueue, Out!Offer, Out!DropOldest, Out!Retry, Out!Return
  <2>8. Reported'
    BY <2>1, <2>2, <2>7 DEF Reported, Out!InEnqueue
  <2> QED BY <2>1, <2>6, <2>8
<1>4. ASSUME NEW p \in Process, Out!NextFragment(p) PROVE Reported' /\ OnTheWay' /\ size' = size
  <2>1. OnTheWay' /\ size' = size
    BY <1>2, <1>4 DEF Out!NextFragment
  <2>2. Reported'
    BY <1>4 DEF Reported, Out!NextFragment, Out!InEnqueue
  <2> QED BY <2>1, <2>2
<1>5. ASSUME NEW p \in Process, Out!StopOnClose(p) PROVE Reported' /\ OnTheWay' /\ size' = size
  <2>1. OnTheWay' /\ size' = size
    BY <1>2, <1>5 DEF Out!StopOnClose
  <2>2. Reported'
    BY <1>5 DEF Reported, Out!StopOnClose, Out!InEnqueue
  <2> QED BY <2>1, <2>2
<1>6. ASSUME UNCHANGED <<pc, size, next>> PROVE Reported'
  BY <1>6 DEF Reported, Out!InEnqueue
<1>7. CASE Out!TakeLine
  <2>1. Head(chatOut) \in RealLine /\ Tail(chatOut) \in Seq(RealLine)
    BY <1>7 DEF Out!TakeLine, OnTheWay
  <2>2. /\ writing' = <<Head(chatOut)>> /\ chatOut' = Tail(chatOut)
        /\ writer' = "writing" /\ UNCHANGED <<pc, size, next, sent>>
    BY <1>7 DEF Out!TakeLine
  <2>3. RealLine' = RealLine
    BY <2>2 DEF RealLine, Out!Line
  <2>4. OnTheWay'
    BY <1>1, <2>1, <2>2, <2>3 DEF OnTheWay
  <2> QED BY <1>1, <1>6, <2>2, <2>4
<1>8. CASE Out!Written
  <2>1. sent \o writing \in Seq(RealLine)
    BY DEF OnTheWay
  <2>2. /\ sent' = sent \o writing \/ sent' = sent
        /\ writing' = << >> /\ UNCHANGED <<pc, size, next, chatOut, writer>>
    BY <1>8 DEF Out!Written
  <2>3. RealLine' = RealLine
    BY <2>2 DEF RealLine, Out!Line
  <2>4. sent' \in Seq(RealLine) /\ writing' \in Seq(RealLine) /\ Len(writing') <= 1
    <3>1. sent' \in Seq(RealLine)
      BY <2>1, <2>2 DEF OnTheWay
    <3>2. << >> \in Seq(RealLine) /\ Len(<< >>) <= 1
      OBVIOUS
    <3> QED BY <2>2, <3>1, <3>2
  <2>5. OnTheWay'
    BY <1>1, <2>2, <2>3, <2>4 DEF OnTheWay
  <2> QED BY <1>1, <1>6, <2>2, <2>5
<1>9. CASE Out!WriteSeen
  BY <1>1, <1>2, <1>6, <1>9 DEF Out!WriteSeen
<1>10. CASE Out!WriteTimesOut \/ Out!WriterExits \/ Out!Close
  BY <1>1, <1>2, <1>6, <1>10 DEF Out!WriteTimesOut, Out!WriterExits, Out!Close
<1>11. (\E p \in Process : Out!Report(p)) \/ Out!Writer \/ Out!Close
  BY DEF BotSteps, OfBot
<1> QED BY <1>1, <1>3, <1>4, <1>5, <1>7, <1>8, <1>9, <1>10, <1>11
        DEF Out!Report, Out!Writer

(* A request nothing happens to, and one that leaves the map.              *)
LEMMA Untouched ==
  ASSUME NEW r \in Id, Reassembly(r),
         pending'[r] = pending[r], promise'[r] = promise[r], size'[r] = size[r],
         Slots(r)' = Slots(r),
         \A k \in 1..size[r] : <<r, k>> \in relayed' <=> <<r, k>> \in relayed
  PROVE  Reassembly(r)'
<1>1. /\ Fragments(r)' = Fragments(r) /\ Filled(r)' = Filled(r)
      /\ WholeReply(r)' <=> WholeReply(r)
      /\ r \in Client!Pending' <=> r \in Client!Pending
  BY DEF Fragments, Filled, WholeReply, Client!Pending
<1> QED BY <1>1 DEF Reassembly, Client!NoBuffer

LEMMA Leaves ==
  ASSUME NEW r \in Id, Reassembly(r), pending'[r] = NoBot, size' = size,
         Slots(r)' \in {Slots(r), Client!NoBuffer}, relayed \subseteq relayed',
         \/ promise'[r] \in {promise[r], "timeout", "cancelled"}
         \/ promise'[r] = "resolved" /\ (Foreign = {} => WholeReply(r)')
  PROVE  Reassembly(r)'
<1>1. /\ Fragments(r) \subseteq Fragments(r)'
      /\ WholeReply(r) => WholeReply(r)'
      /\ r \notin Client!Pending'
  BY DEF Fragments, WholeReply, Client!Pending
<1>2. Filled(r)' \subseteq Filled(r)
  BY DEF Filled, Client!NoBuffer
<1> QED BY <1>1, <1>2 DEF Reassembly, Client!NoBuffer

(* The instruction of p reports: none of its lines is under way yet.       *)
LEMMA ReportKeeps ==
  ASSUME Reported, OnTheWay, \A r \in Id : Reassembly(r),
         NEW p \in Process, BotReports(p)
  PROVE  Reported' /\ OnTheWay' /\ \A r \in Id : Reassembly(r)'
<1>1. PICK n \in 1..MaxLines : Out!BroadcastStatus(p, n)
  BY DEF BotReports
<1>2. /\ pc[p] = "running" /\ size[p] = 0 /\ size' = [size EXCEPT ![p] = n]
      /\ pc' = [pc EXCEPT ![p] = "offer"]
      /\ UNCHANGED <<next, chatOut, writer, writing, sent, clientVars, taken, relayed>>
  BY <1>1 DEF BotReports, Out!BroadcastStatus, Out!writerVars, Reported
<1>3. Reported'
  BY <1>2, ChannelAssumption DEF Reported, Out!InEnqueue
<1>4. RealLine \subseteq RealLine'
  BY <1>2, ChannelAssumption DEF RealLine, Out!Line, Reported
<1>5. OnTheWay'
  <2>1. chatOut' \in Seq(RealLine') /\ writing' \in Seq(RealLine') /\ sent' \in Seq(RealLine')
    BY <1>2, <1>4, SeqMonotonic DEF OnTheWay
  <2> QED BY <1>2, <1>4, <2>1 DEF OnTheWay
<1>6. ASSUME NEW r \in Id PROVE Reassembly(r)'
  <2>1. CASE r # p
    <3>1. r \in Process /\ size'[r] = size[r]
      BY <1>2, <2>1 DEF Process, Reported
    <3> QED BY <1>2, <3>1, Untouched DEF clientVars, Slots
  <2>2. CASE r = p
    <3>1. \A k \in 1..n : <<r, k>> \notin relayed
      BY <1>2, <2>2 DEF OnTheWay, RealLine
    <3>2. size'[r] = n
      BY <1>2, <2>2 DEF Reported
    <3>3. promise[r] \notin {"unsent", "threw"}
      BY <2>2 DEF BotReports, Arrived
    <3>4. Slots(r)' = Client!NoBuffer /\ Client!Pending' = Client!Pending
      BY <1>2, <2>2 DEF Slots, Reassembly, clientVars, Client!Pending
    <3>5. Foreign = {} => promise[r] # "resolved"
      BY <1>2, <2>2 DEF Reassembly, WholeReply
    <3>6. Fragments(r)' = {} /\ ~WholeReply(r)'
      <4>1. relayed' = relayed /\ 1 \in 1..n
        BY <1>2, ChannelAssumption
      <4> QED BY <3>1, <3>2, <4>1 DEF Fragments, WholeReply
    <3> QED BY <1>2, <3>3, <3>4, <3>5, <3>6
            DEF Reassembly, Filled, Client!NoBuffer, clientVars
  <2> QED BY <2>1, <2>2
<1> QED BY <1>3, <1>5, <1>6

(* The script receives a line: a whole status, a fragment, or a fragment   *)
(* without an id, which it takes for chat.                                 *)
LEMMA RelayKeeps ==
  ASSUME IInv, ServerRelays
  PROVE  Reported' /\ OnTheWay' /\ \A r \in Id : Reassembly(r)'
<1>1. PICK p \in Process, k \in 1..MaxLines :
        /\ sent[taken + 1] = <<p, k>> /\ <<p, k>> \in RealLine
        /\ taken' = taken + 1 /\ relayed' = relayed \cup {<<p, k>>}
        /\ Listen(<<p, k>>)
        /\ UNCHANGED <<pc, size, next, chatOut, writer, writing, sent>>
  <2>1. sent[taken + 1] \in RealLine
    BY ElementOfSeq DEF ServerRelays, OnTheWay, IInv
  <2>2. PICK p \in Process, k \in 1..MaxLines : sent[taken + 1] = <<p, k>>
    BY <2>1 DEF RealLine, Out!Line
  <2> QED BY <2>1, <2>2 DEF ServerRelays, botVars
<1>3. k \in 1..size[p] /\ size[p] \in Nat /\ (size[p] = 1 => k = 1)
  BY <1>1 DEF RealLine, Out!Line, Reported, IInv
<1>4. Reported'
  BY <1>1 DEF Reported, Out!InEnqueue, IInv
<1>5. OnTheWay'
  <2>1. RealLine' = RealLine
    BY <1>1 DEF RealLine, Out!Line
  <2>2. relayed' \subseteq RealLine /\ taken' \in Nat
    <3>1. relayed \subseteq RealLine /\ taken \in Nat
      BY DEF OnTheWay, IInv
    <3>2. taken' = taken + 1 /\ relayed' = relayed \cup {<<p, k>>} /\ <<p, k>> \in RealLine
      BY <1>1
    <3> QED BY <3>1, <3>2
  <2> QED BY <1>1, <2>1, <2>2 DEF OnTheWay, IInv
<1>6. /\ pending \in [Id -> {bot, NoBot}] /\ promise \in [Id -> Client!Outcome]
      /\ DOMAIN partBuffers = {bot} \X Id
  BY DEF IInv, Addon!IInv, Addon!TypeOK, Addon!Id, Id, Addon!Outcome, Client!Outcome
<1>7. /\ relayed \subseteq relayed' /\ size' = size /\ \A r \in Id : Reassembly(r)
      /\ NoBot # bot
  BY <1>1, ChannelAssumption DEF IInv
<1>8. ASSUME NEW r \in Id, r # p, pending'[r] = pending[r], promise'[r] = promise[r],
             Slots(r)' = Slots(r)
      PROVE  Reassembly(r)'
  BY <1>1, <1>3, <1>7, <1>8, Untouched
<1>9. ASSUME UNCHANGED clientVars, p \in Id => p \notin Client!Pending, NEW r \in Id
      PROVE  Reassembly(r)'
  <2>1. CASE r # p
    BY <1>8, <1>9, <2>1 DEF clientVars, Slots
  <2>2. CASE r = p
    BY <1>7, <1>9, <2>2, Leaves DEF clientVars, Slots, Client!Pending, Client!Id, Id
  <2> QED BY <2>1, <2>2
<1>10. CASE size[p] = 1 /\ Client!ReceiveStatus(bot, EchoedId(p))
  <2> DEFINE id == EchoedId(p)
  <2>1. CASE Client!Addressee(bot, id) = {} /\ UNCHANGED clientVars
    <3>1. p \in Id => p \notin Client!Pending
      BY <2>1, <1>6, ChannelAssumption
      DEF Client!Addressee, Client!Pending, EchoedId, Client!NoId, Client!Id, Id, NoId
    <3> QED BY <1>4, <1>5, <1>9, <2>1, <3>1
  <2>2. ASSUME NEW q \in Client!Addressee(bot, id),
               Client!Leave({q}, "resolved"),
               partBuffers' = [partBuffers EXCEPT ![<<bot, q>>] = Client!NoBuffer]
        PROVE  \A r \in Id : Reassembly(r)'
    <3>1. q \in Id /\ (p \in Id => q = p) /\ (p \notin Id => Foreign # {})
      BY <1>3, ChannelAssumption
      DEF Client!Addressee, Client!Pending, EchoedId, Client!NoId, Client!Id, Id, NoId,
          Process
    <3>2. WholeReply(p)'
      BY <1>1, <1>3, <1>10 DEF WholeReply
    <3> SUFFICES ASSUME NEW r \in Id PROVE Reassembly(r)'
      OBVIOUS
    <3>3. CASE r = q
      <4>1. pending'[r] = NoBot /\ promise'[r] \in {promise[r], "resolved"}
            /\ Slots(r)' = Client!NoBuffer
        BY <1>6, <2>2, <3>3 DEF Client!Leave, Client!Id, Id, Slots
      <4>2. Foreign = {} => WholeReply(r)'
        BY <3>1, <3>2, <3>3
      <4> QED BY <1>7, <4>1, <4>2, Leaves
    <3>4. CASE r # q
      <4>1. pending'[r] = pending[r] /\ promise'[r] = promise[r] /\ Slots(r)' = Slots(r)
            /\ r # p
        BY <1>6, <2>2, <3>1, <3>4 DEF Client!Leave, Client!Id, Id, Slots
      <4> QED BY <1>8, <4>1
    <3> QED BY <3>3, <3>4
  <2> QED BY <1>4, <1>5, <1>10, <2>1, <2>2
          DEF Client!ReceiveStatus, Client!Deliver, clientVars, Client!requestVars,
              Client!historyVars
<1>11. CASE p \in Id /\ size[p] > 1 /\ Client!ReceiveStatusPart(bot, p, k, size[p], p)
  <2> DEFINE slots == Client!Buffered(partBuffers[<<bot, p>>], k, size[p], p)
  <2>1. /\ slots \in [1..size[p] -> {p, Hole}]
        /\ \A j \in 1..size[p] : slots[j] # Hole <=> (j = k \/ j \in Filled(p))
    <3>1. CASE DOMAIN Slots(p) = 1..size[p]
      <4>1. Slots(p) \in [1..size[p] -> {p, Hole}]
        BY <1>3, <1>7, <1>11, <3>1 DEF Reassembly, Client!NoBuffer
      <4>2. slots = [Slots(p) EXCEPT ![k] = p]
        BY <3>1 DEF Client!Buffered, Slots
      <4>3. p # Hole
        BY <1>3, ChannelAssumption
      <4> QED BY <1>3, <4>1, <4>2, <4>3 DEF Filled
    <3>2. CASE DOMAIN Slots(p) # 1..size[p]
      <4>1. Filled(p) = {}
        BY <1>7, <1>11, <3>2 DEF Reassembly, Client!NoBuffer, Filled
      <4>2. slots = [[i \in 1..size[p] |-> Hole] EXCEPT ![k] = p]
        BY <3>2 DEF Client!Buffered, Slots
      <4>3. p # Hole
        BY <1>3, ChannelAssumption
      <4> QED BY <1>3, <4>1, <4>2, <4>3
    <3> QED BY <3>1, <3>2
  <2> HIDE DEF slots
  <2>2. Fragments(p)' = Fragments(p) \cup {k}
    BY <1>1, <1>3 DEF Fragments
  <2>3. Filled(p) \subseteq Fragments(p)
        /\ (p \in Client!Pending => Fragments(p) \subseteq Filled(p))
    BY <1>7, <1>11 DEF Reassembly
  <2>4. WholeReply(p)' <=> \A j \in 1..size[p] : j = k \/ j \in Fragments(p)
    BY <1>1, <1>3, <1>11, <2>2 DEF WholeReply, Fragments
  <2>5. CASE /\ ~Client!Complete(slots)
             /\ partBuffers' = [partBuffers EXCEPT ![<<bot, p>>] = slots]
             /\ UNCHANGED <<pending, promise>>
    <3>1. Slots(p)' = slots
      BY <1>6, <1>11, <2>5 DEF Slots
    <3>2. Filled(p)' = Filled(p) \cup {k}
      <4>1. Filled(p) \subseteq 1..size[p]
        BY <2>3 DEF Fragments
      <4> QED BY <1>3, <2>1, <3>1, <4>1 DEF Filled
    <3>3. p \in Client!Pending => ~WholeReply(p)'
      <4>1. PICK j \in 1..size[p] : slots[j] = Hole
        BY <2>1, <2>5 DEF Client!Complete
      <4> QED BY <2>1, <2>3, <2>4, <4>1
    <3>4. Reassembly(p)'
      <4>1. p \in Client!Pending' <=> p \in Client!Pending
        BY <2>5 DEF Client!Pending
      <4>2. promise[p] \notin {"unsent", "threw"}
        BY <1>7, <1>11 DEF Reassembly
      <4>3. Foreign = {} /\ promise'[p] = "resolved" => WholeReply(p)'
        BY <1>1, <1>7, <1>11, <2>5 DEF Reassembly, WholeReply
      <4> QED BY <1>7, <1>11, <2>1, <2>2, <2>3, <2>5, <3>1, <3>2, <3>3, <4>1, <4>2, <4>3
              DEF Reassembly
    <3>5. ASSUME NEW r \in Id, r # p PROVE Reassembly(r)'
      BY <1>6, <1>8, <1>11, <2>5, <3>5 DEF Slots
    <3> QED BY <1>4, <1>5, <3>4, <3>5
  <2>6. Client!Complete(slots) => Client!Parses(slots) /\ WholeReply(p)'
    BY <2>1, <2>3, <2>4 DEF Client!Complete, Client!Parses
  <2>7. CASE /\ Client!Complete(slots)
             /\ Client!Deliver(bot, p, [partBuffers EXCEPT ![<<bot, p>>] = Client!NoBuffer])
    <3>1. CASE /\ Client!Addressee(bot, p) = {}
               /\ partBuffers' = [partBuffers EXCEPT ![<<bot, p>>] = Client!NoBuffer]
               /\ UNCHANGED <<pending, promise>>
      <4>1. pending[p] = NoBot
        BY <1>6, <1>11, <3>1, ChannelAssumption
        DEF Client!Addressee, Client!Pending, Client!NoId, Client!Id, Id
      <4>2. Slots(p)' = Client!NoBuffer
        BY <1>6, <1>11, <3>1 DEF Slots
      <4>3. Reassembly(p)'
        BY <1>7, <1>11, <3>1, <4>1, <4>2, Leaves
      <4>4. ASSUME NEW r \in Id, r # p PROVE Reassembly(r)'
        BY <1>6, <1>8, <1>11, <3>1, <4>4 DEF Slots
      <4> QED BY <1>4, <1>5, <4>3, <4>4
    <3>2. ASSUME NEW q \in Client!Addressee(bot, p), Client!Leave({q}, "resolved"),
                 partBuffers' = [[partBuffers EXCEPT ![<<bot, p>>] = Client!NoBuffer]
                                   EXCEPT ![<<bot, q>>] = Client!NoBuffer]
          PROVE  \A r \in Id : Reassembly(r)'
      <4>1. q = p
        BY <1>11, <3>2, ChannelAssumption
        DEF Client!Addressee, Client!NoId, Id
      <4>2. pending'[p] = NoBot /\ promise'[p] \in {promise[p], "resolved"}
            /\ Slots(p)' = Client!NoBuffer
        BY <1>6, <1>11, <3>2, <4>1 DEF Client!Leave, Client!Id, Id, Slots
      <4>3. Reassembly(p)'
        BY <1>7, <1>11, <2>6, <2>7, <4>2, Leaves
      <4>4. ASSUME NEW r \in Id, r # p PROVE Reassembly(r)'
        BY <1>6, <1>8, <1>11, <3>2, <4>1, <4>4 DEF Client!Leave, Client!Id, Id, Slots
      <4> QED BY <4>3, <4>4
    <3> QED BY <1>4, <1>5, <2>7, <3>1, <3>2
            DEF Client!Deliver, Client!requestVars, Client!historyVars
  <2> QED BY <1>11, <2>5, <2>6, <2>7
          DEF Client!ReceiveStatusPart, slots, Client!requestVars, Client!historyVars
<1>12. CASE ~(size[p] = 1) /\ ~(size[p] > 1 /\ EchoedId(p) # NoId) /\ UNCHANGED clientVars
  <2>1. p \notin Id
    BY <1>3, <1>12, ChannelAssumption DEF EchoedId, Id, NoId
  <2> QED BY <1>4, <1>5, <1>9, <1>12, <2>1
<1>13. EchoedId(p) # NoId => p \in Id
  BY <1>3 DEF EchoedId, Process
<1>14. \/ size[p] = 1 /\ Client!ReceiveStatus(bot, EchoedId(p))
       \/ size[p] > 1 /\ EchoedId(p) # NoId /\ Client!ReceiveStatusPart(bot, p, k, size[p], p)
       \/ ~(size[p] = 1) /\ ~(size[p] > 1 /\ EchoedId(p) # NoId) /\ UNCHANGED clientVars
  BY <1>1 DEF Listen
<1> QED BY <1>10, <1>11, <1>12, <1>13, <1>14

(* The client sends, times out or cancels.                                 *)
LEMMA ClientKeeps ==
  ASSUME IInv, ClientSteps, NEW r \in Id
  PROVE  Reassembly(r)'
<1>1. /\ pending \in [Id -> {bot, NoBot}] /\ promise \in [Id -> Client!Outcome]
      /\ DOMAIN partBuffers = {bot} \X Id /\ nextRequestId \in Nat
  BY ChannelAssumption
  DEF IInv, Addon!IInv, Addon!TypeOK, Addon!Id, Id, Addon!Outcome, Client!Outcome
<1>2. /\ relayed' = relayed /\ size' = size /\ Reassembly(r)
  BY DEF ClientSteps, botVars, IInv
<1>3. CASE Client!RunAction(bot)
  <2> DEFINE new == nextRequestId + 1
  <2>1. /\ pending' = [pending EXCEPT ![new] = bot] /\ UNCHANGED partBuffers
        /\ \E o \in {"waiting", "threw"} : promise' = [promise EXCEPT ![new] = o]
    BY <1>3 DEF Client!RunAction, Client!FreshId
  <2>2. CASE r = new
    <3>1. promise[r] = "unsent"
      BY <1>1, <2>2 DEF IInv, Addon!IInv, Addon!Requested, Addon!Id, Id
    <3>2. size[r] = 0 /\ Fragments(r)' = {} /\ Fragments(r) = {} /\ ~WholeReply(r)'
      BY <1>2, <3>1 DEF Reassembly, Fragments, WholeReply
    <3>3. promise'[r] # "resolved" /\ Slots(r)' = Slots(r) /\ Filled(r)' = Filled(r)
      BY <1>1, <2>1, <2>2 DEF Slots, Filled
    <3> QED BY <1>2, <3>2, <3>3 DEF Reassembly, Client!NoBuffer
  <2>3. CASE r # new
    BY <1>1, <1>2, <2>1, <2>3, Untouched DEF Slots
  <2> QED BY <2>2, <2>3
<1>4. ASSUME NEW q \in Id, Client!Timeout(q) PROVE Reassembly(r)'
  <2>1. CASE r = q
    BY <1>1, <1>2, <1>4, <2>1, Leaves
    DEF Client!Timeout, Client!Leave, Client!Id, Id, Slots
  <2>2. CASE r # q
    BY <1>1, <1>2, <1>4, <2>2, Untouched
    DEF Client!Timeout, Client!Leave, Client!Id, Id, Slots
  <2> QED BY <2>1, <2>2
<1>5. CASE Client!CancelAllInstructions
  <2>1. CASE r \in Client!Pending
    BY <1>1, <1>2, <1>5, <2>1, Leaves
    DEF Client!CancelAllInstructions, Client!Leave, Client!Id, Id, Slots
  <2>2. CASE r \notin Client!Pending
    BY <1>1, <1>2, <1>5, <2>2, Untouched
    DEF Client!CancelAllInstructions, Client!Leave, Client!Id, Id, Slots
  <2> QED BY <2>1, <2>2
<1> QED BY <1>3, <1>4, <1>5 DEF ClientSteps

LEMMA NextKeeps == IInv /\ [Next]_vars => IInv'
<1> SUFFICES ASSUME IInv, [Next]_vars PROVE IInv'
  OBVIOUS
<1>1. Addon!IInv'
  BY ClientStep, ClientAssumed, Addon!NextKeeps DEF IInv
<1>2. ASSUME UNCHANGED <<clientVars, relayed>>, size' = size, NEW r \in Id
      PROVE  Reassembly(r)'
  BY <1>2, Untouched DEF IInv, clientVars, Slots
<1>3. ASSUME NEW p \in Process, BotReports(p) PROVE IInv'
  BY <1>1, <1>3, ReportKeeps DEF IInv
<1>4. CASE BotSteps
  BY <1>1, <1>2, <1>4, BotKeeps DEF IInv
<1>5. CASE ServerRelays
  BY <1>1, <1>5, RelayKeeps DEF IInv
<1>6. ASSUME UNCHANGED <<botVars, relayed>>, taken' \in Nat PROVE Reported' /\ OnTheWay'
  BY <1>6 DEF IInv, botVars, Reported, Out!InEnqueue, OnTheWay, RealLine, Out!Line
<1>7. CASE ServerDrops \/ UNCHANGED vars
  <2>1. /\ UNCHANGED <<clientVars, botVars, relayed>> /\ taken' \in Nat
    BY <1>7 DEF ServerDrops, vars, OnTheWay, IInv
  <2> QED BY <1>1, <1>2, <1>6, <2>1 DEF IInv, botVars
<1>8. CASE ClientSteps
  BY <1>1, <1>6, <1>8, ClientKeeps DEF IInv, ClientSteps, OnTheWay
<1> QED BY <1>3, <1>4, <1>5, <1>7, <1>8 DEF Next

(* The inductive invariant holds of every behaviour.                       *)
THEOREM Invariance == Spec => []IInv
<1> QED BY InitEstablishes, NextKeeps, PTL DEF Spec

(* Once every line of a request's status has reached the script the        *)
(* request has left the map of pending ones (client.ts, the listener): its *)
(* deadline finds nothing to reject.                                       *)
THEOREM WholeRepliesSettle == Spec => []WholeReplySettles
<1>1. IInv => WholeReplySettles
  BY DEF IInv, Reassembly, WholeReplySettles
<1> QED BY <1>1, Invariance, PTL

(* When every action of the bot decodes, a request resolves only when the  *)
(* script has every line of its own instruction's status.                  *)
THEOREM OwnWholeReplies ==
  ASSUME Foreign = {}
  PROVE  Spec => []ResolvedByWholeOwnReply
<1>1. IInv => ResolvedByWholeOwnReply
  BY DEF IInv, Reassembly, ResolvedByWholeOwnReply
<1> QED BY <1>1, Invariance, PTL

(* With bots, chat and server behind it the client behaves as the client   *)
(* of InstructionClient, whose environment may send anything: what is      *)
(* proved there holds here.                                                *)
THEOREM ClientImplemented == Spec => Addon!Spec
<1>1. Init => Addon!Init
  BY DEF Init, Client!Init, Addon!Init, Client!NoBuffer, Addon!NoBuffer,
         Client!Id, Addon!Id
<1>2. IInv /\ [Next]_vars => [Addon!Next]_(Addon!vars)
  BY ClientStep DEF IInv
<1> QED BY <1>1, <1>2, Invariance, PTL DEF Spec, Addon!Spec
-----------------------------------------------------------------------------
(* Taking the head off the second of two queues in a row loses the message *)
(* right behind the first.                                                 *)
LEMMA LoseBehind ==
  ASSUME NEW S, NEW w \in Seq(S), NEW s \in Seq(S), s # << >>
  PROVE  LET i == Len(w) + 1
         IN  /\ i \in 1..Len(w \o s)
             /\ w \o Tail(s) = SubSeq(w \o s, 1, i - 1)
                                 \o SubSeq(w \o s, i + 1, Len(w \o s))
<1> DEFINE t == w \o s
<1>1. /\ t \in Seq(S) /\ Len(t) = Len(w) + Len(s) /\ Len(w) \in Nat
      /\ Len(s) \in Nat /\ Len(s) >= 1
      /\ \A i \in 1..Len(t) : t[i] = IF i <= Len(w) THEN w[i] ELSE s[i - Len(w)]
  BY ConcatProperties, EmptySeq, LenProperties
<1> HIDE DEF t
<1>2. SubSeq(t, 1, Len(w)) = w
  <2>1. \A i \in 1..Len(w) : t[i] = w[i] /\ w[i] \in S
    BY <1>1, ElementOfSeq
  <2>2. /\ SubSeq(t, 1, Len(w)) \in Seq(S) /\ Len(SubSeq(t, 1, Len(w))) = Len(w)
        /\ \A i \in 1..Len(w) : SubSeq(t, 1, Len(w))[i] = w[i]
    BY <1>1, <2>1, SubSeqProperties
  <2> QED BY <2>2, SeqEqual
<1>3. SubSeq(t, Len(w) + 2, Len(t)) = Tail(s)
  <2>1. \A i \in (Len(w) + 2)..Len(t) : t[i] = s[i - Len(w)] /\ t[i] \in S
    BY <1>1, ElementOfSeq
  <2>2. /\ SubSeq(t, Len(w) + 2, Len(t)) \in Seq(S)
        /\ Len(SubSeq(t, Len(w) + 2, Len(t))) = Len(s) - 1
        /\ \A i \in 1..(Len(s) - 1) : SubSeq(t, Len(w) + 2, Len(t))[i] = s[i + 1]
    <3> DEFINE m == Len(w) + 2
    <3>1. m \in Int /\ Len(t) \in Int /\ Len(t) - m + 1 = Len(s) - 1
      BY <1>1
    <3> DEFINE length == IF m <= Len(t) THEN Len(t) - m + 1 ELSE 0
    <3>2. /\ SubSeq(t, m, Len(t)) \in Seq(S)
          /\ Len(SubSeq(t, m, Len(t))) = length
          /\ \A i \in 1..(Len(t) - m + 1) : SubSeq(t, m, Len(t))[i] = t[m + i - 1]
      BY <2>1, <3>1, SubSeqProperties
    <3>3. ASSUME NEW i \in 1..(Len(s) - 1) PROVE t[m + i - 1] = s[i + 1]
      <4>1. /\ m + i - 1 \in m..Len(t) /\ (m + i - 1) - Len(w) = i + 1
            /\ m <= Len(t)
        BY <1>1
      <4> QED BY <2>1, <4>1
    <3>4. length = Len(s) - 1
      <4>1. \A a, b \in Nat :
              b >= 1 => (IF a + 2 <= a + b THEN (a + b) - (a + 2) + 1 ELSE 0) = b - 1
        OBVIOUS
      <4>2. Len(t) = Len(w) + Len(s) /\ Len(w) \in Nat /\ Len(s) \in Nat /\ Len(s) >= 1
        BY <1>1
      <4> QED BY <4>1, <4>2
    <3> HIDE DEF m, length
    <3>5. \A i \in 1..(Len(s) - 1) : SubSeq(t, m, Len(t))[i] = s[i + 1]
      BY <3>1, <3>2, <3>3
    <3>6. SubSeq(t, m, Len(t)) \in Seq(S)
      BY <3>2
    <3>7. Len(SubSeq(t, m, Len(t))) = Len(s) - 1
      BY <3>2, <3>4
    <3> QED BY <3>5, <3>6, <3>7 DEF m
  <2>3. /\ Tail(s) \in Seq(S) /\ Len(Tail(s)) = Len(s) - 1
        /\ \A i \in 1..(Len(s) - 1) : Tail(s)[i] = s[i + 1]
    BY HeadTailProperties
  <2> QED BY <2>2, <2>3, SeqEqual
<1>4. (Len(w) + 1) - 1 = Len(w) /\ (Len(w) + 1) + 1 = Len(w) + 2
      /\ Len(w) + 1 \in 1..Len(t)
  BY <1>1
<1>5. w \o Tail(s) = SubSeq(t, 1, (Len(w) + 1) - 1) \o SubSeq(t, (Len(w) + 1) + 1, Len(t))
  BY <1>2, <1>3, <1>4
<1> QED BY <1>4, <1>5 DEF t

(* Every step is one of the abstract queue or leaves it alone: a line the  *)
(* writer takes stays in flight until it is written or its write fails.    *)
LEMMA QueueStep ==
  IInv /\ [Next]_vars => [Abstract!Next]_(Abstract!vars)
<1> SUFFICES ASSUME IInv, [Next]_vars
             PROVE  [Abstract!Next]_(Abstract!vars)
  OBVIOUS
<1>0. /\ chatOut \in Seq(Out!Line) /\ writing \in Seq(Out!Line)
      /\ Len(writing) \in {0, 1} /\ (writer = "ready" => writing = << >>)
  <2>1. RealLine \subseteq Out!Line
    BY DEF RealLine
  <2>2. chatOut \in Seq(Out!Line) /\ writing \in Seq(Out!Line)
    BY <2>1, SeqMonotonic DEF IInv, OnTheWay
  <2>3. Len(writing) \in Nat
    BY <2>2, LenProperties
  <2>4. Len(writing) <= 1 /\ (writer = "ready" => writing = << >>)
    BY DEF IInv, OnTheWay
  <2>5. Len(writing) \in {0, 1}
    <3>1. \A n \in Nat : n <= 1 => n \in {0, 1}
      OBVIOUS
    <3> QED BY <2>3, <2>4, <3>1
  <2> QED BY <2>2, <2>4, <2>5
<1>1. ASSUME UNCHANGED <<chatOut, writing, sent>> PROVE UNCHANGED Abstract!vars
  BY <1>1 DEF Abstract!vars
<1> USE DEF Out!processVars, Out!writerVars
<1>2. CASE (\E p \in Process : BotReports(p)) \/ ServerRelays \/ ServerDrops
           \/ ClientSteps \/ UNCHANGED vars
  BY <1>1, <1>2 DEF BotReports, Out!BroadcastStatus, ServerRelays, ServerDrops,
     ClientSteps, botVars, vars
<1>3. ASSUME NEW p \in Process, Out!Enqueue(p)
      PROVE  [Abstract!Next]_(Abstract!vars)
  <2>1. /\ UNCHANGED <<writing, sent>>
        /\ \/ chatOut' = Append(chatOut, <<p, next[p]>>)
           \/ chatOut # << >> /\ chatOut' = Tail(chatOut)
           \/ chatOut' = chatOut
        /\ pc[p] \in {"offer", "dropOldest", "retry"}
    BY <1>3 DEF Out!Enqueue, Out!Offer, Out!DropOldest, Out!Retry, Out!Current
  <2>2. <<p, next[p]>> \in Out!Line
    BY <2>1, ChannelAssumption DEF IInv, Reported, Out!InEnqueue, Out!Line
  <2>3. CASE chatOut' = Append(chatOut, <<p, next[p]>>)
    <3>1. writing \o Append(chatOut, <<p, next[p]>>)
            = Append(writing \o chatOut, <<p, next[p]>>)
      <4>1. /\ <<p, next[p]>> \in Out!Line /\ <<(<<p, next[p]>>)>> \in Seq(Out!Line)
            /\ writing \o chatOut \in Seq(Out!Line)
        BY <1>0, <2>2, ConcatProperties
      <4> QED BY <1>0, <4>1, AppendIsConcat, ConcatAssociative
    <3> QED BY <2>1, <2>2, <2>3, <3>1 DEF Abstract!Next, Abstract!Accept
  <2>4. CASE chatOut # << >> /\ chatOut' = Tail(chatOut)
    <3>1. Abstract!Lose
      BY <1>0, <2>1, <2>4, LoseBehind DEF Abstract!Lose
    <3> QED BY <3>1 DEF Abstract!Next
  <2> QED BY <1>1, <2>1, <2>3, <2>4
<1>4. ASSUME NEW p \in Process, Out!NextFragment(p) \/ Out!StopOnClose(p)
      PROVE  [Abstract!Next]_(Abstract!vars)
  BY <1>1, <1>4 DEF Out!NextFragment, Out!StopOnClose
<1>5. CASE Out!TakeLine
  <2>1. writing = << >> /\ chatOut # << >> /\ sent' = sent
        /\ writing' = <<Head(chatOut)>> /\ chatOut' = Tail(chatOut)
    BY <1>0, <1>5 DEF Out!TakeLine
  <2>2. <<Head(chatOut)>> \o Tail(chatOut) = chatOut
    <3>1. /\ Head(chatOut) \in Out!Line /\ Tail(chatOut) \in Seq(Out!Line)
          /\ Len(chatOut) \in Nat \ {0} /\ 1 \in 1..Len(chatOut)
      BY <1>0, <2>1, HeadTailProperties, EmptySeq
    <3>2. SubSeq(chatOut, 1, Len(chatOut))
            = <<chatOut[1]>> \o SubSeq(chatOut, 1 + 1, Len(chatOut))
      BY <1>0, <3>1, SubSeqRecursiveFirst
    <3> QED BY <1>0, <2>1, <3>1, <3>2, SubSeqFull, TailIsSubSeq
  <2>3. << >> \o chatOut = chatOut
    BY <1>0, ConcatEmptySeq
  <2> QED BY <2>1, <2>2, <2>3 DEF Abstract!vars
<1>6. CASE Out!Written
  <2>1. /\ writing # << >> /\ writing' = << >> /\ chatOut' = chatOut
        /\ sent' = sent \o writing \/ sent' = sent
    BY <1>6 DEF Out!Written
  <2>2. PICK x \in Out!Line : writing = <<x>>
    <3>1. Len(writing) = 1 /\ writing[1] \in Out!Line
      BY <1>0, <2>1, EmptySeq, ElementOfSeq
    <3>2. /\ <<writing[1]>> \in Seq(Out!Line) /\ Len(<<writing[1]>>) = 1
          /\ \A i \in 1..1 : <<writing[1]>>[i] = writing[i]
      BY <3>1
    <3>3. writing = <<writing[1]>>
      BY <1>0, <3>1, <3>2, SeqEqual
    <3> QED BY <3>1, <3>3
  <2>3. << >> \o chatOut = chatOut
    BY <1>0, ConcatEmptySeq
  <2>4. writing \o chatOut # << >> /\ Head(writing \o chatOut) = x
        /\ Tail(writing \o chatOut) = chatOut
    <3> DEFINE t == <<x>> \o chatOut
    <3>1. /\ t \in Seq(Out!Line) /\ Len(t) = 1 + Len(chatOut) /\ Len(chatOut) \in Nat
          /\ \A i \in 1..Len(t) : t[i] = IF i <= 1 THEN x ELSE chatOut[i - 1]
      <4>1. <<x>> \in Seq(Out!Line) /\ Len(<<x>>) = 1
        OBVIOUS
      <4>2. Len(chatOut) \in Nat
        BY <1>0, LenProperties
      <4>3. /\ t \in Seq(Out!Line) /\ Len(t) = 1 + Len(chatOut)
            /\ \A i \in 1..1 + Len(chatOut) : t[i] = IF i <= 1 THEN <<x>>[i] ELSE chatOut[i - 1]
        BY <1>0, <4>1, ConcatProperties
      <4> QED BY <4>2, <4>3
    <3> HIDE DEF t
    <3>2. t # << >> /\ Head(t) = x
      BY <3>1, EmptySeq
    <3>3. /\ Tail(t) \in Seq(Out!Line) /\ Len(Tail(t)) = Len(chatOut)
          /\ \A i \in 1..Len(chatOut) : Tail(t)[i] = chatOut[i]
      <4>1. /\ Tail(t) \in Seq(Out!Line) /\ Len(Tail(t)) = Len(chatOut)
            /\ \A i \in 1..Len(chatOut) : Tail(t)[i] = t[i + 1]
        BY <3>1, <3>2, HeadTailProperties
      <4>2. \A i \in 1..Len(chatOut) : t[i + 1] = chatOut[i]
        BY <3>1
      <4> QED BY <4>1, <4>2
    <3>4. Tail(t) = chatOut
      BY <1>0, <3>3, SeqEqual
    <3> QED BY <2>2, <3>2, <3>4 DEF t
  <2>5. CASE sent' = sent \o writing
    <3>1. sent \o writing = Append(sent, Head(writing \o chatOut))
      <4>1. sent \in Seq(Out!Line)
        BY SeqMonotonic DEF IInv, OnTheWay, RealLine
      <4> QED BY <2>2, <2>4, <4>1, AppendIsConcat
    <3>2. Abstract!Deliver
      BY <2>1, <2>3, <2>4, <2>5, <3>1 DEF Abstract!Deliver
    <3> QED BY <3>2 DEF Abstract!Next
  <2>6. CASE sent' = sent
    <3>1. << >> \o (writing \o chatOut) = writing \o chatOut
          /\ writing \o chatOut \in Seq(Out!Line) /\ << >> \in Seq(Out!Line)
      BY <1>0, ConcatProperties, ConcatEmptySeq, EmptySeq
    <3>2. LET i == Len(<< >>) + 1
              t == << >> \o (writing \o chatOut)
          IN  /\ i \in 1..Len(t)
              /\ << >> \o Tail(writing \o chatOut)
                   = SubSeq(t, 1, i - 1) \o SubSeq(t, i + 1, Len(t))
      BY <2>4, <3>1, LoseBehind
    <3>3. Abstract!Lose
      BY <2>1, <2>3, <2>4, <2>6, <3>1, <3>2 DEF Abstract!Lose
    <3> QED BY <3>3 DEF Abstract!Next
  <2> QED BY <2>1, <2>5, <2>6
<1>7. CASE Out!WriteSeen \/ Out!WriteTimesOut \/ Out!WriterExits \/ Out!Close
  BY <1>1, <1>7 DEF Out!WriteSeen, Out!WriteTimesOut, Out!WriterExits, Out!Close
<1> QED BY <1>2, <1>3, <1>4, <1>5, <1>6, <1>7
        DEF Next, BotSteps, OfBot, Out!Report, Out!Writer

(* EnqueueChat and startChatWriter make a queue that may lose lines but    *)
(* never reorders, repeats or invents one, whatever the capacity.          *)
THEOREM ChatIsLossyFifo == Spec => ImplementsLossyFifo
<1>1. Init => Abstract!Init
  BY DEF Init, Out!Init, Abstract!Init
<1> QED BY <1>1, Invariance, QueueStep, PTL DEF Spec, ImplementsLossyFifo, Abstract!Spec
=============================================================================
