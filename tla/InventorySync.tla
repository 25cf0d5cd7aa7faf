---------------------------- MODULE InventorySync ----------------------------
(***************************************************************************)
(* Bot.getInventory of the addon (scripts/bot.ts): the client's copy of an *)
(* inventory the Script API has written to is stale until some real        *)
(* transaction sends it again, so the addon gives the bot a marker item    *)
(* with a command, waits until the client shows it, clears it and waits    *)
(* until the client does not show it any more.                             *)
(*                                                                         *)
(* An inventory is the number of the last write it shows and the markers   *)
(* in it.  A poll (a getInventory instruction) that ends well reads the    *)
(* client's copy at some moment before the addon acts on it; since reading *)
(* and acting commute with what the server and the wire do in between they *)
(* are one step.                                                           *)
(***************************************************************************)
EXTENDS Integers, Sequences

CONSTANTS
  Reader,     \* calls of getInventory with sync
  FreeSlots,  \* free slots of the inventory
  MaxWrites   \* bound on the writes of the Script API

InventorySyncAssumption == FreeSlots \in Nat /\ MaxWrites \in Nat

VARIABLES
  server,   \* the inventory the server holds: [writes, markers]
  client,   \* the client's copy
  wire,     \* copies on their way to the client
  at,       \* where each call is
  since,    \* history: the writes there were when it was made
  result,   \* history: the writes the inventory it returned shows
  tangled   \* history: calls have overlapped or one has been given up

vars == <<server, client, wire, at, since, result, tangled>>

UnderWay == {c \in Reader : at[c] \in {"giveMarker", "dropMarker"}}

Init ==
  /\ server = [writes |-> 0, markers |-> 0]
  /\ client = server
  /\ wire = << >>
  /\ at = [c \in Reader |-> "new"]
  /\ since = [c \in Reader |-> 0]
  /\ result = [c \in Reader |-> 0]
  /\ tangled = FALSE

-----------------------------------------------------------------------------
(* A transaction changes the number of markers and sends the inventory to  *)
(* the client.                                                             *)
Transaction(markers) ==
  /\ server' = [writes |-> server.writes, markers |-> markers]
  /\ wire' = Append(wire, server')

ScriptWrites ==
  /\ server.writes < MaxWrites
  /\ server' = [writes |-> server.writes + 1, markers |-> server.markers]
  /\ UNCHANGED <<client, wire, at, since, result, tangled>>

ClientReceives ==
  /\ wire # << >>
  /\ client' = Head(wire)
  /\ wire' = Tail(wire)
  /\ UNCHANGED <<server, at, since, result, tangled>>

-----------------------------------------------------------------------------
(* A full inventory leaves no slot to sync through. *)
Refuse(c) ==
  /\ at[c] = "new"
  /\ server.markers = FreeSlots
  /\ at' = [at EXCEPT ![c] = "refused"]
  /\ UNCHANGED <<server, client, wire, since, result, tangled>>

getInventory(c) ==
  /\ at[c] = "new"
  /\ server.markers < FreeSlots
  /\ Transaction(server.markers + 1)
  /\ at' = [at EXCEPT ![c] = "giveMarker"]
  /\ since' = [since EXCEPT ![c] = server.writes]
  /\ tangled' = (tangled \/ UnderWay # {})
  /\ UNCHANGED <<client, result>>

(* The first wait is over; clear removes one marker, if there is one.      *)
MutantClearsAtOnce(c) ==
  /\ at[c] = "giveMarker"
  /\ IF server.markers > 0 THEN Transaction(server.markers - 1) ELSE UNCHANGED <<server, wire>>
  /\ at' = [at EXCEPT ![c] = "dropMarker"]
  /\ UNCHANGED <<client, since, result, tangled>>
ClientHasMarker(c) ==
  /\ at[c] = "giveMarker"
  /\ client.markers > 0
  /\ IF server.markers > 0 THEN Transaction(server.markers - 1) ELSE UNCHANGED <<server, wire>>
  /\ at' = [at EXCEPT ![c] = "dropMarker"]
  /\ UNCHANGED <<client, since, result, tangled>>

ClientDroppedMarker(c) ==
  /\ at[c] = "dropMarker"
  /\ client.markers = 0
  /\ at' = [at EXCEPT ![c] = "returned"]
  /\ result' = [result EXCEPT ![c] = client.writes]
  /\ UNCHANGED <<server, client, wire, since, tangled>>

(* waitForValue throws: its deadline has passed, or an instruction of a    *)
(* poll failed or was cancelled with its test.                             *)
GiveUp(c) ==
  /\ c \in UnderWay
  /\ at' = [at EXCEPT ![c] = "gaveUp"]
  /\ tangled' = TRUE
  /\ UNCHANGED <<server, client, wire, since, result>>

Next ==
  \/ ScriptWrites \/ ClientReceives
  \/ \E c \in Reader : Refuse(c) \/ getInventory(c) \/ ClientHasMarker(c)
                       \/ ClientDroppedMarker(c) \/ GiveUp(c)

Spec == Init /\ [][Next]_vars

-----------------------------------------------------------------------------
(* getInventory "forces that transaction [...] leaving the inventory       *)
(* exactly as it was but the client's copy up to date": what a call        *)
(* returns shows every write made before the call.                         *)
Fresh(c) == result[c] >= since[c]
InventoryFresh == \A c \in Reader : at[c] = "returned" => Fresh(c)

(* That holds while calls are made one after the other and none is given   *)
(* up, and then no marker is left behind either.                           *)
SyncedInTurn ==
  ~tangled => InventoryFresh /\ (UnderWay = {} => server.markers = 0)
=============================================================================
