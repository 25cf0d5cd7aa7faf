-------------------------- MODULE ViewerPageProofs --------------------------
(***************************************************************************)
(* What the page shows is what the stream brought, proved for any columns, *)
(* looks, equipment, forms, buttons, textures, takes and animations, and   *)
(* any bounds.                                                             *)
(***************************************************************************)
EXTENDS ViewerPage, TLAPS, SequenceTheorems, FiniteSetTheorems, WellFoundedInduction

-----------------------------------------------------------------------------
(* Entities.  What the steps do to a node, field by field.                 *)

Node == Entities!Node
LoadKind == {"model", "armour", "held"}
Loads == [of : LoadKind, node : Nat, token : Nat, look : Look, gear : Gear]

SameModel(m, n) ==
  /\ m.id = n.id /\ m.look = n.look /\ m.token = n.token /\ m.model = n.model
SamePlays(m, n) ==
  /\ m.animator = n.animator /\ m.pendingAnims = n.pendingAnims
  /\ m.due = n.due /\ m.shown = n.shown
SameGear(m, n) ==
  /\ m.gearKey = n.gearKey /\ m.armour = n.armour /\ m.sprites = n.sprites
  /\ m.itemSprite = n.itemSprite /\ m.overlapped = n.overlapped

LEMMA NodeIsThere == None \notin Node /\ None \notin Look /\ None \notin Gear /\ None \notin Entities!Entity
  BY PageAssumption DEF Entities!EntityAssumption, Node

LEMMA ClearGearKeeps ==
  ASSUME NEW n \in Node, NEW m, m = Entities!ClearGear(n)
  PROVE  /\ m \in Node /\ SameModel(m, n) /\ SamePlays(m, n)
         /\ m.armour = {} /\ m.gearKey = n.gearKey /\ m.overlapped = n.overlapped
         /\ IF n.itemSprite # None /\ n.model # None
            THEN m.sprites = n.sprites \ {n.itemSprite} /\ m.itemSprite = None
            ELSE m.sprites = n.sprites /\ m.itemSprite = n.itemSprite
<1> USE DEF Node, Entities!Node
<1>1. CASE n.itemSprite # None /\ n.model # None
  <2> DEFINE rest == n.sprites \ {n.itemSprite}
  <2>1. m = [n EXCEPT !.armour = {}, !.sprites = rest, !.itemSprite = None]
    BY <1>1 DEF Entities!ClearGear
  <2>2. rest \in SUBSET Gear
    OBVIOUS
  <2> HIDE DEF rest
  <2>3. m \in Node
    BY <2>1, <2>2, Zenon
  <2>4. SameModel(m, n)
    BY <2>1 DEF SameModel
  <2>5. SamePlays(m, n)
    BY <2>1 DEF SamePlays
  <2>6. m.armour = {} /\ m.gearKey = n.gearKey /\ m.overlapped = n.overlapped
    BY <2>1
  <2>7. m.sprites = rest /\ m.itemSprite = None
    BY <2>1
  <2> QED
    BY <1>1, <2>3, <2>4, <2>5, <2>6, <2>7 DEF rest
<1>2. CASE ~(n.itemSprite # None /\ n.model # None)
  <2>1. m = [n EXCEPT !.armour = {}]
    BY <1>2 DEF Entities!ClearGear
  <2>3. m \in Node
    BY <2>1, Zenon
  <2>4. SameModel(m, n)
    BY <2>1 DEF SameModel
  <2>5. SamePlays(m, n)
    BY <2>1 DEF SamePlays
  <2>6. m.armour = {} /\ m.gearKey = n.gearKey /\ m.overlapped = n.overlapped
    BY <2>1
  <2>7. m.sprites = n.sprites /\ m.itemSprite = n.itemSprite
    BY <2>1
  <2> QED
    BY <1>2, <2>3, <2>4, <2>5, <2>6, <2>7
<1> QED
  BY <1>1, <1>2

LEMMA ClearModelKeeps ==
  ASSUME NEW n \in Node, NEW m, m = Entities!ClearModel(n)
  PROVE  /\ m \in Node /\ m.id = n.id /\ m.look = n.look /\ m.token = n.token
         /\ m.model = None /\ ~m.animator /\ m.pendingAnims = n.pendingAnims
         /\ m.due = n.due /\ m.shown = n.shown
         /\ m.gearKey = None /\ m.armour = {} /\ m.sprites = {} /\ ~m.overlapped
<1> USE DEF Node, Entities!Node
<1>1. m = [n EXCEPT !.model = None, !.animator = FALSE, !.armour = {}, !.sprites = {},
                    !.itemSprite = None, !.gearKey = None, !.overlapped = FALSE]
  BY DEF Entities!ClearModel
<1>2. m \in Node
  BY <1>1, Zenon
<1>3. m.id = n.id /\ m.look = n.look /\ m.token = n.token
  BY <1>1
<1>4. m.model = None /\ m.animator = FALSE /\ m.pendingAnims = n.pendingAnims
  BY <1>1
<1>5. m.due = n.due /\ m.shown = n.shown
  BY <1>1
<1>6. m.gearKey = None /\ m.armour = {} /\ m.sprites = {} /\ m.overlapped = FALSE
  BY <1>1
<1> QED
  BY <1>2, <1>3, <1>4, <1>5, <1>6

-----------------------------------------------------------------------------
(* What holds of a scene, a record of the fields, with frames counted to f: *)
(* a load knows the node it is for by its number and token, and a node has *)
(* one model coming or one there.                                          *)

EScene == [node : Node \cup {None}, loads : SUBSET Loads, early : Seq(Nat), unseen : Seq(Nat)]

Own(l, n) == l.node = n.id /\ l.token = n.token

ModelHeld(n, ls) ==
  /\ n.model \in {None, n.look}
  /\ \A l \in ls : l.of = "model" /\ Own(l, n) => n.model = None /\ l.look = n.look
  /\ \A k, l \in ls : l.of = "model" /\ Own(l, n) /\ Own(k, n) => k = l
  /\ n.model = None => \A l \in ls : Own(l, n) => l.of = "model"

Worn(n) ==
  n.overlapped \/ /\ n.armour \subseteq {n.gearKey} /\ n.sprites \subseteq {n.gearKey}
                  /\ n.sprites \subseteq {n.itemSprite}
Wearing(n, ls) ==
  n.overlapped \/ \A l \in ls : l.of # "model" /\ Own(l, n) => l.gear = n.gearKey

Played(n) == n.shown \o n.pendingAnims = n.due /\ (n.animator => n.pendingAnims = <<>>)

Numbered(s, f) ==
  /\ s \in EScene
  /\ \A l \in s.loads : l.node <= f
  /\ s.node # None => /\ s.node.id <= f /\ Worn(s.node) /\ Played(s.node)
                      /\ \A l \in s.loads : l.node = s.node.id => l.token <= s.node.token

Held(s, f) ==
  /\ Numbered(s, f)
  /\ s.node = None => s.early = Entities!Newest(s.unseen)
  /\ s.node # None => ModelHeld(s.node, s.loads) /\ Wearing(s.node, s.loads)

LEMMA RequestHolds ==
  ASSUME NEW s, NEW f \in Nat, Numbered(s, f), s.node # None, s.node.model = None,
         NEW e \in Entities!Entity, e.look = s.node.look, NEW reg \in BOOLEAN, reg \/ s.loads = {},
         NEW t, t = Entities!RequestEntityModel(s, e, reg)
  PROVE  /\ Held(t, f) /\ t.node # None /\ t.node.look = e.look /\ t.node.model = None
         /\ ~reg => t = s
<1>0. s.node \in Node /\ s.loads \in SUBSET Loads /\ s \in EScene
  BY DEF Numbered, EScene
<1>1. CASE ~reg
  <2>1. t = s
    BY <1>1 DEF Entities!RequestEntityModel
  <2> QED
    BY <1>1, <2>1 DEF Held, ModelHeld, Wearing, Numbered
<1>2. CASE reg
  <2> DEFINE k == s.node.token + 1
             n == [s.node EXCEPT !.token = k]
             l == Entities!Load(n, "model", e.look, e.gear)
             ls == s.loads \cup {l}
  <2>1. k \in Nat /\ k > s.node.token
    BY <1>0 DEF Node, Entities!Node
  <2>2. t = [s EXCEPT !.node = n, !.loads = ls]
    BY <1>2 DEF Entities!RequestEntityModel
  <2> HIDE DEF k
  <2>3. n \in Node
    BY <1>0, <2>1, Zenon DEF Node, Entities!Node
  <2>4. n.id = s.node.id /\ n.look = s.node.look /\ n.token = k /\ n.model = None
    BY <1>0 DEF Node, Entities!Node
  <2>5. n.animator = s.node.animator /\ n.pendingAnims = s.node.pendingAnims
        /\ n.due = s.node.due /\ n.shown = s.node.shown
    BY <1>0 DEF Node, Entities!Node
  <2>6. n.gearKey = s.node.gearKey /\ n.armour = s.node.armour /\ n.sprites = s.node.sprites
        /\ n.itemSprite = s.node.itemSprite /\ n.overlapped = s.node.overlapped
    BY <1>0 DEF Node, Entities!Node
  <2>7. l \in Loads /\ l.of = "model" /\ l.node = n.id /\ l.token = k /\ l.look = e.look
    BY <2>3, <2>4 DEF Entities!Load, Loads, LoadKind, Node, Entities!Node, Entities!Entity
  <2> HIDE DEF n, l
  <2>8. ls \in SUBSET Loads
    BY <1>0, <2>7
  <2>9. t \in EScene
    BY <1>0, <2>2, <2>3, <2>8, Zenon DEF EScene
  <2>10. t.node = n /\ t.loads = ls
    BY <1>0, <2>2 DEF EScene
  <2>11. n # None /\ Worn(n) /\ Played(n)
    BY <2>3, <2>5, <2>6, NodeIsThere DEF Numbered, Worn, Played
  <2>12. \A m \in ls : m.node <= f /\ (m.node = n.id => m.token <= n.token)
    <3> TAKE m \in ls
    <3>0. m \in Loads /\ s.node.token \in Nat /\ s.node.id <= f
      BY <1>0, <2>8 DEF Numbered, Node, Entities!Node
    <3>1. CASE m = l
      BY <3>1, <3>0, <2>1, <2>4, <2>7
    <3>2. CASE m \in s.loads
      <4>1. m.node <= f /\ (m.node = s.node.id => m.token <= s.node.token)
        BY <3>2 DEF Numbered
      <4>2. m.token \in Nat /\ s.node.token \in Nat
        BY <3>0 DEF Loads
      <4> QED
        BY <4>1, <4>2, <2>1, <2>4
    <3> QED
      BY <3>1, <3>2
  <2>13. \A m \in ls : Own(m, n) => m = l
    <3> TAKE m \in ls
    <3> HAVE Own(m, n)
    <3>1. CASE m \in s.loads
      <4>1. m.node = s.node.id => m.token <= s.node.token
        BY <3>1 DEF Numbered
      <4>2. m.token = k /\ m.node = s.node.id
        BY <2>4 DEF Own
      <4>3. s.node.token \in Nat
        BY <1>0 DEF Node, Entities!Node
      <4> QED
        BY <4>1, <4>2, <4>3, <2>1
    <3> QED
      BY <3>1
  <2>14. Numbered(t, f)
    BY <2>4, <2>9, <2>10, <2>11, <2>12 DEF Numbered
  <2>15. ModelHeld(n, ls) /\ Wearing(n, ls)
    BY <2>13, <2>4, <2>7 DEF ModelHeld, Wearing
  <2> QED
    BY <1>2, <2>14, <2>15, <2>10, <2>4, <2>11 DEF Held
<1> QED
  BY <1>1, <1>2

LEMMA SyncHolds ==
  ASSUME NEW s, NEW f \in Nat, Held(s, f), s.node # None, NEW g \in Gear,
         NEW t, t = Entities!SyncEntityGear(s, g)
  PROVE  /\ Held(t, f) /\ t.node # None
         /\ t.node.look = s.node.look /\ t.node.model = s.node.model
         /\ s.node.model = None => t = s
<1>0. s.node \in Node /\ s.loads \in SUBSET Loads /\ s \in EScene
  BY DEF Held, Numbered, EScene
<1>1. CASE s.node.model = None \/ g = s.node.gearKey
  BY <1>1 DEF Entities!SyncEntityGear
<1>2. CASE ~(s.node.model = None \/ g = s.node.gearKey)
  <2> DEFINE c == Entities!ClearGear(s.node)
             busy == \E l \in s.loads : Entities!LoadsGear(l, c)
             n == [c EXCEPT !.gearKey = g, !.overlapped = c.overlapped \/ busy]
             l == Entities!Load(s.node, "armour", s.node.look, g)
             ls == IF g = Bare THEN s.loads ELSE s.loads \cup {l}
  <2>1. t = [s EXCEPT !.node = n, !.loads = ls]
    BY <1>2, ZenonT(30) DEF Entities!SyncEntityGear
  <2>2. c \in Node /\ SameModel(c, s.node) /\ SamePlays(c, s.node) /\ c.armour = {}
        /\ c.overlapped = s.node.overlapped
        /\ (~s.node.overlapped => c.sprites \subseteq {})
    <3>1. c \in Node /\ SameModel(c, s.node) /\ SamePlays(c, s.node) /\ c.armour = {}
        /\ c.overlapped = s.node.overlapped
      BY <1>0, ClearGearKeeps
    <3>2. CASE s.node.itemSprite # None
      <4>1. c.sprites = s.node.sprites \ {s.node.itemSprite}
        BY <1>0, <1>2, <3>2, ClearGearKeeps
      <4> QED
        BY <3>1, <4>1 DEF Held, Numbered, Worn
    <3>3. CASE s.node.itemSprite = None
      <4>1. c.sprites = s.node.sprites
        BY <1>0, <3>3, ClearGearKeeps
      <4>2. s.node.sprites \subseteq Gear
        BY <1>0 DEF Node, Entities!Node
      <4> QED
        BY <3>1, <3>3, <4>1, <4>2, NodeIsThere DEF Held, Numbered, Worn
    <3> QED
      BY <3>2, <3>3
  <2> HIDE DEF c
  <2>3. n \in Node
    <3>1. (c.overlapped \/ busy) \in BOOLEAN
      OBVIOUS
    <3> HIDE DEF busy
    <3> QED
      BY <2>2, <3>1, Zenon DEF Node, Entities!Node
  <2>4. n.id = s.node.id /\ n.look = s.node.look /\ n.token = s.node.token /\ n.model = s.node.model
    BY <2>2 DEF Node, Entities!Node, SameModel
  <2>5. n.animator = s.node.animator /\ n.pendingAnims = s.node.pendingAnims
        /\ n.due = s.node.due /\ n.shown = s.node.shown
    BY <2>2 DEF Node, Entities!Node, SamePlays
  <2>6. n.gearKey = g /\ n.armour = c.armour /\ n.sprites = c.sprites
    BY <2>2 DEF Node, Entities!Node
  <2>7. n.overlapped = (c.overlapped \/ busy)
    BY <2>2 DEF Node, Entities!Node
  <2>8. l \in Loads /\ l.of = "armour" /\ l.node = s.node.id /\ l.token = s.node.token /\ l.gear = g
    BY <1>0 DEF Entities!Load, Loads, LoadKind, Node, Entities!Node
  <2> HIDE DEF n, l
  <2>9. ls \in SUBSET Loads /\ (\A m \in ls : m \in s.loads \/ m = l)
    BY <1>0, <2>8
  <2> HIDE DEF ls
  <2>10. t \in EScene
    BY <1>0, <2>1, <2>3, <2>9, Zenon DEF EScene
  <2>11. t.node = n /\ t.loads = ls
    BY <1>0, <2>1 DEF EScene
  <2>12. n # None /\ Played(n) /\ (n.overlapped \/ (~s.node.overlapped /\ ~busy))
    BY <2>2, <2>3, <2>5, <2>7, NodeIsThere DEF Held, Numbered, Played
  <2>13. Worn(n)
    BY <2>2, <2>6, <2>12 DEF Worn
  <2>14. \A m \in ls : m.node <= f /\ (m.node = n.id => m.token <= n.token)
    <3>1. s.node.token \in Nat /\ s.node.id <= f
      BY <1>0 DEF Held, Numbered, Node, Entities!Node
    <3> QED
      BY <2>4, <2>8, <2>9, <3>1 DEF Held, Numbered
  <2>15. Numbered(t, f)
    <3>1. n.id <= f
      BY <2>4 DEF Held, Numbered
    <3> QED
      BY <3>1, <2>10, <2>11, <2>12, <2>13, <2>14 DEF Numbered
  <2>16. ModelHeld(n, ls)
    <3>1. ModelHeld(s.node, s.loads) /\ n.model # None
      BY <1>2, <2>4 DEF Held
    <3>2. \A m \in ls : m.of = "model" /\ Own(m, n) => FALSE
      BY <2>4, <2>8, <2>9, <3>1 DEF ModelHeld, Own
    <3> QED
      BY <2>4, <3>1, <3>2 DEF ModelHeld
  <2>17. Wearing(n, ls)
    <3>1. ~busy => \A m \in s.loads : m.of # "model" /\ Own(m, n) => FALSE
      BY <2>2, <2>4 DEF Entities!LoadsGear, Own, SameModel
    <3> QED
      BY <3>1, <2>6, <2>8, <2>9, <2>12 DEF Wearing
  <2> QED
    BY <1>2, <2>4, <2>11, <2>12, <2>15, <2>16, <2>17 DEF Held
<1> QED
  BY <1>1, <1>2

(* A scene for the entity e of the store; without a registry nothing has   *)
(* been fetched.                                                           *)
Fits(s, f, e, reg) ==
  /\ Held(s, f)
  /\ e \in Entities!Entity \cup {None}
  /\ e # None => s.node # None /\ s.node.look = e.look
  /\ ~reg => s.loads = {} /\ (s.node # None => s.node.model = None)

EntityInv ==
  /\ entityFrames \in Nat /\ playCount \in Nat /\ entityRegistry \in BOOLEAN
  /\ Fits(Entities!Scene, entityFrames, entity, entityRegistry)
  /\ node # None /\ entity = None => wiping

LEMMA EntityAfter ==
  ASSUME NEW s, NEW f \in Nat, NEW e, NEW reg \in BOOLEAN, Fits(s, f, e, reg),
         Entities!Put(s), entityFrames' = f, entity' = e, entityRegistry' = reg,
         playCount' \in Nat, s.node # None /\ e = None => wiping'
  PROVE  EntityInv'
<1>1. s = [node |-> s.node, loads |-> s.loads, early |-> s.early, unseen |-> s.unseen]
  BY DEF Fits, Held, Numbered, EScene
<1>2. Entities!Scene' = s /\ node' = s.node
  BY <1>1 DEF Entities!Put, Entities!Scene
<1>3. Fits(Entities!Scene, entityFrames, entity, entityRegistry)'
        = Fits(Entities!Scene', entityFrames', entity', entityRegistry')
  BY DEF Fits, Held, Numbered, ModelHeld, Wearing
<1> QED
  BY <1>2, <1>3 DEF EntityInv

LEMMA SceneParts ==
  /\ Entities!Scene.node = node /\ Entities!Scene.loads = loads
  /\ Entities!Scene.early = earlyAnims /\ Entities!Scene.unseen = unseen
  BY DEF Entities!Scene

(* The newest plays. *)
LEMMA NewestIsSeq == ASSUME NEW q \in Seq(Nat) PROVE Entities!Newest(q) \in Seq(Nat)
  BY PageAssumption DEF Entities!EntityAssumption, Entities!Newest

LEMMA NewestOfNewest ==
  ASSUME NEW q \in Seq(Nat), NEW p \in Nat
  PROVE  Entities!Newest(Append(Entities!Newest(q), p)) = Entities!Newest(Append(q, p))
<1>0. EarlyMax \in Nat /\ Len(q) \in Nat
  BY PageAssumption DEF Entities!EntityAssumption
<1>1. CASE Len(q) <= EarlyMax
  BY <1>1 DEF Entities!Newest
<1>2. CASE Len(q) > EarlyMax
  <2> DEFINE r == SubSeq(q, Len(q) - EarlyMax + 1, Len(q))
             a == Append(r, p)
             b == Append(q, p)
  <2>1. r \in Seq(Nat) /\ Len(r) = EarlyMax /\ \A i \in 1..EarlyMax : r[i] = q[Len(q) - EarlyMax + i]
    BY <1>0, <1>2
  <2>2. Entities!Newest(q) = r
    BY <1>0, <1>2 DEF Entities!Newest
  <2> HIDE DEF r
  <2>3. a \in Seq(Nat) /\ Len(a) = EarlyMax + 1
        /\ \A i \in 1..EarlyMax + 1 : a[i] = IF i = EarlyMax + 1 THEN p ELSE r[i]
    BY <1>0, <2>1
  <2>4. b \in Seq(Nat) /\ Len(b) = Len(q) + 1
        /\ \A i \in 1..Len(q) + 1 : b[i] = IF i = Len(q) + 1 THEN p ELSE q[i]
    BY <1>0
  <2> HIDE DEF a, b
  <2>5. Entities!Newest(a) = SubSeq(a, 2, EarlyMax + 1)
    BY <1>0, <2>3 DEF Entities!Newest
  <2>6. Entities!Newest(b) = SubSeq(b, Len(q) + 2 - EarlyMax, Len(q) + 1)
    BY <1>0, <1>2, <2>4 DEF Entities!Newest
  <2>7. \A i \in 1..EarlyMax : a[i + 1] = b[Len(q) + 1 - EarlyMax + i]
    <3> TAKE i \in 1..EarlyMax
    <3> DEFINE j == Len(q) + 1 - EarlyMax + i
    <3>1. i \in Nat /\ i + 1 \in 1..EarlyMax + 1 /\ j \in 1..Len(q) + 1
      BY <1>0, <1>2
    <3>2. CASE i = EarlyMax
      BY <1>0, <3>1, <3>2, <2>3, <2>4
    <3>3. CASE i # EarlyMax
      <4>1. i + 1 \in 1..EarlyMax /\ i + 1 # EarlyMax + 1 /\ j # Len(q) + 1
            /\ Len(q) - EarlyMax + (i + 1) = j
        BY <1>0, <3>1, <3>3
      <4>2. a[i + 1] = r[i + 1] /\ r[i + 1] = q[j]
        BY <2>1, <2>3, <3>1, <4>1
      <4>3. b[j] = q[j]
        BY <2>4, <3>1, <4>1
      <4> QED
        BY <4>2, <4>3
    <3> QED
      BY <3>2, <3>3
  <2> DEFINE x == SubSeq(a, 2, EarlyMax + 1)
             y == SubSeq(b, Len(q) + 2 - EarlyMax, Len(q) + 1)
  <2>8. x \in Seq(Nat) /\ Len(x) = EarlyMax /\ \A i \in 1..EarlyMax : x[i] = a[i + 1]
    BY <1>0, <2>3
  <2>9. y \in Seq(Nat) /\ Len(y) = EarlyMax
        /\ \A i \in 1..EarlyMax : y[i] = b[Len(q) + 1 - EarlyMax + i]
    <3> DEFINE k == Len(q) + 2 - EarlyMax
    <3>1. k \in 1..Len(q) + 2 /\ Len(q) + 1 \in Nat /\ Len(q) + 1 - k + 1 = EarlyMax
      BY <1>0, <1>2
    <3>2. \A i \in 1..EarlyMax : k + i - 1 = Len(q) + 1 - EarlyMax + i
      BY <1>0
    <3> HIDE DEF k
    <3> DEFINE z == SubSeq(b, k, Len(q) + 1)
    <3>4. \A i \in k..Len(q) + 1 : b[i] \in Nat
      BY <1>0, <2>4, <3>1
    <3>5. z \in Seq(Nat) /\ Len(z) = (IF k <= Len(q) + 1 THEN Len(q) + 1 - k + 1 ELSE 0)
          /\ \A i \in 1..Len(q) + 1 - k + 1 : z[i] = b[k + i - 1]
      BY <3>1, <3>4, SubSeqProperties
    <3>6. Len(z) = EarlyMax
      BY <1>0, <3>1, <3>5
    <3> QED
      BY <3>1, <3>2, <3>5, <3>6 DEF k
  <2> HIDE DEF x, y
  <2>10. x = y
    BY <1>0, <2>7, <2>8, <2>9, SeqEqual
  <2> QED
    BY <2>2, <2>5, <2>6, <2>10 DEF x, y, a, b
<1> QED
  BY <1>0, <1>1, <1>2

LEMMA UpsertFits ==
  ASSUME NEW s, NEW e \in Entities!Entity, NEW old, entityFrames \in Nat, entityRegistry \in BOOLEAN,
         Fits(s, entityFrames, old, entityRegistry), NEW t, t = Entities!Upsert(s, e)
  PROVE  Fits(t, entityFrames + 1, e, entityRegistry)
<1> DEFINE f == entityFrames + 1
<1>0. f \in Nat /\ e # None /\ e.look \in Look /\ e.gear \in Gear
  BY NodeIsThere DEF Entities!Entity
<1>1. Held(s, entityFrames) /\ s \in EScene /\ s.loads \in SUBSET Loads
  BY DEF Fits, Held, Numbered, EScene
<1>2. \A l \in s.loads : l.node \in Nat /\ l.node <= entityFrames
  BY <1>1 DEF Held, Numbered, Loads
<1>3. entityRegistry \/ s.loads = {}
  BY DEF Fits
<1>4. Held(s, f)
  <2>1. s.node # None => s.node.id \in Nat /\ s.node.id <= entityFrames
    BY <1>1 DEF Held, Numbered, EScene, Node, Entities!Node
  <2>2. (\A l \in s.loads : l.node <= f) /\ (s.node # None => s.node.id <= f)
    BY <1>2, <2>1
  <2> QED
    BY <1>1, <2>2 DEF Held, Numbered
<1> HIDE DEF f
<1>5. CASE s.node = None
  <2> DEFINE n == Entities!NewNode(f, e.look, s.early, Entities!Newest(s.unseen))
             u == [s EXCEPT !.node = n, !.early = <<>>, !.unseen = <<>>]
  <2>1. t = Entities!RequestEntityModel(u, e, entityRegistry)
    BY <1>5 DEF Entities!Upsert, f
  <2>2. s.early = Entities!Newest(s.unseen) /\ s.early \in Seq(Nat)
    BY <1>1, <1>5 DEF Held, EScene
  <2>3. n \in Node
    BY <1>0, <2>2 DEF Node, Entities!Node, Entities!NewNode
  <2>4. n.id = f /\ n.look = e.look /\ n.model = None
    BY DEF Entities!NewNode
  <2>5. Worn(n)
    BY DEF Entities!NewNode, Worn
  <2>6. Played(n)
    <3>1. n.shown = <<>> /\ n.pendingAnims = s.early /\ n.due = s.early /\ n.animator = FALSE
      BY <2>2 DEF Entities!NewNode
    <3> QED
      BY <2>2, <3>1 DEF Played
  <2> HIDE DEF n
  <2>7. u \in EScene
    <3>1. <<>> \in Seq(Nat)
      OBVIOUS
    <3> QED
      BY <1>1, <2>3, <3>1, Zenon DEF EScene
  <2>8. u.node = n /\ u.loads = s.loads
    BY <1>1 DEF EScene
  <2> HIDE DEF u
  <2>9. \A l \in s.loads : l.node <= f /\ l.node # f
    BY <1>0, <1>2 DEF f
  <2>10. f <= f
    BY <1>0
  <2>11. Numbered(u, f)
    BY <2>4, <2>5, <2>6, <2>7, <2>8, <2>9, <2>10 DEF Numbered
  <2>12. u.node # None /\ u.node.model = None /\ e.look = u.node.look
    BY <2>3, <2>4, <2>8, NodeIsThere
  <2>13. entityRegistry \/ u.loads = {}
    BY <1>3, <2>8
  <2>14. Held(t, f) /\ t.node # None /\ t.node.look = e.look /\ t.node.model = None
         /\ (~entityRegistry => t = u)
    BY <1>0, <2>1, <2>11, <2>12, <2>13, RequestHolds
  <2> QED
    BY <1>0, <1>3, <2>8, <2>14 DEF Fits, f
<1>6. CASE s.node # None
  <2>0. s.node \in Node
    BY <1>1, <1>6 DEF EScene
  <2> DEFINE v == IF s.node.look # e.look
                  THEN Entities!RequestEntityModel(
                         [s EXCEPT !.node = Entities!ClearModel([s.node EXCEPT !.look = e.look])],
                         e, entityRegistry)
                  ELSE IF s.node.model = None
                  THEN Entities!RequestEntityModel(s, e, entityRegistry) ELSE s
  <2>1. t = Entities!SyncEntityGear(v, e.gear)
    BY <1>6, Zenon DEF Entities!Upsert
  <2>2. Held(v, f) /\ v.node # None /\ v.node.look = e.look
        /\ (~entityRegistry => v.loads = {} /\ v.node.model = None)
    <3>1. CASE s.node.look # e.look
      <4> DEFINE n == [s.node EXCEPT !.look = e.look]
                 m == Entities!ClearModel(n)
                 u == [s EXCEPT !.node = m]
      <4>1. v = Entities!RequestEntityModel(u, e, entityRegistry)
        BY <3>1
      <4>2. n.id = s.node.id /\ n.look = e.look /\ n.token = s.node.token
        BY <2>0 DEF Node, Entities!Node
      <4>3. n.pendingAnims = s.node.pendingAnims /\ n.due = s.node.due /\ n.shown = s.node.shown
        BY <2>0 DEF Node, Entities!Node
      <4>4. n \in {o \in Node : o.look = e.look}
        <5>1. [s.node EXCEPT !.look = e.look] \in Node
          <6> DEFINE q == s.node
          <6> HIDE DEF n
          <6> QED
            BY <1>0, <2>0, Zenon DEF Node, Entities!Node
        <5> QED
          BY <5>1, <4>2
      <4> HIDE DEF n
      <4>5. /\ m \in Node /\ m.id = s.node.id /\ m.look = e.look /\ m.token = s.node.token
            /\ m.model = None /\ ~m.animator /\ m.pendingAnims = s.node.pendingAnims
            /\ m.due = s.node.due /\ m.shown = s.node.shown
            /\ m.gearKey = None /\ m.armour = {} /\ m.sprites = {}
        BY <4>2, <4>3, <4>4, ClearModelKeeps
      <4> HIDE DEF m
      <4>6. u \in EScene
        BY <1>1, <4>5, Zenon DEF EScene
      <4>7. u.node = m /\ u.loads = s.loads
        BY <1>1 DEF EScene
      <4> HIDE DEF u, v
      <4>8. Worn(m) /\ Played(m)
        BY <1>4, <1>6, <4>5 DEF Held, Numbered, Worn, Played
      <4>9. Numbered(u, f) /\ u.node # None /\ u.node.model = None /\ e.look = u.node.look
        BY <1>4, <1>6, <4>5, <4>6, <4>7, <4>8, NodeIsThere DEF Held, Numbered
      <4>10. entityRegistry \/ u.loads = {}
        BY <1>3, <4>7
      <4>11. Held(v, f) /\ v.node # None /\ v.node.look = e.look /\ v.node.model = None
             /\ (~entityRegistry => v = u)
        BY <1>0, <4>1, <4>9, <4>10, RequestHolds
      <4> QED
        BY <1>3, <4>7, <4>11
    <3>2. CASE s.node.look = e.look /\ s.node.model = None
      <4>1. v = Entities!RequestEntityModel(s, e, entityRegistry)
        BY <3>2
      <4> HIDE DEF v
      <4>2. Held(v, f) /\ v.node # None /\ v.node.look = e.look /\ v.node.model = None
             /\ (~entityRegistry => v = s)
        BY <1>0, <1>3, <1>4, <1>6, <3>2, <4>1, RequestHolds DEF Held
      <4> QED
        BY <1>3, <4>2
    <3>3. CASE s.node.look = e.look /\ s.node.model # None
      BY <1>4, <1>6, <3>3 DEF Fits
    <3> QED
      BY <3>1, <3>2, <3>3
  <2> HIDE DEF v
  <2>3. /\ Held(t, f) /\ t.node # None /\ t.node.look = e.look
        /\ v.node.model = None => t = v
    BY <1>0, <2>1, <2>2, SyncHolds
  <2> QED
    BY <1>0, <2>2, <2>3 DEF Fits, f
<1> QED
  BY <1>5, <1>6

LEMMA RemoveFits ==
  ASSUME NEW s, NEW f \in Nat, NEW e, NEW reg, Fits(s, f, e, reg),
         NEW t, t = Entities!RemoveEntity(s)
  PROVE  Fits(t, f, None, reg) /\ t.node = None
<1>1. CASE s.node = None
  BY <1>1 DEF Entities!RemoveEntity, Fits
<1>2. CASE s.node # None
  <2>1. t = [s EXCEPT !.node = None, !.early = <<>>, !.unseen = <<>>]
    BY <1>2 DEF Entities!RemoveEntity
  <2>2. s \in EScene /\ <<>> \in Seq(Nat)
    BY DEF Fits, Held, Numbered
  <2>3. t \in EScene
    BY <2>1, <2>2, Zenon DEF EScene
  <2>4. t.node = None /\ t.loads = s.loads /\ t.early = <<>> /\ t.unseen = <<>>
    BY <2>1, <2>2 DEF EScene
  <2>5. Entities!Newest(<<>>) = <<>>
    BY PageAssumption DEF Entities!EntityAssumption, Entities!Newest
  <2> QED
    BY <2>3, <2>4, <2>5 DEF Fits, Held, Numbered
<1> QED
  BY <1>1, <1>2

LEMMA ForgetFits ==
  ASSUME NEW s, NEW f \in Nat, NEW e, NEW reg, Fits(s, f, e, reg),
         NEW t, t = Entities!ForgetEarly(s)
  PROVE  Fits(t, f, e, reg) /\ t.node = s.node
<1>1. t = [s EXCEPT !.early = <<>>, !.unseen = <<>>]
  BY DEF Entities!ForgetEarly
<1>2. s \in EScene /\ <<>> \in Seq(Nat)
  BY DEF Fits, Held, Numbered
<1>3. t \in EScene
  BY <1>1, <1>2, Zenon DEF EScene
<1>4. t.node = s.node /\ t.loads = s.loads /\ t.early = <<>> /\ t.unseen = <<>>
  BY <1>1, <1>2 DEF EScene
<1>5. Entities!Newest(<<>>) = <<>>
  BY PageAssumption DEF Entities!EntityAssumption, Entities!Newest
<1>6. Numbered(t, f)
  BY <1>3, <1>4 DEF Fits, Held, Numbered
<1> QED
  BY <1>4, <1>5, <1>6 DEF Fits, Held

LEMMA LaterFits ==
  ASSUME NEW s, NEW f \in Nat, NEW e, NEW reg, Fits(s, f, e, reg)
  PROVE  Fits(s, f + 1, e, reg)
<1>1. \A l \in s.loads : l.node \in Nat /\ l.node <= f
  BY DEF Fits, Held, Numbered, EScene, Loads
<1>2. s.node # None => s.node.id \in Nat /\ s.node.id <= f
  BY DEF Fits, Held, Numbered, EScene, Node, Entities!Node
<1>3. (\A l \in s.loads : l.node <= f + 1) /\ (s.node # None => s.node.id <= f + 1)
  BY <1>1, <1>2
<1>4. Numbered(s, f + 1)
  BY <1>3 DEF Fits, Held, Numbered
<1> QED
  BY <1>4 DEF Fits, Held

LEMMA FramesKeepEntity ==
  ASSUME EntityInv,
         Entities!EntityChanged \/ Entities!EntityRemoved \/ Entities!WorldReplaced
  PROVE  EntityInv'
<1> DEFINE s == Entities!Scene
           f == entityFrames + 1
<1>0. /\ Fits(s, entityFrames, entity, entityRegistry) /\ s.node = node
      /\ entityFrames \in Nat /\ f \in Nat /\ entityRegistry \in BOOLEAN /\ playCount \in Nat
      /\ None \notin Entities!Entity
  BY SceneParts, NodeIsThere DEF EntityInv
<1>1. entityFrames' = f /\ entityRegistry' = entityRegistry /\ playCount' = playCount
  BY DEF Entities!EntityChanged, Entities!EntityRemoved, Entities!WorldReplaced, Entities!Counted
<1> HIDE DEF s, f
<1>2. CASE Entities!EntityChanged
  <2>1. PICK e \in Entities!Entity : entity' = e /\ Entities!Put(Entities!Upsert(s, e))
    BY <1>2 DEF Entities!EntityChanged, s
  <2>2. PICK t : t = Entities!Upsert(s, e)
    OBVIOUS
  <2>3. Fits(t, f, e, entityRegistry)
    BY <1>0, <2>2, UpsertFits DEF f
  <2>4. Entities!Put(t)
    BY <2>1, <2>2
  <2> QED
    BY <1>0, <1>1, <2>1, <2>3, <2>4, EntityAfter
<1>3. CASE Entities!EntityRemoved
  <2>1. entity' = None /\ Entities!Put(Entities!RemoveEntity(s))
    BY <1>3 DEF Entities!EntityRemoved, s
  <2>2. PICK t : t = Entities!RemoveEntity(s)
    OBVIOUS
  <2>3. Fits(t, f, None, entityRegistry) /\ t.node = None
    BY <1>0, <2>2, RemoveFits, LaterFits DEF f
  <2>4. Entities!Put(t)
    BY <2>1, <2>2
  <2> QED
    BY <1>0, <1>1, <2>1, <2>3, <2>4, EntityAfter
<1>4. CASE Entities!WorldReplaced
  <2>1. PICK r : r = Entities!ForgetEarly(s)
    OBVIOUS
  <2>2. Fits(r, entityFrames, entity, entityRegistry)
    BY <1>0, <2>1, ForgetFits
  <2>3. ASSUME NEW e \in Entities!Entity, entity' = e, Entities!Put(Entities!Upsert(r, e))
        PROVE  EntityInv'
    <3>1. PICK t : t = Entities!Upsert(r, e)
      OBVIOUS
    <3>2. Fits(t, f, e, entityRegistry)
      BY <1>0, <2>2, <3>1, UpsertFits DEF f
    <3>3. Entities!Put(t)
      BY <2>3, <3>1
    <3> QED
      BY <1>0, <1>1, <2>3, <3>2, <3>3, EntityAfter
  <2>4. ASSUME entity' = None, Entities!Put(Entities!RemoveEntity(r))
        PROVE  EntityInv'
    <3>1. PICK t : t = Entities!RemoveEntity(r)
      OBVIOUS
    <3>2. Fits(t, f, None, entityRegistry) /\ t.node = None
      BY <1>0, <2>2, <3>1, RemoveFits, LaterFits DEF f
    <3>3. Entities!Put(t)
      BY <2>4, <3>1
    <3> QED
      BY <1>0, <1>1, <2>4, <3>2, <3>3, EntityAfter
  <2>5. ASSUME entity' = None, wiping', Entities!Put(r)
        PROVE  EntityInv'
    <3>1. Fits(r, f, None, entityRegistry)
      BY <1>0, <2>2, LaterFits DEF Fits, f
    <3> QED
      BY <1>0, <1>1, <2>5, <3>1, EntityAfter
  <2> QED
    BY <1>4, <2>1, <2>3, <2>4, <2>5 DEF Entities!WorldReplaced, s
<1> QED
  BY <1>2, <1>3, <1>4

LEMMA WipeKeepsEntity == ASSUME EntityInv, Entities!DrainWorldClear PROVE EntityInv'
<1> DEFINE s == Entities!Scene
<1>0. /\ Fits(s, entityFrames, entity, entityRegistry)
      /\ entityFrames \in Nat /\ entityRegistry \in BOOLEAN /\ playCount \in Nat
  BY DEF EntityInv
<1>1. /\ entityFrames' = entityFrames /\ entityRegistry' = entityRegistry
      /\ playCount' = playCount /\ entity' = entity
  BY DEF Entities!DrainWorldClear
<1> HIDE DEF s
<1>2. CASE entity = None
  <2>1. PICK t : t = Entities!RemoveEntity(s)
    OBVIOUS
  <2>2. Entities!Put(t)
    BY <1>2, <2>1 DEF Entities!DrainWorldClear, s
  <2>3. Fits(t, entityFrames, entity, entityRegistry) /\ t.node = None
    BY <1>0, <1>2, <2>1, RemoveFits
  <2> QED
    BY <1>0, <1>1, <2>2, <2>3, EntityAfter
<1>3. CASE entity # None
  <2>1. Entities!Put(s)
    BY <1>3 DEF Entities!DrainWorldClear, s
  <2> QED
    BY <1>0, <1>1, <1>3, <2>1, EntityAfter
<1> QED
  BY <1>2, <1>3

LEMMA RegistryKeepsEntity == ASSUME EntityInv, Entities!SetEntityRegistry PROVE EntityInv'
<1> DEFINE s == Entities!Scene
<1>0. /\ Fits(s, entityFrames, entity, FALSE) /\ s.node = node
      /\ entityFrames \in Nat /\ playCount \in Nat
      /\ (node # None /\ entity = None => wiping)
  BY SceneParts DEF EntityInv, Entities!SetEntityRegistry
<1>1. /\ entityFrames' = entityFrames /\ entityRegistry' = TRUE
      /\ playCount' = playCount /\ entity' = entity /\ wiping' = wiping
  BY DEF Entities!SetEntityRegistry, Entities!Still
<1> HIDE DEF s
<1>2. CASE node # None /\ entity # None
  <2>0. PICK reg \in BOOLEAN : reg = TRUE
    OBVIOUS
  <2>1. PICK t : t = Entities!RequestEntityModel(s, entity, reg)
    OBVIOUS
  <2>2. Entities!Put(t)
    BY <1>2, <2>0, <2>1 DEF Entities!SetEntityRegistry, s
  <2>3. Numbered(s, entityFrames) /\ s.node.model = None /\ entity \in Entities!Entity
        /\ entity.look = s.node.look
    BY <1>0, <1>2 DEF Fits, Held
  <2>4. Held(t, entityFrames) /\ t.node # None /\ t.node.look = entity.look
    <3>1. reg \/ s.loads = {}
      BY <2>0
    <3> QED
      BY <1>0, <1>2, <2>1, <2>3, <3>1, RequestHolds
  <2>5. Fits(t, entityFrames, entity, TRUE)
    BY <2>3, <2>4 DEF Fits
  <2> QED
    BY <1>0, <1>1, <1>2, <2>2, <2>5, EntityAfter
<1>3. CASE ~(node # None /\ entity # None)
  <2>1. Entities!Put(s)
    BY <1>3 DEF Entities!SetEntityRegistry, s
  <2>2. Fits(s, entityFrames, entity, TRUE)
    BY <1>0 DEF Fits
  <2> QED
    BY <1>0, <1>1, <2>1, <2>2, EntityAfter
<1> QED
  BY <1>2, <1>3

LEMMA PaintKeepsEntity == ASSUME EntityInv, Entities!Paint PROVE EntityInv'
<1> DEFINE s == Entities!Scene
<1>0. /\ Fits(s, entityFrames, entity, entityRegistry) /\ s.node = node
      /\ entityFrames \in Nat /\ entityRegistry \in BOOLEAN /\ playCount \in Nat
      /\ node # None /\ entity # None
  BY SceneParts DEF EntityInv, Entities!Paint
<1>1. /\ entityFrames' = entityFrames /\ entityRegistry' = entityRegistry
      /\ playCount' = playCount /\ entity' = entity /\ wiping' = wiping
  BY DEF Entities!Paint, Entities!Still
<1>2. entity.gear \in Gear
  BY <1>0 DEF Fits, Entities!Entity
<1> HIDE DEF s
<1>3. PICK t : t = Entities!SyncEntityGear(s, entity.gear)
  OBVIOUS
<1>4. Entities!Put(t)
  BY <1>3 DEF Entities!Paint, s
<1>5. /\ Held(t, entityFrames) /\ t.node # None /\ t.node.look = s.node.look
      /\ s.node.model = None => t = s
  BY <1>0, <1>2, <1>3, SyncHolds DEF Fits
<1>6. Fits(t, entityFrames, entity, entityRegistry)
  BY <1>0, <1>5 DEF Fits
<1> QED
  BY <1>0, <1>1, <1>4, <1>6, EntityAfter

LEMMA AppendConcat ==
  ASSUME NEW q \in Seq(Nat), NEW r \in Seq(Nat), NEW p \in Nat
  PROVE  q \o Append(r, p) = Append(q \o r, p)
<1>1. /\ q \o r \in Seq(Nat) /\ <<p>> \in Seq(Nat)
      /\ Append(r, p) = r \o <<p>>
  BY AppendIsConcat, ConcatProperties
<1>2. Append(q \o r, p) = (q \o r) \o <<p>>
  BY <1>1, AppendIsConcat
<1> QED
  BY <1>1, <1>2, ConcatAssociative

(* A play goes to the animator, or waits. *)
LEMMA AnimateKeepsEntity == ASSUME EntityInv, Entities!EntityAnimate PROVE EntityInv'
<1> DEFINE s == Entities!Scene
           p == playCount + 1
<1>0. /\ Fits(s, entityFrames, entity, entityRegistry) /\ s.node = node
      /\ s.early = earlyAnims /\ s.unseen = unseen
      /\ entityFrames \in Nat /\ entityRegistry \in BOOLEAN /\ p \in Nat
      /\ (node # None /\ entity = None => wiping)
  BY SceneParts DEF EntityInv
<1>1. /\ entityFrames' = entityFrames /\ entityRegistry' = entityRegistry
      /\ playCount' = p /\ entity' = entity /\ wiping' = wiping
  BY DEF Entities!EntityAnimate
<1>2. s \in EScene
  BY <1>0 DEF Fits, Held, Numbered
<1>3. s.early \in Seq(Nat) /\ s.unseen \in Seq(Nat)
  BY <1>2 DEF EScene
<1> HIDE DEF s
<1>4. CASE node = None
  <2> DEFINE early == Entities!Newest(Append(s.early, p))
             uns == Append(s.unseen, p)
             t == [s EXCEPT !.early = early, !.unseen = uns]
  <2>1. Entities!Put([s EXCEPT !.early = Entities!Newest(Append(@, playCount')),
                               !.unseen = Append(@, playCount')])
    BY <1>4 DEF Entities!EntityAnimate, s
  <2>2. Entities!Put(t)
    BY <1>1, <2>1
  <2>3. early \in Seq(Nat) /\ uns \in Seq(Nat) /\ early = Entities!Newest(uns)
    <3>1. Append(s.early, p) \in Seq(Nat) /\ uns \in Seq(Nat)
      BY <1>0, <1>3
    <3>2. s.early = Entities!Newest(s.unseen)
      BY <1>0, <1>4 DEF Fits, Held
    <3> HIDE DEF p
    <3> QED
      BY <1>0, <1>3, <3>1, <3>2, NewestIsSeq, NewestOfNewest
  <2> HIDE DEF early, uns
  <2>4. t \in EScene
    BY <1>2, <2>3, Zenon DEF EScene
  <2>5. t.node = s.node /\ t.loads = s.loads /\ t.early = early /\ t.unseen = uns
    BY <1>2 DEF EScene
  <2> HIDE DEF t
  <2>6. Fits(t, entityFrames, entity, entityRegistry)
    BY <1>0, <1>4, <2>3, <2>4, <2>5 DEF Fits, Held, Numbered
  <2> QED
    BY <1>0, <1>1, <1>4, <2>2, <2>5, <2>6, EntityAfter
<1>5. CASE node # None
  <2> DEFINE n == IF node.animator
                  THEN [node EXCEPT !.shown = Append(node.shown, p), !.due = Append(node.due, p)]
                  ELSE [node EXCEPT !.pendingAnims = Append(node.pendingAnims, p),
                                    !.due = Append(node.due, p)]
             t == [s EXCEPT !.node = n]
  <2>0. node \in Node /\ Played(node) /\ Worn(node) /\ ModelHeld(node, s.loads) /\ Wearing(node, s.loads)
    BY <1>0, <1>2, <1>5 DEF EScene, Fits, Held, Numbered
  <2>1. Entities!Put(t)
    BY <1>0, <1>1, <1>5 DEF Entities!EntityAnimate, s
  <2>2. /\ Append(node.shown, p) \in Seq(Nat) /\ Append(node.due, p) \in Seq(Nat)
        /\ Append(node.pendingAnims, p) \in Seq(Nat)
    BY <1>0, <2>0 DEF Node, Entities!Node
  <2>3. n \in Node /\ SameModel(n, node) /\ SameGear(n, node) /\ Played(n)
    <3>1. CASE node.animator
      <4> DEFINE shown2 == Append(node.shown, p)
                 due2 == Append(node.due, p)
      <4>1. n = [node EXCEPT !.shown = shown2, !.due = due2]
        BY <3>1
      <4>2. shown2 \in Seq(Nat) /\ due2 \in Seq(Nat)
        BY <2>2
      <4>3. node.pendingAnims = <<>> /\ node.shown \in Seq(Nat) /\ node.shown = node.due
        <5>1. node.pendingAnims = <<>> /\ node.shown \in Seq(Nat) /\ node.shown \o <<>> = node.due
          BY <2>0, <3>1 DEF Played, Node, Entities!Node
        <5> QED
          BY <5>1, ConcatEmptySeq
      <4>4. shown2 \o <<>> = due2
        BY <4>2, <4>3
      <4> HIDE DEF shown2, due2, n
      <4>5. n \in Node
        BY <4>1, <4>2, <2>0, Zenon DEF Node, Entities!Node
      <4>6. SameModel(n, node)
        BY <4>1, <2>0 DEF SameModel, Node, Entities!Node
      <4>7. SameGear(n, node)
        BY <4>1, <2>0 DEF SameGear, Node, Entities!Node
      <4>8. n.shown = shown2 /\ n.due = due2 /\ n.pendingAnims = node.pendingAnims
        BY <4>1, <2>0 DEF Node, Entities!Node
      <4> QED
        BY <4>3, <4>4, <4>5, <4>6, <4>7, <4>8 DEF Played
    <3>2. CASE ~node.animator
      <4> DEFINE pend2 == Append(node.pendingAnims, p)
                 due2 == Append(node.due, p)
      <4>1. n = [node EXCEPT !.pendingAnims = pend2, !.due = due2]
        BY <3>2
      <4>2. pend2 \in Seq(Nat) /\ due2 \in Seq(Nat)
        BY <2>2
      <4>3. node.pendingAnims \in Seq(Nat) /\ node.shown \in Seq(Nat)
            /\ node.shown \o node.pendingAnims = node.due
        BY <2>0 DEF Played, Node, Entities!Node
      <4>4. node.shown \o pend2 = due2
        <5> HIDE DEF p
        <5>1. node.shown \o Append(node.pendingAnims, p) = Append(node.shown \o node.pendingAnims, p)
          BY <1>0, <4>3, AppendConcat
        <5> QED
          BY <4>3, <5>1
      <4> HIDE DEF pend2, due2, n
      <4>5. n \in Node
        BY <4>1, <4>2, <2>0, Zenon DEF Node, Entities!Node
      <4>6. SameModel(n, node)
        BY <4>1, <2>0 DEF SameModel, Node, Entities!Node
      <4>7. SameGear(n, node)
        BY <4>1, <2>0 DEF SameGear, Node, Entities!Node
      <4>8. n.shown = node.shown /\ n.due = due2 /\ n.pendingAnims = pend2
        BY <4>1, <2>0 DEF Node, Entities!Node
      <4>9. n.animator = node.animator
        BY <4>1, <2>0 DEF Node, Entities!Node
      <4> QED
        BY <3>2, <4>4, <4>5, <4>6, <4>7, <4>8, <4>9 DEF Played
    <3> QED
      BY <3>1, <3>2
  <2> HIDE DEF n
  <2>4. t \in EScene
    BY <1>2, <2>3, Zenon DEF EScene
  <2>5. t.node = n /\ t.loads = s.loads
    BY <1>2 DEF EScene
  <2> HIDE DEF t
  <2>6. n # None
    BY <2>3, NodeIsThere
  <2>7. Worn(n)
    BY <2>0, <2>3 DEF Worn, SameGear
  <2>8. ModelHeld(n, s.loads) /\ Wearing(n, s.loads)
    BY <2>0, <2>3 DEF ModelHeld, Wearing, SameModel, SameGear, Own
  <2>9. Numbered(t, entityFrames)
    BY <1>0, <1>5, <2>3, <2>4, <2>5, <2>6, <2>7 DEF Fits, Held, Numbered, SameModel
  <2>10. Fits(t, entityFrames, entity, entityRegistry)
    BY <1>0, <1>5, <2>3, <2>5, <2>6, <2>8, <2>9 DEF Fits, Held, SameModel
  <2> QED
    BY <1>0, <1>1, <1>5, <2>1, <2>10, EntityAfter
<1> QED
  BY <1>4, <1>5

(* An answer: the load is gone. *)
LEMMA AnsweredFits ==
  ASSUME EntityInv, NEW l \in loads, NEW r, r = Entities!Answered(l)
  PROVE  /\ Fits(r, entityFrames, entity, entityRegistry)
         /\ r.node = node /\ r.loads = loads \ {l}
<1> DEFINE s == Entities!Scene
<1>0. Fits(s, entityFrames, entity, entityRegistry) /\ s.node = node /\ s.loads = loads
  BY SceneParts DEF EntityInv
<1>1. r = [s EXCEPT !.loads = loads \ {l}]
  BY <1>0 DEF Entities!Answered
<1> HIDE DEF s
<1>2. s \in EScene
  BY <1>0 DEF Fits, Held, Numbered
<1>3. (loads \ {l}) \in SUBSET Loads
  BY <1>0, <1>2 DEF EScene
<1>4. r \in EScene
  BY <1>1, <1>2, <1>3, Zenon DEF EScene
<1>5. r.node = s.node /\ r.loads = loads \ {l} /\ r.early = s.early /\ r.unseen = s.unseen
  BY <1>1, <1>2 DEF EScene
<1>6. Numbered(r, entityFrames)
  BY <1>0, <1>4, <1>5 DEF Fits, Held, Numbered
<1>7. r.node # None => ModelHeld(r.node, r.loads) /\ Wearing(r.node, r.loads)
  BY <1>0, <1>5 DEF Fits, Held, ModelHeld, Wearing
<1> QED
  BY <1>0, <1>5, <1>6, <1>7 DEF Fits, Held

(* The item in the hand is looked for next. *)
LEMMA HeldNext ==
  ASSUME NEW s, NEW f \in Nat, NEW e, NEW reg, reg, Fits(s, f, e, reg), s.node # None, s.node.model # None,
         NEW l \in Loads, l.of # "model", l.node <= f, l.node = s.node.id, l.token <= s.node.token,
         s.node.overlapped \/ (l.token = s.node.token => l.gear = s.node.gearKey),
         NEW t, t = [s EXCEPT !.loads = s.loads \cup {[l EXCEPT !.of = "held"]}]
  PROVE  Fits(t, f, e, reg) /\ t.node = s.node
<1> DEFINE k == [l EXCEPT !.of = "held"]
           ls == s.loads \cup {k}
<1>1. /\ k \in Loads /\ k.of = "held" /\ k.node = l.node /\ k.token = l.token /\ k.gear = l.gear
  BY DEF Loads, LoadKind
<1> HIDE DEF k
<1>2. s \in EScene /\ s.loads \in SUBSET Loads
  BY DEF Fits, Held, Numbered, EScene
<1>3. ls \in SUBSET Loads /\ \A m \in ls : m \in s.loads \/ m = k
  BY <1>1, <1>2
<1>4. t = [s EXCEPT !.loads = ls]
  BY DEF k
<1> HIDE DEF ls
<1>5. t \in EScene
  BY <1>2, <1>3, <1>4, Zenon DEF EScene
<1>6. t.node = s.node /\ t.loads = ls
  BY <1>2, <1>4 DEF EScene
<1>7. Numbered(t, f)
  BY <1>1, <1>3, <1>5, <1>6 DEF Fits, Held, Numbered
<1>8. ModelHeld(s.node, ls)
  <2>1. ModelHeld(s.node, s.loads)
    BY DEF Fits, Held
  <2>2. \A m \in ls : m.of = "model" => m \in s.loads
    BY <1>1, <1>3
  <2> QED
    BY <2>1, <2>2 DEF ModelHeld
<1>9. Wearing(s.node, ls)
  BY <1>1, <1>3 DEF Fits, Held, Wearing, Own
<1> QED
  BY <1>6, <1>7, <1>8, <1>9 DEF Fits, Held

LEMMA ArrivalAfter ==
  ASSUME EntityInv, Entities!Still, entityRegistry' = entityRegistry,
         NEW t, Fits(t, entityFrames, entity, entityRegistry), Entities!Put(t),
         t.node # None => node # None
  PROVE  EntityInv'
<1>1. /\ entityFrames \in Nat /\ entityRegistry \in BOOLEAN /\ playCount \in Nat
      /\ (node # None /\ entity = None => wiping)
  BY DEF EntityInv
<1>2. entityFrames' = entityFrames /\ playCount' = playCount /\ entity' = entity /\ wiping' = wiping
  BY DEF Entities!Still
<1> QED
  BY <1>1, <1>2, EntityAfter

LEMMA ModelShownHolds ==
  ASSUME NEW n \in Node, NEW look \in Look, Played(n), NEW m, m = Entities!ModelShown(n, look)
  PROVE  /\ m \in Node /\ m.id = n.id /\ m.look = n.look /\ m.token = n.token /\ m.model = look
         /\ Worn(m) /\ Played(m)
<1> DEFINE c == Entities!ClearModel(n)
           animated == look \notin PlainLook \/ n.pendingAnims # <<>>
           played == IF animated THEN c.shown \o n.pendingAnims ELSE c.shown
           waiting == IF animated THEN <<>> ELSE c.pendingAnims
<1>1. m = [c EXCEPT !.model = look, !.animator = animated, !.shown = played, !.pendingAnims = waiting]
  BY ZenonT(30) DEF Entities!ModelShown
<1>2. /\ c \in Node /\ c.id = n.id /\ c.look = n.look /\ c.token = n.token
      /\ c.model = None /\ c.pendingAnims = n.pendingAnims
      /\ c.due = n.due /\ c.shown = n.shown
      /\ c.armour = {} /\ c.sprites = {}
  BY ClearModelKeeps
<1> HIDE DEF c
<1>3. n.shown \in Seq(Nat) /\ n.pendingAnims \in Seq(Nat)
  BY DEF Node, Entities!Node
<1>4. played \in Seq(Nat) /\ waiting \in Seq(Nat) /\ animated \in BOOLEAN
  BY <1>2, <1>3
<1>5. played \o waiting = n.due /\ (animated => waiting = <<>>)
  <2>1. CASE animated
    <3>1. played = n.due /\ waiting = <<>>
      BY <1>2, <2>1 DEF Played
    <3> QED
      BY <1>4, <3>1, ConcatEmptySeq
  <2>2. CASE ~animated
    BY <1>2, <2>2 DEF Played
  <2> QED
    BY <2>1, <2>2
<1> HIDE DEF played, waiting, animated
<1>6. m \in Node
  BY <1>1, <1>2, <1>4, Zenon DEF Node, Entities!Node
<1>7. m.id = c.id /\ m.look = c.look /\ m.token = c.token /\ m.model = look
  BY <1>1, <1>2 DEF Node, Entities!Node
<1>8. m.armour = c.armour /\ m.sprites = c.sprites
  BY <1>1, <1>2 DEF Node, Entities!Node
<1>9. m.shown = played /\ m.pendingAnims = waiting /\ m.due = c.due
  BY <1>1, <1>2 DEF Node, Entities!Node
<1>10. m.animator = animated
  BY <1>1, <1>2 DEF Node, Entities!Node
<1>11. Worn(m)
  BY <1>2, <1>8 DEF Worn
<1>12. Played(m)
  BY <1>2, <1>5, <1>9, <1>10 DEF Played
<1> QED
  BY <1>2, <1>6, <1>7, <1>11, <1>12

LEMMA ModelKeepsEntity ==
  ASSUME EntityInv, Entities!Still, entityRegistry' = entityRegistry,
         NEW l \in loads, Entities!ModelArrives(l)
  PROVE  EntityInv'
<1>0. PICK r : r = Entities!Answered(l)
  OBVIOUS
<1>1. /\ Fits(r, entityFrames, entity, entityRegistry) /\ r.node = node /\ r.loads = loads \ {l}
      /\ l.of = "model" /\ entityFrames \in Nat
  BY <1>0, AnsweredFits DEF EntityInv, Entities!ModelArrives
<1>2. l \in Loads /\ Held(Entities!Scene, entityFrames) /\ entityRegistry
  BY SceneParts DEF EntityInv, Fits, Held, Numbered, EScene
<1>3. CASE ~Entities!Wanted(l)
  <2>1. Entities!Put(r)
    BY <1>0, <1>3 DEF Entities!ModelArrives
  <2> QED
    BY <1>1, <2>1, ArrivalAfter
<1>4. CASE Entities!Wanted(l)
  <2> DEFINE m == Entities!ModelShown(node, l.look)
             u == [r EXCEPT !.node = m]
  <2>1. PICK t : t = Entities!SyncEntityGear(u, l.gear)
    OBVIOUS
  <2>2. Entities!Put(t)
    <3>1. Entities!Put(Entities!SyncEntityGear(
            [r EXCEPT !.node = Entities!ModelShown(r.node, l.look)], l.gear))
      BY <1>0, <1>4, Zenon DEF Entities!ModelArrives
    <3> QED
      BY <1>1, <2>1, <3>1
  <2>3. node # None /\ node \in Node /\ l.look \in Look /\ l.gear \in Gear
    BY <1>1, <1>2, <1>4 DEF Entities!Wanted, Fits, Held, Numbered, EScene, Loads
  <2>4. Own(l, node) /\ ModelHeld(node, loads) /\ Played(node)
    BY <1>2, <1>4, <2>3, SceneParts DEF Entities!Wanted, Own, Held, Numbered
  <2>5. /\ m \in Node /\ m.id = node.id /\ m.look = node.look /\ m.token = node.token
        /\ m.model = l.look /\ Worn(m) /\ Played(m)
    BY <2>3, <2>4, ModelShownHolds
  <2>6. l.look = node.look /\ l.look # None
    BY <1>1, <2>3, <2>4, NodeIsThere DEF ModelHeld
  <2> HIDE DEF m
  <2>7. r \in EScene
    BY <1>1 DEF Fits, Held, Numbered
  <2>8. u \in EScene
    BY <2>5, <2>7, Zenon DEF EScene
  <2>9. u.node = m /\ u.loads = loads \ {l} /\ m # None
    BY <1>1, <2>5, <2>7, NodeIsThere DEF EScene
  <2> HIDE DEF u
  <2>10. Numbered(u, entityFrames)
    BY <1>1, <2>3, <2>5, <2>8, <2>9 DEF Fits, Held, Numbered
  <2>11. \A k \in loads \ {l} : ~Own(k, m)
    BY <1>1, <2>4, <2>5 DEF ModelHeld, Own
  <2>12. ModelHeld(m, loads \ {l}) /\ Wearing(m, loads \ {l})
    BY <2>5, <2>6, <2>11 DEF ModelHeld, Wearing
  <2>13. Held(u, entityFrames)
    BY <2>9, <2>10, <2>12 DEF Held
  <2>14. Held(t, entityFrames) /\ t.node # None /\ t.node.look = u.node.look
    BY <1>1, <2>1, <2>3, <2>9, <2>13, SyncHolds
  <2>15. Fits(t, entityFrames, entity, entityRegistry)
    BY <1>1, <1>2, <2>3, <2>5, <2>9, <2>14 DEF Fits
  <2> QED
    BY <2>2, <2>3, <2>15, ArrivalAfter
<1> QED
  BY <1>3, <1>4

(* The armour and the item of an answer that is wanted.                    *)
LEMMA WornHolds ==
  ASSUME NEW n \in Node, NEW g \in Gear, NEW m, Worn(n), Played(n),
         n.overlapped \/ g = n.gearKey,
         m \in {[n EXCEPT !.armour = n.armour \cup {g}],
                [n EXCEPT !.sprites = n.sprites \cup {g}, !.itemSprite = g]}
  PROVE  /\ m \in Node /\ SameModel(m, n) /\ m.overlapped = n.overlapped /\ m.gearKey = n.gearKey
         /\ Worn(m) /\ Played(m)
<1> DEFINE a == n.armour \cup {g}
           p == n.sprites \cup {g}
<1>0. a \in SUBSET Gear /\ p \in SUBSET Gear
  BY DEF Node, Entities!Node
<1>1. CASE m = [n EXCEPT !.armour = a]
  <2> HIDE DEF a
  <2>1. m \in Node
    BY <1>0, <1>1, Zenon DEF Node, Entities!Node
  <2>2. SameModel(m, n)
    BY <1>1 DEF SameModel, Node, Entities!Node
  <2>3. SamePlays(m, n)
    BY <1>1 DEF SamePlays, Node, Entities!Node
  <2>4. m.overlapped = n.overlapped /\ m.gearKey = n.gearKey /\ m.armour = a
        /\ m.sprites = n.sprites /\ m.itemSprite = n.itemSprite
    BY <1>1 DEF Node, Entities!Node
  <2>5. Worn(m)
    BY <2>4 DEF Worn, a
  <2> QED
    BY <2>1, <2>2, <2>3, <2>4, <2>5 DEF Played, SamePlays
<1>2. CASE m = [n EXCEPT !.sprites = p, !.itemSprite = g]
  <2> HIDE DEF p
  <2>1. m \in Node
    BY <1>0, <1>2, Zenon DEF Node, Entities!Node
  <2>2. SameModel(m, n)
    BY <1>2 DEF SameModel, Node, Entities!Node
  <2>3. SamePlays(m, n)
    BY <1>2 DEF SamePlays, Node, Entities!Node
  <2>4. m.overlapped = n.overlapped /\ m.gearKey = n.gearKey /\ m.armour = n.armour
        /\ m.sprites = p /\ m.itemSprite = g
    BY <1>2 DEF Node, Entities!Node
  <2>5. Worn(m)
    BY <2>4 DEF Worn, p
  <2> QED
    BY <2>1, <2>2, <2>3, <2>4, <2>5 DEF Played, SamePlays
<1> QED
  BY <1>1, <1>2

Dressed(s, m) == [s EXCEPT !.node = m]

LEMMA DressedFits ==
  ASSUME NEW s, NEW f \in Nat, NEW e, NEW reg, reg, Fits(s, f, e, reg), s.node # None,
         NEW m \in Node, SameModel(m, s.node), m.overlapped = s.node.overlapped,
         m.gearKey = s.node.gearKey, Worn(m), Played(m), NEW t, t = Dressed(s, m)
  PROVE  Fits(t, f, e, reg)
<1>1. s \in EScene
  BY DEF Fits, Held, Numbered
<1>2. t \in EScene
  BY <1>1, Zenon DEF Dressed, EScene
<1>3. t.node = m /\ t.loads = s.loads /\ m # None
  BY <1>1, NodeIsThere DEF Dressed, EScene
<1>4. Numbered(t, f)
  BY <1>2, <1>3 DEF Fits, Held, Numbered, SameModel
<1>5. ModelHeld(m, s.loads) /\ Wearing(m, s.loads)
  BY DEF Fits, Held, ModelHeld, Wearing, SameModel, Own
<1> QED
  BY <1>3, <1>4, <1>5 DEF Fits, Held, SameModel

(* A load of equipment, when it is answered. *)
LEMMA GearLoad ==
  ASSUME EntityInv, NEW l \in loads, l.of # "model"
  PROVE  /\ l \in Loads /\ l.gear \in Gear /\ l.node <= entityFrames /\ entityRegistry
         /\ node # None =>
              /\ node \in Node /\ Worn(node) /\ Played(node)
              /\ l.node = node.id =>
                   /\ l.token <= node.token
                   /\ node.overlapped \/ (l.token = node.token => l.gear = node.gearKey)
<1>1. /\ Fits(Entities!Scene, entityFrames, entity, entityRegistry)
      /\ Entities!Scene.node = node /\ Entities!Scene.loads = loads
      /\ entityRegistry \in BOOLEAN
  BY SceneParts DEF EntityInv
<1>2. l \in Loads /\ (node # None => node \in Node)
  BY <1>1 DEF Fits, Held, Numbered, EScene
<1>3. l.gear \in Gear /\ entityRegistry
  BY <1>1, <1>2 DEF Loads, Fits
<1> QED
  BY <1>1, <1>2, <1>3 DEF Fits, Held, Numbered, Wearing, Own

LEMMA ItemKeepsEntity ==
  ASSUME EntityInv, Entities!Still, entityRegistry' = entityRegistry,
         NEW l \in loads, Entities!ItemArrives(l)
  PROVE  EntityInv'
<1>0. PICK r : r = Entities!Answered(l)
  OBVIOUS
<1>1. /\ Fits(r, entityFrames, entity, entityRegistry) /\ r.node = node
      /\ l.of = "held" /\ entityFrames \in Nat
  BY <1>0, AnsweredFits DEF EntityInv, Entities!ItemArrives
<1>2. l.of # "model"
  BY <1>1
<1>3. CASE ~(Entities!Wanted(l) /\ node.model # None)
  <2>1. Entities!Put(r)
    BY <1>0, <1>3 DEF Entities!ItemArrives
  <2> QED
    BY <1>1, <2>1, ArrivalAfter
<1>4. CASE Entities!Wanted(l) /\ node.model # None
  <2> DEFINE m == [node EXCEPT !.sprites = node.sprites \cup {l.gear}, !.itemSprite = l.gear]
  <2>1. PICK t : t = [r EXCEPT !.node = m]
    OBVIOUS
  <2>2. Entities!Put(t)
    BY <1>0, <1>4, <2>1, Zenon DEF Entities!ItemArrives
  <2>3. node # None /\ l.node = node.id /\ l.token = node.token
    BY <1>4 DEF Entities!Wanted
  <2>4. /\ node \in Node /\ Worn(node) /\ Played(node) /\ l.gear \in Gear /\ entityRegistry
        /\ node.overlapped \/ l.gear = node.gearKey
    BY <1>2, <2>3, GearLoad
  <2>5. PICK n : n = m
    OBVIOUS
  <2>6. /\ n \in Node /\ SameModel(n, node) /\ n.overlapped = node.overlapped
        /\ n.gearKey = node.gearKey /\ Worn(n) /\ Played(n)
    <3>1. PICK g \in Gear : g = l.gear
      BY <2>4
    <3>2. n \in {[node EXCEPT !.armour = node.armour \cup {g}],
                [node EXCEPT !.sprites = node.sprites \cup {g}, !.itemSprite = g]}
      BY <2>5, <3>1, Zenon
    <3>3. node.overlapped \/ g = node.gearKey
      BY <2>4, <3>1
    <3> QED
      BY <2>4, <3>2, <3>3, WornHolds
  <2>7. t = Dressed(r, n)
    BY <2>1, <2>5 DEF Dressed
  <2> HIDE DEF m
  <2>8. Fits(t, entityFrames, entity, entityRegistry)
    BY <1>1, <2>3, <2>4, <2>6, <2>7, DressedFits
  <2> QED
    BY <2>2, <2>3, <2>8, ArrivalAfter
<1> QED
  BY <1>3, <1>4

(* The item in the hand is asked for behind the armour. *)
Behind(l, w) ==
  IF node # None /\ l.node = node.id /\ node.model # None
  THEN [w EXCEPT !.loads = w.loads \cup {[l EXCEPT !.of = "held"]}] ELSE w

Alike(m, n) ==
  (n = None /\ m = None)
    \/ (n # None /\ m # None /\ SameModel(m, n) /\ m.overlapped = n.overlapped /\ m.gearKey = n.gearKey)

LEMMA AlikeItself == \A n : Alike(n, n)
  BY DEF Alike, SameModel

LEMMA NextKeepsEntity ==
  ASSUME EntityInv, Entities!Still, entityRegistry' = entityRegistry,
         NEW l \in loads, l.of = "armour",
         NEW worn, Fits(worn, entityFrames, entity, entityRegistry),
         Alike(worn.node, node), Entities!Put(Behind(l, worn))
  PROVE  EntityInv'
<1>1. l.of # "model" /\ entityFrames \in Nat
  BY DEF EntityInv
<1>2. CASE ~(node # None /\ l.node = node.id /\ node.model # None)
  <2>1. Entities!Put(worn) /\ (worn.node # None => node # None)
    BY <1>2 DEF Behind, Alike
  <2> QED
    BY <2>1, ArrivalAfter
<1>3. CASE node # None /\ l.node = node.id /\ node.model # None
  <2>1. PICK t : t = [worn EXCEPT !.loads = worn.loads \cup {[l EXCEPT !.of = "held"]}]
    OBVIOUS
  <2>2. Entities!Put(t)
    BY <1>3, <2>1 DEF Behind
  <2>3. /\ l \in Loads /\ l.node <= entityFrames /\ entityRegistry /\ l.token <= node.token
        /\ node.overlapped \/ (l.token = node.token => l.gear = node.gearKey)
    BY <1>1, <1>3, GearLoad
  <2>4. /\ worn.node # None /\ worn.node.model # None /\ l.node = worn.node.id
        /\ l.token <= worn.node.token
        /\ worn.node.overlapped \/ (l.token = worn.node.token => l.gear = worn.node.gearKey)
    BY <1>3, <2>3 DEF Alike, SameModel
  <2>5. Fits(t, entityFrames, entity, entityRegistry)
    BY <1>1, <2>1, <2>3, <2>4, HeldNext
  <2> QED
    BY <1>3, <2>2, <2>5, ArrivalAfter
<1> QED
  BY <1>2, <1>3

LEMMA ArmourKeepsEntity ==
  ASSUME EntityInv, Entities!Still, entityRegistry' = entityRegistry,
         NEW l \in loads, Entities!ArmourArrives(l)
  PROVE  EntityInv'
<1>0. PICK r : r = Entities!Answered(l)
  OBVIOUS
<1>1. /\ Fits(r, entityFrames, entity, entityRegistry) /\ r.node = node
      /\ l.of = "armour" /\ l.of # "model" /\ entityFrames \in Nat
  BY <1>0, AnsweredFits DEF EntityInv, Entities!ArmourArrives
<1>2. CASE ~(Entities!Wanted(l) /\ node.model # None)
  <2>1. Entities!Put(Behind(l, r))
    BY <1>0, <1>2, Zenon DEF Entities!ArmourArrives, Behind
  <2>2. Alike(r.node, node)
    BY <1>1, AlikeItself
  <2> QED
    BY <1>1, <2>1, <2>2, NextKeepsEntity
<1>3. CASE Entities!Wanted(l) /\ node.model # None
  <2>1. PICK w : w = [r EXCEPT !.node.armour = r.node.armour \cup {l.gear}]
    OBVIOUS
  <2>2. Entities!Put(Behind(l, w))
    BY <1>0, <1>3, <2>1, Zenon DEF Entities!ArmourArrives, Behind
  <2>3. node # None /\ l.node = node.id /\ l.token = node.token
    BY <1>3 DEF Entities!Wanted
  <2>4. /\ node \in Node /\ Worn(node) /\ Played(node) /\ l.gear \in Gear /\ entityRegistry
        /\ node.overlapped \/ l.gear = node.gearKey
    BY <1>1, <2>3, GearLoad
  <2>5. PICK n : n = [node EXCEPT !.armour = node.armour \cup {l.gear}]
    OBVIOUS
  <2>6. /\ n \in Node /\ SameModel(n, node) /\ n.overlapped = node.overlapped
        /\ n.gearKey = node.gearKey /\ Worn(n) /\ Played(n)
    <3>1. PICK g \in Gear : g = l.gear
      BY <2>4
    <3>2. n \in {[node EXCEPT !.armour = node.armour \cup {g}],
                [node EXCEPT !.sprites = node.sprites \cup {g}, !.itemSprite = g]}
      BY <2>5, <3>1, Zenon
    <3>3. node.overlapped \/ g = node.gearKey
      BY <2>4, <3>1
    <3> QED
      BY <2>4, <3>2, <3>3, WornHolds
  <2>7. w = Dressed(r, n)
    <3>1. w = [r EXCEPT !.node = [r.node EXCEPT !.armour = r.node.armour \cup {l.gear}]]
      BY <2>1
    <3> QED
      BY <1>1, <2>5, <3>1 DEF Dressed
  <2>8. Fits(w, entityFrames, entity, entityRegistry) /\ w.node = n
    <3>1. /\ r.node # None /\ SameModel(n, r.node) /\ n.overlapped = r.node.overlapped
          /\ n.gearKey = r.node.gearKey /\ n \in Node /\ Worn(n) /\ Played(n) /\ entityRegistry
      BY <1>1, <2>3, <2>4, <2>6
    <3>2. Fits(r, entityFrames, entity, entityRegistry) /\ entityFrames \in Nat
      BY <1>1
    <3> QED
      <4>1. Fits(w, entityFrames, entity, entityRegistry)
        BY <2>7, <3>1, <3>2, DressedFits
      <4>2. r \in EScene
        BY <3>2 DEF Fits, Held, Numbered
      <4>3. w.node = n
        BY <2>7, <4>2 DEF Dressed, EScene
      <4> QED
        BY <4>1, <4>3
  <2>9. Alike(w.node, node)
    BY <2>3, <2>6, <2>8, NodeIsThere DEF Alike
  <2> QED
    BY <1>1, <2>2, <2>8, <2>9, NextKeepsEntity
<1> QED
  BY <1>2, <1>3

LEMMA MissingKeepsEntity ==
  ASSUME EntityInv, Entities!Still, entityRegistry' = entityRegistry,
         NEW l \in loads, Entities!Missing(l)
  PROVE  EntityInv'
<1>0. PICK r : r = Entities!Answered(l)
  OBVIOUS
<1>1. Fits(r, entityFrames, entity, entityRegistry) /\ r.node = node
  BY <1>0, AnsweredFits
<1>2. CASE l.of = "armour"
  <2>1. Entities!Put(Behind(l, r))
    BY <1>0, <1>2, Zenon DEF Entities!Missing, Behind
  <2>2. Alike(r.node, node)
    BY <1>1, AlikeItself
  <2> QED
    BY <1>1, <1>2, <2>1, <2>2, NextKeepsEntity
<1>3. CASE l.of # "armour"
  <2>1. Entities!Put(r)
    BY <1>0, <1>3 DEF Entities!Missing
  <2> QED
    BY <1>1, <2>1, ArrivalAfter
<1> QED
  BY <1>2, <1>3

-----------------------------------------------------------------------------
LEMMA EntityInit == Entities!Init => EntityInv
<1> SUFFICES ASSUME Entities!Init PROVE EntityInv
  OBVIOUS
<1>1. /\ entity = None /\ node = None /\ loads = {} /\ earlyAnims = <<>> /\ unseen = <<>>
      /\ entityFrames = 0 /\ playCount = 0 /\ entityRegistry \in BOOLEAN
  BY DEF Entities!Init
<1>2. Entities!Newest(<<>>) = <<>>
  BY PageAssumption DEF Entities!EntityAssumption, Entities!Newest
<1>3. Entities!Scene \in EScene
  BY <1>1 DEF Entities!Scene, EScene
<1>4. Numbered(Entities!Scene, entityFrames)
  BY <1>1, <1>3, SceneParts DEF Numbered
<1> QED
  BY <1>1, <1>2, <1>4, SceneParts DEF EntityInv, Fits, Held

LEMMA EntityNext == EntityInv /\ Entities!Next => EntityInv'
<1> SUFFICES ASSUME EntityInv, Entities!Next PROVE EntityInv'
  OBVIOUS
<1>1. ASSUME Entities!Arrives PROVE EntityInv'
  <2>1. /\ Entities!Still /\ entityRegistry' = entityRegistry
    BY <1>1 DEF Entities!Arrives
  <2>2. PICK l \in loads : Entities!ModelArrives(l) \/ Entities!ArmourArrives(l)
                             \/ Entities!ItemArrives(l) \/ Entities!Missing(l)
    BY <1>1 DEF Entities!Arrives
  <2> QED
    BY <2>1, <2>2, ModelKeepsEntity, ArmourKeepsEntity, ItemKeepsEntity, MissingKeepsEntity
<1> QED
  BY <1>1, FramesKeepEntity, AnimateKeepsEntity, WipeKeepsEntity, RegistryKeepsEntity,
     PaintKeepsEntity DEF Entities!Next

LEMMA EntityUntouched == EntityInv /\ UNCHANGED entityVars => EntityInv'
  BY DEF entityVars, EntityInv, Fits, Held, Numbered, ModelHeld, Wearing, Entities!Scene

LEMMA EntityIsCurrent == EntityInv => EntityFollowsStore
<1> SUFFICES ASSUME EntityInv PROVE EntityFollowsStore
  OBVIOUS
<1>1. /\ Held(Entities!Scene, entityFrames)
      /\ entity # None => node # None /\ node.look = entity.look
      /\ node # None /\ entity = None => wiping
  BY SceneParts DEF EntityInv, Fits
<1>2. /\ node = None => earlyAnims = Entities!Newest(unseen)
      /\ node # None => /\ node.id <= entityFrames /\ Worn(node) /\ Played(node)
                        /\ ModelHeld(node, loads) /\ Wearing(node, loads)
  BY <1>1, SceneParts DEF Held, Numbered
<1>3. Entities!ModelIsCurrent
  BY <1>1, <1>2 DEF Entities!ModelIsCurrent, ModelHeld
<1>4. Entities!GearCurrentUnlessOverlapped
  <2>1. ASSUME node # None, ~node.overlapped, entity # None, node.gearKey = entity.gear
        PROVE  node.armour \cup node.sprites \subseteq {entity.gear}
    BY <1>2, <2>1 DEF Worn
  <2> QED
    BY <2>1 DEF Entities!GearCurrentUnlessOverlapped, Entities!GearIsCurrent
<1>5. Entities!PlaysKept
  BY <1>2 DEF Entities!PlaysKept, Played
<1> QED
  BY <1>3, <1>4, <1>5 DEF EntityFollowsStore, Entities!EntityFollowsStore

(* The scene shows the entity of the store: its model, once there, is of   *)
(* the entity's look, its equipment that of the entity unless two fetches  *)
(* of it overlapped, and the server's animations reach it once and in      *)
(* order, whenever and in whatever order the fetches are answered.         *)
THEOREM EntityShown == PageSpec => []EntityFollowsStore
<1>1. PageInit => EntityInv
  BY EntityInit DEF PageInit, PartsInit
<1>2. EntityInv /\ [PageNext]_pageVars => EntityInv'
  BY EntityNext, EntityUntouched DEF PageNext, Terrain, OfEntity, OfUi, OfTake, OfAnimator, pageVars
<1> QED
  BY <1>1, <1>2, EntityIsCurrent, PTL DEF PageSpec

-----------------------------------------------------------------------------
(* The user interface.  The runtime and its renderers are a record, and    *)
(* the textures asked for make it say that it waits.                       *)

Answer == {"unasked", "loading", "here", "missing"}
Runtime == [lastFormKey : Form \cup {None}, lastHover : Button \cup {None},
            currentForm : Form \cup {None}, hoverIndex : Button \cup {None},
            shown : UserInterface!Drawn \cup {None}, hud : UserInterface!Hud \cup {None},
            textures : [Texture -> Answer], failed : BOOLEAN, threw : BOOLEAN]

SameForm(w, u) ==
  /\ w.lastFormKey = u.lastFormKey /\ w.lastHover = u.lastHover
  /\ w.currentForm = u.currentForm /\ w.hoverIndex = u.hoverIndex
  /\ w.failed = u.failed

(* Only what had not been asked for has changed. *)
Asks(w, u) ==
  \A t \in Texture : w.textures[t] = u.textures[t] \/ w.textures[t] = "loading"

Complete(u) ==
  ~u.shown.plain /\ ~UserInterface!TexturesPending(u)
    => u.shown.with = UserInterface!Loaded(u, TexturesOf[u.shown.form])

(* The renderer shows form f with button h. *)
Showing(u, f, h) ==
  /\ u.lastHover = h /\ u.currentForm = f /\ u.hoverIndex = h
  /\ IF f = None THEN u.shown = None
     ELSE /\ u.shown # None /\ u.shown.form = f /\ u.shown.hover = h
          /\ ~u.shown.plain => f \notin Unsupported
          /\ Complete(u)

LEMMA UiConstants ==
  /\ None \notin Form /\ None \notin Button
  /\ None \notin UserInterface!Drawn /\ None \notin UserInterface!Hud
  /\ TexturesOf \in [Form -> SUBSET Texture] /\ HudTextures \subseteq Texture
  BY PageAssumption DEF UserInterface!UiAssumption

LEMMA LoadedIsSet == \A u, T : UserInterface!Loaded(u, T) \subseteq T
  BY DEF UserInterface!Loaded

LEMMA AsksNothing ==
  ASSUME NEW w, NEW u, Asks(w, u), ~UserInterface!TexturesPending(w), NEW T \in SUBSET Texture
  PROVE  UserInterface!Loaded(w, T) = UserInterface!Loaded(u, T) /\ ~UserInterface!TexturesPending(u)
<1>1. \A t \in Texture : w.textures[t] # "loading"
  BY DEF UserInterface!TexturesPending
<1>2. \A t \in Texture : w.textures[t] = u.textures[t]
  BY <1>1 DEF Asks
<1> QED
  BY <1>1, <1>2 DEF UserInterface!Loaded, UserInterface!TexturesPending

LEMMA AskedKeeps ==
  ASSUME NEW u \in Runtime, NEW T, NEW w, w = UserInterface!Asked(u, T)
  PROVE  /\ w \in Runtime /\ SameForm(w, u) /\ Asks(w, u)
         /\ w.shown = u.shown /\ w.hud = u.hud /\ w.threw = u.threw
<1> DEFINE x == [t \in Texture |-> IF t \in T /\ u.textures[t] = "unasked" THEN "loading"
                                   ELSE u.textures[t]]
<1>1. w = [u EXCEPT !.textures = x]
  BY DEF UserInterface!Asked
<1>2. x \in [Texture -> Answer]
  BY DEF Runtime, Answer
<1>3. \A t \in Texture : x[t] = u.textures[t] \/ x[t] = "loading"
  OBVIOUS
<1> HIDE DEF x
<1>4. w \in Runtime
  BY <1>1, <1>2, Zenon DEF Runtime
<1>5. SameForm(w, u)
  BY <1>1 DEF SameForm, Runtime
<1>6. w.textures = x
  BY <1>1 DEF Runtime
<1>7. w.shown = u.shown /\ w.hud = u.hud /\ w.threw = u.threw
  BY <1>1 DEF Runtime
<1> QED
  BY <1>3, <1>4, <1>5, <1>6, <1>7 DEF Asks

(* What is shown stays what it is when textures are asked for.             *)
LEMMA AskedShows ==
  ASSUME NEW u \in Runtime, NEW w, NEW f \in Form \cup {None}, NEW h,
         SameForm(w, u), w.shown = u.shown, Asks(w, u), Showing(u, f, h)
  PROVE  Showing(w, f, h)
<1>1. CASE f = None
  BY <1>1 DEF Showing, SameForm
<1>2. CASE f # None
  <2>1. Complete(u) /\ u.shown.form = f /\ w.shown = u.shown
    BY <1>2 DEF Showing
  <2>2. TexturesOf[f] \in SUBSET Texture
    BY <1>2, UiConstants
  <2>3. Complete(w)
    BY <2>1, <2>2, AsksNothing DEF Complete
  <2> QED
    BY <1>2, <2>3 DEF Showing, SameForm
<1> QED
  BY <1>1, <1>2

LEMMA EngineShows ==
  ASSUME NEW u \in Runtime, u.currentForm \in Form, u.threw = FALSE,
         NEW w, w = UserInterface!ShowEngine(u)
  PROVE  /\ w \in Runtime /\ SameForm(w, u) /\ w.hud = u.hud
         /\ u.currentForm \in Unsupported => w.threw = TRUE
         /\ u.currentForm \notin Unsupported =>
              /\ w.threw = FALSE /\ w.shown # None /\ w.shown.form = u.currentForm /\ w.shown.hover = u.hoverIndex
              /\ w.shown.plain = FALSE /\ Complete(w)
<1>1. CASE u.currentForm \in Unsupported
  <2>1. w = [u EXCEPT !.threw = TRUE]
    BY <1>1 DEF UserInterface!ShowEngine
  <2>2. w \in Runtime
    BY <2>1, Zenon DEF Runtime
  <2>3. SameForm(w, u)
    BY <2>1 DEF SameForm, Runtime
  <2>4. w.hud = u.hud /\ w.threw = TRUE
    BY <2>1 DEF Runtime
  <2> QED
    BY <1>1, <2>2, <2>3, <2>4
<1>2. CASE u.currentForm \notin Unsupported
  <2> DEFINE T == TexturesOf[u.currentForm]
             s == [form |-> u.currentForm, hover |-> u.hoverIndex, plain |-> FALSE,
                   with |-> UserInterface!Loaded(u, T)]
             v == [u EXCEPT !.shown = s]
  <2>1. w = UserInterface!Asked(v, T)
    BY <1>2 DEF UserInterface!ShowEngine
  <2>2. T \in SUBSET Texture
    BY UiConstants
  <2>3. s \in UserInterface!Drawn
    BY <2>2, LoadedIsSet DEF UserInterface!Drawn, Runtime
  <2>4. /\ s.form = u.currentForm /\ s.hover = u.hoverIndex /\ s.plain = FALSE
        /\ s.with = UserInterface!Loaded(u, T)
    OBVIOUS
  <2> HIDE DEF s
  <2>5. v \in Runtime
    BY <2>3, Zenon DEF Runtime
  <2>6. SameForm(v, u)
    BY DEF SameForm, Runtime
  <2>7. v.shown = s /\ v.hud = u.hud /\ v.threw = u.threw /\ v.textures = u.textures
    BY DEF Runtime
  <2> HIDE DEF v
  <2>8. /\ w \in Runtime /\ SameForm(w, v) /\ Asks(w, v)
        /\ w.shown = v.shown /\ w.hud = v.hud /\ w.threw = v.threw
    BY <2>1, <2>5, AskedKeeps
  <2>9. UserInterface!Loaded(v, T) = UserInterface!Loaded(u, T)
    BY <2>7 DEF UserInterface!Loaded
  <2>10. Complete(w)
    <3>1. ~UserInterface!TexturesPending(w) =>
            UserInterface!Loaded(w, T) = UserInterface!Loaded(v, T)
      BY <2>2, <2>8, AsksNothing
    <3>2. w.shown = s
      BY <2>7, <2>8
    <3> QED
      BY <2>4, <2>9, <3>1, <3>2 DEF Complete
  <2> QED
    BY <1>2, <2>3, <2>4, <2>6, <2>7, <2>8, <2>10, UiConstants DEF SameForm
<1> QED
  BY <1>1, <1>2

LEMMA PlainShows ==
  ASSUME NEW u \in Runtime, u.currentForm \in Form, u.threw = FALSE,
         NEW w, w = UserInterface!ShowPlain(u)
  PROVE  /\ w \in Runtime /\ SameForm(w, u) /\ w.hud = u.hud /\ w.threw = FALSE
         /\ w.shown # None /\ w.shown.form = u.currentForm /\ w.shown.hover = u.hoverIndex
         /\ w.shown.plain = TRUE
<1> DEFINE s == [form |-> u.currentForm, hover |-> u.hoverIndex, plain |-> TRUE, with |-> {}]
<1>1. w = [u EXCEPT !.shown = s]
  BY DEF UserInterface!ShowPlain
<1>2. s \in UserInterface!Drawn
  BY DEF UserInterface!Drawn, Runtime
<1>3. s.form = u.currentForm /\ s.hover = u.hoverIndex /\ s.plain = TRUE
  OBVIOUS
<1> HIDE DEF s
<1>4. w \in Runtime
  BY <1>1, <1>2, Zenon DEF Runtime
<1>5. SameForm(w, u)
  BY <1>1 DEF SameForm, Runtime
<1>6. w.shown = s /\ w.hud = u.hud /\ w.threw = u.threw
  BY <1>1 DEF Runtime
<1> QED
  BY <1>2, <1>3, <1>4, <1>5, <1>6, UiConstants

ShownAs(w, u, f) ==
  /\ w \in Runtime /\ w.hud = u.hud
  /\ w.lastFormKey = u.lastFormKey /\ w.lastHover = u.lastHover /\ w.failed = u.failed
  /\ w.currentForm = f
  /\ w.threw \in BOOLEAN
  /\ w.threw = TRUE => f \in Unsupported
  /\ w.threw = FALSE /\ u.lastHover = None => Showing(w, f, None)

(* show of a form: it is there, with no button hovered, or is refused.     *)
LEMMA ShowShows ==
  ASSUME NEW u \in Runtime, u.threw = FALSE, NEW f \in Form, NEW w, w = UserInterface!Show(u, f)
  PROVE  ShownAs(w, u, f)
<1> DEFINE v == [u EXCEPT !.currentForm = f, !.hoverIndex = None]
<1>1. v \in Runtime
  BY Zenon DEF Runtime
<1>2. v.currentForm = f /\ v.hoverIndex = None /\ v.lastFormKey = u.lastFormKey
  BY DEF Runtime
<1>3. v.lastHover = u.lastHover /\ v.failed = u.failed /\ v.hud = u.hud /\ v.threw = u.threw
  BY DEF Runtime
<1> HIDE DEF v
<1>0. f # None
  BY UiConstants
<1>4. CASE f \in PlainForm
  <2>1. w = UserInterface!ShowPlain(v)
    BY <1>4 DEF UserInterface!Show, v
  <2>2. /\ w \in Runtime /\ SameForm(w, v) /\ w.hud = v.hud /\ w.threw = FALSE
        /\ w.shown # None /\ w.shown.form = f /\ w.shown.hover = None /\ w.shown.plain = TRUE
    BY <1>1, <1>2, <1>3, <2>1, PlainShows
  <2> QED
    BY <1>0, <1>2, <1>3, <2>2 DEF ShownAs, SameForm, Showing, Complete
<1>5. CASE f \notin PlainForm
  <2>1. w = UserInterface!ShowEngine(v)
    BY <1>5 DEF UserInterface!Show, v
  <2>2. /\ w \in Runtime /\ SameForm(w, v) /\ w.hud = v.hud
        /\ f \in Unsupported => w.threw = TRUE
        /\ f \notin Unsupported =>
              /\ w.threw = FALSE /\ w.shown # None /\ w.shown.form = f /\ w.shown.hover = None
              /\ w.shown.plain = FALSE /\ Complete(w)
    BY <1>1, <1>2, <1>3, <2>1, EngineShows
  <2> QED
    BY <1>0, <1>2, <1>3, <2>2 DEF ShownAs, SameForm, Showing
<1> QED
  BY <1>4, <1>5

LEMMA HideShows ==
  ASSUME NEW u \in Runtime, NEW w, w = UserInterface!Hide(u)
  PROVE  /\ w \in Runtime /\ w.hud = u.hud /\ w.threw = u.threw
         /\ w.lastFormKey = u.lastFormKey /\ w.lastHover = u.lastHover /\ w.failed = u.failed
         /\ u.lastHover = None => Showing(w, None, None)
<1>1. w = [u EXCEPT !.shown = None, !.currentForm = None, !.hoverIndex = None]
  BY DEF UserInterface!Hide
<1>2. w \in Runtime
  BY <1>1, Zenon DEF Runtime
<1>3. w.shown = None /\ w.currentForm = None /\ w.hoverIndex = None
  BY <1>1 DEF Runtime
<1>4. w.hud = u.hud /\ w.threw = u.threw /\ w.lastFormKey = u.lastFormKey
  BY <1>1 DEF Runtime
<1>5. w.lastHover = u.lastHover /\ w.failed = u.failed
  BY <1>1 DEF Runtime
<1> QED
  BY <1>2, <1>3, <1>4, <1>5 DEF Showing

HoverKeeps(w, u) ==
  w \in Runtime /\ w.hud = u.hud /\ w.lastFormKey = u.lastFormKey /\ w.failed = u.failed
Hovering(u, h) == [u EXCEPT !.lastHover = h]

(* hover: the form that is shown has the button, or is drawn with it.      *)
LEMMA HoverShows ==
  ASSUME NEW u \in Runtime, u.threw = FALSE, NEW h \in Button \cup {None},
         NEW f \in Form \cup {None}, NEW g, Showing(u, f, g),
         NEW v, v = Hovering(u, h), NEW w, w = UserInterface!Hover(v, h)
  PROVE  HoverKeeps(w, u) /\ w.threw = FALSE /\ Showing(w, f, h)
<1> DEFINE x == [v EXCEPT !.hoverIndex = h]
<1>0. v = [u EXCEPT !.lastHover = h]
  BY DEF Hovering
<1>1. v \in Runtime
  BY <1>0, Zenon DEF Runtime
<1>2. v.lastHover = h /\ v.currentForm = u.currentForm /\ v.hoverIndex = u.hoverIndex
  BY <1>0 DEF Runtime
<1>3. v.shown = u.shown /\ v.hud = u.hud /\ v.lastFormKey = u.lastFormKey
  BY <1>0 DEF Runtime
<1>4. v.failed = u.failed /\ v.threw = u.threw /\ v.textures = u.textures
  BY <1>0 DEF Runtime
<1>5. x \in Runtime
  BY <1>1, Zenon DEF Runtime
<1>6. x.hoverIndex = h /\ x.lastHover = v.lastHover /\ x.currentForm = v.currentForm
  BY <1>1 DEF Runtime
<1>7. x.shown = v.shown /\ x.hud = v.hud /\ x.lastFormKey = v.lastFormKey
  BY <1>1 DEF Runtime
<1>8. x.failed = v.failed /\ x.threw = v.threw /\ x.textures = v.textures
  BY <1>1 DEF Runtime
<1> HIDE DEF x
<1>9. u.hoverIndex = g /\ u.currentForm = f
  BY DEF Showing
<1>10. CASE h = v.hoverIndex \/ v.shown = None
  <2>1. w = x
    BY <1>10 DEF UserInterface!Hover, x
  <2>2. f # None => u.shown.hover = h
    BY <1>2, <1>3, <1>9, <1>10 DEF Showing
  <2>3. Showing(x, f, h)
    BY <1>2, <1>3, <1>4, <1>6, <1>7, <1>8, <1>9, <2>2
       DEF Showing, Complete, UserInterface!Loaded, UserInterface!TexturesPending
  <2> QED
    BY <1>3, <1>4, <1>5, <1>7, <1>8, <2>1, <2>3 DEF HoverKeeps
<1>11. CASE ~(h = v.hoverIndex \/ v.shown = None)
  <2>0. f # None /\ f \in Form /\ v.shown \in UserInterface!Drawn /\ v.shown.form = f
    BY <1>1, <1>3, <1>11 DEF Showing, Runtime
  <2>1. CASE v.shown.plain
    <3> DEFINE s == [x.shown EXCEPT !.hover = h]
    <3>1. w = [x EXCEPT !.shown.hover = h]
      BY <1>11, <2>1 DEF UserInterface!Hover, x
    <3>2. w = [x EXCEPT !.shown = s]
      BY <3>1
    <3>3. s \in UserInterface!Drawn
      BY <1>7, <2>0, Zenon DEF UserInterface!Drawn
    <3>4. s.form = f /\ s.hover = h /\ s.plain = v.shown.plain
      BY <1>7, <2>0 DEF UserInterface!Drawn
    <3> HIDE DEF s
    <3>5. w \in Runtime
      BY <1>5, <3>2, <3>3, Zenon DEF Runtime
    <3>6. w.shown = s /\ w.hud = x.hud /\ w.lastFormKey = x.lastFormKey
      BY <1>5, <3>2 DEF Runtime
    <3>7. w.lastHover = x.lastHover /\ w.currentForm = x.currentForm /\ w.hoverIndex = x.hoverIndex
      BY <1>5, <3>2 DEF Runtime
    <3>8. w.failed = x.failed /\ w.threw = x.threw
      BY <1>5, <3>2 DEF Runtime
    <3>9. Showing(w, f, h)
      BY <1>2, <1>6, <1>9, <2>0, <2>1, <3>3, <3>4, <3>6, <3>7, UiConstants DEF Showing, Complete
    <3> QED
      BY <1>3, <1>4, <1>7, <1>8, <3>5, <3>6, <3>8, <3>9 DEF HoverKeeps
  <2>2. CASE ~v.shown.plain
    <3>1. w = UserInterface!ShowEngine(x)
      BY <1>11, <2>2 DEF UserInterface!Hover, x
    <3>2. f \notin Unsupported /\ x.currentForm = f /\ x.threw = FALSE
      BY <1>2, <1>3, <1>4, <1>6, <1>8, <1>9, <2>0, <2>2 DEF Showing
    <3>3. /\ w \in Runtime /\ SameForm(w, x) /\ w.hud = x.hud
          /\ w.threw = FALSE /\ w.shown # None /\ w.shown.form = f /\ w.shown.hover = h
          /\ Complete(w)
      BY <1>5, <1>6, <2>0, <3>1, <3>2, EngineShows
    <3>4. Showing(w, f, h)
      BY <1>2, <1>6, <2>0, <3>2, <3>3 DEF Showing, SameForm
    <3> QED
      BY <1>3, <1>4, <1>7, <1>8, <3>3, <3>4 DEF HoverKeeps, SameForm
  <2> QED
    BY <2>1, <2>2
<1> QED
  BY <1>10, <1>11

(* hover while a form that was refused is open: nothing gets better.       *)
LEMMA IndexFits ==
  ASSUME NEW v \in Runtime, NEW h \in Button \cup {None}
  PROVE  [v EXCEPT !.hoverIndex = h] \in Runtime
  BY Zenon DEF Runtime

Refused(u) == u.currentForm \in Form /\ u.currentForm \in Unsupported

StillRefused(w, u) == HoverKeeps(w, u) /\ w.currentForm = u.currentForm

LEMMA HoverRefused ==
  ASSUME NEW u \in Runtime, u.threw = FALSE, NEW h \in Button \cup {None}, Refused(u),
         NEW v, v = Hovering(u, h), NEW w, w = UserInterface!Hover(v, h)
  PROVE  StillRefused(w, u)
<1> DEFINE x == [v EXCEPT !.hoverIndex = h]
<1>0. v = [u EXCEPT !.lastHover = h]
  BY DEF Hovering
<1>1. v \in Runtime
  BY <1>0, Zenon DEF Runtime
<1>2. v.currentForm = u.currentForm /\ v.lastFormKey = u.lastFormKey
  BY <1>0 DEF Runtime
<1>3. v.shown = u.shown /\ v.hud = u.hud /\ v.failed = u.failed /\ v.threw = u.threw
  BY <1>0 DEF Runtime
<1>5. x \in Runtime
  BY <1>1, IndexFits
<1>6. x.currentForm = v.currentForm /\ x.lastFormKey = v.lastFormKey /\ x.failed = v.failed
  BY <1>1 DEF Runtime
<1>7. x.shown = v.shown /\ x.hud = v.hud /\ x.threw = v.threw
  BY <1>1 DEF Runtime
<1> HIDE DEF x
<1>8. CASE h = v.hoverIndex \/ v.shown = None
  <2>1. w = x
    BY <1>8 DEF UserInterface!Hover, x
  <2> QED
    BY <1>2, <1>3, <1>5, <1>6, <1>7, <2>1 DEF StillRefused, HoverKeeps
<1>9. CASE ~(h = v.hoverIndex \/ v.shown = None)
  <2>0. v.shown \in UserInterface!Drawn
    BY <1>1, <1>9 DEF Runtime
  <2>1. CASE v.shown.plain
    <3> DEFINE s == [x.shown EXCEPT !.hover = h]
    <3>1. w = [x EXCEPT !.shown.hover = h]
      BY <1>9, <2>1 DEF UserInterface!Hover, x
    <3>2. w = [x EXCEPT !.shown = s]
      BY <3>1
    <3>3. s \in UserInterface!Drawn
      BY <1>7, <2>0, Zenon DEF UserInterface!Drawn
    <3> HIDE DEF s
    <3>5. w \in Runtime
      BY <1>5, <3>2, <3>3, Zenon DEF Runtime
    <3>6. w.hud = x.hud /\ w.lastFormKey = x.lastFormKey
      BY <1>5, <3>2 DEF Runtime
    <3>7. w.currentForm = x.currentForm /\ w.failed = x.failed
      BY <1>5, <3>2 DEF Runtime
    <3> QED
      BY <1>2, <1>3, <1>6, <1>7, <3>5, <3>6, <3>7 DEF StillRefused, HoverKeeps
  <2>2. CASE ~v.shown.plain
    <3>1. w = UserInterface!ShowEngine(x)
      BY <1>9, <2>2 DEF UserInterface!Hover, x
    <3>2. x.currentForm \in Form /\ x.threw = FALSE
      BY <1>2, <1>3, <1>6, <1>7 DEF Refused
    <3>3. w \in Runtime /\ SameForm(w, x) /\ w.hud = x.hud
      BY <1>5, <3>1, <3>2, EngineShows
    <3> QED
      BY <1>2, <1>3, <1>6, <1>7, <3>3 DEF StillRefused, HoverKeeps, SameForm
  <2> QED
    BY <2>1, <2>2
<1> QED
  BY <1>8, <1>9

(* The HUD is up to date after onFrame. *)
HudShows(u, v) == u.hud # None /\ u.hud.vitals = v

LEMMA HudOnFrameShows ==
  ASSUME NEW u \in Runtime, NEW v \in Vitals \cup {None}, NEW w, w = UserInterface!HudOnFrame(u, v)
  PROVE  /\ w \in Runtime /\ SameForm(w, u) /\ Asks(w, u) /\ w.shown = u.shown /\ w.threw = u.threw
         /\ HudShows(w, v)
<1>1. CASE u.hud # None /\ u.hud.vitals = v
  <2>1. w = u
    BY <1>1 DEF UserInterface!HudOnFrame
  <2> QED
    BY <1>1, <2>1 DEF SameForm, Asks, HudShows
<1>2. CASE ~(u.hud # None /\ u.hud.vitals = v)
  <2> DEFINE d == [vitals |-> v, with |-> UserInterface!Loaded(u, HudTextures)]
             x == [u EXCEPT !.hud = d]
  <2>1. w = UserInterface!Asked(x, HudTextures)
    BY <1>2 DEF UserInterface!HudOnFrame
  <2>2. d \in UserInterface!Hud /\ d.vitals = v
    BY LoadedIsSet, UiConstants DEF UserInterface!Hud
  <2> HIDE DEF d
  <2>3. x \in Runtime
    BY <2>2, Zenon DEF Runtime
  <2>4. SameForm(x, u)
    BY DEF SameForm, Runtime
  <2>5. x.hud = d /\ x.shown = u.shown /\ x.threw = u.threw /\ x.textures = u.textures
    BY DEF Runtime
  <2> HIDE DEF x
  <2>6. /\ w \in Runtime /\ SameForm(w, x) /\ Asks(w, x)
        /\ w.shown = x.shown /\ w.hud = x.hud /\ w.threw = x.threw
    BY <2>1, <2>3, AskedKeeps
  <2> QED
    BY <2>2, <2>4, <2>5, <2>6, UiConstants DEF SameForm, Asks, HudShows
<1> QED
  BY <1>1, <1>2

(* Before a frame with form f is projected, and after it. *)
Projectable(u, f) ==
  /\ u \in Runtime /\ u.threw = FALSE
  /\ u.failed = TRUE => Refused(u)
  /\ u.failed = FALSE /\ u.lastFormKey = f => Showing(u, f, u.lastHover)

Projected(u, f, h) ==
  /\ u \in Runtime
  /\ u.failed = TRUE => Refused(u) /\ f \in Unsupported \cup {u.lastFormKey}
  /\ u.failed = FALSE => u.threw = FALSE /\ u.lastFormKey = f /\ Showing(u, f, h)

LEMMA ProjectFormShows ==
  ASSUME NEW f \in Form \cup {None}, NEW h \in Button \cup {None}, NEW u, Projectable(u, f),
         NEW w, w = UserInterface!ProjectForm(u, f, h)
  PROVE  Projected(w, f, h) /\ w.hud = u.hud
<1> DEFINE y == [u EXCEPT !.lastHover = None]
           z == IF f = None THEN UserInterface!Hide(y) ELSE UserInterface!Show(y, f)
           keyed == IF f = u.lastFormKey THEN u
                    ELSE IF z.threw THEN [z EXCEPT !.failed = TRUE]
                    ELSE [z EXCEPT !.failed = FALSE, !.lastFormKey = f]
<1>0. u \in Runtime /\ u.threw = FALSE /\ u.failed \in BOOLEAN
  BY DEF Projectable, Runtime
<1>1. w = IF keyed.threw \/ h = keyed.lastHover THEN keyed
          ELSE UserInterface!Hover([keyed EXCEPT !.lastHover = h], h)
  BY ZenonT(30) DEF UserInterface!ProjectForm
<1>2. /\ keyed \in Runtime /\ keyed.hud = u.hud /\ keyed.threw \in BOOLEAN
      /\ keyed.threw = TRUE => keyed.failed = TRUE
      /\ keyed.failed = TRUE => Refused(keyed) /\ f \in Unsupported \cup {keyed.lastFormKey}
      /\ keyed.failed = FALSE => keyed.lastFormKey = f /\ Showing(keyed, f, keyed.lastHover)
  <2>1. CASE f = u.lastFormKey
    <3>1. keyed = u
      BY <2>1
    <3> HIDE DEF keyed
    <3> QED
      BY <1>0, <2>1, <3>1 DEF Projectable
  <2>2. CASE f # u.lastFormKey
    <3>1. y \in Runtime
      BY <1>0, Zenon DEF Runtime
    <3>2. y.lastHover = None /\ y.hud = u.hud /\ y.threw = FALSE
      BY <1>0 DEF Runtime
    <3> HIDE DEF y
    <3>3. /\ z \in Runtime /\ z.hud = u.hud /\ z.lastHover = None /\ z.threw \in BOOLEAN
          /\ z.threw = TRUE => z.currentForm = f /\ f \in Form /\ f \in Unsupported
          /\ z.threw = FALSE => Showing(z, f, None)
      <4>1. CASE f = None
        <5>1. z = UserInterface!Hide(y)
          BY <4>1
        <5> QED
          BY <3>1, <3>2, <4>1, <5>1, HideShows
      <4>2. CASE f # None
        <5>1. z = UserInterface!Show(y, f) /\ f \in Form
          BY <4>2
        <5> HIDE DEF z
        <5>2. ShownAs(z, y, f)
          BY <3>1, <3>2, <5>1, ShowShows
        <5> QED
          BY <3>2, <5>1, <5>2 DEF ShownAs
      <4> QED
        BY <4>1, <4>2
    <3> HIDE DEF z
    <3>4. CASE z.threw
      <4>1. keyed = [z EXCEPT !.failed = TRUE]
        BY <2>2, <3>4
      <4> HIDE DEF keyed
      <4>2. keyed \in Runtime
        BY <3>3, <4>1, Zenon DEF Runtime
      <4>3. keyed.hud = z.hud /\ keyed.failed = TRUE /\ keyed.currentForm = z.currentForm
        BY <3>3, <4>1 DEF Runtime
      <4>4. keyed.threw = z.threw
        BY <3>3, <4>1 DEF Runtime
      <4> QED
        BY <3>3, <3>4, <4>2, <4>3, <4>4 DEF Refused
    <3>5. CASE ~z.threw
      <4>1. keyed = [z EXCEPT !.failed = FALSE, !.lastFormKey = f]
        BY <2>2, <3>5
      <4> HIDE DEF keyed
      <4>2. keyed \in Runtime
        BY <3>3, <4>1, Zenon DEF Runtime
      <4>3. keyed.hud = z.hud /\ keyed.failed = FALSE /\ keyed.currentForm = z.currentForm
        BY <3>3, <4>1 DEF Runtime
      <4>4. keyed.threw = z.threw /\ keyed.lastFormKey = f /\ keyed.lastHover = z.lastHover
        BY <3>3, <4>1 DEF Runtime
      <4>5. keyed.shown = z.shown /\ keyed.hoverIndex = z.hoverIndex /\ keyed.textures = z.textures
        BY <3>3, <4>1 DEF Runtime
      <4>6. Showing(z, f, None) /\ z.threw = FALSE
        BY <3>3, <3>5
      <4>7. Showing(keyed, f, None)
        BY <4>3, <4>4, <4>5, <4>6
           DEF Showing, Complete, UserInterface!Loaded, UserInterface!TexturesPending
      <4> QED
        BY <3>3, <4>2, <4>3, <4>4, <4>6, <4>7
    <3> QED
      BY <3>4, <3>5
  <2> QED
    BY <2>1, <2>2
<1> HIDE DEF keyed
<1>3. keyed.failed \in BOOLEAN
  BY <1>2 DEF Runtime
<1>4. CASE keyed.threw \/ h = keyed.lastHover
  <2>1. w = keyed
    BY <1>1, <1>4
  <2> QED
    BY <1>2, <1>3, <1>4, <2>1 DEF Projected
<1>5. CASE ~(keyed.threw \/ h = keyed.lastHover)
  <2>1. PICK v : v = Hovering(keyed, h)
    OBVIOUS
  <2>2. w = UserInterface!Hover(v, h) /\ keyed.threw = FALSE
    BY <1>1, <1>2, <1>5, <2>1 DEF Hovering
  <2>3. CASE keyed.failed = TRUE
    <3>1. Refused(keyed)
      BY <1>2, <2>3
    <3>2. StillRefused(w, keyed)
      <4>1. keyed \in Runtime
        BY <1>2
      <4> QED
        BY <2>1, <2>2, <3>1, <4>1, HoverRefused
    <3> QED
      BY <1>2, <2>3, <3>2 DEF Projected, Refused, HoverKeeps, StillRefused
  <2>4. CASE keyed.failed = FALSE
    <3>1. Showing(keyed, f, keyed.lastHover)
      BY <1>2, <2>4
    <3>2. HoverKeeps(w, keyed) /\ w.threw = FALSE /\ Showing(w, f, h)
      BY <1>2, <2>1, <2>2, <3>1, HoverShows
    <3> QED
      BY <1>2, <2>4, <3>2 DEF Projected, HoverKeeps
  <2> QED
    BY <1>3, <2>3, <2>4
<1> QED
  BY <1>4, <1>5

LEMMA OnFrameShows ==
  ASSUME NEW f \in Form \cup {None}, NEW h \in Button \cup {None}, NEW v \in Vitals \cup {None},
         NEW u, Projectable(u, f), NEW w, w = UserInterface!OnFrame(u, f, h, v)
  PROVE  Projected(w, f, h) /\ HudShows(w, v)
<1>1. PICK x : x = UserInterface!HudOnFrame(u, v)
  OBVIOUS
<1>2. u \in Runtime /\ u.threw = FALSE
  BY DEF Projectable
<1>3. /\ x \in Runtime /\ SameForm(x, u) /\ Asks(x, u) /\ x.shown = u.shown /\ x.threw = FALSE
      /\ HudShows(x, v)
  BY <1>1, <1>2, HudOnFrameShows
<1>4. Projectable(x, f)
  <2>1. x.failed = FALSE /\ x.lastFormKey = f => Showing(u, f, u.lastHover)
    BY <1>3 DEF Projectable, SameForm
  <2>2. x.failed = FALSE /\ x.lastFormKey = f => Showing(x, f, x.lastHover)
    BY <1>2, <1>3, <2>1, AskedShows DEF SameForm
  <2> QED
    BY <1>3, <2>2 DEF Projectable, SameForm, Refused
<1>5. w = UserInterface!ProjectForm(x, f, h)
  BY <1>1 DEF UserInterface!OnFrame
<1> QED
  BY <1>3, <1>4, <1>5, ProjectFormShows DEF HudShows

-----------------------------------------------------------------------------
(* Before the first frame that is drawn, the runtime is as it was made.    *)
Idle(u) ==
  /\ u.lastFormKey = None /\ u.lastHover = None
  /\ u.currentForm = None /\ u.hoverIndex = None
  /\ u.shown = None /\ u.hud = None
  /\ u.textures = [t \in Texture |-> "unasked"]

Calm(u) == [u EXCEPT !.threw = FALSE]

LEMMA CalmKeeps ==
  ASSUME NEW u \in Runtime, NEW w, w = Calm(u)
  PROVE  /\ w \in Runtime /\ SameForm(w, u) /\ w.shown = u.shown /\ w.hud = u.hud
         /\ w.textures = u.textures /\ w.threw = FALSE
<1>1. w = [u EXCEPT !.threw = FALSE]
  BY DEF Calm
<1>2. w \in Runtime
  BY <1>1, Zenon DEF Runtime
<1>3. SameForm(w, u)
  BY <1>1 DEF SameForm, Runtime
<1>4. w.shown = u.shown /\ w.hud = u.hud /\ w.textures = u.textures /\ w.threw = FALSE
  BY <1>1 DEF Runtime
<1> QED
  BY <1>2, <1>3, <1>4

LEMMA CalmShows ==
  ASSUME NEW u, NEW w, NEW f \in Form \cup {None}, NEW h, NEW v,
         Projected(u, f, h), HudShows(u, v), w = Calm(u)
  PROVE  Projected(w, f, h) /\ HudShows(w, v) /\ w \in Runtime /\ w.threw = FALSE
<1>1. /\ w \in Runtime /\ SameForm(w, u) /\ w.shown = u.shown /\ w.hud = u.hud
      /\ w.textures = u.textures /\ w.threw = FALSE
  BY CalmKeeps DEF Projected
<1>2. \A t \in Texture : w.textures[t] = u.textures[t] \/ w.textures[t] = "loading"
  BY <1>1
<1>3. Showing(u, f, h) => Showing(w, f, h)
  BY <1>1, <1>2, AskedShows DEF Asks, Projected
<1> QED
  BY <1>1, <1>3 DEF Projected, Refused, SameForm, HudShows

LEMMA IdleProjectable ==
  ASSUME NEW u \in Runtime, u.threw = FALSE, u.failed = FALSE, Idle(u), NEW f
  PROVE  Projectable(u, f)
  BY DEF Projectable, Idle, Showing

LEMMA ProjectedProjectable ==
  ASSUME NEW u, NEW f, NEW h, NEW g, Projected(u, f, h), u.threw = FALSE
  PROVE  Projectable(u, g)
  BY DEF Projected, Projectable, Showing

(* What the page shows, in terms of what the stream brought. *)
UiShown ==
  /\ form \in Form \cup {None} /\ formHover \in Button \cup {None} /\ vitals \in Vitals \cup {None}
  /\ mounted \in BOOLEAN /\ seen \in BOOLEAN /\ ui \in Runtime /\ ui.threw = FALSE
  /\ mounted = FALSE \/ seen = FALSE => Idle(ui)
  /\ mounted = TRUE /\ seen = FALSE => ui.failed = FALSE
  /\ mounted = TRUE /\ seen = TRUE => Projected(ui, form, formHover) /\ HudShows(ui, vitals)

LEMMA UiProjectable ==
  ASSUME UiShown, mounted = TRUE \/ ui.failed = FALSE, NEW f PROVE Projectable(ui, f)
<1>1. CASE mounted = TRUE /\ seen = TRUE
  BY <1>1, ProjectedProjectable DEF UiShown
<1>2. CASE ~(mounted = TRUE /\ seen = TRUE)
  BY <1>2, IdleProjectable DEF UiShown, Runtime
<1> QED
  BY <1>1, <1>2

(* A frame. *)
LEMMA FrameKeepsShown ==
  ASSUME UiShown, NEW f \in Form \cup {None}, NEW h \in Button \cup {None},
         NEW v \in Vitals \cup {None}, NEW events, UserInterface!Apply(f, h, v, events)
  PROVE  UiShown'
<1>1. /\ form' = f /\ formHover' = h /\ vitals' = v /\ seen' = TRUE /\ mounted' = mounted
  BY DEF UserInterface!Apply
<1>2. ui' = Calm(IF mounted THEN UserInterface!OnFrame(ui, f, h, v) ELSE ui)
  BY Zenon DEF UserInterface!Apply, UserInterface!Listener, Calm
<1>3. CASE mounted = TRUE
  <2>1. PICK w : w = UserInterface!OnFrame(ui, f, h, v)
    OBVIOUS
  <2>2. Projected(w, f, h) /\ HudShows(w, v)
    BY <1>3, <2>1, UiProjectable, OnFrameShows
  <2>3. ui' = Calm(w)
    BY <1>2, <1>3, <2>1
  <2>4. Projected(ui', f, h) /\ HudShows(ui', v) /\ ui' \in Runtime /\ ui'.threw = FALSE
    BY <2>2, <2>3, CalmShows
  <2> QED
    BY <1>1, <1>3, <2>4 DEF UiShown
<1>4. CASE mounted = FALSE
  <2>1. ui' = Calm(ui) /\ ui \in Runtime /\ Idle(ui)
    BY <1>2, <1>4 DEF UiShown
  <2>2. /\ ui' \in Runtime /\ SameForm(ui', ui) /\ ui'.shown = ui.shown /\ ui'.hud = ui.hud
        /\ ui'.textures = ui.textures /\ ui'.threw = FALSE
    BY <2>1, CalmKeeps
  <2>3. Idle(ui')
    BY <2>1, <2>2 DEF Idle, SameForm
  <2> QED
    BY <1>1, <1>4, <2>2, <2>3 DEF UiShown
<1> QED
  BY <1>3, <1>4 DEF UiShown

LEMMA MountKeepsShown == UiShown /\ UserInterface!Mount => UiShown'
<1> SUFFICES ASSUME UiShown, UserInterface!Mount PROVE UiShown'
  OBVIOUS
<1>1. /\ form' = form /\ formHover' = formHover /\ vitals' = vitals /\ seen' = seen /\ mounted' = TRUE
  BY DEF UserInterface!Mount, UserInterface!storeVars
<1>2. mounted = FALSE /\ ui.failed = FALSE
  BY DEF UserInterface!Mount, UiShown, Runtime
<1>3. CASE seen = TRUE
  <2>1. PICK w : w = UserInterface!OnFrame(ui, form, formHover, vitals)
    OBVIOUS
  <2>2. Projected(w, form, formHover) /\ HudShows(w, vitals)
    BY <1>2, <2>1, UiProjectable, OnFrameShows DEF UiShown
  <2>3. ui' = Calm(w)
    BY <1>3, <2>1 DEF UserInterface!Mount, Calm
  <2>4. Projected(ui', form, formHover) /\ HudShows(ui', vitals) /\ ui' \in Runtime /\ ui'.threw = FALSE
    BY <2>2, <2>3, CalmShows DEF UiShown
  <2> QED
    BY <1>1, <1>3, <2>4 DEF UiShown
<1>4. CASE seen = FALSE
  <2>1. ui' = ui
    BY <1>4 DEF UserInterface!Mount
  <2> QED
    BY <1>1, <1>2, <1>4, <2>1 DEF UiShown
<1> QED
  BY <1>3, <1>4 DEF UiShown

LEMMA LoadFailsKeepsShown == UiShown /\ UserInterface!LoadFails => UiShown'
<1> SUFFICES ASSUME UiShown, UserInterface!LoadFails PROVE UiShown'
  OBVIOUS
<1>1. /\ form' = form /\ formHover' = formHover /\ vitals' = vitals /\ seen' = seen /\ mounted' = mounted
  BY DEF UserInterface!LoadFails, UserInterface!storeVars
<1>2. mounted = FALSE /\ ui \in Runtime /\ Idle(ui) /\ ui.threw = FALSE
  BY DEF UserInterface!LoadFails, UiShown
<1>3. ui' = [ui EXCEPT !.failed = TRUE]
  BY DEF UserInterface!LoadFails
<1>4. ui' \in Runtime
  BY <1>2, <1>3, Zenon DEF Runtime
<1>5. /\ ui'.lastFormKey = ui.lastFormKey /\ ui'.lastHover = ui.lastHover
  BY <1>2, <1>3 DEF Runtime
<1>6. /\ ui'.currentForm = ui.currentForm /\ ui'.hoverIndex = ui.hoverIndex
  BY <1>2, <1>3 DEF Runtime
<1>7. /\ ui'.shown = ui.shown /\ ui'.hud = ui.hud
      /\ ui'.textures = ui.textures /\ ui'.threw = ui.threw
  BY <1>2, <1>3 DEF Runtime
<1>8. Idle(ui')
  BY <1>2, <1>5, <1>6, <1>7 DEF Idle
<1> QED
  BY <1>1, <1>2, <1>4, <1>7, <1>8 DEF UiShown

(* An answer that leaves textures pending changes nothing that is shown.   *)
Answered(u, t, answer) == [u EXCEPT !.textures[t] = answer]
Unkeyed(u) == [u EXCEPT !.lastFormKey = None]

LEMMA AnsweredKeeps ==
  ASSUME NEW u \in Runtime, NEW t \in Texture, NEW answer \in {"here", "missing"},
         NEW w, w = Answered(u, t, answer)
  PROVE  /\ w \in Runtime /\ SameForm(w, u) /\ w.shown = u.shown /\ w.hud = u.hud /\ w.threw = u.threw
<1> DEFINE x == [u.textures EXCEPT ![t] = answer]
<1>1. w = [u EXCEPT !.textures = x]
  BY DEF Answered, Runtime
<1>2. x \in [Texture -> Answer]
  BY DEF Runtime, Answer
<1> HIDE DEF x
<1>3. w \in Runtime
  BY <1>1, <1>2, Zenon DEF Runtime
<1>4. SameForm(w, u)
  BY <1>1 DEF SameForm, Runtime
<1>5. w.shown = u.shown /\ w.hud = u.hud /\ w.threw = u.threw
  BY <1>1 DEF Runtime
<1> QED
  BY <1>3, <1>4, <1>5

LEMMA UnkeyedKeeps ==
  ASSUME NEW u \in Runtime, NEW w, w = Unkeyed(u)
  PROVE  /\ w \in Runtime /\ w.lastFormKey = None /\ w.lastHover = u.lastHover
         /\ w.currentForm = u.currentForm /\ w.hoverIndex = u.hoverIndex
         /\ w.shown = u.shown /\ w.failed = u.failed /\ w.threw = u.threw
<1>1. w = [u EXCEPT !.lastFormKey = None]
  BY DEF Unkeyed
<1>2. w \in Runtime
  BY <1>1, Zenon DEF Runtime
<1>3. w.lastFormKey = None /\ w.lastHover = u.lastHover /\ w.currentForm = u.currentForm
  BY <1>1 DEF Runtime
<1>4. w.hoverIndex = u.hoverIndex /\ w.shown = u.shown
  BY <1>1 DEF Runtime
<1>5. w.failed = u.failed /\ w.threw = u.threw
  BY <1>1 DEF Runtime
<1> QED
  BY <1>2, <1>3, <1>4, <1>5

LEMMA AnswerKeepsShown ==
  ASSUME UiShown, NEW t \in Texture, NEW answer \in {"here", "missing"}, ui.textures[t] = "loading",
         NEW u, u = Answered(ui, t, answer),
         ui' = IF UserInterface!TexturesPending(u) THEN u
               ELSE Calm(UserInterface!OnFrame(Unkeyed(u), form, formHover, vitals)),
         UNCHANGED <<form, formHover, vitals, seen, mounted>>
  PROVE  UiShown'
<1>1. mounted = TRUE /\ seen = TRUE
  <2>1. ~Idle(ui)
    BY DEF Idle
  <2> QED
    BY <2>1 DEF UiShown
<1>2. Projected(ui, form, formHover) /\ HudShows(ui, vitals) /\ ui \in Runtime /\ ui.threw = FALSE
  BY <1>1 DEF UiShown
<1>3. /\ u \in Runtime /\ SameForm(u, ui) /\ u.shown = ui.shown /\ u.hud = ui.hud /\ u.threw = FALSE
  BY <1>2, AnsweredKeeps
<1>4. CASE UserInterface!TexturesPending(u)
  <2>1. ui' = u
    BY <1>4
  <2>2. Showing(ui, form, formHover) => Showing(u, form, formHover)
    BY <1>3, <1>4 DEF Showing, Complete, SameForm
  <2>3. Projected(u, form, formHover) /\ HudShows(u, vitals)
    BY <1>2, <1>3, <2>2 DEF Projected, HudShows, SameForm, Refused
  <2> QED
    BY <1>1, <1>3, <2>1, <2>3 DEF UiShown
<1>5. CASE ~UserInterface!TexturesPending(u)
  <2>1. PICK x : x = Unkeyed(u)
    OBVIOUS
  <2>2. /\ x \in Runtime /\ x.lastFormKey = None /\ x.lastHover = u.lastHover
        /\ x.currentForm = u.currentForm /\ x.hoverIndex = u.hoverIndex
        /\ x.shown = u.shown /\ x.failed = u.failed /\ x.threw = u.threw
    BY <1>3, <2>1, UnkeyedKeeps
  <2>3. x.failed = TRUE => Refused(x)
    BY <1>2, <1>3, <2>2 DEF Projected, Refused, SameForm
  <2>4. x.failed = FALSE /\ x.lastFormKey = form => Showing(x, form, x.lastHover)
    BY <1>2, <1>3, <2>2 DEF Projected, Showing, SameForm
  <2>5. Projectable(x, form)
    BY <1>3, <2>2, <2>3, <2>4 DEF Projectable
  <2>6. PICK w : w = UserInterface!OnFrame(x, form, formHover, vitals)
    OBVIOUS
  <2>7. Projected(w, form, formHover) /\ HudShows(w, vitals)
    BY <2>5, <2>6, OnFrameShows DEF UiShown
  <2>8. ui' = Calm(w)
    BY <1>5, <2>1, <2>6
  <2>9. Projected(ui', form, formHover) /\ HudShows(ui', vitals) /\ ui' \in Runtime /\ ui'.threw = FALSE
    BY <2>7, <2>8, CalmShows DEF UiShown
  <2> QED
    BY <1>1, <2>9 DEF UiShown
<1> QED
  BY <1>4, <1>5

LEMMA TextureKeepsShown == UiShown /\ UserInterface!TextureAnswered => UiShown'
<1> SUFFICES ASSUME UiShown, UserInterface!TextureAnswered PROVE UiShown'
  OBVIOUS
<1>1. PICK t \in Texture, answer \in {"here", "missing"} :
        /\ ui.textures[t] = "loading"
        /\ ui' = IF UserInterface!TexturesPending(Answered(ui, t, answer)) THEN Answered(ui, t, answer)
                 ELSE Calm(UserInterface!OnFrame(Unkeyed(Answered(ui, t, answer)),
                                                 form, formHover, vitals))
        /\ UNCHANGED <<form, formHover, vitals, seen, mounted>>
  BY Zenon DEF UserInterface!TextureAnswered, UserInterface!storeVars, Answered, Calm, Unkeyed
<1> QED
  BY <1>1, AnswerKeepsShown

-----------------------------------------------------------------------------
(* The button that is hovered, and the pictures of a film.                 *)

HoverFits == formHover # None => hoverFace = UserInterface!FaceOf(form)

Moments == {"off", "present", "check", "shoot", "returned", "failed"}
Pictures == [shown : UserInterface!Drawn \cup {None}, hud : UserInterface!Hud \cup {None}]
Grabs == [at : Moments, due : BOOLEAN, prev : Pictures \cup {None}]

(* While a picture is taken, the page is ready and keeps still. *)
Ready ==
  /\ mounted = TRUE /\ ~UserInterface!TexturesPending(ui) /\ ui.failed = FALSE
  /\ ~(ui.shown # None /\ ui.shown.plain)

FilmInv ==
  /\ grab \in Grabs
  /\ grab.at \in {"shoot", "returned"} => Ready
  /\ grab.at = "returned" => grab.prev = UserInterface!Picture

UiInv == UiShown /\ HoverFits /\ FilmInv

(* Only a frame that a picture is due to waits for reaches a film. *)
LEMMA FrameKeepsFilm ==
  ASSUME FilmInv, NEW f, NEW h, NEW v, NEW events, UserInterface!Apply(f, h, v, events)
  PROVE  FilmInv'
<1>1. grab.at \notin {"shoot", "returned"}
  BY DEF UserInterface!Apply, UserInterface!filmMode
<1>2. CASE UNCHANGED grab
  BY <1>1, <1>2 DEF FilmInv
<1>3. CASE grab' # grab
  <2>1. grab.at = "present" /\ \E b : grab' = [grab EXCEPT !.at = IF b THEN "failed" ELSE @]
    BY <1>3, Zenon DEF UserInterface!Apply, UserInterface!Listener, UserInterface!filmMode
  <2>2. grab' \in Grabs /\ grab'.at \in {"present", "failed"}
    BY <2>1 DEF FilmInv, Grabs, Moments
  <2> QED
    BY <2>2 DEF FilmInv
<1> QED
  BY <1>2, <1>3

LEMMA KeyframeKeepsUi == UiInv /\ UserInterface!Keyframe => UiInv'
<1> SUFFICES ASSUME UiInv, UserInterface!Keyframe PROVE UiInv'
  OBVIOUS
<1>1. PICK f \in Form \cup {None} : UserInterface!Apply(f, None, vitals, <<>>)
  BY DEF UserInterface!Keyframe
<1>2. formHover' = None
  BY <1>1 DEF UserInterface!Apply
<1>3. UiShown'
  BY <1>1, FrameKeepsShown DEF UiInv, UiShown
<1> QED
  BY <1>1, <1>2, <1>3, FrameKeepsFilm DEF UiInv, HoverFits

LEMMA UiDeltaKeepsUi == UiInv /\ UserInterface!UiDelta => UiInv'
<1> SUFFICES ASSUME UiInv, UserInterface!UiDelta PROVE UiInv'
  OBVIOUS
<1>1. PICK f \in Form \cup {None}, h \in Button \cup {None} :
        /\ h = IF UserInterface!FaceOf(f) # UserInterface!FaceOf(form) THEN None ELSE formHover
        /\ UserInterface!Apply(f, h, vitals, pending)
  BY DEF UserInterface!UiDelta, UiInv, UiShown
<1>2. form' = f /\ formHover' = h /\ hoverFace' = hoverFace
  BY <1>1 DEF UserInterface!Apply, UserInterface!UiDelta
<1>3. HoverFits'
  BY <1>1, <1>2 DEF UiInv, HoverFits, UserInterface!FaceOf
<1>4. UiShown'
  BY <1>1, FrameKeepsShown DEF UiInv, UiShown
<1> QED
  BY <1>1, <1>3, <1>4, FrameKeepsFilm DEF UiInv

LEMMA FormHoverKeepsUi == UiInv /\ UserInterface!FormHover => UiInv'
<1> SUFFICES ASSUME UiInv, UserInterface!FormHover PROVE UiInv'
  OBVIOUS
<1>1. PICK h \in Button \cup {None} : UserInterface!Apply(form, h, vitals, pending)
  BY DEF UserInterface!FormHover
<1>2. form' = form /\ hoverFace' = UserInterface!FaceOf(form)
  BY <1>1 DEF UserInterface!Apply, UserInterface!FormHover
<1>3. HoverFits'
  BY <1>2 DEF HoverFits, UserInterface!FaceOf
<1>4. UiShown'
  BY <1>1, FrameKeepsShown DEF UiInv, UiShown
<1> QED
  BY <1>1, <1>3, <1>4, FrameKeepsFilm DEF UiInv

LEMMA QuietFrameKeepsUi ==
  ASSUME UiInv, NEW v \in Vitals \cup {None}, NEW events,
         UserInterface!Apply(form, formHover, v, events), hoverFace' = hoverFace
  PROVE  UiInv'
<1>1. form' = form /\ formHover' = formHover
  BY DEF UserInterface!Apply
<1>2. HoverFits'
  BY <1>1 DEF UiInv, HoverFits, UserInterface!FaceOf
<1>3. UiShown'
  BY FrameKeepsShown DEF UiInv, UiShown
<1> QED
  BY <1>2, <1>3, FrameKeepsFilm DEF UiInv

(* What changes the runtime without a frame finds no picture being taken.  *)
LEMMA RuntimeStepKeepsUi ==
  ASSUME UiInv, UserInterface!Mount \/ UserInterface!LoadFails \/ UserInterface!TextureAnswered
  PROVE  UiInv'
<1>1. /\ form' = form /\ formHover' = formHover /\ hoverFace' = hoverFace /\ grab' = grab
  BY DEF UserInterface!Mount, UserInterface!LoadFails, UserInterface!TextureAnswered,
         UserInterface!storeVars, UserInterface!historyVars
<1>2. ~Ready
  BY DEF UserInterface!Mount, UserInterface!LoadFails, UserInterface!TextureAnswered,
         UserInterface!TexturesPending, Ready
<1>3. HoverFits'
  BY <1>1 DEF UiInv, HoverFits, UserInterface!FaceOf
<1>4. FilmInv'
  BY <1>1, <1>2 DEF UiInv, FilmInv
<1>5. UiShown'
  BY MountKeepsShown, LoadFailsKeepsShown, TextureKeepsShown DEF UiInv
<1> QED
  BY <1>3, <1>4, <1>5 DEF UiInv

LEMMA StepKeepsUi ==
  ASSUME UiInv, NEW g, UserInterface!Step(g), g \in Grabs,
         g.at \in {"shoot", "returned"} => Ready,
         g.at = "returned" => g.prev = UserInterface!Picture
  PROVE  UiInv'
<1>1. /\ grab' = g /\ UNCHANGED <<form, formHover, vitals, seen, mounted, ui, hoverFace>>
  BY DEF UserInterface!Step, UserInterface!storeVars, UserInterface!historyVars
<1>2. UiShown'
  BY <1>1 DEF UiInv, UiShown
<1>3. HoverFits'
  BY <1>1 DEF UiInv, HoverFits, UserInterface!FaceOf
<1>4. FilmInv'
  BY <1>1 DEF FilmInv, Ready, UserInterface!Picture, UserInterface!TexturesPending
<1> QED
  BY <1>2, <1>3, <1>4 DEF UiInv

LEMMA FilmStepKeepsUi ==
  ASSUME UiInv, UserInterface!Present \/ UserInterface!Check
                  \/ UserInterface!Shoot \/ UserInterface!NextPicture
  PROVE  UiInv'
<1>1. grab \in Grabs /\ UserInterface!Picture \in Pictures
  BY DEF UiInv, FilmInv, UiShown, Runtime, UserInterface!Picture, Pictures
<1>2. ASSUME UserInterface!Present PROVE UiInv'
  <2>1. UserInterface!Step([grab EXCEPT !.at = "check", !.due = FALSE])
    BY <1>2 DEF UserInterface!Present
  <2>2. /\ [grab EXCEPT !.at = "check", !.due = FALSE] \in Grabs
        /\ [grab EXCEPT !.at = "check", !.due = FALSE].at = "check"
    BY <1>1 DEF Grabs, Moments
  <2> QED
    BY <2>1, <2>2, StepKeepsUi
<1>3. ASSUME UserInterface!Check PROVE UiInv'
  <2>1. ASSUME UserInterface!Step([grab EXCEPT !.at = "failed"]) PROVE UiInv'
    <3>1. /\ [grab EXCEPT !.at = "failed"] \in Grabs /\ [grab EXCEPT !.at = "failed"].at = "failed"
      BY <1>1 DEF Grabs, Moments
    <3> QED
      BY <2>1, <3>1, StepKeepsUi
  <2>2. ASSUME UserInterface!Step([grab EXCEPT !.at = "present", !.prev = None]) PROVE UiInv'
    <3>1. /\ [grab EXCEPT !.at = "present", !.prev = None] \in Grabs
          /\ [grab EXCEPT !.at = "present", !.prev = None].at = "present"
      BY <1>1 DEF Grabs, Moments
    <3> QED
      BY <2>2, <3>1, StepKeepsUi
  <2>3. ASSUME UserInterface!Step([grab EXCEPT !.at = "shoot"]), Ready PROVE UiInv'
    <3>1. /\ [grab EXCEPT !.at = "shoot"] \in Grabs /\ [grab EXCEPT !.at = "shoot"].at = "shoot"
      BY <1>1 DEF Grabs, Moments
    <3> QED
      BY <2>3, <3>1, StepKeepsUi
  <2>4. CASE ui.failed \/ (ui.shown # None /\ ui.shown.plain)
    BY <1>3, <2>1, <2>4 DEF UserInterface!Check
  <2>5. CASE ~(ui.failed \/ (ui.shown # None /\ ui.shown.plain))
    <3>1. mounted /\ ~UserInterface!TexturesPending(ui) => Ready
      BY <2>5 DEF Ready, UiInv, UiShown, Runtime
    <3> QED
      BY <1>3, <2>1, <2>2, <2>3, <2>5, <3>1 DEF UserInterface!Check
  <2> QED
    BY <2>4, <2>5
<1>4. ASSUME UserInterface!Shoot PROVE UiInv'
  <2>1. CASE grab.prev = UserInterface!Picture
    <3>1. UserInterface!Step([grab EXCEPT !.at = "returned"]) /\ Ready
      BY <1>4, <2>1 DEF UserInterface!Shoot, UiInv, FilmInv
    <3>2. /\ [grab EXCEPT !.at = "returned"] \in Grabs
          /\ [grab EXCEPT !.at = "returned"].prev = UserInterface!Picture
      BY <1>1, <2>1 DEF Grabs, Moments
    <3> QED
      BY <3>1, <3>2, StepKeepsUi
  <2>2. CASE grab.prev # UserInterface!Picture
    <3>1. UserInterface!Step([grab EXCEPT !.at = "present", !.prev = UserInterface!Picture])
      BY <1>4, <2>2 DEF UserInterface!Shoot
    <3>2. /\ [grab EXCEPT !.at = "present", !.prev = UserInterface!Picture] \in Grabs
          /\ [grab EXCEPT !.at = "present", !.prev = UserInterface!Picture].at = "present"
      BY <1>1 DEF Grabs, Moments
    <3> QED
      BY <3>1, <3>2, StepKeepsUi
  <2> QED
    BY <2>1, <2>2
<1>5. ASSUME UserInterface!NextPicture PROVE UiInv'
  <2>1. UserInterface!Step([grab EXCEPT !.at = "present", !.due = TRUE, !.prev = None])
    BY <1>5 DEF UserInterface!NextPicture
  <2>2. /\ [grab EXCEPT !.at = "present", !.due = TRUE, !.prev = None] \in Grabs
        /\ [grab EXCEPT !.at = "present", !.due = TRUE, !.prev = None].at = "present"
    BY <1>1 DEF Grabs, Moments
  <2> QED
    BY <2>1, <2>2, StepKeepsUi
<1> QED
  BY <1>2, <1>3, <1>4, <1>5

LEMMA UiInit == UserInterface!Init => UiInv
<1> SUFFICES ASSUME UserInterface!Init PROVE UiInv
  OBVIOUS
<1>1. /\ form = None /\ formHover = None /\ vitals = None /\ seen = FALSE /\ mounted = FALSE
      /\ grab \in [at : {"off", "present"}, due : {TRUE}, prev : {None}]
  BY DEF UserInterface!Init
<1>2. ui = [lastFormKey |-> None, lastHover |-> None, currentForm |-> None,
            hoverIndex |-> None, shown |-> None, hud |-> None,
            textures |-> [t \in Texture |-> "unasked"], failed |-> FALSE, threw |-> FALSE]
  BY DEF UserInterface!Init
<1>3. ui \in Runtime /\ Idle(ui) /\ ui.threw = FALSE
  BY <1>2 DEF Runtime, Idle, Answer
<1>4. grab \in Grabs /\ grab.at \in {"off", "present"}
  BY <1>1 DEF Grabs, Moments
<1> QED
  BY <1>1, <1>3, <1>4 DEF UiInv, UiShown, HoverFits, FilmInv

LEMMA UiNext == UiInv /\ UserInterface!Next => UiInv'
<1> SUFFICES ASSUME UiInv, UserInterface!Next PROVE UiInv'
  OBVIOUS
<1>1. ASSUME UserInterface!VitalsFrame PROVE UiInv'
  BY <1>1, QuietFrameKeepsUi DEF UserInterface!VitalsFrame
<1>2. ASSUME UserInterface!Event PROVE UiInv'
  <2>1. vitals \in Vitals \cup {None}
    BY DEF UiInv, UiShown
  <2> QED
    BY <1>2, <2>1, QuietFrameKeepsUi DEF UserInterface!Event
<1> QED
  BY <1>1, <1>2, KeyframeKeepsUi, UiDeltaKeepsUi, FormHoverKeepsUi, RuntimeStepKeepsUi,
     FilmStepKeepsUi DEF UserInterface!Next

LEMMA UiUntouched == UiInv /\ UNCHANGED uiVars => UiInv'
<1> SUFFICES ASSUME UiInv, UNCHANGED uiVars PROVE UiInv'
  OBVIOUS
<1>1. UNCHANGED <<form, formHover, vitals, seen, mounted, ui, hoverFace, grab>>
  BY DEF uiVars
<1>2. UiShown'
  BY <1>1 DEF UiInv, UiShown
<1>3. HoverFits' /\ FilmInv'
  BY <1>1 DEF UiInv, HoverFits, UserInterface!FaceOf, FilmInv, Ready, UserInterface!Picture,
              UserInterface!TexturesPending
<1> QED
  BY <1>2, <1>3 DEF UiInv

LEMMA UiIsCurrent == UiInv => FormOnScreen
<1> SUFFICES ASSUME UiInv PROVE FormOnScreen
  OBVIOUS
<1>1. ui.failed \in BOOLEAN /\ mounted \in BOOLEAN /\ seen \in BOOLEAN
  BY DEF UiInv, UiShown, Runtime
<1>2. ASSUME mounted = TRUE, seen = TRUE, ui.failed = FALSE
      PROVE  Showing(ui, form, formHover)
  BY <1>2 DEF UiInv, UiShown, Projected
<1>3. UserInterface!FormOnScreen
  <2>1. CASE ui.failed = TRUE
    BY <1>1, <2>1 DEF UserInterface!FormOnScreen, UiInv, UiShown, Projected
  <2>2. CASE ui.failed = FALSE
    BY <1>1, <1>2, <2>2 DEF UserInterface!FormOnScreen, UserInterface!Draws, Showing, Complete
  <2> QED
    BY <1>1, <2>1, <2>2
<1>4. UserInterface!HoverBelongsToForm
  <2>1. CASE mounted = TRUE /\ seen = TRUE
    BY <1>1, <1>2, <2>1
       DEF UserInterface!HoverBelongsToForm, Showing, UiInv, HoverFits, UserInterface!FaceOf
  <2>2. CASE ~(mounted = TRUE /\ seen = TRUE)
    BY <1>1, <2>2 DEF UserInterface!HoverBelongsToForm, UiInv, UiShown, Idle
  <2> QED
    BY <2>1, <2>2
<1> QED
  BY <1>3, <1>4 DEF FormOnScreen

LEMMA FilmIsCurrent == UiInv => FilmShowsForm
<1> SUFFICES ASSUME UiInv, grab.at = "returned"
             PROVE  /\ mounted /\ ~UserInterface!TexturesPending(ui) /\ ~ui.failed
                    /\ seen => /\ UserInterface!Draws(grab.prev.shown, form)
                               /\ form # None => ~grab.prev.shown.plain
                               /\ grab.prev.hud.vitals = vitals
  BY DEF FilmShowsForm, UserInterface!FilmShowsForm
<1>1. Ready /\ grab.prev = UserInterface!Picture
  BY DEF UiInv, FilmInv
<1>2. grab.prev.shown = ui.shown /\ grab.prev.hud = ui.hud
  BY <1>1 DEF UserInterface!Picture
<1>3. ASSUME seen PROVE Showing(ui, form, formHover) /\ ui.hud.vitals = vitals
  BY <1>1, <1>3 DEF Ready, UiInv, UiShown, Projected, HudShows
<1> QED
  BY <1>1, <1>2, <1>3 DEF Ready, UserInterface!Draws, Showing, Complete

-----------------------------------------------------------------------------
(* Particles and animations: what was handed over, in the order of their   *)
(* numbers, and behind it what waits.                                      *)

Items(s) == {s[i] : i \in DOMAIN s}
Rising(s) == \A i, j \in DOMAIN s : i < j => s[i] < s[j]
Before(s, t) == \A i \in DOMAIN s, j \in DOMAIN t : s[i] < t[j]

LEMMA ConcatRises ==
  ASSUME NEW s \in Seq(Nat), NEW t \in Seq(Nat), Rising(s), Rising(t), Before(s, t)
  PROVE  s \o t \in Seq(Nat) /\ Rising(s \o t) /\ Items(s \o t) = Items(s) \cup Items(t)
<1>1. /\ s \o t \in Seq(Nat) /\ Len(s \o t) = Len(s) + Len(t)
      /\ \A i \in 1..Len(s) + Len(t) : (s \o t)[i] = IF i <= Len(s) THEN s[i] ELSE t[i - Len(s)]
  BY ConcatProperties
<1>2. Rising(s \o t)
  BY <1>1 DEF Rising, Before
<1>3. \A i \in DOMAIN s : i \in DOMAIN (s \o t) /\ (s \o t)[i] = s[i]
  BY <1>1
<1>4. \A j \in DOMAIN t : Len(s) + j \in DOMAIN (s \o t) /\ (s \o t)[Len(s) + j] = t[j]
  BY <1>1
<1>5. \A k \in DOMAIN (s \o t) : \/ k \in DOMAIN s /\ (s \o t)[k] = s[k]
                                 \/ k - Len(s) \in DOMAIN t /\ (s \o t)[k] = t[k - Len(s)]
  BY <1>1
<1>6. Items(s \o t) = Items(s) \cup Items(t)
  <2>1. ASSUME NEW x \in Items(s \o t) PROVE x \in Items(s) \cup Items(t)
    BY <1>5, <2>1 DEF Items
  <2>2. ASSUME NEW x \in Items(s) PROVE x \in Items(s \o t)
    BY <1>3, <2>2 DEF Items
  <2>3. ASSUME NEW x \in Items(t) PROVE x \in Items(s \o t)
    BY <1>4, <2>3 DEF Items
  <2> QED
    BY <2>1, <2>2, <2>3
<1> QED
  BY <1>1, <1>2, <1>6

LEMMA AppendRises ==
  ASSUME NEW s \in Seq(Nat), NEW e \in Nat, Rising(s), \A x \in Items(s) : x < e
  PROVE  Append(s, e) \in Seq(Nat) /\ Rising(Append(s, e)) /\ Items(Append(s, e)) = Items(s) \cup {e}
<1>1. /\ Append(s, e) \in Seq(Nat) /\ Len(Append(s, e)) = Len(s) + 1
      /\ \A i \in 1..Len(s) : Append(s, e)[i] = s[i]
      /\ Append(s, e)[Len(s) + 1] = e
  BY AppendProperties
<1>2. \A i \in DOMAIN s : s[i] < e
  BY DEF Items
<1>3. Rising(Append(s, e))
  BY <1>1, <1>2 DEF Rising
<1>4. \A k \in DOMAIN Append(s, e) : k = Len(s) + 1 \/ (k \in DOMAIN s /\ Append(s, e)[k] = s[k])
  BY <1>1
<1>5. \A i \in DOMAIN s : i \in DOMAIN Append(s, e)
  BY <1>1
<1>6. Len(s) + 1 \in DOMAIN Append(s, e)
  BY <1>1
<1>7. Items(Append(s, e)) = Items(s) \cup {e}
  BY <1>1, <1>4, <1>5, <1>6 DEF Items
<1> QED
  BY <1>1, <1>3, <1>7

(* Every number given out is in one place. *)
Sorted(h, p) == h \in Seq(Nat) /\ p \in Seq(Nat) /\ Rising(h) /\ Rising(p) /\ Before(h, p)
Placed(h, p, l, n) ==
  /\ Items(h) \cup Items(p) \cup l \subseteq 1..n /\ l \cap Items(p) = {}
  /\ \A e \in 1..n : (e \in Items(h)) # (e \in l \/ e \in Items(p))
EventsFit(h, p, l, n) == n \in Nat /\ Sorted(h, p) /\ Placed(h, p, l, n)

EventsInv ==
  /\ EventsFit(handed, pending, lost, eventCount)
  /\ thrown \in BOOLEAN
  /\ thrown = FALSE => lost = {} /\ pending = <<>>

LEMMA NoItems == Items(<<>>) = {} /\ <<>> \in Seq(Nat) /\ Rising(<<>>)
  BY DEF Items, Rising

(* What waits is handed over, or one more joins it, or it is dropped.      *)
LEMMA HandedOver ==
  ASSUME NEW h, NEW p, NEW l, NEW n, EventsFit(h, p, l, n)
  PROVE  EventsFit(h \o p, <<>>, l, n)
<1>1. h \o p \in Seq(Nat) /\ Rising(h \o p) /\ Items(h \o p) = Items(h) \cup Items(p)
  BY ConcatRises DEF EventsFit, Sorted
<1>2. Sorted(h \o p, <<>>)
  BY <1>1, NoItems DEF Sorted, Before
<1>3. Placed(h \o p, <<>>, l, n)
  <2>1. Items(h) \cap Items(p) = {}
    BY DEF EventsFit, Sorted, Before, Items
  <2>2. \A e \in 1..n : (e \in Items(h)) # (e \in l \/ e \in Items(p))
    BY DEF EventsFit, Placed
  <2>3. \A e \in l : e \notin Items(p)
    BY DEF EventsFit, Placed
  <2> QED
    BY <1>1, <2>1, <2>2, <2>3, NoItems DEF EventsFit, Placed
<1> QED
  BY <1>2, <1>3 DEF EventsFit

LEMMA OneMore ==
  ASSUME NEW h, NEW p, NEW l, NEW n, EventsFit(h, p, l, n)
  PROVE  EventsFit(h, Append(p, n + 1), l, n + 1)
<1>1. n \in Nat /\ Sorted(h, p) /\ Placed(h, p, l, n)
  BY DEF EventsFit
<1>2. \A x \in Items(p) \cup Items(h) \cup l : x \in 1..n
  BY <1>1 DEF Placed
<1>3. /\ Append(p, n + 1) \in Seq(Nat) /\ Rising(Append(p, n + 1))
      /\ Items(Append(p, n + 1)) = Items(p) \cup {n + 1}
  <2>1. \A x \in Items(p) : x < n + 1
    BY <1>1, <1>2
  <2> QED
    BY <1>1, <2>1, AppendRises DEF Sorted
<1>4. Before(h, Append(p, n + 1))
  <2>1. \A i \in DOMAIN h : h[i] < n + 1
    BY <1>1, <1>2 DEF Items
  <2>2. \A j \in DOMAIN Append(p, n + 1) :
          Append(p, n + 1)[j] = n + 1 \/ (j \in DOMAIN p /\ Append(p, n + 1)[j] = p[j])
    BY <1>1, AppendProperties DEF Sorted
  <2> QED
    BY <1>1, <2>1, <2>2 DEF Sorted, Before
<1>5. Sorted(h, Append(p, n + 1))
  BY <1>1, <1>3, <1>4 DEF Sorted
<1>6. Placed(h, Append(p, n + 1), l, n + 1)
  <2>1. n + 1 \notin Items(h) \cup l \cup Items(p)
    BY <1>1, <1>2
  <2>2. \A e \in 1..(n + 1) : e \in 1..n \/ e = n + 1
    BY <1>1
  <2>3. 1..n \subseteq 1..(n + 1) /\ n + 1 \in 1..(n + 1)
    BY <1>1
  <2>4. \A e \in 1..n : (e \in Items(h)) # (e \in l \/ e \in Items(Append(p, n + 1)))
    BY <1>1, <1>3 DEF Placed
  <2>5. (n + 1 \in Items(h)) # (n + 1 \in l \/ n + 1 \in Items(Append(p, n + 1)))
    BY <1>3, <2>1
  <2>6. Items(h) \cup Items(Append(p, n + 1)) \cup l \subseteq 1..(n + 1)
    BY <1>2, <1>3, <2>3
  <2>7. l \cap Items(Append(p, n + 1)) = {}
    BY <1>1, <1>3, <2>1 DEF Placed
  <2> QED
    BY <2>2, <2>4, <2>5, <2>6, <2>7 DEF Placed
<1> QED
  BY <1>1, <1>5, <1>6 DEF EventsFit

LEMMA Dropped ==
  ASSUME NEW h, NEW p, NEW l, NEW n, EventsFit(h, p, l, n)
  PROVE  EventsFit(h, <<>>, l \cup Items(p), n)
  BY NoItems DEF EventsFit, Sorted, Placed, Before

(* A frame hands over what it brings, or throws and keeps it.              *)
LEMMA FrameHands ==
  ASSUME NEW f, NEW h, NEW v, NEW events, UserInterface!Apply(f, h, v, events),
         events \in Seq(Nat), thrown \in BOOLEAN
  PROVE  /\ thrown' \in BOOLEAN
         /\ \/ handed' = handed /\ pending' = events /\ thrown' = TRUE
            \/ handed' = handed \o events /\ pending' = <<>> /\ thrown' = thrown
<1> DEFINE drawn == IF mounted THEN UserInterface!OnFrame(ui, f, h, v) ELSE ui
<1>1. /\ thrown' = (thrown \/ drawn.threw)
      /\ IF drawn.threw THEN pending' = events /\ UNCHANGED handed
         ELSE pending' = <<>> /\ handed' = handed \o events
  BY Zenon DEF UserInterface!Apply, UserInterface!Listener
<1> HIDE DEF drawn
<1>2. CASE drawn.threw
  BY <1>1, <1>2
<1>3. CASE ~drawn.threw
  BY <1>1, <1>3
<1> QED
  BY <1>2, <1>3

LEMMA EventsAfterFrame ==
  ASSUME EventsInv, NEW f, NEW h, NEW v, UserInterface!Apply(f, h, v, pending),
         lost' = lost, eventCount' = eventCount
  PROVE  EventsInv'
<1>1. EventsFit(handed, pending, lost, eventCount) /\ pending \in Seq(Nat) /\ thrown \in BOOLEAN
  BY DEF EventsInv, EventsFit, Sorted
<1>2. /\ thrown' \in BOOLEAN
      /\ \/ handed' = handed /\ pending' = pending /\ thrown' = TRUE
         \/ handed' = handed \o pending /\ pending' = <<>> /\ thrown' = thrown
  BY <1>1, FrameHands
<1>3. CASE handed' = handed /\ pending' = pending /\ thrown' = TRUE
  BY <1>1, <1>3 DEF EventsInv
<1>4. CASE handed' = handed \o pending /\ pending' = <<>> /\ thrown' = thrown
  <2>1. EventsFit(handed \o pending, <<>>, lost, eventCount)
    BY <1>1, HandedOver
  <2> QED
    BY <1>4, <2>1 DEF EventsInv
<1> QED
  BY <1>2, <1>3, <1>4

LEMMA EventsAfterKeyframe == EventsInv /\ UserInterface!Keyframe => EventsInv'
<1> SUFFICES ASSUME EventsInv, UserInterface!Keyframe PROVE EventsInv'
  OBVIOUS
<1>1. PICK f : UserInterface!Apply(f, None, vitals, <<>>)
  BY DEF UserInterface!Keyframe
<1>2. lost' = lost \cup Items(pending) /\ eventCount' = eventCount
  BY DEF UserInterface!Keyframe, Items
<1>3. /\ EventsFit(handed, pending, lost, eventCount) /\ thrown \in BOOLEAN
      /\ handed \in Seq(Nat)
  BY DEF EventsInv, EventsFit, Sorted
<1>4. /\ thrown' \in BOOLEAN /\ pending' = <<>> /\ (thrown' = TRUE \/ thrown' = thrown)
      /\ handed' = handed \/ handed' = handed \o <<>>
  BY <1>1, <1>3, NoItems, FrameHands
<1>5. handed' = handed
  BY <1>3, <1>4
<1>6. EventsFit(handed, <<>>, lost \cup Items(pending), eventCount)
  BY <1>3, Dropped
<1>7. thrown' = FALSE => lost \cup Items(pending) = {}
  BY <1>4, NoItems DEF EventsInv
<1> QED
  BY <1>2, <1>4, <1>5, <1>6, <1>7 DEF EventsInv

LEMMA EventsAfterEvent == EventsInv /\ UserInterface!Event => EventsInv'
<1> SUFFICES ASSUME EventsInv, UserInterface!Event PROVE EventsInv'
  OBVIOUS
<1>1. /\ UserInterface!Apply(form, formHover, vitals, Append(pending, eventCount + 1))
      /\ lost' = lost /\ eventCount' = eventCount + 1
  BY DEF UserInterface!Event
<1>2. EventsFit(handed, pending, lost, eventCount) /\ thrown \in BOOLEAN
  BY DEF EventsInv
<1>3. PICK p : p = Append(pending, eventCount + 1)
  OBVIOUS
<1>4. EventsFit(handed, p, lost, eventCount + 1)
  BY <1>2, <1>3, OneMore
<1>5. p \in Seq(Nat)
  BY <1>4 DEF EventsFit, Sorted
<1>6. /\ thrown' \in BOOLEAN
      /\ \/ handed' = handed /\ pending' = p /\ thrown' = TRUE
         \/ handed' = handed \o p /\ pending' = <<>> /\ thrown' = thrown
  BY <1>1, <1>2, <1>3, <1>5, FrameHands
<1>7. CASE handed' = handed /\ pending' = p /\ thrown' = TRUE
  BY <1>1, <1>4, <1>7 DEF EventsInv
<1>8. CASE handed' = handed \o p /\ pending' = <<>> /\ thrown' = thrown
  <2>1. EventsFit(handed \o p, <<>>, lost, eventCount + 1)
    BY <1>4, HandedOver
  <2> QED
    BY <1>1, <1>8, <2>1 DEF EventsInv
<1> QED
  BY <1>6, <1>7, <1>8

LEMMA EventsInit == UserInterface!Init => EventsInv
<1> SUFFICES ASSUME UserInterface!Init PROVE EventsInv
  OBVIOUS
<1>1. handed = <<>> /\ pending = <<>> /\ lost = {} /\ eventCount = 0 /\ thrown = FALSE
  BY DEF UserInterface!Init
<1>2. Sorted(<<>>, <<>>)
  BY NoItems DEF Sorted, Before
<1>3. Placed(<<>>, <<>>, {}, 0)
  BY NoItems DEF Placed
<1> QED
  BY <1>1, <1>2, <1>3 DEF EventsInv, EventsFit

LEMMA EventsNext == EventsInv /\ UserInterface!Next => EventsInv'
<1> SUFFICES ASSUME EventsInv, UserInterface!Next PROVE EventsInv'
  OBVIOUS
<1>1. ASSUME UserInterface!UiDelta \/ UserInterface!FormHover \/ UserInterface!VitalsFrame
      PROVE  EventsInv'
  <2>1. PICK f, h, v : UserInterface!Apply(f, h, v, pending)
    BY <1>1 DEF UserInterface!UiDelta, UserInterface!FormHover, UserInterface!VitalsFrame
  <2>2. lost' = lost /\ eventCount' = eventCount
    BY <1>1 DEF UserInterface!UiDelta, UserInterface!FormHover, UserInterface!VitalsFrame
  <2> QED
    BY <2>1, <2>2, EventsAfterFrame
<1>2. ASSUME UNCHANGED <<handed, pending, lost, eventCount, thrown>> PROVE EventsInv'
  BY <1>2 DEF EventsInv
<1>3. ASSUME UserInterface!Mount \/ UserInterface!LoadFails \/ UserInterface!TextureAnswered
             \/ UserInterface!Present \/ UserInterface!Check \/ UserInterface!Shoot
             \/ UserInterface!NextPicture
      PROVE  UNCHANGED <<handed, pending, lost, eventCount, thrown>>
  BY <1>3 DEF UserInterface!Mount, UserInterface!LoadFails, UserInterface!TextureAnswered,
              UserInterface!Present, UserInterface!Check, UserInterface!Shoot,
              UserInterface!NextPicture, UserInterface!Step, UserInterface!storeVars,
              UserInterface!historyVars
<1> QED
  BY <1>1, <1>2, <1>3, EventsAfterKeyframe, EventsAfterEvent DEF UserInterface!Next

LEMMA EventsUntouched == EventsInv /\ UNCHANGED uiVars => EventsInv'
  BY DEF uiVars, EventsInv

LEMMA EventsAreOnce == EventsInv => EventsHandedOnce
<1> SUFFICES ASSUME EventsInv PROVE EventsHandedOnce
  OBVIOUS
<1>1. /\ Rising(handed) /\ thrown \in BOOLEAN
      /\ thrown = FALSE => lost = {} /\ pending = <<>>
      /\ \A e \in 1..eventCount : (e \in Items(handed)) # (e \in lost \/ e \in Items(pending))
  BY DEF EventsInv, EventsFit, Sorted, Placed
<1>2. \A e : /\ e \in Items(handed) <=> \E i \in DOMAIN handed : handed[i] = e
             /\ e \in Items(pending) <=> \E i \in DOMAIN pending : pending[i] = e
  BY DEF Items
<1>3. \A e \in 1..eventCount :
        (\E i \in DOMAIN handed : handed[i] = e)
          # (e \in lost \/ \E i \in DOMAIN pending : pending[i] = e)
  <2> SUFFICES ASSUME NEW e \in 1..eventCount
               PROVE  (\E i \in DOMAIN handed : handed[i] = e)
                        # (e \in lost \/ \E i \in DOMAIN pending : pending[i] = e)
    OBVIOUS
  <2>1. CASE e \in Items(handed)
    <3>1. ~(e \in lost \/ e \in Items(pending))
      BY <1>1, <2>1
    <3> QED
      BY <1>2, <2>1, <3>1
  <2>2. CASE e \notin Items(handed)
    <3>1. e \in lost \/ e \in Items(pending)
      BY <1>1, <2>2
    <3> QED
      BY <1>2, <2>2, <3>1
  <2> QED
    BY <2>1, <2>2
<1> QED
  BY <1>1, <1>3 DEF Rising, EventsHandedOnce, UserInterface!EventsHandedOnce

-----------------------------------------------------------------------------
(* Whatever forms come, are refused or are drawn again, and whenever packs *)
(* and textures arrive: the form on screen is the one of the store, with   *)
(* its button and all the textures there are, unless the page says that    *)
(* it failed.                                                              *)
THEOREM FormShown == PageSpec => []FormOnScreen
<1>1. PageInit => UiInv
  BY UiInit DEF PageInit, PartsInit
<1>2. UiInv /\ [PageNext]_pageVars => UiInv'
  BY UiNext, UiUntouched DEF PageNext, Terrain, OfEntity, OfUi, OfTake, OfAnimator, pageVars
<1> QED
  BY <1>1, <1>2, UiIsCurrent, PTL DEF PageSpec

(* A picture that the film tool keeps shows the form and the HUD of its    *)
(* moment, by the packs and with nothing missing.                          *)
THEOREM PictureComplete == PageSpec => []FilmShowsForm
<1>1. PageInit => UiInv
  BY UiInit DEF PageInit, PartsInit
<1>2. UiInv /\ [PageNext]_pageVars => UiInv'
  BY UiNext, UiUntouched DEF PageNext, Terrain, OfEntity, OfUi, OfTake, OfAnimator, pageVars
<1> QED
  BY <1>1, <1>2, FilmIsCurrent, PTL DEF PageSpec

(* Particles and animations are handed over once and in order, though a    *)
(* frame may throw before it hands them over; none is dropped but by a     *)
(* keyframe behind such a frame.                                           *)
THEOREM EventsOnce == PageSpec => []EventsHandedOnce
<1>1. PageInit => EventsInv
  BY EventsInit DEF PageInit, PartsInit
<1>2. EventsInv /\ [PageNext]_pageVars => EventsInv'
  BY EventsNext, EventsUntouched DEF PageNext, Terrain, OfEntity, OfUi, OfTake, OfAnimator, pageVars
<1> QED
  BY <1>1, <1>2, EventsAreOnce, PTL DEF PageSpec

-----------------------------------------------------------------------------
(* Terrain.  Queues: a listing of a set has all of it, and what is kept of *)
(* a queue keeps its place in it.                                          *)

IsQueue(s) == s \in Seq(ToSet(s))

LEMMA ListingHasAll ==
  ASSUME NEW S, IsFiniteSet(S)
  PROVE  ToSet(SetToSeq(S)) = S /\ IsQueue(SetToSeq(S))
<1> DEFINE n == Cardinality(S)
<1>1. n \in Nat /\ ExistsBijection(1..n, S)
  BY FS_CardinalityType
<1>2. PICK f \in [1..n -> S] : IsInjective(f)
  BY <1>1 DEF ExistsBijection, Bijection, Injection, IsInjective
<1>3. PICK q \in [1..n -> S] : q = SetToSeq(S) /\ IsInjective(q)
  BY <1>2 DEF SetToSeq
<1>4. q \in Injection(1..n, S)
  BY <1>3 DEF Injection, IsInjective
<1>5. Cardinality(1..n) = n
  BY <1>1, FS_Interval
<1>6. q \in Surjection(1..n, S)
  BY <1>4, <1>5, FS_Injection
<1>7. ToSet(q) = S
  BY <1>6 DEF Surjection, ToSet
<1>8. q \in Seq(S)
  BY <1>1
<1> QED
  BY <1>3, <1>7, <1>8 DEF IsQueue

LEMMA KeptKeeps ==
  ASSUME NEW V, NEW q \in Seq(V), NEW S
  PROVE  IsQueue(Kept(q, S)) /\ \A i \in DOMAIN q : q[i] \in S => q[i] \in ToSet(Kept(q, S))
<1> DEFINE places == {i \in DOMAIN q : q[i] \in S}
           rank(i) == Cardinality({j \in places : j <= i})
           m == Cardinality(places)
           k == Kept(q, S)
<1>1. DOMAIN q = 1..Len(q) /\ Len(q) \in Nat
  OBVIOUS
<1>2. IsFiniteSet(places) /\ m \in Nat
  <2>1. IsFiniteSet(1..Len(q))
    BY <1>1, FS_Interval
  <2>2. places \in SUBSET (1..Len(q))
    BY <1>1
  <2> QED
    BY <2>1, <2>2, FS_Subset, FS_CardinalityType
<1>3. k = [r \in 1..m |-> q[CHOOSE i \in places : rank(i) = r]]
  BY DEF Kept
<1>4. ASSUME NEW i \in places PROVE rank(i) \in 1..m
  <2>1. {j \in places : j <= i} \in SUBSET places
    OBVIOUS
  <2>2. IsFiniteSet({j \in places : j <= i}) /\ rank(i) <= m /\ rank(i) \in Nat
    BY <1>2, <2>1, FS_Subset, FS_CardinalityType
  <2>3. i \in {j \in places : j <= i}
    BY <1>1
  <2>4. rank(i) # 0
    BY <2>2, <2>3, FS_EmptySet
  <2> QED
    BY <1>2, <2>2, <2>4
<1>5. ASSUME NEW i \in places, NEW j \in places, i < j PROVE rank(i) # rank(j)
  <2>1. {h \in places : h <= i} \in SUBSET {h \in places : h <= j}
    BY <1>1, <1>5
  <2>2. j \in {h \in places : h <= j} /\ j \notin {h \in places : h <= i}
    BY <1>1, <1>5
  <2>3. IsFiniteSet({h \in places : h <= j})
    BY <1>2, FS_Subset
  <2> QED
    BY <2>1, <2>2, <2>3, FS_Subset
<1>6. ASSUME NEW i \in DOMAIN q, q[i] \in S PROVE q[i] \in ToSet(k)
  <2>1. i \in places /\ rank(i) \in 1..m
    BY <1>4, <1>6
  <2> DEFINE j == CHOOSE j \in places : rank(j) = rank(i)
  <2>2. j \in places /\ rank(j) = rank(i)
    BY <2>1
  <2> HIDE DEF rank, j, places
  <2>3. i \in Nat /\ j \in Nat
    BY <1>1, <2>1, <2>2 DEF places
  <2>4. j = i
    BY <1>5, <2>1, <2>2, <2>3
  <2>5. k[rank(i)] = q[j]
    BY <1>3, <2>1 DEF j
  <2>6. rank(i) \in DOMAIN k
    BY <1>3, <2>1
  <2> QED
    BY <2>4, <2>5, <2>6 DEF ToSet
<1>7. IsQueue(k)
  <2> HIDE DEF rank, places, m, k
  <2>1. DOMAIN k = 1..m
    BY <1>3
  <2>2. k = [r \in 1..m |-> k[r]]
    BY <1>3
  <2>3. \A r \in 1..m : k[r] \in ToSet(k)
    BY <2>1 DEF ToSet
  <2> QED
    BY <1>2, <2>2, <2>3, IsASeq DEF IsQueue
<1> QED
  BY <1>6, <1>7

LEMMA JoinedQueues ==
  ASSUME NEW p, NEW q, IsQueue(p), IsQueue(q)
  PROVE  IsQueue(p \o q) /\ ToSet(p \o q) = ToSet(p) \cup ToSet(q)
<1> DEFINE V == ToSet(p) \cup ToSet(q)
<1>1. p \in Seq(V) /\ q \in Seq(V)
  BY SeqMonotonic DEF IsQueue
<1>2. /\ p \o q \in Seq(V) /\ Len(p \o q) = Len(p) + Len(q)
      /\ \A i \in 1..Len(p) + Len(q) : (p \o q)[i] = IF i <= Len(p) THEN p[i] ELSE q[i - Len(p)]
  BY <1>1, ConcatProperties
<1>3. ASSUME NEW x \in ToSet(p) PROVE x \in ToSet(p \o q)
  BY <1>1, <1>2, <1>3 DEF ToSet
<1>4. ASSUME NEW x \in ToSet(q) PROVE x \in ToSet(p \o q)
  <2>1. PICK j \in 1..Len(q) : x = q[j]
    BY <1>1, <1>4 DEF ToSet
  <2>2. Len(p) + j \in 1..Len(p) + Len(q) /\ (p \o q)[Len(p) + j] = q[j]
    BY <1>1, <1>2
  <2>3. DOMAIN (p \o q) = 1..Len(p) + Len(q)
    BY <1>1, <1>2
  <2> QED
    BY <2>1, <2>2, <2>3 DEF ToSet
<1>5. ASSUME NEW x \in ToSet(p \o q) PROVE x \in V
  BY <1>2, <1>5 DEF ToSet
<1>6. ToSet(p \o q) = V
  BY <1>3, <1>4, <1>5
<1> QED
  BY <1>2, <1>6 DEF IsQueue

-----------------------------------------------------------------------------
(* What the operators on a scene do, field by field.                       *)

IsScene(s) == DOMAIN s = {"sections", "bounds", "pending", "clearing"}

Fewer(a, keys) == Restrict(a, DOMAIN a \ keys)

LEMMA SceneNow ==
  /\ IsScene(Scene) /\ Scene.sections = sections /\ Scene.bounds = columnBounds
  /\ Scene.pending = pendingSections /\ Scene.clearing = worldClearPending
  BY DEF Scene, IsScene

LEMMA WithoutDoes ==
  ASSUME NEW s, IsScene(s), NEW keys, NEW m, m = Without(s, keys)
  PROVE  /\ IsScene(m) /\ m.sections = Fewer(s.sections, keys) /\ m.bounds = s.bounds
         /\ m.pending = s.pending /\ m.clearing = s.clearing
<1> DEFINE f == Fewer(s.sections, keys)
<1>1. m = [s EXCEPT !.sections = f]
  BY DEF Without, Fewer
<1> HIDE DEF f
<1>2. IsScene(m) /\ m.sections = f
  BY <1>1 DEF IsScene
<1>3. m.bounds = s.bounds /\ m.pending = s.pending /\ m.clearing = s.clearing
  BY <1>1 DEF IsScene
<1> QED
  BY <1>2, <1>3 DEF f

LEMMA EnqueueDoes ==
  ASSUME NEW s, IsScene(s), NEW keys, NEW m, m = Enqueue(s, keys)
  PROVE  /\ IsScene(m) /\ m.sections = s.sections /\ m.bounds = s.bounds /\ m.clearing = s.clearing
         /\ m.pending = s.pending \o Kept(keys, Column \ ToSet(s.pending))
<1> DEFINE q == s.pending \o Kept(keys, Column \ ToSet(s.pending))
<1>1. m = [s EXCEPT !.pending = q]
  BY DEF Enqueue
<1> HIDE DEF q
<1>2. IsScene(m) /\ m.pending = q
  BY <1>1 DEF IsScene
<1>3. m.sections = s.sections /\ m.bounds = s.bounds /\ m.clearing = s.clearing
  BY <1>1 DEF IsScene
<1> QED
  BY <1>2, <1>3 DEF q

LEMMA ResetDoes ==
  ASSUME NEW s, IsScene(s), NEW m, m = OnReset(s)
  PROVE  /\ IsScene(m) /\ m.sections = s.sections /\ m.bounds = s.bounds
         /\ m.pending = <<>> /\ m.clearing = TRUE
<1>1. IsScene(m) /\ m.pending = <<>> /\ m.clearing = TRUE
  BY DEF OnReset, IsScene
<1>2. m.sections = s.sections /\ m.bounds = s.bounds
  BY DEF OnReset, IsScene
<1> QED
  BY <1>1, <1>2

LEMMA BoundsDo ==
  ASSUME NEW s, IsScene(s), NEW b, NEW m, m = [s EXCEPT !.bounds = b]
  PROVE  /\ IsScene(m) /\ m.sections = s.sections /\ m.bounds = b
         /\ m.pending = s.pending /\ m.clearing = s.clearing
<1>1. IsScene(m) /\ m.bounds = b
  BY DEF IsScene
<1>2. m.sections = s.sections /\ m.pending = s.pending /\ m.clearing = s.clearing
  BY DEF IsScene
<1> QED
  BY <1>1, <1>2

Left(s, b, w) == [s EXCEPT !.bounds = b, !.clearing = w]

LEMMA LeftDoes ==
  ASSUME NEW s, IsScene(s), NEW b, NEW w, NEW m, m = Left(s, b, w)
  PROVE  /\ IsScene(m) /\ m.sections = s.sections /\ m.bounds = b
         /\ m.pending = s.pending /\ m.clearing = w
<1>1. IsScene(m) /\ m.bounds = b /\ m.clearing = w
  BY DEF IsScene, Left
<1>2. m.sections = s.sections /\ m.pending = s.pending
  BY DEF IsScene, Left
<1> QED
  BY <1>1, <1>2

Unknown(k, dirty) == dirty \ DOMAIN k
Rebound(b, k, dirty) == (b \ dirty) \cup {c \in dirty \cap DOMAIN k : k[c].state = "partial"}

LEMMA SyncColumnsDoes ==
  ASSUME NEW s, IsScene(s), NEW k, NEW dirty, NEW m, m = SyncColumns(s, k, dirty)
  PROVE  /\ IsScene(m) /\ m.sections = Fewer(s.sections, Unknown(k, dirty))
         /\ m.bounds = Rebound(s.bounds, k, dirty)
         /\ m.pending = s.pending /\ m.clearing = s.clearing
<1> DEFINE r == Without(s, Unknown(k, dirty))
           b == Rebound(r.bounds, k, dirty)
<1>1. /\ IsScene(r) /\ r.sections = Fewer(s.sections, Unknown(k, dirty)) /\ r.bounds = s.bounds
      /\ r.pending = s.pending /\ r.clearing = s.clearing
  BY WithoutDoes
<1>2. m = [r EXCEPT !.bounds = b]
  BY DEF SyncColumns, Rebound, Unknown
<1> HIDE DEF r, b
<1>3. /\ IsScene(m) /\ m.sections = r.sections /\ m.bounds = b
      /\ m.pending = r.pending /\ m.clearing = r.clearing
  BY <1>1, <1>2, BoundsDo
<1> QED
  BY <1>1, <1>3 DEF b

Vanished(p, k) == {c \in ToSet(p) : ~Has(k, c)}

LEMMA DropVanishedDoes ==
  ASSUME NEW s, IsScene(s), NEW k, NEW m, m = DropVanished(s, k)
  PROVE  /\ IsScene(m) /\ m.sections = Fewer(s.sections, Vanished(s.pending, k))
         /\ m.bounds = s.bounds /\ m.clearing = s.clearing
         /\ m.pending = Kept(s.pending, WithSections(k))
<1> DEFINE r == Without(s, Vanished(s.pending, k))
           q == Kept(r.pending, WithSections(k))
<1>1. /\ IsScene(r) /\ r.sections = Fewer(s.sections, Vanished(s.pending, k)) /\ r.bounds = s.bounds
      /\ r.pending = s.pending /\ r.clearing = s.clearing
  BY WithoutDoes
<1>2. m = [r EXCEPT !.pending = q]
  BY DEF DropVanished, Vanished
<1> HIDE DEF r, q
<1>3. IsScene(m) /\ m.pending = q
  BY <1>1, <1>2 DEF IsScene
<1>4. m.sections = r.sections /\ m.bounds = r.bounds /\ m.clearing = r.clearing
  BY <1>1, <1>2 DEF IsScene
<1> QED
  BY <1>1, <1>3, <1>4 DEF q

(* Of a mesh that is taken away, nothing is left; the others stay.         *)
LEMMA FewerMeshes ==
  ASSUME NEW a, NEW keys
  PROVE  DOMAIN Fewer(a, keys) = DOMAIN a \ keys /\ \A c \in DOMAIN a \ keys : Fewer(a, keys)[c] = a[c]
  BY DEF Fewer, Restrict

(* A wipe takes away only what the store has no more, and has ended when   *)
(* all of that is gone.                                                    *)
Wiped(s, k, m) ==
  /\ IsScene(m) /\ m.pending = s.pending /\ m.clearing \in BOOLEAN
  /\ DOMAIN m.sections \subseteq DOMAIN s.sections
  /\ \A c \in DOMAIN m.sections : m.sections[c] = s.sections[c]
  /\ \A c \in DOMAIN s.sections : Has(k, c) => c \in DOMAIN m.sections
  /\ m.bounds \subseteq s.bounds /\ s.bounds \cap DOMAIN k \subseteq m.bounds
  /\ m.clearing = FALSE => m.bounds \subseteq DOMAIN k /\ \A c \in DOMAIN m.sections : Has(k, c)

LEMMA WipedBy ==
  ASSUME NEW s, NEW k, NEW m, NEW keys \in SUBSET {c \in DOMAIN s.sections : ~Has(k, c)},
         NEW b, b \subseteq s.bounds, s.bounds \cap DOMAIN k \subseteq b,
         IsScene(m), m.sections = Fewer(s.sections, keys), m.bounds = b, m.pending = s.pending,
         m.clearing \in BOOLEAN,
         m.clearing = FALSE => b \subseteq DOMAIN k /\ keys = {c \in DOMAIN s.sections : ~Has(k, c)}
  PROVE  Wiped(s, k, m)
<1> DEFINE a == s.sections
           f == Fewer(a, keys)
<1>1. DOMAIN f = DOMAIN a \ keys /\ \A c \in DOMAIN a \ keys : f[c] = a[c]
  BY FewerMeshes
<1>2. /\ DOMAIN m.sections = DOMAIN a \ keys
      /\ \A c \in DOMAIN a \ keys : m.sections[c] = a[c]
  BY <1>1
<1> HIDE DEF f
<1> QED
  BY <1>2 DEF Wiped

LEMMA DrainWipes ==
  ASSUME NEW s, IsScene(s), s.clearing = TRUE, NEW k, NEW m \in DrainWorldClear(s, k)
  PROVE  Wiped(s, k, m)
<1> DEFINE meshes == {c \in DOMAIN s.sections : ~Has(k, c)}
           bounds == s.bounds \ DOMAIN k
           total == Cardinality(meshes) + Cardinality(bounds)
           r == Without(s, meshes)
<1>1. m \in IF Cardinality(meshes) >= ClearMax
            THEN {Without(s, gone) : gone \in kSubset(ClearMax, meshes)}
            ELSE IF total >= ClearMax
            THEN {[r EXCEPT !.bounds = @ \ gone] :
                    gone \in kSubset(ClearMax - Cardinality(meshes), bounds)}
            ELSE {[r EXCEPT !.bounds = @ \ bounds, !.clearing = FALSE]}
  BY DEF DrainWorldClear
<1>2. /\ IsScene(r) /\ r.sections = Fewer(s.sections, meshes) /\ r.bounds = s.bounds
      /\ r.pending = s.pending /\ r.clearing = s.clearing
  BY WithoutDoes
<1> HIDE DEF total, r
<1>4. CASE Cardinality(meshes) >= ClearMax
  <2>1. PICK gone \in SUBSET meshes : m = Without(s, gone)
    BY <1>1, <1>4 DEF kSubset
  <2>2. /\ IsScene(m) /\ m.sections = Fewer(s.sections, gone) /\ m.bounds = s.bounds
        /\ m.pending = s.pending /\ m.clearing = TRUE
    BY <2>1, WithoutDoes
  <2> QED
    BY <2>2, WipedBy
<1>5. CASE ~(Cardinality(meshes) >= ClearMax) /\ total >= ClearMax
  <2>1. PICK gone \in SUBSET bounds : m = [r EXCEPT !.bounds = r.bounds \ gone]
    BY <1>1, <1>5 DEF kSubset
  <2> DEFINE b == r.bounds \ gone
  <2>2. /\ b \subseteq s.bounds /\ s.bounds \cap DOMAIN k \subseteq b
    BY <1>2
  <2>3. m = [r EXCEPT !.bounds = b]
    BY <2>1
  <2> HIDE DEF b
  <2>4. /\ IsScene(m) /\ m.sections = r.sections /\ m.bounds = b
        /\ m.pending = r.pending /\ m.clearing = r.clearing
    BY <1>2, <2>3, BoundsDo
  <2> QED
    BY <1>2, <2>2, <2>4, WipedBy
<1>6. CASE ~(Cardinality(meshes) >= ClearMax) /\ ~(total >= ClearMax)
  <2> DEFINE b == r.bounds \ bounds
             w == FALSE
  <2>1. m = Left(r, b, w)
    BY <1>1, <1>6 DEF Left
  <2>2. b \subseteq s.bounds /\ s.bounds \cap DOMAIN k \subseteq b /\ b \subseteq DOMAIN k
    BY <1>2
  <2> HIDE DEF b, w
  <2>3. /\ IsScene(m) /\ m.sections = r.sections /\ m.bounds = b
        /\ m.pending = r.pending /\ m.clearing = w
    BY <1>2, <2>1, LeftDoes
  <2>4. m.clearing = FALSE
    BY <2>3 DEF w
  <2> QED
    BY <1>2, <2>2, <2>3, <2>4, WipedBy
<1> QED
  BY <1>4, <1>5, <1>6

LEMMA FinishWipes ==
  ASSUME NEW s, IsScene(s), NEW k, NEW m, m = FinishClear(s, k)
  PROVE  Wiped(s, k, m) /\ m.clearing = FALSE
<1> DEFINE meshes == {c \in DOMAIN s.sections : ~Has(k, c)}
           r == Without(s, meshes)
           b == r.bounds \cap DOMAIN k
           w == FALSE
<1>1. /\ IsScene(r) /\ r.sections = Fewer(s.sections, meshes) /\ r.bounds = s.bounds
      /\ r.pending = s.pending /\ r.clearing = s.clearing
  BY WithoutDoes
<1>2. m = Left(r, b, w)
  BY DEF FinishClear, Left
<1>3. b \subseteq s.bounds /\ s.bounds \cap DOMAIN k \subseteq b /\ b \subseteq DOMAIN k
  BY <1>1
<1> HIDE DEF r, b, w
<1>4. /\ IsScene(m) /\ m.sections = r.sections /\ m.bounds = b
      /\ m.pending = r.pending /\ m.clearing = w
  BY <1>1, <1>2, LeftDoes
<1>5. m.clearing = FALSE
  BY <1>4 DEF w
<1> QED
  BY <1>1, <1>3, <1>4, <1>5, WipedBy

-----------------------------------------------------------------------------
(* Meshing, and what the scene must have of the columns k.                 *)

Taken(p, n) == {p[i] : i \in 1..n}
Empty(m, k, c) == MeshIsEmpty(MeshOf(m, k, c))
Meshed(s, m, k, n, bad) == {c \in Taken(s.pending, n) \ bad : Has(k, c) /\ ~Empty(m, k, c)}

LEMMA RestOfQueue ==
  ASSUME NEW p, IsQueue(p), NEW n \in 0..Len(p)
  PROVE  /\ IsQueue(SubSeq(p, n + 1, Len(p)))
         /\ \A x \in ToSet(p) : x \in Taken(p, n) \/ x \in ToSet(SubSeq(p, n + 1, Len(p)))
<1> DEFINE q == SubSeq(p, n + 1, Len(p))
<1>1. p \in Seq(ToSet(p)) /\ Len(p) \in Nat /\ DOMAIN p = 1..Len(p)
  BY DEF IsQueue
<1>2. q = [i \in 1..Len(p) - n |-> p[n + i]]
  BY <1>1
<1>3. DOMAIN q = 1..Len(p) - n /\ Len(p) - n \in Nat
  BY <1>1, <1>2
<1>4. \A i \in 1..Len(p) - n : q[i] = p[n + i]
  BY <1>2
<1> HIDE DEF q
<1>5. IsQueue(q)
  <2>1. \A i \in 1..Len(p) - n : q[i] \in ToSet(q)
    BY <1>3 DEF ToSet
  <2>2. q = [i \in 1..Len(p) - n |-> q[i]]
    BY <1>2, <1>4
  <2> QED
    BY <1>3, <2>1, <2>2, IsASeq DEF IsQueue
<1>6. ASSUME NEW x \in ToSet(p), x \notin Taken(p, n) PROVE x \in ToSet(q)
  <2>1. PICK i \in 1..Len(p) : x = p[i]
    BY <1>1 DEF ToSet
  <2>2. ~(i \in 1..n)
    BY <1>6, <2>1 DEF Taken
  <2>3. i - n \in 1..Len(p) - n /\ n + (i - n) = i
    BY <1>1, <2>1, <2>2
  <2>4. q[i - n] = x
    BY <1>4, <2>1, <2>3
  <2> QED
    BY <1>3, <2>3, <2>4 DEF ToSet
<1> QED
  BY <1>5, <1>6 DEF q

LEMMA RemeshDoes ==
  ASSUME NEW s, IsScene(s), NEW m, NEW k, NEW n, NEW bad, NEW r, r = Remesh(s, m, k, n, bad)
  PROVE  /\ IsScene(r) /\ r.bounds = s.bounds /\ r.clearing = s.clearing
         /\ r.pending = SubSeq(s.pending, n + 1, Len(s.pending))
         /\ DOMAIN r.sections = Meshed(s, m, k, n, bad) \cup (DOMAIN s.sections \ Taken(s.pending, n))
         /\ \A c \in DOMAIN r.sections :
              r.sections[c] = IF c \in Meshed(s, m, k, n, bad) THEN MeshOf(m, k, c) ELSE s.sections[c]
<1> DEFINE d == Meshed(s, m, k, n, bad)
           keys == Taken(s.pending, n)
           a == [c \in d \cup (DOMAIN s.sections \ keys) |->
                   IF c \in d THEN MeshOf(m, k, c) ELSE s.sections[c]]
           p == SubSeq(s.pending, n + 1, Len(s.pending))
<1>1. r = [s EXCEPT !.sections = a, !.pending = p]
  BY DEF Remesh, Meshed, Taken, Empty
<1>2. DOMAIN a = d \cup (DOMAIN s.sections \ keys)
  OBVIOUS
<1>3. \A c \in DOMAIN a : a[c] = IF c \in d THEN MeshOf(m, k, c) ELSE s.sections[c]
  OBVIOUS
<1> HIDE DEF a, p, d, keys
<1>4. IsScene(r) /\ r.sections = a /\ r.pending = p
  BY <1>1 DEF IsScene
<1>5. r.bounds = s.bounds /\ r.clearing = s.clearing
  BY <1>1 DEF IsScene
<1>6. DOMAIN r.sections = d \cup (DOMAIN s.sections \ keys)
  BY <1>2, <1>4
<1>7. \A c \in DOMAIN r.sections : r.sections[c] = IF c \in d THEN MeshOf(m, k, c) ELSE s.sections[c]
  BY <1>3, <1>4
<1> QED
  BY <1>4, <1>5, <1>6, <1>7 DEF d, p, keys

(* What a mesher sees across the borders of c, in a film or not.           *)
Across(film, m, k, c) ==
  IF Rim(k[c].section) = "open" THEN <<>>
  ELSE [n \in Neighbours(c) |->
          IF m = "placeholder"
          THEN IF Has(k, n) /\ k[n].state # "requested" THEN Rim(k[n].section) ELSE "open"
          ELSE IF Has(k, n) THEN Rim(k[n].section)
               ELSE IF film /\ ~(n \in DOMAIN k /\ k[n].state = "complete")
                    THEN "unloaded" ELSE "open"]

LEMMA MeshShows ==
  ASSUME NEW m, NEW k, NEW c
  PROVE  /\ MeshOf(m, k, c).mesher = m /\ MeshOf(m, k, c).section = k[c].section
         /\ MeshOf(m, k, c).across = Across(filmMode, m, k, c)
         /\ k[c].section = "air" => Empty(m, k, c)
<1>1. MeshOf(m, k, c).mesher = m
  BY DEF MeshOf
<1>2. MeshOf(m, k, c).section = k[c].section
  BY DEF MeshOf
<1>3. MeshOf(m, k, c).across = Across(filmMode, m, k, c)
  BY DEF MeshOf, Across, Probe
<1>4. k[c].section = "air" => Empty(m, k, c)
  BY <1>2 DEF Empty, MeshIsEmpty
<1> QED
  BY <1>1, <1>2, <1>3, <1>4

(* Drawn as the columns k have it, by a mesher of g; but for what is       *)
(* excused in o and left blank in b.                                       *)
Mesh(film, mesh, k, g, o, c) ==
  /\ mesh.mesher \in g /\ mesh.section = k[c].section
  /\ c \in o \/ mesh.across = Across(film, mesh.mesher, k, c)
AsStored(film, a, k, g, o, b, c) ==
  IF c \in DOMAIN a THEN Mesh(film, a[c], k, g, o, c) ELSE k[c].section = "air" \/ c \in b

Scenic(s) ==
  /\ IsScene(s) /\ IsQueue(s.pending) /\ DOMAIN s.sections \subseteq Column /\ s.clearing \in BOOLEAN

Bounded(s, k, d) == \A c \in DOMAIN k \ d : c \in s.bounds <=> k[c].state = "partial"

(* The scene s shows k, but for columns of d and sections of q.            *)
Shows(film, s, k, d, q, g, o, b) ==
  /\ Scenic(s)
  /\ \A c \in WithSections(k) :
       c \in ToSet(s.pending) \/ c \in q \/ AsStored(film, s.sections, k, g, o, b, c)
  /\ Bounded(s, k, d)
  /\ s.clearing = FALSE => /\ s.bounds \subseteq DOMAIN k \cup d
                           /\ \A c \in DOMAIN s.sections : Has(k, c) \/ c \in d \ DOMAIN k \/ c \in q

LEMMA HasIsWith == ASSUME NEW k, NEW c PROVE Has(k, c) <=> c \in WithSections(k)
  BY DEF Has, WithSections

LEMMA WipeKeeps ==
  ASSUME NEW s, NEW k, NEW d, NEW q, NEW g, NEW o, NEW b, Shows(filmMode, s, k, d, q, g, o, b),
         NEW m, Wiped(s, k, m)
  PROVE  Shows(filmMode, m, k, d, q, g, o, b)
<1>1. Scenic(m)
  BY DEF Shows, Scenic, Wiped
<1>2. ASSUME NEW c \in WithSections(k)
      PROVE  c \in ToSet(m.pending) \/ c \in q \/ AsStored(filmMode, m.sections, k, g, o, b, c)
  <2>1. c \in DOMAIN s.sections <=> c \in DOMAIN m.sections
    BY HasIsWith DEF Wiped
  <2>2. c \in DOMAIN m.sections => m.sections[c] = s.sections[c]
    BY DEF Wiped
  <2>3. m.pending = s.pending
    BY DEF Wiped
  <2>4. AsStored(filmMode, s.sections, k, g, o, b, c) => AsStored(filmMode, m.sections, k, g, o, b, c)
    BY <2>1, <2>2 DEF AsStored
  <2> QED
    BY <2>3, <2>4 DEF Shows
<1>3. Bounded(m, k, d)
  BY DEF Shows, Wiped, Bounded
<1>4. m.clearing = FALSE => /\ m.bounds \subseteq DOMAIN k \cup d
                            /\ \A c \in DOMAIN m.sections : Has(k, c) \/ c \in d \ DOMAIN k \/ c \in q
  BY DEF Wiped
<1> QED
  BY <1>1, <1>2, <1>3, <1>4 DEF Shows

(* What is dirty goes to the scene, and what has vanished leaves it.       *)
LEMMA DirtyKeeps ==
  ASSUME NEW s, NEW k, DOMAIN k \subseteq Column, NEW d, NEW ds, ds \in Seq(Column),
         NEW g, NEW o, NEW b, Shows(filmMode, s, k, d, ToSet(ds), g, o, b),
         NEW m, m = DropVanished(Enqueue(SyncColumns(s, k, d), ds), k)
  PROVE  Shows(filmMode, m, k, {}, {}, g, o, b)
<1> DEFINE s2 == SyncColumns(s, k, d)
           s3 == Enqueue(s2, ds)
           w == WithSections(k)
           new == Kept(ds, Column \ ToSet(s.pending))
           p == s.pending \o new
           gone == Vanished(p, k)
<1>0. IsScene(s) /\ IsQueue(s.pending) /\ DOMAIN s.sections \subseteq Column /\ s.clearing \in BOOLEAN
  BY DEF Shows, Scenic
<1>1. /\ IsScene(s2) /\ s2.sections = Fewer(s.sections, Unknown(k, d))
      /\ s2.bounds = Rebound(s.bounds, k, d)
      /\ s2.pending = s.pending /\ s2.clearing = s.clearing
  BY <1>0, SyncColumnsDoes
<1> HIDE DEF s2
<1>2. /\ IsScene(s3) /\ s3.sections = s2.sections /\ s3.bounds = s2.bounds /\ s3.clearing = s2.clearing
      /\ s3.pending = s2.pending \o Kept(ds, Column \ ToSet(s2.pending))
  BY <1>1, EnqueueDoes
<1>3. s3.pending = p
  BY <1>1, <1>2
<1> HIDE DEF s3
<1>4. /\ IsScene(m) /\ m.sections = Fewer(s3.sections, Vanished(s3.pending, k))
      /\ m.bounds = s3.bounds /\ m.clearing = s3.clearing
      /\ m.pending = Kept(s3.pending, w)
  <2>1. m = DropVanished(s3, k)
    BY DEF s3, s2
  <2> QED
    BY <1>2, <2>1, DropVanishedDoes
<1>5. /\ IsScene(m) /\ m.clearing = s.clearing
      /\ m.pending = Kept(p, w)
      /\ m.bounds = Rebound(s.bounds, k, d)
  BY <1>1, <1>2, <1>3, <1>4
<1>6. m.sections = Fewer(Fewer(s.sections, Unknown(k, d)), gone)
  BY <1>1, <1>2, <1>3, <1>4
<1>7. /\ DOMAIN m.sections = DOMAIN s.sections \ (Unknown(k, d) \cup gone)
      /\ \A c \in DOMAIN m.sections : m.sections[c] = s.sections[c]
  <2> DEFINE f == Fewer(s.sections, Unknown(k, d))
  <2>1. /\ DOMAIN f = DOMAIN s.sections \ Unknown(k, d)
        /\ \A c \in DOMAIN s.sections \ Unknown(k, d) : f[c] = s.sections[c]
    BY FewerMeshes
  <2> HIDE DEF f
  <2>2. DOMAIN Fewer(f, gone) = DOMAIN f \ gone /\ \A c \in DOMAIN f \ gone : Fewer(f, gone)[c] = f[c]
    BY FewerMeshes
  <2>3. m.sections = Fewer(f, gone)
    BY <1>6 DEF f
  <2> HIDE DEF gone
  <2> QED
    BY <2>1, <2>2, <2>3
<1>8. IsQueue(p) /\ ToSet(p) = ToSet(s.pending) \cup ToSet(new)
      /\ \A x \in ToSet(ds) : x \in ToSet(s.pending) \/ x \in ToSet(new)
  <2>1. IsQueue(new) /\ \A i \in DOMAIN ds : ds[i] \in Column \ ToSet(s.pending) => ds[i] \in ToSet(new)
    BY KeptKeeps
  <2>2. \A i \in DOMAIN ds : ds[i] \in Column
    OBVIOUS
  <2>3. \A x \in ToSet(ds) : x \in ToSet(s.pending) \/ x \in ToSet(new)
    BY <2>1, <2>2 DEF ToSet
  <2> HIDE DEF new
  <2> QED
    BY <1>0, <2>1, <2>3, JoinedQueues
<1>9. IsQueue(m.pending) /\ \A c \in ToSet(p) : c \in w => c \in ToSet(m.pending)
  <2>1. p \in Seq(ToSet(p))
    BY <1>8 DEF IsQueue
  <2> HIDE DEF p
  <2>2. IsQueue(Kept(p, w)) /\ \A i \in DOMAIN p : p[i] \in w => p[i] \in ToSet(Kept(p, w))
    BY <2>1, KeptKeeps
  <2> QED
    BY <1>5, <2>2 DEF ToSet
<1> HIDE DEF p, new, gone
<1>10. Scenic(m)
  BY <1>0, <1>5, <1>7, <1>9 DEF Scenic
<1>11. ASSUME NEW c \in w PROVE c \in ToSet(m.pending) \/ AsStored(filmMode, m.sections, k, g, o, b, c)
  <2>1. c \in ToSet(s.pending) \/ c \in ToSet(ds) => c \in ToSet(m.pending)
    BY <1>8, <1>9, <1>11
  <2>2. CASE AsStored(filmMode, s.sections, k, g, o, b, c)
    <3>1. c \in DOMAIN k /\ Has(k, c)
      BY <1>11 DEF Has, WithSections
    <3>2. c \in DOMAIN s.sections <=> c \in DOMAIN m.sections
      BY <1>7, <3>1 DEF gone, Vanished, Unknown
    <3>3. c \in DOMAIN m.sections => m.sections[c] = s.sections[c]
      BY <1>7
    <3> QED
      BY <2>2, <3>2, <3>3 DEF AsStored
  <2> QED
    BY <2>1, <2>2, <1>11 DEF Shows
<1>12. Bounded(m, k, {})
  <2> SUFFICES ASSUME NEW c \in DOMAIN k PROVE c \in m.bounds <=> k[c].state = "partial"
    BY DEF Bounded
  <2>1. CASE c \in d
    BY <1>5, <2>1 DEF Rebound
  <2>2. CASE c \notin d
    <3>1. c \in s.bounds <=> k[c].state = "partial"
      BY <2>2 DEF Shows, Bounded
    <3> QED
      BY <1>5, <2>2, <3>1 DEF Rebound
  <2> QED
    BY <2>1, <2>2
<1>13. ASSUME m.clearing = FALSE
       PROVE  m.bounds \subseteq DOMAIN k /\ \A c \in DOMAIN m.sections : Has(k, c)
  <2>1. s.clearing = FALSE
    BY <1>5, <1>13
  <2>2. /\ s.bounds \subseteq DOMAIN k \cup d
        /\ \A c \in DOMAIN s.sections : Has(k, c) \/ c \in d \ DOMAIN k \/ c \in ToSet(ds)
    BY <2>1 DEF Shows
  <2>3. m.bounds \subseteq DOMAIN k
    BY <1>5, <2>2 DEF Rebound
  <2>4. ASSUME NEW c \in DOMAIN m.sections PROVE Has(k, c)
    <3>1. c \in DOMAIN s.sections /\ c \notin d \ DOMAIN k /\ c \notin gone
      BY <1>7, <2>4 DEF Unknown
    <3>2. c \in ToSet(ds) => c \in ToSet(p)
      BY <1>8
    <3> QED
      BY <2>2, <3>1, <3>2 DEF gone, Vanished
  <2> QED
    BY <2>3, <2>4
<1> QED
  BY <1>10, <1>11, <1>12, <1>13 DEF Shows

(* The first n of the queue are meshed.                                    *)
LEMMA MeshKeeps ==
  ASSUME NEW s, NEW k, DOMAIN k \subseteq Column, NEW g, NEW silent,
         Shows(filmMode, s, k, {}, {}, g, owed \cup silent, blank), mesher \in g,
         NEW n \in 0..Len(s.pending), MeshAndSet(s, mesher, k, n, silent)
  PROVE  \E r : /\ SetScene(r) /\ Shows(filmMode, r, k, {}, {}, g, owed', blank')
<1> DEFINE keys == Taken(s.pending, n)
<1>1. PICK bad \in SUBSET {c \in keys : Has(k, c)} :
        /\ SetScene(Remesh(s, mesher, k, n, bad))
        /\ blank' = (blank \ keys) \cup bad
                      \cup {c \in keys : Has(k, c) /\ k[c].section # "air" /\ Empty(mesher, k, c)}
        /\ owed' = (owed \cup silent) \ keys
  BY DEF MeshAndSet, Taken, Empty
<1> DEFINE r == Remesh(s, mesher, k, n, bad)
           d == Meshed(s, mesher, k, n, bad)
<1>0. IsScene(s) /\ IsQueue(s.pending) /\ DOMAIN s.sections \subseteq Column /\ s.clearing \in BOOLEAN
  BY DEF Shows, Scenic
<1>2. /\ IsScene(r) /\ r.bounds = s.bounds /\ r.clearing = s.clearing
      /\ r.pending = SubSeq(s.pending, n + 1, Len(s.pending))
      /\ DOMAIN r.sections = d \cup (DOMAIN s.sections \ keys)
      /\ \A c \in DOMAIN r.sections :
           r.sections[c] = IF c \in d THEN MeshOf(mesher, k, c) ELSE s.sections[c]
  BY <1>0, RemeshDoes
<1> HIDE DEF r
<1>3. IsQueue(r.pending) /\ \A x \in ToSet(s.pending) : x \in keys \/ x \in ToSet(r.pending)
  BY <1>0, <1>2, RestOfQueue
<1>4. \A c \in d : c \in keys /\ c \notin bad /\ Has(k, c) /\ ~Empty(mesher, k, c)
  BY DEF Meshed
<1>5. \A c \in keys \ bad : Has(k, c) /\ ~Empty(mesher, k, c) => c \in d
  BY DEF Meshed
<1> HIDE DEF keys, d
<1>6. Scenic(r)
  <2>1. d \subseteq Column
    BY <1>4 DEF Has
  <2> QED
    BY <1>0, <1>2, <1>3, <2>1 DEF Scenic
<1>7. ASSUME NEW c \in WithSections(k)
      PROVE  c \in ToSet(r.pending) \/ AsStored(filmMode, r.sections, k, g, owed', blank', c)
  <2>0. Has(k, c)
    BY HasIsWith, <1>7
  <2>1. CASE c \in d
    <3>1. c \in DOMAIN r.sections /\ r.sections[c] = MeshOf(mesher, k, c)
      BY <1>2, <2>1
    <3>2. Mesh(filmMode, MeshOf(mesher, k, c), k, g, owed', c)
      BY MeshShows DEF Mesh
    <3> QED
      BY <3>1, <3>2 DEF AsStored
  <2>2. CASE c \notin d /\ c \in keys
    <3>1. c \notin DOMAIN r.sections
      BY <1>2, <2>2
    <3>2. c \in bad \/ Empty(mesher, k, c)
      BY <1>5, <2>0, <2>2
    <3>3. k[c].section = "air" \/ c \in blank'
      BY <1>1, <2>0, <2>2, <3>2
    <3> QED
      BY <3>1, <3>3 DEF AsStored
  <2>3. CASE c \notin d /\ c \notin keys /\ c \notin ToSet(s.pending)
    <3>1. AsStored(filmMode, s.sections, k, g, owed \cup silent, blank, c)
      BY <2>3, <1>7 DEF Shows
    <3>2. (c \in DOMAIN r.sections <=> c \in DOMAIN s.sections)
          /\ (c \in DOMAIN r.sections => r.sections[c] = s.sections[c])
      BY <1>2, <2>3
    <3>3. (c \in owed \cup silent => c \in owed') /\ (c \in blank => c \in blank')
      BY <1>1, <2>3
    <3> QED
      BY <3>1, <3>2, <3>3 DEF AsStored, Mesh
  <2> QED
    BY <1>3, <2>1, <2>2, <2>3
<1>8. Bounded(r, k, {})
  BY <1>2 DEF Shows, Bounded
<1>9. ASSUME r.clearing = FALSE
      PROVE  r.bounds \subseteq DOMAIN k /\ \A c \in DOMAIN r.sections : Has(k, c)
  <2>1. s.clearing = FALSE
    BY <1>2, <1>9
  <2>2. s.bounds \subseteq DOMAIN k /\ \A c \in DOMAIN s.sections : Has(k, c)
    BY <2>1 DEF Shows
  <2> QED
    BY <1>2, <1>4, <2>2
<1> QED
  BY <1>1, <1>6, <1>7, <1>8, <1>9 DEF Shows, r

LEMMA BudgetFits ==
  ASSUME NEW s, Scenic(s), NEW n \in Budget(s)
  PROVE  n \in 0..Len(s.pending)
<1> DEFINE l == Len(s.pending)
<1>1. l \in Nat
  BY DEF Scenic, IsQueue
<1>2. RemeshMax \in Nat
  BY TerrainAssumption
<1> HIDE DEF l
<1>3. Min({RemeshMax, l}) \in {RemeshMax, l} /\ Min({RemeshMax, l}) <= l
  <2>1. \E x \in {RemeshMax, l} : \A y \in {RemeshMax, l} : x <= y
    BY <1>1, <1>2
  <2> QED
    BY <2>1 DEF Min
<1>4. Min({RemeshMax, l}) \in Nat /\ Min({RemeshMax, l}) <= l
  BY <1>1, <1>2, <1>3
<1>5. n \in {0} \/ n \in 1..Min({RemeshMax, l})
  BY DEF Budget, l
<1> QED
  BY <1>1, <1>4, <1>5 DEF l

-----------------------------------------------------------------------------
(* The invariant of the terrain, and what keeps it.                        *)

Meshers(m, late) == {m} \cup (IF late \in {"applying", "failed"} THEN {"vanilla"} ELSE {})

StoredColumns(k) == k \in [DOMAIN k -> StoredColumn] /\ DOMAIN k \subseteq Column

TerrainInv ==
  /\ StoredColumns(columns)
  /\ Shows(filmMode, Scene, columns, {}, {}, Meshers(mesher, lateRegistries), owed, blank)
  /\ registriesBuilt => registries
  /\ lateRegistries = "watching" => mesher = "vanilla"

LEMMA SceneAfter ==
  ASSUME NEW r, SetScene(r), NEW f, NEW k, NEW g, NEW o, NEW b, Shows(f, r, k, {}, {}, g, o, b)
  PROVE  Shows(f, Scene', k, {}, {}, g, o, b)
<1> DEFINE s == Scene'
<1>1. /\ IsScene(s) /\ s.sections = r.sections /\ s.bounds = r.bounds
      /\ s.pending = r.pending /\ s.clearing = r.clearing
  BY DEF SetScene, Scene, IsScene
<1> HIDE DEF s
<1>2. Scenic(s)
  BY <1>1 DEF Shows, Scenic
<1>3. \A c \in WithSections(k) : c \in ToSet(s.pending) \/ AsStored(f, s.sections, k, g, o, b, c)
  BY <1>1 DEF Shows
<1>4. Bounded(s, k, {})
  BY <1>1 DEF Shows, Bounded
<1>5. s.clearing = FALSE => s.bounds \subseteq DOMAIN k /\ \A c \in DOMAIN s.sections : Has(k, c)
  BY <1>1 DEF Shows
<1>6. Shows(f, s, k, {}, {}, g, o, b)
  BY <1>2, <1>3, <1>4, <1>5 DEF Shows
<1> QED
  BY <1>6 DEF s

LEMMA MoreMeshers ==
  ASSUME NEW f, NEW s, NEW k, NEW d, NEW q, NEW g, NEW h, NEW o, NEW b,
         Shows(f, s, k, d, q, g, o, b), g \subseteq h
  PROVE  Shows(f, s, k, d, q, h, o, b)
<1>1. \A c : AsStored(f, s.sections, k, g, o, b, c) => AsStored(f, s.sections, k, h, o, b, c)
  BY DEF AsStored, Mesh
<1> QED
  BY <1>1 DEF Shows

(* A wipe that is under way goes on, or there is none.                     *)
LEMMA WipeGoesOn ==
  ASSUME NEW s, NEW k, NEW d, NEW q, NEW g, NEW o, NEW b, Shows(filmMode, s, k, d, q, g, o, b),
         NEW m \in IF s.clearing THEN DrainWorldClear(s, k) ELSE {s}
  PROVE  Shows(filmMode, m, k, d, q, g, o, b)
<1>1. IsScene(s) /\ s.clearing \in BOOLEAN
  BY DEF Shows, Scenic
<1>2. CASE s.clearing = TRUE
  <2>1. m \in DrainWorldClear(s, k)
    BY <1>2
  <2> QED
    BY <1>1, <1>2, <2>1, DrainWipes, WipeKeeps
<1>3. CASE s.clearing = FALSE
  BY <1>3
<1> QED
  BY <1>1, <1>2, <1>3

Begun(reset) == IF reset THEN OnReset(Scene) ELSE Scene

(* sync takes the scene to the columns k of the store.                     *)
LEMMA SyncKeeps ==
  ASSUME NEW k, DOMAIN k \subseteq Column, NEW reset, NEW d, NEW ds \in Seq(Column), NEW silent, NEW g,
         mesher \in g, Sync(k, reset, d, ds, silent),
         Shows(filmMode, Begun(reset), k, d, ToSet(ds), g, owed \cup silent, blank)
  PROVE  Shows(filmMode, Scene', k, {}, {}, g, owed', blank')
<1> DEFINE s == Begun(reset)
<1>1. PICK m \in IF s.clearing THEN DrainWorldClear(s, k) ELSE {s} :
        \E n \in Budget(DropVanished(Enqueue(SyncColumns(m, k, d), ds), k)) :
          MeshAndSet(DropVanished(Enqueue(SyncColumns(m, k, d), ds), k), mesher, k, n, silent)
  BY DEF Sync, Begun
<1> DEFINE r == DropVanished(Enqueue(SyncColumns(m, k, d), ds), k)
<1>2. Shows(filmMode, m, k, d, ToSet(ds), g, owed \cup silent, blank)
  BY <1>1, WipeGoesOn
<1>3. Shows(filmMode, r, k, {}, {}, g, owed \cup silent, blank)
  BY <1>2, DirtyKeeps
<1>4. PICK n \in Budget(r) : MeshAndSet(r, mesher, k, n, silent)
  BY <1>1
<1> HIDE DEF r
<1>5. n \in 0..Len(r.pending)
  <2>1. Scenic(r)
    BY <1>3 DEF Shows
  <2> QED
    BY <1>4, <2>1, BudgetFits
<1>6. PICK t : SetScene(t) /\ Shows(filmMode, t, k, {}, {}, g, owed', blank')
  BY <1>3, <1>4, <1>5, MeshKeeps
<1> QED
  BY <1>6, SceneAfter

LEMMA FrameKeeps ==
  ASSUME TerrainInv, NEW k, StoredColumns(k), NEW reset, NEW d, NEW ds \in Seq(Column), NEW silent,
         Apply(k, reset, d, ds, silent), registries => registries',
         Shows(filmMode, Begun(reset), k, d, ToSet(ds), Meshers(mesher, lateRegistries), owed \cup silent, blank)
  PROVE  TerrainInv'
<1> DEFINE g == Meshers(mesher, lateRegistries)
           h == Meshers(mesher', lateRegistries')
<1>1. /\ columns' = k /\ filmMode' = filmMode /\ registriesBuilt' = registriesBuilt
      /\ Sync(k, reset, d, ds, silent)
  BY DEF Apply
<1>2. \/ lateRegistries = "watching" /\ lateRegistries' = "applying" /\ mesher' = "mixed"
      \/ lateRegistries' = lateRegistries /\ mesher' = mesher
  BY DEF Apply
<1>3. Shows(filmMode, Scene', k, {}, {}, g, owed', blank')
  <2>1. mesher \in g /\ DOMAIN k \subseteq Column
    BY DEF Meshers, StoredColumns
  <2> HIDE DEF g
  <2>2. Shows(filmMode, Begun(reset), k, d, ToSet(ds), g, owed \cup silent, blank)
    BY DEF g
  <2> QED
    BY <1>1, <2>1, <2>2, SyncKeeps
<1>4. g \subseteq h
  BY <1>2 DEF Meshers, TerrainInv
<1> HIDE DEF g, h
<1>5. Shows(filmMode, Scene', k, {}, {}, h, owed', blank')
  BY <1>3, <1>4, MoreMeshers
<1>6. registriesBuilt' => registries'
  BY <1>1 DEF TerrainInv
<1>7. lateRegistries' = "watching" => mesher' = "vanilla"
  BY <1>2 DEF TerrainInv
<1> QED
  BY <1>1, <1>5, <1>6, <1>7 DEF TerrainInv, h

(* Borders.                                                                *)
LEMMA NeighbourOf ==
  ASSUME NEW c, NEW n
  PROVE  /\ n \in Neighbours(c) <=> n # c /\ \E pair \in Adjacent : c \in pair /\ n \in pair
         /\ n \in Neighbours(c) => n \in Column /\ c \in Neighbours(n)
<1>1. \A x, y : y \in Neighbours(x) <=> y # x /\ \E pair \in Adjacent : x \in pair /\ y \in pair
  <2> SUFFICES ASSUME NEW x, NEW y
               PROVE  y \in Neighbours(x) <=> y # x /\ \E pair \in Adjacent : x \in pair /\ y \in pair
    OBVIOUS
  <2> DEFINE S == {pair \in Adjacent : x \in pair}
  <2>1. y \in UNION S <=> \E pair \in S : y \in pair
    OBVIOUS
  <2>2. Neighbours(x) = (UNION S) \ {x}
    BY Zenon DEF Neighbours
  <2> QED
    BY <2>1, <2>2
<1>2. \A pair \in Adjacent : pair \subseteq Column
  BY TerrainAssumption
<1> QED
  BY <1>1, <1>2

(* What a mesher sees of c from across its borders.                        *)
SeenAlike(k, l, c) ==
  /\ c \in DOMAIN k <=> c \in DOMAIN l
  /\ Has(k, c) <=> Has(l, c)
  /\ c \in DOMAIN k => k[c].state = l[c].state
  /\ Has(k, c) => Rim(k[c].section) = Rim(l[c].section)

LEMMA SameAcross ==
  ASSUME NEW film, NEW m, NEW k, NEW l, NEW c, k[c].section = l[c].section,
         \A n \in Neighbours(c) : SeenAlike(k, l, n)
  PROVE  Across(film, m, k, c) = Across(film, m, l, c)
<1> DEFINE probe(j, n) ==
             IF m = "placeholder"
             THEN IF Has(j, n) /\ j[n].state # "requested" THEN Rim(j[n].section) ELSE "open"
             ELSE IF Has(j, n) THEN Rim(j[n].section)
                  ELSE IF film /\ ~(n \in DOMAIN j /\ j[n].state = "complete")
                       THEN "unloaded" ELSE "open"
<1>1. \A n \in Neighbours(c) : probe(k, n) = probe(l, n)
  <2> SUFFICES ASSUME NEW n \in Neighbours(c) PROVE probe(k, n) = probe(l, n)
    OBVIOUS
  <2>1. SeenAlike(k, l, n)
    OBVIOUS
  <2>2. Has(k, n) => n \in DOMAIN k
    BY DEF Has
  <2> QED
    BY <2>1, <2>2 DEF SeenAlike
<1>2. [n \in Neighbours(c) |-> probe(k, n)] = [n \in Neighbours(c) |-> probe(l, n)]
  BY <1>1
<1> QED
  BY <1>2 DEF Across

(* Columns that are as they were but for c.                                *)
SameBut(k, l, c) ==
  /\ DOMAIN k \ {c} = DOMAIN l \ {c}
  /\ \A x \in DOMAIN k \ {c} : k[x] = l[x]

LEMMA SameAway ==
  ASSUME NEW k, NEW l, NEW c, SameBut(k, l, c), NEW x, x # c
  PROVE  SeenAlike(k, l, x) /\ (Has(k, x) <=> Has(l, x)) /\ (x \in DOMAIN k => k[x] = l[x])
  BY DEF SameBut, SeenAlike, Has

(* One column changes, and its neighbours are marked, or excused, unless   *)
(* they see no difference.                                                 *)
LEMMA ColumnChanges ==
  ASSUME TerrainInv, NEW c \in Column, NEW k, StoredColumns(k), SameBut(k, columns, c),
         NEW d \in SUBSET {c}, NEW q, NEW silent,
         Has(k, c) => c \in q \/ (Has(columns, c) /\ k[c].section = columns[c].section),
         \A n \in Neighbours(c) : Has(k, n) => n \in q \/ n \in silent \/ SeenAlike(k, columns, c),
         c \in d \/ (c \in DOMAIN k /\ c \in DOMAIN columns /\ k[c].state = columns[c].state),
         Has(columns, c) => Has(k, c) \/ c \in q \/ c \in d \ DOMAIN k
  PROVE  Shows(filmMode, Scene, k, d, q, Meshers(mesher, lateRegistries), owed \cup silent, blank)
<1> DEFINE g == Meshers(mesher, lateRegistries)
           s == Scene
<1>1. Shows(filmMode, s, columns, {}, {}, g, owed, blank)
  BY DEF TerrainInv
<1> HIDE DEF g, s
<1>2. ASSUME NEW x \in WithSections(k)
      PROVE  x \in ToSet(s.pending) \/ x \in q \/ AsStored(filmMode, s.sections, k, g, owed \cup silent, blank, x)
  <2>1. Has(k, x)
    BY HasIsWith
  <2>2. CASE x \notin q
    <3>1. Has(columns, x) /\ k[x].section = columns[x].section
      <4>1. CASE x = c
        BY <2>1, <2>2, <4>1
      <4>2. CASE x # c
        BY <2>1, <4>2, SameAway DEF Has
      <4> QED
        BY <4>1, <4>2
    <3>2. x \in ToSet(s.pending) \/ AsStored(filmMode, s.sections, columns, g, owed, blank, x)
      BY <1>1, <3>1, HasIsWith DEF Shows
    <3>3. x \in silent \/ \A m : Across(filmMode, m, k, x) = Across(filmMode, m, columns, x)
      <4>1. CASE \A n \in Neighbours(x) : SeenAlike(k, columns, n)
        BY <3>1, <4>1, SameAcross
      <4>2. CASE \E n \in Neighbours(x) : ~SeenAlike(k, columns, n)
        <5>1. PICK n \in Neighbours(x) : ~SeenAlike(k, columns, n)
          BY <4>2
        <5>2. n = c
          BY <5>1, SameAway
        <5>3. x \in Neighbours(c)
          BY <5>1, <5>2, NeighbourOf
        <5> QED
          BY <2>1, <2>2, <5>1, <5>2, <5>3
      <4> QED
        BY <4>1, <4>2
    <3>4. AsStored(filmMode, s.sections, columns, g, owed, blank, x)
            => AsStored(filmMode, s.sections, k, g, owed \cup silent, blank, x)
      BY <3>1, <3>3 DEF AsStored, Mesh
    <3> QED
      BY <3>2, <3>4
  <2> QED
    BY <2>2
<1>3. Bounded(s, k, d)
  <2> SUFFICES ASSUME NEW x \in DOMAIN k \ d PROVE x \in s.bounds <=> k[x].state = "partial"
    BY DEF Bounded
  <2>1. x \in DOMAIN columns /\ k[x].state = columns[x].state
    <3>1. CASE x = c
      BY <3>1
    <3>2. CASE x # c
      BY <3>2, SameAway DEF SeenAlike
    <3> QED
      BY <3>1, <3>2
  <2>2. x \in s.bounds <=> columns[x].state = "partial"
    BY <1>1, <2>1 DEF Shows, Bounded
  <2> QED
    BY <2>1, <2>2
<1>4. ASSUME s.clearing = FALSE
      PROVE  /\ s.bounds \subseteq DOMAIN k \cup d
             /\ \A x \in DOMAIN s.sections : Has(k, x) \/ x \in d \ DOMAIN k \/ x \in q
  <2>1. s.bounds \subseteq DOMAIN columns /\ \A x \in DOMAIN s.sections : Has(columns, x)
    BY <1>1, <1>4 DEF Shows
  <2>2. ASSUME NEW x \in DOMAIN columns PROVE x \in DOMAIN k \cup d
    BY DEF SameBut
  <2>3. ASSUME NEW x, Has(columns, x) PROVE Has(k, x) \/ x \in d \ DOMAIN k \/ x \in q
    <3>1. CASE x = c
      BY <2>3, <3>1
    <3>2. CASE x # c
      BY <2>3, <3>2, SameAway
    <3> QED
      BY <3>1, <3>2
  <2> QED
    BY <2>1, <2>2, <2>3
<1>5. Scenic(s)
  BY <1>1 DEF Shows
<1>6. Shows(filmMode, s, k, d, q, g, owed \cup silent, blank)
  BY <1>2, <1>3, <1>4, <1>5 DEF Shows
<1> QED
  BY <1>6 DEF s, g

(* The world starts again, all of it marked.                               *)
LEMMA WorldChanges ==
  ASSUME TerrainInv, NEW k, NEW q, WithSections(k) \subseteq q, NEW d, DOMAIN k \subseteq d,
         NEW g, NEW o, NEW b
  PROVE  Shows(filmMode, OnReset(Scene), k, d, q, g, o, b)
<1> DEFINE s == Scene
           m == OnReset(s)
<1>1. IsScene(s) /\ DOMAIN s.sections \subseteq Column
  BY DEF TerrainInv, Shows, Scenic
<1> HIDE DEF s
<1>2. IsScene(m) /\ m.sections = s.sections /\ m.pending = <<>> /\ m.clearing = TRUE
  <2>1. IsScene(m) /\ m.pending = <<>> /\ m.clearing = TRUE
    BY <1>1 DEF OnReset, IsScene
  <2>2. m.sections = s.sections
    BY <1>1 DEF OnReset, IsScene
  <2> QED
    BY <2>1, <2>2
<1> HIDE DEF m
<1>3. Scenic(m)
  <2>1. IsQueue(m.pending)
    BY <1>2 DEF IsQueue
  <2>2. m.clearing \in BOOLEAN
    BY <1>2
  <2> QED
    BY <1>1, <1>2, <2>1, <2>2 DEF Scenic
<1>4. Bounded(m, k, d)
  BY DEF Bounded
<1>5. Shows(filmMode, m, k, d, q, g, o, b)
  BY <1>2, <1>3, <1>4 DEF Shows
<1> QED
  BY <1>5 DEF m, s

(* The marks of a frame.                                                   *)
LEMMA Marks ==
  ASSUME NEW S \in SUBSET Column
  PROVE  /\ SetToSeq(S) \in Seq(Column) /\ ToSet(SetToSeq(S)) = S
         /\ \A c \in Column : /\ <<c>> \o SetToSeq(S) \in Seq(Column)
                              /\ ToSet(<<c>> \o SetToSeq(S)) = {c} \cup S
<1>1. IsFiniteSet(S)
  BY TerrainAssumption, FS_Subset
<1> DEFINE q == SetToSeq(S)
<1>2. ToSet(q) = S /\ IsQueue(q)
  BY <1>1, ListingHasAll
<1> HIDE DEF q
<1>3. q \in Seq(Column)
  BY <1>2, SeqMonotonic DEF IsQueue
<1>4. ASSUME NEW c \in Column
      PROVE <<c>> \o q \in Seq(Column) /\ ToSet(<<c>> \o q) = {c} \cup S
  <2>1. ToSet(<<c>>) = {c} /\ <<c>> \in Seq(Column)
    BY DEF ToSet
  <2>2. <<c>> \in Seq({c})
    OBVIOUS
  <2> DEFINE p == <<c>>
  <2>3. IsQueue(p) /\ ToSet(p) = {c}
    BY <2>1, <2>2 DEF IsQueue
  <2> HIDE DEF p
  <2>4. ToSet(p \o q) = {c} \cup S
    BY <1>2, <2>3, JoinedQueues
  <2> QED
    BY <1>3, <2>1, <2>4 DEF p
<1> QED
  BY <1>2, <1>3, <1>4 DEF q

-----------------------------------------------------------------------------
(* The steps of the terrain.                                               *)

LEMMA KeyframeDraws == ASSUME TerrainInv, Keyframe PROVE TerrainInv'
<1>0. PICK arrived \in SUBSET Column :
        \E k \in [arrived -> Arriving] : Apply(k, TRUE, arrived, SetToSeq(WithSections(k)), {})
  BY DEF Keyframe
<1>1. PICK k \in [arrived -> Arriving] : Apply(k, TRUE, arrived, SetToSeq(WithSections(k)), {})
  BY <1>0
<1>2. StoredColumns(k) /\ DOMAIN k = arrived
  BY TerrainAssumption DEF StoredColumns, StoredColumn, Receipt, Blocks, NoSection
<1> DEFINE ds == SetToSeq(WithSections(k))
<1>3. ds \in Seq(Column) /\ ToSet(ds) = WithSections(k)
  <2>1. WithSections(k) \in SUBSET Column
    BY <1>2 DEF WithSections
  <2> QED
    BY <2>1, Marks
<1>4. Apply(k, TRUE, arrived, ds, {})
  BY <1>1
<1> HIDE DEF ds
<1>5. Shows(filmMode, Begun(TRUE), k, arrived, ToSet(ds), Meshers(mesher, lateRegistries), owed \cup {}, blank)
  <2>1. Begun(TRUE) = OnReset(Scene)
    BY DEF Begun
  <2>2. WithSections(k) \subseteq ToSet(ds)
    BY <1>3
  <2>3. DOMAIN k \subseteq arrived
    BY <1>2
  <2> DEFINE g == Meshers(mesher, lateRegistries)
             o == owed \cup {}
  <2> HIDE DEF g, o
  <2>4. Shows(filmMode, OnReset(Scene), k, arrived, ToSet(ds), g, o, blank)
    BY <2>2, <2>3, WorldChanges
  <2> QED
    BY <2>1, <2>4 DEF g, o
<1>6. registries => registries'
  BY DEF Keyframe
<1> QED
  BY <1>2, <1>3, <1>4, <1>5, <1>6, FrameKeeps

LEMMA DimensionDraws == ASSUME TerrainInv, DimensionChanged PROVE TerrainInv'
<1> DEFINE k == NoColumns
           ds == <<>>
<1>1. Apply(k, TRUE, {}, ds, {}) /\ (registries => registries')
  BY DEF DimensionChanged, Delta
<1>2. DOMAIN k = {} /\ StoredColumns(k) /\ WithSections(k) = {}
  BY DEF NoColumns, StoredColumns, WithSections
<1>3. ds \in Seq(Column) /\ ToSet(ds) = {}
  BY DEF ToSet
<1> HIDE DEF k, ds
<1>4. Shows(filmMode, Begun(TRUE), k, {}, ToSet(ds), Meshers(mesher, lateRegistries), owed \cup {}, blank)
  <2>1. Begun(TRUE) = OnReset(Scene)
    BY DEF Begun
  <2>2. WithSections(k) \subseteq ToSet(ds)
    BY <1>2
  <2> QED
    BY <1>2, <2>1, <2>2, WorldChanges
<1> QED
  BY <1>1, <1>2, <1>3, <1>4, FrameKeeps

(* A frame that changes one column.                                        *)
LEMMA ColumnDraws ==
  ASSUME TerrainInv, NEW c \in Column, NEW k, StoredColumns(k), SameBut(k, columns, c),
         NEW d \in SUBSET {c}, NEW ds \in Seq(Column), NEW silent,
         Apply(k, FALSE, d, ds, silent), UNCHANGED registries,
         Has(k, c) => c \in ToSet(ds) \/ (Has(columns, c) /\ k[c].section = columns[c].section),
         \A n \in Neighbours(c) : Has(k, n) => n \in ToSet(ds) \/ n \in silent \/ SeenAlike(k, columns, c),
         c \in d \/ (c \in DOMAIN k /\ c \in DOMAIN columns /\ k[c].state = columns[c].state),
         Has(columns, c) => Has(k, c) \/ c \in ToSet(ds) \/ c \in d \ DOMAIN k
  PROVE  TerrainInv'
<1>1. Shows(filmMode, Scene, k, d, ToSet(ds), Meshers(mesher, lateRegistries), owed \cup silent, blank)
  BY ColumnChanges
<1>2. Begun(FALSE) = Scene
  BY DEF Begun
<1>3. Shows(filmMode, Begun(FALSE), k, d, ToSet(ds), Meshers(mesher, lateRegistries), owed \cup silent, blank)
  BY <1>1, <1>2
<1>4. registries => registries'
  OBVIOUS
<1> QED
  BY <1>3, <1>4, FrameKeeps

Beside(k, c) == {n \in Neighbours(c) : Has(k, n)}

LEMMA MarksBeside ==
  ASSUME NEW k, NEW c \in Column
  PROVE  /\ <<c>> \o DirtyNeighbours(k, c) \in Seq(Column)
         /\ ToSet(<<c>> \o DirtyNeighbours(k, c)) = {c} \cup Beside(k, c)
<1>1. Beside(k, c) \in SUBSET Column
  BY NeighbourOf DEF Beside
<1>2. DirtyNeighbours(k, c) = SetToSeq(Beside(k, c))
  BY DEF DirtyNeighbours, Beside
<1> QED
  BY <1>1, <1>2, Marks

LEMMA OneMark ==
  ASSUME NEW c \in Column
  PROVE  <<c>> \in Seq(Column) /\ ToSet(<<c>>) = {c} /\ <<>> \in Seq(Column) /\ ToSet(<<>>) = {}
  BY DEF ToSet

LEMMA RemovedDraws == ASSUME TerrainInv, NEW c \in Column, ColumnRemoved(c) PROVE TerrainInv'
<1> DEFINE k == Restrict(columns, DOMAIN columns \ {c})
<1>1. c \in DOMAIN columns /\ UNCHANGED registries
  BY DEF ColumnRemoved, Delta
<1>2. /\ DOMAIN k = DOMAIN columns \ {c}
      /\ \A x \in DOMAIN k : k[x] = columns[x]
      /\ StoredColumns(k)
  BY DEF Restrict, StoredColumns, TerrainInv
<1>3. IF Has(columns, c)
      THEN Apply(k, FALSE, {c}, <<c>> \o DirtyNeighbours(columns, c), {})
      ELSE Apply(k, FALSE, {c}, <<>>, Neighbours(c))
  BY DEF ColumnRemoved
<1> HIDE DEF k
<1>4. SameBut(k, columns, c) /\ ~Has(k, c) /\ c \notin DOMAIN k
  BY <1>2 DEF SameBut, Has
<1>5. CASE Has(columns, c)
  <2> DEFINE ds == <<c>> \o DirtyNeighbours(columns, c)
  <2>1. ds \in Seq(Column) /\ ToSet(ds) = {c} \cup Beside(columns, c)
    BY MarksBeside
  <2>2. Apply(k, FALSE, {c}, ds, {})
    BY <1>3, <1>5
  <2> HIDE DEF ds
  <2>3. \A n \in Neighbours(c) : Has(k, n) => n \in ToSet(ds)
    BY <1>4, <2>1, SameAway, NeighbourOf DEF Beside
  <2> QED
    BY <1>1, <1>2, <1>4, <2>1, <2>2, <2>3, ColumnDraws
<1>6. CASE ~Has(columns, c)
  <2> DEFINE ds == <<>>
  <2>1. ds \in Seq(Column) /\ ToSet(ds) = {}
    BY OneMark
  <2>2. Apply(k, FALSE, {c}, ds, Neighbours(c))
    BY <1>3, <1>6
  <2> HIDE DEF ds
  <2> QED
    BY <1>1, <1>2, <1>4, <1>6, <2>1, <2>2, ColumnDraws
<1> QED
  BY <1>5, <1>6

LEMMA AddedDraws == ASSUME TerrainInv, NEW c \in Column, ColumnAdded(c) PROVE TerrainInv'
<1>0. PICK new \in Arriving :
        LET k == [x \in DOMAIN columns \cup {c} |-> IF x = c THEN new ELSE columns[x]]
        IN  IF Has(k, c)
            THEN Apply(k, FALSE, {c}, <<c>> \o DirtyNeighbours(k, c), {})
            ELSE Apply(k, FALSE, {c}, IF Has(columns, c) THEN <<c>> ELSE <<>>, Neighbours(c))
  BY DEF ColumnAdded
<1> DEFINE k == [x \in DOMAIN columns \cup {c} |-> IF x = c THEN new ELSE columns[x]]
<1>1. UNCHANGED registries
  BY DEF ColumnAdded, Delta
<1>2. /\ DOMAIN k = DOMAIN columns \cup {c} /\ k[c] = new
      /\ \A x \in DOMAIN columns \ {c} : k[x] = columns[x]
  OBVIOUS
<1>3. StoredColumns(k)
  <2>1. new \in StoredColumn
    BY TerrainAssumption DEF StoredColumn, Receipt, Blocks, NoSection
  <2> QED
    BY <2>1 DEF StoredColumns, TerrainInv
<1>4. IF Has(k, c)
      THEN Apply(k, FALSE, {c}, <<c>> \o DirtyNeighbours(k, c), {})
      ELSE Apply(k, FALSE, {c}, IF Has(columns, c) THEN <<c>> ELSE <<>>, Neighbours(c))
  BY <1>0
<1> HIDE DEF k
<1>5. SameBut(k, columns, c)
  BY <1>2 DEF SameBut
<1>6. CASE Has(k, c)
  <2> DEFINE ds == <<c>> \o DirtyNeighbours(k, c)
  <2>1. ds \in Seq(Column) /\ ToSet(ds) = {c} \cup Beside(k, c)
    BY MarksBeside
  <2>2. Apply(k, FALSE, {c}, ds, {})
    BY <1>4, <1>6
  <2> HIDE DEF ds
  <2>3. \A n \in Neighbours(c) : Has(k, n) => n \in ToSet(ds)
    BY <2>1 DEF Beside
  <2> QED
    BY <1>1, <1>3, <1>5, <2>1, <2>2, <2>3, ColumnDraws
<1>7. CASE ~Has(k, c)
  <2>1. PICK ds \in Seq(Column) :
          /\ Has(columns, c) => c \in ToSet(ds)
          /\ Apply(k, FALSE, {c}, ds, Neighbours(c))
    <3>1. CASE Has(columns, c)
      BY <1>4, <1>7, <3>1, OneMark
    <3>2. CASE ~Has(columns, c)
      BY <1>4, <1>7, <3>2, OneMark
    <3> QED
      BY <3>1, <3>2
  <2> QED
    BY <1>1, <1>3, <1>5, <1>7, <2>1, ColumnDraws
<1> QED
  BY <1>6, <1>7

LEMMA StateDraws == ASSUME TerrainInv, NEW c \in Column, ColumnState(c) PROVE TerrainInv'
<1>1. UNCHANGED registries /\ c \in DOMAIN columns
  BY DEF ColumnState, Delta
<1>2. PICK state \in Receipt : Apply([columns EXCEPT ![c].state = state], FALSE, {c}, <<>>, Neighbours(c))
  BY DEF ColumnState
<1> DEFINE k == [columns EXCEPT ![c].state = state]
           ds == <<>>
<1>3. columns \in [DOMAIN columns -> StoredColumn] /\ DOMAIN columns \subseteq Column
  BY DEF TerrainInv, StoredColumns
<1>4. /\ StoredColumns(k) /\ DOMAIN k = DOMAIN columns
      /\ k[c].section = columns[c].section
      /\ \A x \in DOMAIN columns \ {c} : k[x] = columns[x]
  BY <1>1, <1>3 DEF StoredColumns, StoredColumn
<1>5. ds \in Seq(Column) /\ ToSet(ds) = {}
  BY OneMark
<1>6. Apply(k, FALSE, {c}, ds, Neighbours(c))
  BY <1>2
<1> HIDE DEF k, ds
<1>7. SameBut(k, columns, c) /\ (Has(k, c) <=> Has(columns, c))
  BY <1>4 DEF SameBut, Has
<1> QED
  BY <1>1, <1>4, <1>5, <1>6, <1>7, ColumnDraws

LEMMA BlocksDraw == ASSUME TerrainInv, NEW c \in Column, BlocksChanged(c) PROVE TerrainInv'
<1>1. UNCHANGED registries /\ c \in DOMAIN columns
  BY DEF BlocksChanged, Delta
<1>2. PICK blocks \in Changed :
        LET k == [columns EXCEPT ![c].section = blocks]
        IN  IF Rim(blocks) # Rim(columns[c].section)
            THEN Apply(k, FALSE, {}, <<c>> \o DirtyNeighbours(k, c), {})
            ELSE Apply(k, FALSE, {}, <<c>>, IF Has(columns, c) THEN {} ELSE Neighbours(c))
  BY DEF BlocksChanged
<1> DEFINE k == [columns EXCEPT ![c].section = blocks]
<1>3. columns \in [DOMAIN columns -> StoredColumn] /\ DOMAIN columns \subseteq Column
  BY DEF TerrainInv, StoredColumns
<1>4. blocks \in Blocks
  BY TerrainAssumption DEF Blocks
<1>5. /\ StoredColumns(k) /\ DOMAIN k = DOMAIN columns
      /\ k[c].section = blocks /\ k[c].state = columns[c].state
      /\ \A x \in DOMAIN columns \ {c} : k[x] = columns[x]
  BY <1>1, <1>3, <1>4 DEF StoredColumns, StoredColumn
<1>6. IF Rim(blocks) # Rim(columns[c].section)
      THEN Apply(k, FALSE, {}, <<c>> \o DirtyNeighbours(k, c), {})
      ELSE Apply(k, FALSE, {}, <<c>>, IF Has(columns, c) THEN {} ELSE Neighbours(c))
  BY <1>2
<1> HIDE DEF k
<1>7. SameBut(k, columns, c) /\ Has(k, c)
  BY <1>1, <1>4, <1>5 DEF SameBut, Has, Blocks, NoSection
<1>8. CASE Rim(blocks) # Rim(columns[c].section)
  <2> DEFINE ds == <<c>> \o DirtyNeighbours(k, c)
  <2>1. ds \in Seq(Column) /\ ToSet(ds) = {c} \cup Beside(k, c)
    BY MarksBeside
  <2>2. Apply(k, FALSE, {}, ds, {})
    BY <1>6, <1>8
  <2> HIDE DEF ds
  <2>3. \A n \in Neighbours(c) : Has(k, n) => n \in ToSet(ds)
    BY <2>1 DEF Beside
  <2> QED
    BY <1>1, <1>5, <1>7, <2>1, <2>2, <2>3, ColumnDraws
<1>9. CASE Rim(blocks) = Rim(columns[c].section)
  <2> DEFINE ds == <<c>>
             silent == IF Has(columns, c) THEN {} ELSE Neighbours(c)
  <2>1. ds \in Seq(Column) /\ ToSet(ds) = {c}
    BY OneMark
  <2>2. Apply(k, FALSE, {}, ds, silent)
    BY <1>6, <1>9
  <2>3. silent = Neighbours(c) \/ SeenAlike(k, columns, c)
    BY <1>1, <1>5, <1>7, <1>9 DEF SeenAlike
  <2> HIDE DEF ds, silent
  <2> QED
    BY <1>1, <1>5, <1>7, <2>1, <2>2, <2>3, ColumnDraws
<1> QED
  BY <1>8, <1>9

LEMMA OtherDraws == ASSUME TerrainInv, OtherFrame PROVE TerrainInv'
<1> DEFINE ds == <<>>
<1>1. Apply(columns, FALSE, {}, ds, {}) /\ (registries => registries')
  BY DEF OtherFrame
<1>2. ds \in Seq(Column) /\ ToSet(ds) = {}
  BY DEF ToSet
<1> HIDE DEF ds
<1>3. Begun(FALSE) = Scene /\ owed \cup {} = owed
  BY DEF Begun
<1>4. StoredColumns(columns)
      /\ Shows(filmMode, Scene, columns, {}, {}, Meshers(mesher, lateRegistries), owed, blank)
  BY DEF TerrainInv
<1>5. Shows(filmMode, Begun(FALSE), columns, {}, ToSet(ds), Meshers(mesher, lateRegistries), owed \cup {}, blank)
  BY <1>2, <1>3, <1>4
<1> QED
  BY <1>1, <1>2, <1>4, <1>5, FrameKeeps

-----------------------------------------------------------------------------
(* Paints and the asset load.                                              *)

Still == /\ UNCHANGED <<columns, registries, mesher, assetsPhase, registriesBuilt, lateRegistries, filmMode>>

LEMMA StillShows ==
  ASSUME TerrainInv, Still,
         Shows(filmMode, Scene', columns, {}, {}, Meshers(mesher, lateRegistries), owed', blank')
  PROVE  TerrainInv'
  BY DEF TerrainInv, Still

LEMMA PaintShows ==
  ASSUME TerrainInv, Still, NEW s,
         Shows(filmMode, s, columns, {}, {}, Meshers(mesher, lateRegistries), owed, blank),
         NEW n \in 0..Len(s.pending), MeshAndSet(s, mesher, columns, n, {})
  PROVE  TerrainInv'
<1> DEFINE g == Meshers(mesher, lateRegistries)
<1>1. mesher \in g /\ DOMAIN columns \subseteq Column
  BY DEF Meshers, TerrainInv, StoredColumns
<1>2. Shows(filmMode, s, columns, {}, {}, g, owed \cup {}, blank)
  <2>1. owed \cup {} = owed
    OBVIOUS
  <2> QED
    BY <2>1
<1> HIDE DEF g
<1>3. PICK r : SetScene(r) /\ Shows(filmMode, r, columns, {}, {}, g, owed', blank')
  BY <1>1, <1>2, MeshKeeps
<1>4. Shows(filmMode, Scene', columns, {}, {}, g, owed', blank')
  BY <1>3, SceneAfter
<1> QED
  BY <1>4, StillShows DEF g

LEMMA ShownNow ==
  ASSUME TerrainInv
  PROVE  /\ Shows(filmMode, Scene, columns, {}, {}, Meshers(mesher, lateRegistries), owed, blank)
         /\ Scenic(Scene) /\ Scene.clearing = worldClearPending /\ Scene.pending = pendingSections
         /\ Len(pendingSections) \in Nat
<1>1. Shows(filmMode, Scene, columns, {}, {}, Meshers(mesher, lateRegistries), owed, blank)
  BY DEF TerrainInv
<1>2. Scenic(Scene)
  BY <1>1 DEF Shows
<1>3. Scene.clearing = worldClearPending /\ Scene.pending = pendingSections
  BY SceneNow
<1>4. Len(pendingSections) \in Nat
  BY <1>2, <1>3 DEF Scenic, IsQueue
<1> QED
  BY <1>1, <1>2, <1>3, <1>4

LEMMA PaintDraws == ASSUME TerrainInv, PaintLive \/ PaintFilm \/ Flush PROVE TerrainInv'
<1> DEFINE g == Meshers(mesher, lateRegistries)
<1>1. Shows(filmMode, Scene, columns, {}, {}, g, owed, blank) /\ Scenic(Scene)
  BY ShownNow
<1> HIDE DEF g
<1>2. Still
  BY DEF PaintLive, PaintFilm, Flush, Still, storeVars, assetVars
<1>3. CASE PaintLive \/ Flush
  <2>1. PICK s \in IF Scene.clearing THEN DrainWorldClear(Scene, columns) ELSE {Scene} :
          \E n : (n \in Budget(s) \/ n \in 0..Len(s.pending)) /\ MeshAndSet(s, mesher, columns, n, {})
    <3>1. PICK s \in IF worldClearPending THEN DrainWorldClear(Scene, columns) ELSE {Scene} :
            \E n : (n \in Budget(s) \/ n \in 0..Len(s.pending)) /\ MeshAndSet(s, mesher, columns, n, {})
      BY <1>3 DEF PaintLive, Flush
    <3> QED
      BY <3>1, SceneNow
  <2>2. Shows(filmMode, s, columns, {}, {}, g, owed, blank)
    BY <1>1, <2>1, WipeGoesOn
  <2>3. PICK n : (n \in Budget(s) \/ n \in 0..Len(s.pending)) /\ MeshAndSet(s, mesher, columns, n, {})
    BY <2>1
  <2>4. n \in 0..Len(s.pending)
    <3>1. Scenic(s)
      BY <2>2 DEF Shows
    <3> QED
      BY <2>3, <3>1, BudgetFits
  <2> QED
    BY <1>2, <2>2, <2>3, <2>4, PaintShows DEF g
<1>4. CASE PaintFilm
  <2> DEFINE s == FinishClear(Scene, columns)
  <2>1. MeshAndSet(s, mesher, columns, Len(pendingSections), {})
    BY <1>4 DEF PaintFilm
  <2>2. Wiped(Scene, columns, s)
    BY <1>1, FinishWipes DEF Scenic
  <2> HIDE DEF s
  <2>3. Shows(filmMode, s, columns, {}, {}, g, owed, blank)
    BY <1>1, <2>2, WipeKeeps
  <2>4. s.pending = pendingSections /\ Len(pendingSections) \in 0..Len(s.pending)
    BY <2>2, ShownNow DEF Wiped
  <2> QED
    BY <1>2, <2>1, <2>3, <2>4, PaintShows DEF g
<1> QED
  BY <1>3, <1>4

(* What is queued needs no mesh.                                           *)
LEMMA QueueAll ==
  ASSUME NEW s, Scenic(s), NEW S \in SUBSET Column, NEW m, m = Enqueue(s, SetToSeq(S))
  PROVE  /\ Scenic(m) /\ m.sections = s.sections /\ m.bounds = s.bounds /\ m.clearing = s.clearing
         /\ S \subseteq ToSet(m.pending) /\ ToSet(s.pending) \subseteq ToSet(m.pending)
<1> DEFINE ds == SetToSeq(S)
           new == Kept(ds, Column \ ToSet(s.pending))
<1>1. IsScene(s) /\ IsQueue(s.pending)
  BY DEF Scenic
<1>2. ds \in Seq(Column) /\ ToSet(ds) = S
  BY Marks
<1>3. m = Enqueue(s, ds)
  OBVIOUS
<1> HIDE DEF ds
<1>4. /\ IsScene(m) /\ m.sections = s.sections /\ m.bounds = s.bounds /\ m.clearing = s.clearing
      /\ m.pending = s.pending \o new
  BY <1>1, <1>3, EnqueueDoes
<1>5. IsQueue(new) /\ \A i \in DOMAIN ds : ds[i] \in Column \ ToSet(s.pending) => ds[i] \in ToSet(new)
  BY <1>2, KeptKeeps
<1>6. \A x \in S : x \in ToSet(s.pending) \/ x \in ToSet(new)
  BY <1>2, <1>5 DEF ToSet
<1> HIDE DEF new
<1>7. IsQueue(m.pending) /\ ToSet(m.pending) = ToSet(s.pending) \cup ToSet(new)
  BY <1>1, <1>4, <1>5, JoinedQueues
<1> QED
  BY <1>4, <1>6, <1>7 DEF Scenic

LEMMA BuildDraws == ASSUME TerrainInv, BuildDone PROVE TerrainInv'
<1> DEFINE g == Meshers(mesher', lateRegistries')
           s == [Scene EXCEPT !.sections = NoMesh]
           m == Enqueue(s, SetToSeq(DOMAIN sections))
<1>1. /\ Shows(filmMode, Scene, columns, {}, {}, Meshers(mesher, lateRegistries), owed, blank)
      /\ Scenic(Scene)
  BY ShownNow
<1>2. /\ Scene.sections = sections /\ Scene.bounds = columnBounds
      /\ Scene.pending = pendingSections /\ Scene.clearing = worldClearPending /\ IsScene(Scene)
  BY SceneNow
<1>3. SetScene(m)
  BY <1>2 DEF BuildDone, SetMesher
<1>4. IsScene(s) /\ s.sections = NoMesh /\ s.bounds = Scene.bounds /\ s.pending = Scene.pending
      /\ s.clearing = Scene.clearing
  <2> DEFINE a == Scene
  <2>1. IsScene(a)
    BY <1>2
  <2>2. s = [a EXCEPT !.sections = NoMesh]
    OBVIOUS
  <2> HIDE DEF a, s
  <2>3. IsScene(s) /\ s.sections = NoMesh
    BY <2>1, <2>2 DEF IsScene
  <2>4. s.bounds = a.bounds /\ s.pending = a.pending /\ s.clearing = a.clearing
    BY <2>1, <2>2 DEF IsScene
  <2> QED
    BY <2>3, <2>4 DEF a
<1>5. Scenic(s)
  <2>1. DOMAIN NoMesh \subseteq Column
    BY DEF NoMesh
  <2> HIDE DEF s
  <2> QED
    BY <1>1, <1>4, <2>1 DEF Scenic
<1>6. DOMAIN sections \in SUBSET Column
  BY <1>1, <1>2 DEF Scenic
<1> HIDE DEF s
<1>7. /\ Scenic(m) /\ m.sections = s.sections /\ m.bounds = s.bounds /\ m.clearing = s.clearing
      /\ DOMAIN sections \subseteq ToSet(m.pending) /\ ToSet(s.pending) \subseteq ToSet(m.pending)
  BY <1>5, <1>6, QueueAll
<1> HIDE DEF m
<1>8. DOMAIN m.sections = {}
  BY <1>4, <1>7 DEF NoMesh
<1> HIDE DEF g
<1>9. \A c \in WithSections(columns) :
        c \in ToSet(m.pending) \/ AsStored(filmMode, m.sections, columns, g, owed, blank, c)
  <2> SUFFICES ASSUME NEW c \in WithSections(columns), c \notin ToSet(m.pending)
               PROVE  AsStored(filmMode, m.sections, columns, g, owed, blank, c)
    OBVIOUS
  <2>1. c \notin ToSet(Scene.pending) /\ c \notin DOMAIN Scene.sections
    BY <1>2, <1>4, <1>7
  <2>2. columns[c].section = "air" \/ c \in blank
    BY <1>1, <2>1 DEF Shows, AsStored
  <2> QED
    BY <1>8, <2>2 DEF AsStored
<1>10. Bounded(m, columns, {})
  BY <1>1, <1>4, <1>7 DEF Shows, Bounded
<1>11. m.clearing = FALSE => m.bounds \subseteq DOMAIN columns /\ \A c \in DOMAIN m.sections : Has(columns, c)
  BY <1>1, <1>4, <1>7, <1>8 DEF Shows
<1>12. Shows(filmMode, m, columns, {}, {}, g, owed, blank)
  BY <1>7, <1>9, <1>10, <1>11 DEF Shows
<1>13. Shows(filmMode, Scene', columns, {}, {}, g, owed, blank)
  BY <1>3, <1>12, SceneAfter
<1>14. UNCHANGED <<filmMode, columns, registries, registriesBuilt, owed, blank>>
  BY DEF BuildDone, KeepFrames, storeVars, historyVars
<1>15. lateRegistries' = "watching" => mesher' = "vanilla"
  BY DEF BuildDone, TerrainInv
<1> QED
  BY <1>13, <1>14, <1>15 DEF TerrainInv, g

LEMMA ApplyDraws == ASSUME TerrainInv, ApplyDone PROVE TerrainInv'
<1> DEFINE g == Meshers(mesher', lateRegistries')
           m == Enqueue(Scene, SetToSeq(WithSections(columns)))
<1>1. /\ Shows(filmMode, Scene, columns, {}, {}, Meshers(mesher, lateRegistries), owed, blank)
      /\ Scenic(Scene)
  BY ShownNow
<1>2. SetScene(m)
  BY DEF ApplyDone
<1>3. WithSections(columns) \in SUBSET Column
  BY DEF TerrainInv, StoredColumns, WithSections
<1> DEFINE s == Scene
<1> HIDE DEF s
<1>4. /\ Scenic(m) /\ m.sections = Scene.sections /\ m.bounds = Scene.bounds /\ m.clearing = Scene.clearing
      /\ WithSections(columns) \subseteq ToSet(m.pending)
  BY <1>1, <1>3, QueueAll
<1> HIDE DEF m, g
<1>5. Bounded(m, columns, {})
  BY <1>1, <1>4 DEF Shows, Bounded
<1>6. m.clearing = FALSE => m.bounds \subseteq DOMAIN columns /\ \A c \in DOMAIN m.sections : Has(columns, c)
  BY <1>1, <1>4 DEF Shows
<1>7. Shows(filmMode, m, columns, {}, {}, g, owed, blank)
  BY <1>4, <1>5, <1>6 DEF Shows
<1>8. Shows(filmMode, Scene', columns, {}, {}, g, owed, blank)
  BY <1>2, <1>7, SceneAfter
<1>9. UNCHANGED <<filmMode, columns, registries, registriesBuilt, owed, blank>> /\ lateRegistries' = "off"
  BY DEF ApplyDone, KeepFrames, storeVars, historyVars
<1> QED
  BY <1>8, <1>9 DEF TerrainInv, g

LEMMA LoadDraws ==
  ASSUME TerrainInv, StartBuild \/ BuildFails \/ ApplyFails \/ UNCHANGED vars PROVE TerrainInv'
<1> DEFINE g == Meshers(mesher, lateRegistries)
           h == Meshers(mesher', lateRegistries')
<1>1. UNCHANGED <<filmMode, columns, registries, sections, columnBounds, pendingSections,
                  worldClearPending, mesher, owed, blank>>
  BY DEF StartBuild, BuildFails, ApplyFails, vars, KeepFrames, storeVars, sceneVars, historyVars, assetVars
<1>2. Shows(filmMode, Scene, columns, {}, {}, g, owed, blank)
  BY DEF TerrainInv
<1>3. Scene' = Scene
  BY <1>1 DEF Scene
<1>4. /\ registriesBuilt' => registries'
      /\ lateRegistries' = lateRegistries \/ (lateRegistries = "applying" /\ lateRegistries' = "failed")
  BY DEF TerrainInv, StartBuild, BuildFails, ApplyFails, vars, KeepFrames, storeVars, assetVars
<1>5. g \subseteq h
  BY <1>1, <1>4 DEF Meshers
<1> HIDE DEF g, h
<1>6. Shows(filmMode, Scene, columns, {}, {}, h, owed, blank)
  BY <1>2, <1>5, MoreMeshers
<1>7. lateRegistries' = "watching" => mesher' = "vanilla"
  BY <1>1, <1>4 DEF TerrainInv
<1> QED
  BY <1>1, <1>3, <1>4, <1>6, <1>7 DEF TerrainInv, h

LEMMA TerrainInit == Init => TerrainInv
<1> SUFFICES ASSUME Init PROVE TerrainInv
  OBVIOUS
<1> DEFINE s == Scene
<1>1. /\ IsScene(s) /\ s.sections = NoMesh /\ s.bounds = {} /\ s.pending = <<>> /\ s.clearing = FALSE
  BY SceneNow DEF Init
<1> HIDE DEF s
<1>2. DOMAIN columns = {} /\ StoredColumns(columns)
  BY DEF Init, NoColumns, StoredColumns
<1>3. DOMAIN s.sections = {}
  BY <1>1 DEF NoMesh
<1>4. Scenic(s)
  <2>1. IsQueue(s.pending)
    BY <1>1 DEF IsQueue
  <2>2. s.clearing \in BOOLEAN
    BY <1>1
  <2> QED
    BY <1>1, <1>3, <2>1, <2>2 DEF Scenic
<1>5. Shows(filmMode, s, columns, {}, {}, Meshers(mesher, lateRegistries), owed, blank)
  BY <1>1, <1>2, <1>3, <1>4 DEF Shows, Bounded, WithSections
<1> QED
  BY <1>2, <1>5 DEF TerrainInv, Init, s

LEMMA TerrainNext == TerrainInv /\ [Next]_vars => TerrainInv'
  BY KeyframeDraws, DimensionDraws, RemovedDraws, AddedDraws, StateDraws, BlocksDraw, OtherDraws,
     PaintDraws, BuildDraws, ApplyDraws, LoadDraws DEF Next, Frame

LEMMA TerrainIsCurrent == TerrainInv => TerrainFollowsStore
<1> SUFFICES ASSUME TerrainInv PROVE TerrainFollowsStore
  OBVIOUS
<1> DEFINE g == Meshers(mesher, lateRegistries)
           s == Scene
<1>1. Shows(filmMode, s, columns, {}, {}, g, owed, blank)
  BY DEF TerrainInv
<1>2. /\ s.sections = sections /\ s.bounds = columnBounds
      /\ s.pending = pendingSections /\ s.clearing = worldClearPending
  BY SceneNow
<1>3. \A m \in g : SameMesher(m)
  BY DEF Meshers, SameMesher
<1> HIDE DEF g, s
<1>4. ASSUME NEW c \in WithSections(columns), ~Queued(c)
      PROVE  IF c \in DOMAIN sections
             THEN /\ SameMesher(sections[c].mesher)
                  /\ sections[c].section = columns[c].section
                  /\ c \in owed \/ sections[c].across = MeshOf(sections[c].mesher, columns, c).across
             ELSE columns[c].section = "air" \/ c \in blank
  <2>1. AsStored(filmMode, sections, columns, g, owed, blank, c)
    BY <1>1, <1>2, <1>4 DEF Shows, Queued
  <2>2. CASE c \in DOMAIN sections
    <3>1. Mesh(filmMode, sections[c], columns, g, owed, c)
      BY <2>1, <2>2 DEF AsStored
    <3>2. MeshOf(sections[c].mesher, columns, c).across = Across(filmMode, sections[c].mesher, columns, c)
      BY MeshShows
    <3> QED
      BY <1>3, <2>2, <3>1, <3>2 DEF Mesh
  <2>3. CASE c \notin DOMAIN sections
    BY <2>1, <2>3 DEF AsStored
  <2> QED
    BY <2>2, <2>3
<1>5. DrawnAsStored
  BY <1>4 DEF DrawnAsStored
<1>6. NoGhosts
  <2> SUFFICES ASSUME ~worldClearPending
               PROVE  /\ \A c \in DOMAIN sections : Has(columns, c)
                      /\ columnBounds = {c \in DOMAIN columns : columns[c].state = "partial"}
    BY DEF NoGhosts
  <2>1. s.clearing = FALSE
    BY <1>1, <1>2 DEF Shows, Scenic
  <2>2. s.bounds \subseteq DOMAIN columns /\ \A c \in DOMAIN s.sections : Has(columns, c)
    BY <1>1, <2>1 DEF Shows
  <2>3. \A c \in DOMAIN columns : c \in s.bounds <=> columns[c].state = "partial"
    BY <1>1 DEF Shows, Bounded
  <2> QED
    BY <1>2, <2>2, <2>3
<1> QED
  BY <1>5, <1>6 DEF TerrainFollowsStore

(* scene.ts and main.ts, with any columns and borders: whatever frames,    *)
(* paints, meshes that throw and asset loads come in between, a section    *)
(* that is not queued is drawn as the store has it, by the mesher of now,  *)
(* and nothing is drawn that the store has no more once a wipe has ended.  *)
THEOREM TerrainShown == PageSpec => []TerrainFollowsStore
<1>1. PageInit => TerrainInv
  BY TerrainInit DEF PageInit, PartsInit
<1>2. TerrainInv /\ [PageNext]_pageVars => TerrainInv'
  BY TerrainNext, LoadDraws DEF PageNext, Terrain, OfEntity, OfUi, OfTake, OfAnimator, pageVars
<1> QED
  BY <1>1, <1>2, TerrainIsCurrent, PTL DEF PageSpec

-----------------------------------------------------------------------------
(* Induction, as the absence of a smallest counterexample. *)
LEMMA SmallestThere ==
  ASSUME NEW S \in SUBSET Nat, S # {}
  PROVE  \E m \in S : \A k \in S : m <= k
<1>1. \E m \in S : \A k \in S : <<k, m>> \notin OpToRel(<, Nat)
  BY NatLessThanWellFounded, WFMin
<1>2. \A k, m \in Nat : k < m => <<k, m>> \in OpToRel(<, Nat)
  BY DEF OpToRel
<1>3. PICK m \in S : \A k \in S : <<k, m>> \notin OpToRel(<, Nat)
  BY <1>1
<1>4. ASSUME NEW k \in S PROVE m <= k
  <2>1. k \in Nat /\ m \in Nat /\ ~(k < m)
    BY <1>2, <1>3
  <2> QED
    BY <2>1
<1> QED
  BY <1>4

LEMMA Induction ==
  ASSUME NEW m \in Nat, NEW n \in Nat, NEW S, m \in S,
         \A i \in m + 1..n : i - 1 \in S => i \in S
  PROVE  m..n \subseteq S
<1> DEFINE bad == {i \in Nat : i \in m..n /\ i \notin S}
<1>1. ASSUME bad # {} PROVE FALSE
  <2>1. PICK i \in bad : \A k \in bad : i <= k
    BY <1>1, SmallestThere
  <2>2. i \in m + 1..n /\ i - 1 \in Nat /\ i - 1 \in m..n
    BY <2>1
  <2>3. i - 1 \in S
    BY <2>1, <2>2
  <2> QED
    BY <2>1, <2>2, <2>3
<1> QED
  BY <1>1

(* f[i] is the result of the first i steps. *)
Iterates(f, n, V, base, step) ==
  f \in [0..n -> V] /\ f[0] = base /\ \A i \in 1..n : f[i] = step[i][f[i - 1]]

LEMMA Recursion ==
  ASSUME NEW n \in Nat, NEW V, NEW base \in V, NEW step \in [1..n -> [V -> V]]
  PROVE  \E f : Iterates(f, n, V, base, step)
<1> DEFINE Upto(m, f) == f[0] = base /\ \A i \in 1..m : f[i] = step[i][f[i - 1]]
           S == {m \in 0..n : \E f \in [0..m -> V] : Upto(m, f)}
<1>1. 0 \in S
  <2> DEFINE g == [i \in 0..0 |-> base]
  <2>1. g \in [0..0 -> V] /\ Upto(0, g)
    OBVIOUS
  <2> HIDE DEF Upto, g
  <2> QED
    BY <2>1
<1>2. ASSUME NEW m \in 0 + 1..n, m - 1 \in S PROVE m \in S
  <2>1. PICK f \in [0..m - 1 -> V] : Upto(m - 1, f)
    BY <1>2
  <2> DEFINE g == [i \in 0..m |-> IF i = m THEN step[m][f[m - 1]] ELSE f[i]]
  <2>2. m \in 1..n /\ m - 1 \in 0..m - 1 /\ step[m] \in [V -> V]
    OBVIOUS
  <2>3. step[m][f[m - 1]] \in V
    BY <2>1, <2>2
  <2>4. g \in [0..m -> V]
    BY <2>1, <2>3
  <2>5. g[0] = base
    BY <2>1
  <2>6. ASSUME NEW i \in 1..m PROVE g[i] = step[i][g[i - 1]]
    <3>1. i - 1 \in 0..m - 1 /\ g[i - 1] = f[i - 1]
      OBVIOUS
    <3>2. CASE i = m
      BY <3>1, <3>2
    <3>3. CASE i # m
      BY <2>1, <3>1, <3>3
    <3> QED
      BY <3>2, <3>3
  <2>7. Upto(m, g)
    BY <2>5, <2>6
  <2> HIDE DEF Upto, g
  <2> QED
    BY <2>4, <2>7
<1>3. 0..n \subseteq S
  <2> HIDE DEF S
  <2> QED
    BY <1>1, <1>2, Induction
<1>4. n \in S
  BY <1>3
<1> QED
  BY <1>4 DEF Iterates

-----------------------------------------------------------------------------
(* The film.  A column of the take after each frame, the generations, and  *)
(* the frames of the film are defined by recursion on the frames; what     *)
(* they do is shown by induction on the same.                              *)

Frames == [t : Int, boundary : BOOLEAN, added : Lookahead!WireColumn \cup {None},
           state : Lookahead!Receipt \cup {None}, block : Contents \cup {None}, removed : BOOLEAN]

LEMMA AppliedIsColumn ==
  ASSUME NEW c \in Lookahead!HeldColumn \cup {None}, NEW f \in Frames
  PROVE  Lookahead!Applied(c, f) \in Lookahead!HeldColumn \cup {None}
<1> DEFINE put == IF f.added # None THEN f.added
                  ELSE IF f.boundary \/ f.removed THEN None ELSE c
           stated == IF put = None \/ f.state = None THEN put
                     ELSE [put EXCEPT !.state = f.state]
<1>1. Lookahead!Applied(c, f) = IF stated = None \/ f.block = None THEN stated
                      ELSE [stated EXCEPT !.section = f.block]
  BY DEF Lookahead!Applied
<1>2. put \in Lookahead!HeldColumn \cup {None}
  BY DEF Frames, Lookahead!WireColumn, Lookahead!HeldColumn
<1> HIDE DEF put
<1>3. stated \in Lookahead!HeldColumn \cup {None}
  BY <1>2 DEF Lookahead!HeldColumn, Frames
<1> HIDE DEF stated
<1> QED
  BY <1>1, <1>3 DEF Lookahead!HeldColumn, Frames

LEMMA ColumnsDo ==
  ASSUME NEW s \in Seq(Frames)
  PROVE  /\ Lookahead!Columns(s) \in [0..Len(s) -> Lookahead!HeldColumn \cup {None}]
         /\ Lookahead!Columns(s)[0] = None
         /\ \A i \in 1..Len(s) :
              Lookahead!Columns(s)[i] = Lookahead!Applied(Lookahead!Columns(s)[i - 1], s[i])
<1> DEFINE V == Lookahead!HeldColumn \cup {None}
           n == Len(s)
           step == [i \in 1..n |-> [c \in V |-> Lookahead!Applied(c, s[i])]]
           g == Lookahead!Columns(s)
<1>1. n \in Nat /\ None \in V /\ \A i \in 1..n : s[i] \in Frames
  OBVIOUS
<1>2. step \in [1..n -> [V -> V]]
  BY <1>1, AppliedIsColumn
<1>3. ASSUME NEW i \in 1..n, NEW c \in V PROVE step[i][c] = Lookahead!Applied(c, s[i])
  OBVIOUS
<1>4. PICK f : Iterates(f, n, V, None, step)
  <2> HIDE DEF step, n, V
  <2> QED
    BY <1>1, <1>2, Recursion
<1>5. g = [i \in 0..n |-> IF i = 0 THEN None ELSE Lookahead!Applied(g[i - 1], s[i])]
  <2>1. ASSUME NEW i \in 1..n PROVE f[i] = Lookahead!Applied(f[i - 1], s[i])
    <3> HIDE DEF step, n, V
    <3>1. i - 1 \in 0..n
      BY <1>1
    <3> QED
      BY <1>3, <1>4, <3>1 DEF Iterates
  <2>2. f = [i \in 0..n |-> IF i = 0 THEN None ELSE Lookahead!Applied(f[i - 1], s[i])]
    <3> HIDE DEF step, n, V
    <3> QED
      BY <1>1, <1>4, <2>1 DEF Iterates
  <2> QED
    BY <2>2 DEF Lookahead!Columns
<1>6. ASSUME NEW i \in 0..n PROVE g[i] = IF i = 0 THEN None ELSE Lookahead!Applied(g[i - 1], s[i])
  <2> HIDE DEF g, n
  <2> QED
    BY <1>5
<1>7. 0..n \subseteq {i \in 0..n : g[i] \in V}
  <2> HIDE DEF g, n, V
  <2> DEFINE S == {i \in 0..n : g[i] \in V}
  <2>1. 0 \in S
    BY <1>1, <1>6
  <2>2. ASSUME NEW i \in 0 + 1..n, i - 1 \in S PROVE i \in S
    <3>1. i \in 1..n /\ i \in 0..n /\ i # 0 /\ g[i - 1] \in V
      BY <1>1, <2>2
    <3>2. g[i] = Lookahead!Applied(g[i - 1], s[i]) /\ s[i] \in Frames
      BY <1>1, <1>6, <3>1
    <3> QED
      BY <3>1, <3>2, AppliedIsColumn DEF V
  <2>3. 0..n \subseteq S
    <3> HIDE DEF S
    <3> QED
      BY <1>1, <2>1, <2>2, Induction
  <2> QED
    BY <2>3
<1>8. g \in [0..n -> V]
  <2> HIDE DEF g, n, V
  <2> QED
    BY <1>5, <1>7
<1> QED
  <2>1. \A i \in 1..n : g[i] = Lookahead!Applied(g[i - 1], s[i])
    BY <1>1, <1>6
  <2>2. g[0] = None
    BY <1>1, <1>6
  <2> QED
    BY <1>8, <2>1, <2>2

(* The generations. *)
Gens == [seed : Lookahead!WireColumn \cup {None}, seedThrough : Nat]

LEMMA GatherIsGen ==
  ASSUME NEW g \in Gens, NEW f \in Frames, NEW i \in Nat
  PROVE  Lookahead!Gather(g, f, i) \in Gens
  BY DEF Lookahead!Gather, Gens, Frames

LEMMA GatheredDo ==
  ASSUME NEW s \in Seq(Frames)
  PROVE  /\ Lookahead!Gathered(s) \in [0..Len(s) -> Gens]
         /\ \A i \in 1..Len(s) :
              Lookahead!Gathered(s)[i] =
                Lookahead!Gather(IF s[i].boundary THEN Lookahead!NoGeneration
                                 ELSE Lookahead!Gathered(s)[i - 1], s[i], i)
<1> DEFINE n == Len(s)
           NextGathered(c, i) ==
             Lookahead!Gather(IF s[i].boundary THEN Lookahead!NoGeneration ELSE c, s[i], i)
           step == [i \in 1..n |-> [c \in Gens |-> NextGathered(c, i)]]
           g == Lookahead!Gathered(s)
<1>1. n \in Nat /\ Lookahead!NoGeneration \in Gens /\ \A i \in 1..n : s[i] \in Frames
  BY DEF Lookahead!NoGeneration, Gens
<1>2. ASSUME NEW i \in 1..n, NEW c \in Gens PROVE NextGathered(c, i) \in Gens
  <2>1. s[i] \in Frames /\ i \in Nat
    BY <1>1
  <2> QED
    BY <1>1, <2>1, GatherIsGen
<1>3. step \in [1..n -> [Gens -> Gens]]
  <2> HIDE DEF NextGathered
  <2> QED
    BY <1>2
<1>4. ASSUME NEW i \in 1..n, NEW c \in Gens PROVE step[i][c] = NextGathered(c, i)
  OBVIOUS
<1>5. PICK f : Iterates(f, n, Gens, Lookahead!NoGeneration, step)
  <2> HIDE DEF step, n
  <2> QED
    BY <1>1, <1>3, Recursion
<1>6. g = [i \in 0..n |-> IF i = 0 THEN Lookahead!NoGeneration ELSE NextGathered(g[i - 1], i)]
  <2>1. ASSUME NEW i \in 1..n PROVE f[i] = NextGathered(f[i - 1], i)
    <3> HIDE DEF step, n, NextGathered
    <3>1. i - 1 \in 0..n
      BY <1>1
    <3> QED
      BY <1>4, <1>5, <3>1 DEF Iterates
  <2>2. f = [i \in 0..n |-> IF i = 0 THEN Lookahead!NoGeneration ELSE NextGathered(f[i - 1], i)]
    <3> HIDE DEF step, n, NextGathered
    <3> QED
      BY <1>1, <1>5, <2>1 DEF Iterates
  <2> QED
    BY <2>2 DEF Lookahead!Gathered
<1>7. ASSUME NEW i \in 0..n
      PROVE  g[i] = IF i = 0 THEN Lookahead!NoGeneration ELSE NextGathered(g[i - 1], i)
  <2> HIDE DEF g, n, NextGathered
  <2> QED
    BY <1>6
<1>8. 0..n \subseteq {i \in 0..n : g[i] \in Gens}
  <2> HIDE DEF g, n, NextGathered
  <2> DEFINE S == {i \in 0..n : g[i] \in Gens}
  <2>1. 0 \in S
    BY <1>1, <1>7
  <2>2. ASSUME NEW i \in 0 + 1..n, i - 1 \in S PROVE i \in S
    <3>1. i \in 1..n /\ i \in 0..n /\ i # 0 /\ g[i - 1] \in Gens
      BY <1>1, <2>2
    <3> QED
      BY <1>2, <1>7, <3>1
  <2>3. 0..n \subseteq S
    <3> HIDE DEF S
    <3> QED
      BY <1>1, <2>1, <2>2, Induction
  <2> QED
    BY <2>3
<1>9. g \in [0..n -> Gens]
  <2> HIDE DEF g, n, NextGathered
  <2> QED
    BY <1>6, <1>8
<1>10. \A i \in 1..n : g[i] = NextGathered(g[i - 1], i)
  <2> HIDE DEF g, n, NextGathered
  <2> QED
    BY <1>1, <1>7
<1> HIDE DEF g
<1>11. g \in [0..Len(s) -> Gens]
  BY <1>9
<1>12. \A i \in 1..Len(s) :
         g[i] = Lookahead!Gather(IF s[i].boundary THEN Lookahead!NoGeneration ELSE g[i - 1],
                                 s[i], i)
  BY <1>10
<1> QED
  BY <1>11, <1>12 DEF g

(* Where a generation ends. *)
IsEnd(s, i, j) ==
  /\ \A k \in i + 1..j : ~s[k].boundary
  /\ j = Len(s) \/ s[j + 1].boundary

LEMMA OneEnd ==
  ASSUME NEW s \in Seq(Frames), NEW i \in 1..Len(s), NEW j \in i..Len(s), NEW k \in i..Len(s),
         IsEnd(s, i, j), IsEnd(s, i, k)
  PROVE  j = k
<1>1. ASSUME NEW a \in i..Len(s), NEW b \in i..Len(s), IsEnd(s, i, a), IsEnd(s, i, b), a < b
      PROVE  FALSE
  <2>1. a # Len(s) /\ a + 1 \in i + 1..b
    BY <1>1
  <2> QED
    BY <1>1, <2>1 DEF IsEnd
<1>2. ~(j < k) /\ ~(k < j)
  BY <1>1
<1> QED
  BY <1>2

LEMMA EndIsThere ==
  ASSUME NEW s \in Seq(Frames), NEW i \in 1..Len(s)
  PROVE  Lookahead!End(s, i) \in i..Len(s) /\ IsEnd(s, i, Lookahead!End(s, i))
<1> DEFINE n == Len(s)
           T == {j \in Nat : j \in i..n /\ (j = n \/ s[j + 1].boundary)}
<1>1. n \in Nat /\ n \in T
  OBVIOUS
<1>2. PICK j \in T : \A k \in T : j <= k
  <2> HIDE DEF T
  <2>1. T \in SUBSET Nat
    BY DEF T
  <2> QED
    BY <1>1, <2>1, SmallestThere
<1>3. ASSUME NEW k \in i + 1..j, s[k].boundary PROVE FALSE
  <2>1. k - 1 \in i..n /\ k - 1 \in Nat /\ (k - 1) + 1 = k /\ k - 1 < j
    BY <1>1, <1>2
  <2>2. k - 1 \in T
    BY <1>3, <2>1
  <2>3. j <= k - 1 /\ j \in Nat
    <3>1. j \in Nat
      BY <1>2
    <3> HIDE DEF T
    <3> QED
      BY <1>2, <2>2, <3>1
  <2> QED
    BY <2>1, <2>3
<1>4. j \in i..n /\ IsEnd(s, i, j)
  BY <1>2, <1>3 DEF IsEnd
<1>5. \E e \in i..n : IsEnd(s, i, e)
  BY <1>4
<1>6. Lookahead!End(s, i) = CHOOSE e \in i..n : IsEnd(s, i, e)
  BY DEF Lookahead!End, IsEnd
<1> QED
  <2> HIDE DEF T
  <2> QED
    BY <1>5, <1>6

(* The frames of a generation see the same end. *)
LEMMA SameEnd ==
  ASSUME NEW s \in Seq(Frames), NEW i \in 2..Len(s), ~s[i].boundary
  PROVE  Lookahead!End(s, i - 1) = Lookahead!End(s, i)
<1> DEFINE e == Lookahead!End(s, i)
<1>0. i \in 1..Len(s) /\ i - 1 \in 1..Len(s)
  OBVIOUS
<1>1. e \in i..Len(s) /\ IsEnd(s, i, e)
  BY <1>0, EndIsThere
<1>2. Lookahead!End(s, i - 1) \in i - 1..Len(s) /\ IsEnd(s, i - 1, Lookahead!End(s, i - 1))
  BY <1>0, EndIsThere
<1> HIDE DEF e
<1>3. e \in i - 1..Len(s) /\ IsEnd(s, i - 1, e)
  BY <1>1 DEF IsEnd
<1> QED
  BY <1>0, <1>2, <1>3, OneEnd DEF e

-----------------------------------------------------------------------------
(* What the recorder writes: a full column when it becomes complete, and   *)
(* no block that the column sent with it does not have.                    *)
Faithful(f) ==
  /\ f.state = "complete" => f.added # None
  /\ f.added # None /\ f.state # None => f.state = f.added.state
  /\ f.added # None /\ f.block # None => f.block = f.added.section
  /\ f.boundary => f.state = None /\ f.block = None /\ ~f.removed
  /\ f.added # None /\ f.added.state = "complete" => f.added.section # Lookahead!NoSection

Timeline(s) ==
  /\ s \in Seq(Frames)
  /\ \A i \in 1..Len(s) : Faithful(s[i])
  /\ \A i, j \in 1..Len(s) : i <= j => s[i].t <= s[j].t
  /\ s # <<>> => s[1].boundary

Whole(s, i) == s[i].added # None /\ s[i].added.state = "complete"

(* What is gathered from the boundary b to m. *)
Seeds(s, b, m, gen) ==
  /\ gen.seedThrough # 0 => /\ gen.seedThrough \in b..m /\ Whole(s, gen.seedThrough)
                            /\ s[gen.seedThrough].t < FromTime
                            /\ gen.seed # None /\ gen.seed.state = "complete"
                            /\ gen.seed.section = s[gen.seedThrough].added.section
  /\ gen.seedThrough = 0 /\ Whole(s, b) => gen.seed # None /\ gen.seed.section = s[b].added.section
  /\ \A j \in b..m : Whole(s, j) => gen.seed # None /\ gen.seed.state = "complete"
  /\ gen.seed # None /\ gen.seed.state = "complete" => gen.seed.section # Lookahead!NoSection

LEMMA SeedsGrow ==
  ASSUME NEW s, Timeline(s), NEW b \in 1..Len(s), NEW m \in b + 1..Len(s), NEW g \in Gens,
         Seeds(s, b, m - 1, g), NEW h, h = Lookahead!Gather(g, s[m], m)
  PROVE  Seeds(s, b, m, h)
<1> DEFINE f == s[m]
<1>1. f \in Frames /\ Faithful(f) /\ m \in 1..Len(s)
  BY DEF Timeline
<1>2. h \in Gens
  BY <1>1, GatherIsGen
<1>3. FromTime \in Int /\ None \notin Lookahead!WireColumn
  BY PageAssumption DEF Lookahead!LookaheadAssumption, Lookahead!WireColumn
<1>4. /\ h.seed = IF f.added # None /\ (g.seed = None \/ Lookahead!BetterSeed(g.seed, f.added, f.t))
                  THEN f.added ELSE g.seed
      /\ h.seedThrough = IF Whole(s, m) /\ f.t < FromTime THEN m ELSE g.seedThrough
  BY DEF Lookahead!Gather, Whole
<1>5. Whole(s, m) => f.added.section # Lookahead!NoSection
  BY <1>1 DEF Whole, Faithful
<1> HIDE DEF f
<1>6. CASE Whole(s, m) /\ f.t < FromTime
  <2>1. h.seed = f.added /\ h.seedThrough = m /\ f = s[m]
    BY <1>4, <1>6 DEF Lookahead!BetterSeed, Whole, f
  <2> QED
    BY <1>5, <1>6, <2>1 DEF Seeds, Whole
<1>7. CASE Whole(s, m) /\ ~(f.t < FromTime)
  <2>1. h.seedThrough = g.seedThrough
    BY <1>4, <1>7
  <2>2. f.added # None /\ f.added.state = "complete"
    BY <1>7 DEF Whole, f
  <2>3. CASE g.seed = None
    <3>1. h.seed = f.added
      BY <1>4, <2>2, <2>3
    <3> QED
      BY <1>5, <1>7, <2>1, <2>2, <2>3, <3>1 DEF Seeds
  <2>4. CASE g.seed # None /\ g.seed.state # "complete"
    <3>1. h.seed = f.added
      BY <1>4, <2>2, <2>4 DEF Lookahead!BetterSeed
    <3> QED
      BY <1>5, <1>7, <2>1, <2>2, <2>4, <3>1 DEF Seeds
  <2>5. CASE g.seed # None /\ g.seed.state = "complete"
    <3>1. g.seed.section # Lookahead!NoSection
      BY <2>5 DEF Seeds
    <3>2. h.seed # None /\ h.seed.state = "complete" /\ h.seed.section = g.seed.section
      BY <1>4, <1>5, <1>7, <2>2, <2>5, <3>1 DEF Lookahead!BetterSeed, Lookahead!SameBlocks
    <3> QED
      BY <2>1, <2>5, <3>1, <3>2 DEF Seeds
  <2> QED
    BY <2>3, <2>4, <2>5
<1>8. CASE ~Whole(s, m)
  <2>1. h.seedThrough = g.seedThrough
    BY <1>4, <1>8
  <2>2. \/ h.seed = g.seed
        \/ g.seed = None /\ h.seed = f.added /\ f.added # None /\ f.added.state # "complete"
    BY <1>4, <1>8 DEF Lookahead!BetterSeed, Whole, f
  <2> QED
    BY <1>8, <2>1, <2>2 DEF Seeds
<1> QED
  BY <1>6, <1>7, <1>8

LEMMA SeedsStart ==
  ASSUME NEW s, Timeline(s), NEW b \in 1..Len(s),
         NEW h, h = Lookahead!Gather(Lookahead!NoGeneration, s[b], b)
  PROVE  Seeds(s, b, b, h)
<1>1. /\ h.seed = s[b].added
      /\ h.seedThrough = IF Whole(s, b) /\ s[b].t < FromTime THEN b ELSE 0
  BY DEF Lookahead!Gather, Whole, Lookahead!NoGeneration
<1>2. Whole(s, b) => s[b].added.section # Lookahead!NoSection
  BY DEF Whole, Faithful, Timeline
<1> QED
  BY <1>1, <1>2 DEF Seeds, Whole

LEMMA GenerationSeeds ==
  ASSUME NEW s, Timeline(s), NEW b \in 1..Len(s), s[b].boundary
  PROVE  /\ Lookahead!Generation(s, b) \in Gens
         /\ Seeds(s, b, Lookahead!End(s, b), Lookahead!Generation(s, b))
<1> DEFINE g == Lookahead!Gathered(s)
           e == Lookahead!End(s, b)
           S == {m \in b..e : Seeds(s, b, m, g[m])}
<1>1. s \in Seq(Frames)
  BY DEF Timeline
<1>2. e \in b..Len(s) /\ \A k \in b + 1..e : ~s[k].boundary
  BY <1>1, EndIsThere DEF IsEnd
<1>3. /\ g \in [0..Len(s) -> Gens]
      /\ \A i \in 1..Len(s) :
           g[i] = Lookahead!Gather(IF s[i].boundary THEN Lookahead!NoGeneration ELSE g[i - 1], s[i], i)
  BY <1>1, GatheredDo
<1> HIDE DEF g, e
<1>4. b \in S
  BY <1>2, <1>3, SeedsStart
<1>5. ASSUME NEW m \in b + 1..e, m - 1 \in S PROVE m \in S
  <2>1. m \in b + 1..Len(s) /\ m \in 1..Len(s) /\ m - 1 \in 0..Len(s) /\ m \in b..e
    BY <1>2, <1>5
  <2>2. g[m] = Lookahead!Gather(g[m - 1], s[m], m) /\ g[m - 1] \in Gens
    BY <1>2, <1>3, <1>5, <2>1
  <2>3. Seeds(s, b, m, g[m])
    BY <1>5, <2>1, <2>2, SeedsGrow
  <2> QED
    BY <2>1, <2>3
<1>6. b..e \subseteq S
  <2> HIDE DEF S
  <2>1. e \in Nat /\ b \in Nat
    BY <1>1, <1>2
  <2> QED
    BY <1>4, <1>5, <2>1, Induction
<1>7. Seeds(s, b, e, g[e]) /\ g[e] \in Gens
  BY <1>1, <1>2, <1>3, <1>6
<1> QED
  BY <1>7 DEF Lookahead!Generation, g, e

(* The frames of the film. *)
Rewriting == [replayed : Lookahead!WireColumn \cup {None}, edited : BOOLEAN, frame : Frames]

NextRewriting(s, c, i) ==
  IF Lookahead!Generation(s, i).seed = None THEN Lookahead!Unseeded(s[i])
  ELSE IF s[i].boundary THEN Lookahead!Seeded(s[i], Lookahead!Generation(s, i).seed)
  ELSE Lookahead!Rewrite(c, s[i], i, Lookahead!Generation(s, i).seedThrough)

LEMMA RewriteIsRewriting ==
  ASSUME NEW s, Timeline(s), NEW i \in 1..Len(s), NEW c \in Rewriting
  PROVE  NextRewriting(s, c, i) \in Rewriting
<1>1. s \in Seq(Frames) /\ s[i] \in Frames
  BY DEF Timeline
<1>2. Lookahead!Generation(s, i) \in Gens
  BY <1>1, EndIsThere, GatheredDo DEF Lookahead!Generation
<1> DEFINE f == s[i]
           seed == Lookahead!Generation(s, i).seed
           through == Lookahead!Generation(s, i).seedThrough
<1>3. seed \in Lookahead!WireColumn \cup {None}
  BY <1>2 DEF Gens
<1> HIDE DEF f, seed, through
<1>4. f \in Frames
  BY <1>1 DEF f
<1>5. Lookahead!Unseeded(f) \in Rewriting
  BY <1>4 DEF Lookahead!Unseeded, Rewriting
<1>6. Lookahead!Seeded(f, seed) \in Rewriting
  <2>1. [f EXCEPT !.added = seed] \in Frames
    BY <1>3, <1>4 DEF Frames
  <2> QED
    BY <1>3, <2>1 DEF Lookahead!Seeded, Rewriting
<1>7. Lookahead!Rewrite(c, f, i, through) \in Rewriting
  <2> DEFINE r == Lookahead!Rewrite(c, f, i, through)
             taken == f.added # None /\ i > through /\ f.added.state = "complete"
             passes == taken /\ (c.edited \/ ~Lookahead!SameBlocks(c.replayed, f.added))
             edits == f.block # None /\ i >= through
             a == IF passes THEN f.added ELSE None
             k == IF edits THEN f.block ELSE None
             m == f.removed /\ f.t >= ToTime
  <2>1. a \in Lookahead!WireColumn \cup {None} /\ k \in Contents \cup {None} /\ m \in BOOLEAN
    BY <1>4 DEF Frames
  <2>2. r = [replayed |-> IF taken THEN f.added ELSE c.replayed,
             edited |-> edits \/ (c.edited /\ ~taken),
             frame |-> [f EXCEPT !.added = a, !.block = k, !.removed = m]]
    BY DEF Lookahead!Rewrite
  <2>3. (IF taken THEN f.added ELSE c.replayed) \in Lookahead!WireColumn \cup {None}
    BY <1>4 DEF Frames, Rewriting
  <2>4. (edits \/ (c.edited /\ ~taken)) \in BOOLEAN
    OBVIOUS
  <2> HIDE DEF a, k, m
  <2>5. [f EXCEPT !.added = a, !.block = k, !.removed = m] \in Frames
    BY <1>4, <2>1 DEF Frames
  <2> HIDE DEF taken, edits
  <2> QED
    BY <2>2, <2>3, <2>4, <2>5 DEF Rewriting
<1> QED
  BY <1>5, <1>6, <1>7 DEF NextRewriting, f, seed, through

LEMMA RewrittenDo ==
  ASSUME NEW s, Timeline(s)
  PROVE  /\ Lookahead!Rewritten(s) \in [1..Len(s) -> Rewriting]
         /\ \A i \in 1..Len(s) :
              Lookahead!Rewritten(s)[i] = NextRewriting(s, Lookahead!Rewritten(s)[i - 1], i)
<1> DEFINE n == Len(s)
           base == Lookahead!Unseeded(Lookahead!FrameAt(0))
           step == [i \in 1..n |-> [c \in Rewriting |-> NextRewriting(s, c, i)]]
           g == Lookahead!Rewritten(s)
<1>0. s \in Seq(Frames) /\ (n # 0 => s[1].boundary)
  BY DEF Timeline
<1>1. n \in Nat /\ base \in Rewriting
  <2>1. Lookahead!FrameAt(0) \in Frames
    BY DEF Lookahead!FrameAt, Frames
  <2> QED
    BY <1>0, <2>1 DEF Lookahead!Unseeded, Rewriting
<1>2. step \in [1..n -> [Rewriting -> Rewriting]]
  BY RewriteIsRewriting
<1>3. ASSUME NEW i \in 1..n, NEW c \in Rewriting PROVE step[i][c] = NextRewriting(s, c, i)
  OBVIOUS
<1>4. PICK f : Iterates(f, n, Rewriting, base, step)
  <2> HIDE DEF step, n, base
  <2> QED
    BY <1>1, <1>2, Recursion
<1>5. ASSUME NEW i \in 1..n PROVE f[i] = NextRewriting(s, f[i - 1], i) /\ f[i] \in Rewriting
  <2> HIDE DEF step, n, base
  <2>1. i - 1 \in 0..n /\ i \in 0..n
    BY <1>1
  <2> QED
    BY <1>3, <1>4, <2>1 DEF Iterates
<1> DEFINE h == [i \in 1..n |-> f[i]]
<1>6. ASSUME NEW i \in 1..n PROVE h[i] = NextRewriting(s, h[i - 1], i)
  <2>1. CASE i = 1
    <3>1. s[i].boundary
      BY <1>0, <2>1
    <3> QED
      BY <1>5, <2>1, <3>1 DEF NextRewriting
  <2>2. CASE i # 1
    <3>1. i - 1 \in 1..n /\ h[i - 1] = f[i - 1] /\ h[i] = f[i]
      BY <1>0, <2>2
    <3> QED
      BY <1>5, <3>1
  <2> QED
    BY <2>1, <2>2
<1>7. h = [i \in 1..n |-> NextRewriting(s, h[i - 1], i)]
  <2>1. h = [i \in 1..n |-> h[i]]
    OBVIOUS
  <2> HIDE DEF h, n
  <2> QED
    BY <1>6, <2>1
<1>8. g = [i \in 1..n |-> NextRewriting(s, g[i - 1], i)]
  <2> HIDE DEF h
  <2> QED
    BY <1>7 DEF Lookahead!Rewritten, NextRewriting
<1>9. \A i \in 1..n : g[i] = NextRewriting(s, g[i - 1], i)
  <2> HIDE DEF g, n
  <2> QED
    BY <1>8
<1>10. 1..n \subseteq {i \in 1..n : g[i] \in Rewriting}
  <2> DEFINE S == {i \in 1..n : g[i] \in Rewriting}
  <2> HIDE DEF g, n
  <2>1. CASE n = 0
    BY <2>1
  <2>2. CASE n # 0
    <3>1. 1 \in S
      <4>1. 1 \in 1..n /\ s[1].boundary
        BY <1>0, <1>1, <2>2
      <4>2. NextRewriting(s, g[0], 1) = NextRewriting(s, base, 1)
        BY <4>1 DEF NextRewriting
      <4>3. NextRewriting(s, base, 1) \in Rewriting
        BY <1>1, <4>1, RewriteIsRewriting DEF n
      <4> QED
        BY <1>9, <4>1, <4>2, <4>3
    <3>2. ASSUME NEW i \in 1 + 1..n, i - 1 \in S PROVE i \in S
      <4>1. i \in 1..n /\ g[i - 1] \in Rewriting
        BY <1>1, <3>2
      <4> QED
        BY <1>9, <4>1, RewriteIsRewriting DEF n
    <3>3. 1..n \subseteq S
      <4> HIDE DEF S
      <4> QED
        BY <1>1, <3>1, <3>2, Induction
    <3> QED
      BY <3>3
  <2> QED
    BY <2>1, <2>2
<1>11. g \in [1..n -> Rewriting]
  <2> HIDE DEF g, n
  <2> QED
    BY <1>8, <1>10
<1> QED
  BY <1>9, <1>11

(* The film has the frames of the take, at the times of the take. *)
LEMMA FilmIs ==
  ASSUME NEW s, Timeline(s), NEW film, film = Lookahead!RewriteTimelineForLookahead(s)
  PROVE  /\ film \in Seq(Frames) /\ Len(film) = Len(s)
         /\ \A i \in 1..Len(s) : film[i] = Lookahead!Rewritten(s)[i].frame /\ film[i].t = s[i].t
<1> DEFINE n == Len(s)
           a == Lookahead!Rewritten(s)
<1>1. s \in Seq(Frames) /\ n \in Nat /\ DOMAIN s = 1..n /\ \A i \in 1..n : s[i] \in Frames
  BY DEF Timeline
<1>2. a \in [1..n -> Rewriting] /\ \A i \in 1..n : a[i] = NextRewriting(s, a[i - 1], i)
  BY RewrittenDo
<1>3. film = [i \in 1..n |-> a[i].frame]
  BY <1>1 DEF Lookahead!RewriteTimelineForLookahead
<1> HIDE DEF a, n
<1>4. film \in [1..n -> Frames]
  BY <1>2, <1>3 DEF Rewriting
<1>5. film \in Seq(Frames) /\ Len(film) = n
  BY <1>1, <1>4
<1>6. ASSUME NEW i \in 1..n PROVE a[i].frame.t = s[i].t
  <2>1. a[i] = NextRewriting(s, a[i - 1], i) /\ s[i] \in Frames
    BY <1>1, <1>2
  <2>2. Lookahead!Unseeded(s[i]).frame.t = s[i].t
    BY DEF Lookahead!Unseeded
  <2>3. ASSUME NEW x PROVE Lookahead!Seeded(s[i], x).frame.t = s[i].t
    BY <2>1 DEF Lookahead!Seeded, Frames
  <2>4. ASSUME NEW c, NEW x PROVE Lookahead!Rewrite(c, s[i], i, x).frame.t = s[i].t
    BY <2>1 DEF Lookahead!Rewrite, Frames
  <2> QED
    BY <2>1, <2>2, <2>3, <2>4 DEF NextRewriting
<1> QED
  BY <1>3, <1>5, <1>6 DEF a, n

(* What every frame of a generation knows of its seed. *)
Known(s, i, g) ==
  /\ g \in Gens
  /\ g.seedThrough # 0 => /\ g.seedThrough \in 1..Len(s) /\ Whole(s, g.seedThrough)
                          /\ s[g.seedThrough].t < FromTime
                          /\ g.seed # None /\ g.seed.state = "complete"
                          /\ g.seed.section = s[g.seedThrough].added.section
  /\ s[i].boundary => /\ g.seedThrough # 0 => i <= g.seedThrough
                      /\ g.seedThrough = 0 /\ Whole(s, i)
                           => g.seed # None /\ g.seed.section = s[i].added.section
  /\ Whole(s, i) => g.seed # None /\ g.seed.state = "complete"
  /\ g.seed # None /\ g.seed.state = "complete" => g.seed.section # Lookahead!NoSection

(* Of the generation that begins at b. *)
Within(s, b, i) ==
  /\ b \in 1..i /\ s[b].boundary /\ \A k \in b + 1..i : ~s[k].boundary
  /\ Lookahead!End(s, b) = Lookahead!End(s, i)

LEMMA BeginningThere ==
  ASSUME NEW s, Timeline(s), NEW i \in 1..Len(s)
  PROVE  \E b \in 1..Len(s) : Within(s, b, i)
<1> DEFINE n == Len(s)
           S == {k \in 1..n : \E b \in 1..n : Within(s, b, k)}
<1>1. s \in Seq(Frames) /\ n \in Nat /\ 1 \in 1..n /\ s[1].boundary
  BY DEF Timeline
<1>2. 1 \in S
  BY <1>1 DEF Within
<1>3. ASSUME NEW k \in 1 + 1..n, k - 1 \in S PROVE k \in S
  <2>1. k \in 1..n /\ k - 1 \in 1..n
    BY <1>1, <1>3
  <2>2. CASE s[k].boundary
    <3>1. Within(s, k, k)
      BY <2>1, <2>2 DEF Within
    <3> QED
      BY <2>1, <3>1
  <2>3. CASE ~s[k].boundary
    <3>1. PICK b \in 1..n : Within(s, b, k - 1)
      BY <1>3
    <3>2. Lookahead!End(s, k - 1) = Lookahead!End(s, k)
      BY <1>1, <1>3, <2>3, SameEnd
    <3>3. Within(s, b, k)
      BY <2>1, <2>3, <3>1, <3>2 DEF Within
    <3> QED
      BY <2>1, <3>3
  <2> QED
    BY <2>2, <2>3
<1>4. 1..n \subseteq S
  <2> HIDE DEF S, n
  <2> QED
    BY <1>1, <1>2, <1>3, Induction
<1> QED
  BY <1>4

LEMMA SeedKnown ==
  ASSUME NEW s, Timeline(s), NEW i \in 1..Len(s)
  PROVE  Known(s, i, Lookahead!Generation(s, i))
<1> DEFINE e == Lookahead!End(s, i)
           g == Lookahead!Generation(s, i)
<1>1. s \in Seq(Frames) /\ Len(s) \in Nat
  BY DEF Timeline
<1>2. PICK b \in 1..Len(s) : Within(s, b, i)
  BY BeginningThere
<1>3. e \in i..Len(s)
  BY <1>1, EndIsThere
<1>4. g \in Gens /\ Seeds(s, b, e, g)
  BY <1>2, GenerationSeeds DEF Within, Lookahead!Generation
<1> HIDE DEF e, g
<1>5. i \in b..e /\ b..e \subseteq 1..Len(s)
  BY <1>1, <1>2, <1>3 DEF Within
<1>6. s[i].boundary => b = i
  BY <1>2 DEF Within
<1>7. g.seedThrough # 0 => /\ g.seedThrough \in 1..Len(s) /\ Whole(s, g.seedThrough)
                           /\ s[g.seedThrough].t < FromTime
                           /\ g.seed # None /\ g.seed.state = "complete"
                           /\ g.seed.section = s[g.seedThrough].added.section
  BY <1>4, <1>5 DEF Seeds
<1>8. s[i].boundary => /\ g.seedThrough # 0 => i <= g.seedThrough
                       /\ g.seedThrough = 0 /\ Whole(s, i)
                            => g.seed # None /\ g.seed.section = s[i].added.section
  BY <1>3, <1>4, <1>6 DEF Seeds
<1>9. Whole(s, i) => g.seed # None /\ g.seed.state = "complete"
  BY <1>4, <1>5 DEF Seeds
<1>10. g.seed # None /\ g.seed.state = "complete" => g.seed.section # Lookahead!NoSection
  BY <1>4 DEF Seeds
<1>11. Known(s, i, g)
  BY <1>4, <1>7, <1>8, <1>9, <1>10 DEF Known
<1> QED
  BY <1>11 DEF g

(* What Rewrite decides of a frame. *)
Replays(f, i, through) == f.added # None /\ i > through /\ f.added.state = "complete"
Passes(c, f, i, through) ==
  Replays(f, i, through) /\ (c.edited \/ ~Lookahead!SameBlocks(c.replayed, f.added))
Edits(f, i, through) == f.block # None /\ i >= through

ShowsBlocks(c, f, i, through, a, shown, next) ==
  /\ a.replayed = IF Replays(f, i, through) THEN f.added ELSE c.replayed
  /\ a.edited <=> Edits(f, i, through) \/ (c.edited /\ ~Replays(f, i, through))
  /\ next \in Lookahead!HeldColumn
  /\ next.section = IF Edits(f, i, through) THEN f.block
                    ELSE IF Passes(c, f, i, through) THEN f.added.section
                    ELSE shown.section

LEMMA NotAbsent ==
  /\ \A c \in Lookahead!HeldColumn : c # None
  /\ \A c \in Lookahead!WireColumn : c # None /\ c \in Lookahead!HeldColumn
  BY PageAssumption DEF Lookahead!LookaheadAssumption, Lookahead!WireColumn

(* A frame of a generation with a seed, before the end of the window, sets *)
(* the blocks or leaves them, and never takes the column away.             *)
LEMMA RewrittenFrame ==
  ASSUME NEW c \in Rewriting, NEW f \in Frames, NEW i \in Nat, NEW through \in Nat,
         ~f.boundary, f.t < ToTime, NEW shown \in Lookahead!HeldColumn,
         NEW a, a = Lookahead!Rewrite(c, f, i, through),
         NEW next, next = Lookahead!Applied(shown, a.frame)
  PROVE  ShowsBlocks(c, f, i, through, a, shown, next)
<1> DEFINE ad == IF Passes(c, f, i, through) THEN f.added ELSE None
           bl == IF Edits(f, i, through) THEN f.block ELSE None
           rm == f.removed /\ f.t >= ToTime
           fr == [f EXCEPT !.added = ad, !.block = bl, !.removed = rm]
           rp == IF Replays(f, i, through) THEN f.added ELSE c.replayed
           ed == Edits(f, i, through) \/ (c.edited /\ ~Replays(f, i, through))
<1>1. a = [replayed |-> rp, edited |-> ed, frame |-> fr]
  BY DEF Lookahead!Rewrite, Replays, Passes, Edits
<1>2. f.t \in Int /\ ToTime \in Int /\ f.boundary \in BOOLEAN /\ f.removed \in BOOLEAN
  BY PageAssumption DEF Lookahead!LookaheadAssumption, Frames
<1>3. rm = FALSE
  BY <1>2
<1>4. ad \in Lookahead!WireColumn \cup {None} /\ bl \in Contents \cup {None}
  BY DEF Frames
<1>5. f.added \in Lookahead!WireColumn \cup {None} /\ f.block \in Contents \cup {None}
      /\ f.state \in Lookahead!Receipt \cup {None}
  BY DEF Frames
<1>6. Replays(f, i, through) => f.added # None
  BY DEF Replays
<1>7. Passes(c, f, i, through) => f.added # None
  BY DEF Passes, Replays
<1>8. Edits(f, i, through) => f.block # None
  BY DEF Edits
<1> HIDE DEF rp, ed
<1>9. a.replayed = rp /\ (a.edited <=> ed) /\ a.frame = fr
  BY <1>1
<1> HIDE DEF rm, ad, bl
<1>10. fr.added = ad /\ fr.block = bl /\ fr.removed = rm
  BY DEF Frames
<1>11. fr.boundary = f.boundary /\ fr.state = f.state
  BY DEF Frames
<1> HIDE DEF fr
<1> DEFINE put == IF ad # None THEN ad ELSE shown
           stated == IF put = None \/ f.state = None THEN put ELSE [put EXCEPT !.state = f.state]
<1>12. next = IF stated = None \/ bl = None THEN stated ELSE [stated EXCEPT !.section = bl]
  BY <1>2, <1>3, <1>9, <1>10, <1>11 DEF Lookahead!Applied
<1>13. put \in Lookahead!HeldColumn /\ put # None
  BY <1>4, NotAbsent
<1>14. put.section = IF Passes(c, f, i, through) THEN f.added.section ELSE shown.section
  BY <1>7, NotAbsent DEF ad
<1> HIDE DEF put
<1>15. stated \in Lookahead!HeldColumn /\ stated.section = put.section
  BY <1>5, <1>13 DEF Lookahead!HeldColumn
<1>16. stated # None
  BY <1>15, NotAbsent
<1> HIDE DEF stated
<1>17. next \in Lookahead!HeldColumn
  BY <1>4, <1>12, <1>15, <1>16 DEF Lookahead!HeldColumn
<1>18. next.section = IF bl = None THEN put.section ELSE bl
  BY <1>12, <1>15, <1>16 DEF Lookahead!HeldColumn
<1>19. next.section = IF Edits(f, i, through) THEN f.block ELSE put.section
  BY <1>8, <1>18 DEF bl
<1> QED
  BY <1>9, <1>14, <1>17, <1>19 DEF rp, ed, ShowsBlocks

(* What a frame makes of the column of the take. *)
LEMMA RealFrame ==
  ASSUME NEW f \in Frames, Faithful(f), NEW c \in Lookahead!HeldColumn \cup {None},
         NEW real, real = Lookahead!Applied(c, f), real # None, real.state = "complete"
  PROVE  IF f.added # None
         THEN f.added.state = "complete" /\ real.section = f.added.section
         ELSE /\ ~f.boundary /\ c # None /\ c.state = "complete"
              /\ real.section = IF f.block # None THEN f.block ELSE c.section
<1> DEFINE put == IF f.added # None THEN f.added
                  ELSE IF f.boundary \/ f.removed THEN None ELSE c
           stated == IF put = None \/ f.state = None THEN put
                     ELSE [put EXCEPT !.state = f.state]
<1>1. real = IF stated = None \/ f.block = None THEN stated
             ELSE [stated EXCEPT !.section = f.block]
  BY DEF Lookahead!Applied
<1>2. f.added \in Lookahead!WireColumn \cup {None} /\ f.block \in Contents \cup {None}
      /\ f.state \in Lookahead!Receipt \cup {None}
  BY DEF Frames
<1>3. put \in Lookahead!HeldColumn \cup {None}
  BY <1>2, NotAbsent
<1>4. /\ put # None => f.added # None \/ (~f.boundary /\ ~f.removed /\ c # None)
      /\ f.added # None => put = f.added
      /\ f.added = None /\ put # None => put = c
  OBVIOUS
<1> HIDE DEF put
<1>5. put = None => real = None
  BY <1>1
<1>6. put # None /\ put \in Lookahead!HeldColumn
  BY <1>3, <1>5
<1>7. stated \in Lookahead!HeldColumn /\ stated.section = put.section
      /\ stated.state = IF f.state = None THEN put.state ELSE f.state
  BY <1>2, <1>6 DEF Lookahead!HeldColumn
<1> HIDE DEF stated
<1>8. stated # None
  BY <1>7, NotAbsent
<1>9. real.section = IF f.block = None THEN put.section ELSE f.block
  BY <1>1, <1>2, <1>7, <1>8 DEF Lookahead!HeldColumn
<1>10. real.state = stated.state
  BY <1>1, <1>2, <1>7, <1>8 DEF Lookahead!HeldColumn
<1>11. "complete" = IF f.state = None THEN put.state ELSE f.state
  BY <1>7, <1>10
<1>12. CASE f.added # None
  <2>1. put.state = "complete"
    BY <1>4, <1>11, <1>12 DEF Faithful
  <2> QED
    BY <1>4, <1>9, <1>12, <2>1 DEF Faithful
<1>13. CASE f.added = None
  <2>1. f.state = None
    BY <1>11, <1>13 DEF Faithful
  <2> QED
    BY <1>4, <1>6, <1>9, <1>11, <1>13, <2>1
<1> QED
  BY <1>12, <1>13

(* How the film stands to the take after frame i, in the window. *)
Follows(i, g, a, real, shown) ==
  IF g.seed = None THEN shown = real
  ELSE /\ shown \in Lookahead!HeldColumn
       /\ i < g.seedThrough => ~a.edited /\ a.replayed = g.seed
       /\ ~a.edited => shown.section = a.replayed.section
       /\ \/ a.replayed = g.seed
          \/ a.replayed.state = "complete" /\ a.replayed.section # Lookahead!NoSection
       /\ i >= g.seedThrough /\ real # None /\ real.state = "complete"
            => shown.section = real.section

LEMMA FollowsFromBoundary ==
  ASSUME NEW s, Timeline(s), NEW i \in 1..Len(s), s[i].boundary,
         NEW g, Known(s, i, g),
         NEW c \in Lookahead!HeldColumn \cup {None}, NEW d \in Lookahead!HeldColumn \cup {None},
         NEW a, a = IF g.seed = None THEN Lookahead!Unseeded(s[i])
                    ELSE Lookahead!Seeded(s[i], g.seed)
  PROVE  Follows(i, g, a, Lookahead!Applied(c, s[i]), Lookahead!Applied(d, a.frame))
<1> DEFINE f == s[i]
<1>1. f \in Frames /\ Faithful(f) /\ f.boundary
  BY DEF Timeline
<1>2. g \in Gens
  BY DEF Known
<1>3. f.state = None /\ f.block = None
  BY <1>1 DEF Faithful
<1>4. Lookahead!Applied(c, f) = f.added
  BY <1>1, <1>3 DEF Lookahead!Applied
<1>5. CASE g.seed = None
  <2>1. a.frame = f
    BY <1>5 DEF Lookahead!Unseeded
  <2>2. Lookahead!Applied(d, f) = f.added
    BY <1>1, <1>3 DEF Lookahead!Applied
  <2> QED
    BY <1>4, <1>5, <2>1, <2>2 DEF Follows
<1>6. CASE g.seed # None
  <2>1. a = Lookahead!Seeded(f, g.seed)
    BY <1>6
  <2>2. a.replayed = g.seed /\ ~a.edited /\ a.frame = [f EXCEPT !.added = g.seed]
    BY <2>1 DEF Lookahead!Seeded
  <2>3. g.seed \in Lookahead!HeldColumn
    BY <1>2, <1>6, NotAbsent DEF Gens
  <2>4. /\ a.frame.added = g.seed /\ a.frame.state = None /\ a.frame.block = None
    BY <1>1, <1>3, <2>2 DEF Frames
  <2>5. Lookahead!Applied(d, a.frame) = g.seed
    BY <1>6, <2>4 DEF Lookahead!Applied
  <2>6. ASSUME i >= g.seedThrough, f.added # None, f.added.state = "complete"
        PROVE  g.seed.section = f.added.section
    <3>1. Whole(s, i) /\ g.seedThrough \in Nat /\ i \in Nat
      BY <1>2, <2>6 DEF Whole, Gens, Timeline
    <3>2. CASE g.seedThrough = 0
      BY <1>1, <3>1, <3>2 DEF Known
    <3>3. CASE g.seedThrough # 0
      <4>1. i = g.seedThrough
        BY <1>1, <2>6, <3>1, <3>3 DEF Known
      <4> QED
        BY <3>3, <4>1 DEF Known
    <3> QED
      BY <3>2, <3>3
  <2> HIDE DEF f
  <2> QED
    BY <1>4, <1>6, <2>2, <2>3, <2>5, <2>6 DEF Follows, f
<1> QED
  BY <1>5, <1>6

LEMMA FollowsOn ==
  ASSUME NEW s, Timeline(s), NEW i \in 2..Len(s), ~s[i].boundary, s[i].t < ToTime,
         NEW g, Known(s, i, g), NEW c \in Rewriting,
         NEW a, a = IF g.seed = None THEN Lookahead!Unseeded(s[i])
                    ELSE Lookahead!Rewrite(c, s[i], i, g.seedThrough),
         NEW real \in Lookahead!HeldColumn \cup {None}, NEW shown \in Lookahead!HeldColumn \cup {None},
         Follows(i - 1, g, c, real, shown)
  PROVE  Follows(i, g, a, Lookahead!Applied(real, s[i]), Lookahead!Applied(shown, a.frame))
<1> DEFINE f == s[i]
           through == g.seedThrough
           now == Lookahead!Applied(real, f)
           next == Lookahead!Applied(shown, a.frame)
<1>1. f \in Frames /\ Faithful(f) /\ ~f.boundary /\ i \in Nat /\ i - 1 \in Nat
      /\ f.t < ToTime
  BY DEF Timeline
<1>2. g \in Gens /\ through \in Nat
  BY DEF Known, Gens
<1>3. CASE g.seed = None
  <2>1. a.frame = f
    BY <1>3 DEF Lookahead!Unseeded
  <2>2. shown = real
    BY <1>3 DEF Follows
  <2> QED
    BY <1>3, <2>1, <2>2 DEF Follows
<1>4. CASE g.seed # None
  <2>1. /\ shown \in Lookahead!HeldColumn
        /\ i - 1 < through => ~c.edited /\ c.replayed = g.seed
        /\ ~c.edited => shown.section = c.replayed.section
        /\ \/ c.replayed = g.seed
           \/ c.replayed.state = "complete" /\ c.replayed.section # Lookahead!NoSection
        /\ i - 1 >= through /\ real # None /\ real.state = "complete"
             => shown.section = real.section
    BY <1>4 DEF Follows
  <2>2. a = Lookahead!Rewrite(c, f, i, through)
    BY <1>4
  <2> HIDE DEF f, through
  <2> DEFINE taken == Replays(f, i, through)
             passes == Passes(c, f, i, through)
             edits == Edits(f, i, through)
  <2>3. /\ a.replayed = IF taken THEN f.added ELSE c.replayed
        /\ a.edited <=> edits \/ (c.edited /\ ~taken)
        /\ next \in Lookahead!HeldColumn
        /\ next.section = IF edits THEN f.block
                          ELSE IF passes THEN f.added.section ELSE shown.section
    <3>1. next = Lookahead!Applied(shown, a.frame) /\ ~f.boundary /\ f.t < ToTime
      BY <1>1
    <3> HIDE DEF next
    <3>2. ShowsBlocks(c, f, i, through, a, shown, next)
      BY <1>1, <1>2, <2>1, <2>2, <3>1, RewrittenFrame
    <3> QED
      BY <3>2 DEF ShowsBlocks
  <2>4. taken <=> f.added # None /\ i > through /\ f.added.state = "complete"
    BY DEF Replays
  <2>5. passes <=> taken /\ (c.edited \/ ~Lookahead!SameBlocks(c.replayed, f.added))
    BY DEF Passes
  <2>6. edits <=> f.block # None /\ i >= through
    BY DEF Edits
  <2> HIDE DEF taken, passes, edits, next
  <2>7. taken => f.added.section # Lookahead!NoSection
    BY <1>1, <2>4 DEF Faithful
  <2>8. taken => g.seed.state = "complete" /\ g.seed.section # Lookahead!NoSection
    BY <1>4, <2>4 DEF Known, Whole, f
  (* A payload that is not let through has the blocks that are shown. *)
  <2>9. taken /\ ~passes => ~c.edited /\ shown.section = f.added.section
    <3>1. taken /\ ~passes => ~c.edited /\ Lookahead!SameBlocks(c.replayed, f.added)
      BY <2>5
    <3>2. taken => c.replayed.section # Lookahead!NoSection
      BY <2>1, <2>8
    <3> QED
      BY <2>1, <2>7, <3>1, <3>2 DEF Lookahead!SameBlocks
  <2>10. i < through => ~a.edited /\ a.replayed = g.seed
    <3>1. i < through => ~taken /\ ~edits /\ i - 1 < through
      BY <1>1, <1>2, <2>4, <2>6
    <3> QED
      BY <2>1, <2>3, <3>1
  <2>11. ~a.edited => next.section = a.replayed.section
    <3>1. CASE taken
      BY <2>3, <2>9, <3>1
    <3>2. CASE ~taken
      BY <2>1, <2>3, <2>5, <3>2
    <3> QED
      BY <3>1, <3>2
  <2>12. \/ a.replayed = g.seed
         \/ a.replayed.state = "complete" /\ a.replayed.section # Lookahead!NoSection
    BY <2>1, <2>3, <2>4, <2>7
  <2>13. ASSUME i >= through, now # None, now.state = "complete"
         PROVE  next.section = now.section
    <3>1. IF f.added # None
          THEN f.added.state = "complete" /\ now.section = f.added.section
          ELSE /\ real # None /\ real.state = "complete"
               /\ now.section = IF f.block # None THEN f.block ELSE real.section
      BY <1>1, <2>13, RealFrame
    <3> HIDE DEF now
    <3>2. CASE edits
      <4>1. f.block # None /\ (f.added # None => f.block = f.added.section)
        BY <1>1, <2>6, <3>2 DEF Faithful
      <4> QED
        BY <2>3, <3>1, <3>2, <4>1
    <3>3. CASE ~edits /\ taken
      BY <2>3, <2>4, <2>9, <3>1, <3>3
    <3>4. CASE ~edits /\ ~taken /\ f.added # None
      <4>1. i = through /\ through # 0
        BY <1>1, <1>2, <2>4, <2>13, <3>1, <3>4
      <4>2. g.seed.section = f.added.section
        BY <4>1 DEF Known, f, through
      <4>3. shown.section = g.seed.section
        BY <1>1, <1>2, <2>1, <4>1
      <4> QED
        BY <2>3, <2>5, <3>1, <3>4, <4>2, <4>3
    <3>5. CASE ~edits /\ f.added = None
      <4>1. f.block = None
        BY <2>6, <2>13, <3>5
      <4>2. i # through \/ through = 0
        BY <3>5 DEF Known, Whole, f, through
      <4>3. i - 1 >= through
        BY <1>1, <1>2, <2>13, <4>2
      <4> QED
        BY <2>1, <2>3, <2>4, <2>5, <3>1, <3>5, <4>1, <4>3
    <3> QED
      BY <3>2, <3>3, <3>4, <3>5
  <2>14. Follows(i, g, a, now, next)
    BY <1>4, <2>3, <2>10, <2>11, <2>12, <2>13 DEF Follows, through
  <2> QED
    BY <2>14 DEF next, now, f
<1> QED
  BY <1>3, <1>4

LEMMA TimesOf ==
  ASSUME NEW s \in Seq(Frames)
  PROVE  Len(s) \in Nat /\ \A i \in 1..Len(s) : s[i].t \in Int
<1>1. Len(s) \in Nat /\ \A i \in 1..Len(s) : s[i] \in Frames
  OBVIOUS
<1> QED
  BY <1>1 DEF Frames

FollowsAt(s, film, i) ==
  Follows(i, Lookahead!Generation(s, i), Lookahead!Rewritten(s)[i],
          Lookahead!Columns(s)[i], Lookahead!Columns(film)[i])

LEMMA FilmFollows ==
  ASSUME NEW s, Timeline(s), NEW film, film = Lookahead!RewriteTimelineForLookahead(s),
         NEW m \in 1..Len(s), s[m].t < ToTime
  PROVE  FollowsAt(s, film, m)
<1> DEFINE n == Len(s)
           a == Lookahead!Rewritten(s)
           real == Lookahead!Columns(s)
           shown == Lookahead!Columns(film)
           gen(i) == Lookahead!Generation(s, i)
           S == {i \in 1..m : FollowsAt(s, film, i)}
<1>1. s \in Seq(Frames) /\ n \in Nat /\ m \in 1..n /\ s[1].boundary
  BY DEF Timeline
<1>2. /\ film \in Seq(Frames) /\ Len(film) = n
      /\ \A i \in 1..n : film[i] = a[i].frame
  BY FilmIs
<1>3. a \in [1..n -> Rewriting] /\ \A i \in 1..n : a[i] = NextRewriting(s, a[i - 1], i)
  BY RewrittenDo
<1>4. /\ real \in [0..n -> Lookahead!HeldColumn \cup {None}]
      /\ \A i \in 1..n : real[i] = Lookahead!Applied(real[i - 1], s[i])
  BY <1>1, ColumnsDo
<1>5. /\ shown \in [0..n -> Lookahead!HeldColumn \cup {None}]
      /\ \A i \in 1..n : shown[i] = Lookahead!Applied(shown[i - 1], film[i])
  BY <1>2, ColumnsDo
<1>6. \A i \in 1..n : Known(s, i, gen(i))
  BY SeedKnown
<1>7. \A i \in 1..m : s[i].t < ToTime
  <2>0. ToTime \in Int
    BY PageAssumption DEF Lookahead!LookaheadAssumption
  <2>1. \A i \in 1..n : s[i].t \in Int
    BY <1>1, TimesOf
  <2>2. \A i \in 1..m : i \in 1..n /\ s[i].t <= s[m].t
    BY <1>1 DEF Timeline
  <2> QED
    BY <1>1, <2>0, <2>1, <2>2
<1>8. \A i \in 2..n : ~s[i].boundary => gen(i - 1) = gen(i)
  BY <1>1, SameEnd DEF Lookahead!Generation
<1> HIDE DEF n, a, real, shown, gen
<1>9. \A i \in 1..n : FollowsAt(s, film, i) <=> Follows(i, gen(i), a[i], real[i], shown[i])
  BY DEF FollowsAt, a, real, shown, gen
<1>10. ASSUME NEW i \in 1..m, s[i].boundary PROVE i \in S
  <2>1. i \in 1..n /\ i \in 1..Len(s) /\ i - 1 \in 0..n
    BY <1>1 DEF n
  <2>2. a[i] = IF gen(i).seed = None THEN Lookahead!Unseeded(s[i])
               ELSE Lookahead!Seeded(s[i], gen(i).seed)
    BY <1>3, <1>10, <2>1 DEF NextRewriting, gen
  <2>3. Follows(i, gen(i), a[i], Lookahead!Applied(real[i - 1], s[i]),
                Lookahead!Applied(shown[i - 1], a[i].frame))
    BY <1>4, <1>5, <1>6, <1>10, <2>1, <2>2, FollowsFromBoundary
  <2>4. Follows(i, gen(i), a[i], real[i], shown[i])
    BY <1>2, <1>4, <1>5, <2>1, <2>3
  <2> QED
    BY <1>9, <2>1, <2>4
<1>11. 1 \in S
  BY <1>1, <1>10
<1>12. ASSUME NEW i \in 1 + 1..m, i - 1 \in S PROVE i \in S
  <2>1. i \in 1..n /\ i \in 2..Len(s) /\ i - 1 \in 0..n /\ i - 1 \in 1..n /\ i \in 1..m
    BY <1>1 DEF n
  <2>2. CASE s[i].boundary
    BY <1>10, <2>1, <2>2
  <2>3. CASE ~s[i].boundary
    <3>1. gen(i - 1) = gen(i)
      BY <1>8, <2>1, <2>3 DEF n
    <3>2. Follows(i - 1, gen(i), a[i - 1], real[i - 1], shown[i - 1])
      BY <1>9, <1>12, <2>1, <3>1
    <3>3. a[i] = IF gen(i).seed = None THEN Lookahead!Unseeded(s[i])
                 ELSE Lookahead!Rewrite(a[i - 1], s[i], i, gen(i).seedThrough)
      BY <1>3, <2>1, <2>3 DEF NextRewriting, gen
    <3>4. a[i - 1] \in Rewriting /\ Known(s, i, gen(i)) /\ s[i].t < ToTime
      BY <1>3, <1>6, <1>7, <2>1
    <3>5. real[i - 1] \in Lookahead!HeldColumn \cup {None} /\ shown[i - 1] \in Lookahead!HeldColumn \cup {None}
      BY <1>4, <1>5, <2>1
    <3>6. Follows(i, gen(i), a[i], Lookahead!Applied(real[i - 1], s[i]),
                Lookahead!Applied(shown[i - 1], a[i].frame))
      BY <2>1, <2>3, <3>2, <3>3, <3>4, <3>5, FollowsOn
    <3>7. Follows(i, gen(i), a[i], real[i], shown[i])
      BY <1>2, <1>4, <1>5, <2>1, <3>6
    <3> QED
      BY <1>9, <2>1, <3>7
  <2> QED
    BY <2>2, <2>3
<1>13. 1..m \subseteq S
  <2>1. m \in Nat
    BY <1>1
  <2> HIDE DEF S
  <2> QED
    BY <1>11, <1>12, <2>1, Induction
<1> QED
  BY <1>1, <1>13

(* The frames that are due at a time. *)
Due(s, t, n) ==
  /\ \A i \in 1..n : s[i].t <= t
  /\ n = Len(s) \/ s[n + 1].t > t

LEMMA DueIsThere ==
  ASSUME NEW s \in Seq(Frames), NEW t \in Int
  PROVE  \E n \in 0..Len(s) : Due(s, t, n)
<1> DEFINE l == Len(s)
           T == {n \in Nat : n \in 0..l /\ (n = l \/ s[n + 1].t > t)}
<1>1. l \in Nat /\ l \in T /\ \A i \in 1..l : s[i].t \in Int
  BY TimesOf
<1>2. PICK n \in T : \A k \in T : n <= k
  <2> HIDE DEF T
  <2>1. T \in SUBSET Nat
    BY DEF T
  <2> QED
    BY <1>1, <2>1, SmallestThere
<1>3. n \in Nat
  BY <1>2
<1>4. ASSUME NEW i \in 1..n PROVE s[i].t <= t
  <2>1. i - 1 \in Nat /\ i - 1 \in 0..l /\ (i - 1) + 1 = i /\ i - 1 < n /\ i \in 1..l
    BY <1>1, <1>2
  <2>2. i - 1 \notin T
    <3> HIDE DEF T
    <3> QED
      BY <1>2, <1>3, <2>1
  <2>3. ~(s[i].t > t)
    BY <2>1, <2>2
  <2> QED
    BY <1>1, <2>1, <2>3
<1>5. n \in 0..l /\ Due(s, t, n)
  BY <1>2, <1>4 DEF Due
<1> QED
  BY <1>5

LEMMA OneDue ==
  ASSUME NEW s \in Seq(Frames), NEW t \in Int, NEW j \in 0..Len(s), NEW k \in 0..Len(s),
         Due(s, t, j), Due(s, t, k)
  PROVE  j = k
<1>0. \A i \in 1..Len(s) : s[i].t \in Int
  BY TimesOf
<1>1. ASSUME NEW a \in 0..Len(s), NEW b \in 0..Len(s), Due(s, t, a), Due(s, t, b), a < b
      PROVE  FALSE
  <2>1. a # Len(s) /\ a + 1 \in 1..b /\ a + 1 \in 1..Len(s)
    BY <1>1
  <2>2. s[a + 1].t > t /\ s[a + 1].t <= t
    BY <1>1, <2>1 DEF Due
  <2> QED
    BY <1>0, <2>1, <2>2
<1>2. ~(j < k) /\ ~(k < j)
  BY <1>1
<1> QED
  BY <1>2

LEMMA ShownDue ==
  ASSUME NEW s \in Seq(Frames), NEW t \in Int, NEW n \in 0..Len(s), Due(s, t, n)
  PROVE  Lookahead!ShownAt(s, t) = Lookahead!Columns(s)[n]
<1>1. Lookahead!ShownAt(s, t) = Lookahead!Columns(s)[CHOOSE k \in 0..Len(s) : Due(s, t, k)]
  BY DEF Lookahead!ShownAt, Due
<1>2. (CHOOSE k \in 0..Len(s) : Due(s, t, k)) = n
  BY OneDue
<1> QED
  BY <1>1, <1>2

LEMMA FilmShows ==
  ASSUME NEW s, Timeline(s), NEW film, film = Lookahead!RewriteTimelineForLookahead(s),
         NEW t \in FromTime..ToTime - 1,
         Lookahead!ShownAt(s, t) # None, Lookahead!ShownAt(s, t).state = "complete"
  PROVE  /\ Lookahead!ShownAt(film, t) # None
         /\ Lookahead!ShownAt(film, t).section = Lookahead!ShownAt(s, t).section
<1>1. s \in Seq(Frames) /\ Len(s) \in Nat /\ \A i \in 1..Len(s) : s[i].t \in Int
  BY TimesOf DEF Timeline
<1>2. FromTime \in Int /\ ToTime \in Int /\ t \in Int /\ FromTime <= t /\ t < ToTime
  BY PageAssumption DEF Lookahead!LookaheadAssumption
<1>3. PICK n \in 0..Len(s) : Due(s, t, n)
  BY <1>1, <1>2, DueIsThere
<1>4. /\ film \in Seq(Frames) /\ Len(film) = Len(s)
      /\ \A i \in 1..Len(s) : film[i].t = s[i].t
  BY FilmIs
<1>5. Due(film, t, n)
  BY <1>1, <1>3, <1>4 DEF Due
<1>6. Lookahead!ShownAt(s, t) = Lookahead!Columns(s)[n]
  BY <1>1, <1>2, <1>3, ShownDue
<1>7. Lookahead!ShownAt(film, t) = Lookahead!Columns(film)[n]
  BY <1>2, <1>4, <1>5, ShownDue
<1>8. n # 0
  BY <1>1, <1>6, ColumnsDo
<1>9. n \in 1..Len(s) /\ s[n].t <= t
  BY <1>1, <1>3, <1>8 DEF Due
<1>10. s[n].t < ToTime
  BY <1>1, <1>2, <1>9
<1> DEFINE g == Lookahead!Generation(s, n)
<1>11. Follows(n, g, Lookahead!Rewritten(s)[n], Lookahead!Columns(s)[n], Lookahead!Columns(film)[n])
  BY <1>9, <1>10, FilmFollows DEF FollowsAt
<1>12. Known(s, n, g)
  BY <1>9, SeedKnown
<1> HIDE DEF g
<1>13. n >= g.seedThrough
  <2>1. g.seedThrough \in Nat
    BY <1>12 DEF Known, Gens
  <2> SUFFICES ASSUME n < g.seedThrough PROVE FALSE
    BY <1>9, <2>1
  <2>2. g.seedThrough \in 1..Len(s) /\ s[g.seedThrough].t < FromTime
    BY <1>9, <1>12, <2>1 DEF Known
  <2>3. n + 1 \in 1..Len(s) /\ n # Len(s) /\ n + 1 <= g.seedThrough
    BY <1>1, <1>9, <2>1, <2>2
  <2>4. s[n + 1].t > t
    BY <1>3, <2>3 DEF Due
  <2>5. s[n + 1].t <= s[g.seedThrough].t
    BY <2>2, <2>3 DEF Timeline
  <2>6. s[n + 1].t \in Int /\ s[g.seedThrough].t \in Int
    BY <1>1, <2>2, <2>3
  <2> QED
    BY <1>2, <2>2, <2>4, <2>5, <2>6
<1>14. CASE g.seed = None
  BY <1>6, <1>7, <1>11, <1>14 DEF Follows
<1>15. CASE g.seed # None
  <2>1. /\ Lookahead!Columns(film)[n] \in Lookahead!HeldColumn
        /\ Lookahead!Columns(film)[n].section = Lookahead!Columns(s)[n].section
    BY <1>6, <1>11, <1>13, <1>15 DEF Follows
  <2> QED
    BY <1>6, <1>7, <2>1, NotAbsent
<1> QED
  BY <1>14, <1>15

Recordable(f) ==
  /\ f.state = "complete" => f.added # None
  /\ f.added # None /\ f.state # None => f.state = f.added.state
  /\ f.added # None /\ f.block # None => f.block = f.added.section
  /\ f.boundary => f.state = None /\ f.block = None /\ ~f.removed

TakeInv ==
  /\ take \in Seq(Frames)
  /\ sent \in Lookahead!WireColumn \cup {None}
  /\ time \in Int
  /\ \A i \in 1..Len(take) : Recordable(take[i]) /\ take[i].t <= time
  /\ \A i, j \in 1..Len(take) : i <= j => take[i].t <= take[j].t
  /\ take # <<>> => take[1].boundary
  /\ sent # None => take # <<>>

LEMMA Recording ==
  ASSUME TakeInv, NEW f \in Frames, Recordable(f), f.t \in Lookahead!NextTimes,
         f.boundary \/ take # <<>>, NEW c \in Lookahead!WireColumn \cup {None},
         Lookahead!Recorded(f, c)
  PROVE  TakeInv'
<1>1. take' = Append(take, f) /\ sent' = c /\ time' = f.t
  BY DEF Lookahead!Recorded
<1>2. take \in Seq(Frames) /\ Len(take) \in Nat /\ time \in Int /\ f.t \in Int /\ time <= f.t
      /\ \A i \in 1..Len(take) : take[i].t \in Int
  BY TimesOf, PageAssumption DEF TakeInv, Lookahead!NextTimes, Lookahead!LookaheadAssumption
<1>3. /\ take' \in Seq(Frames) /\ Len(take') = Len(take) + 1 /\ take'[Len(take) + 1] = f
      /\ \A i \in 1..Len(take) : take'[i] = take[i]
      /\ take' # <<>>
  BY <1>1, <1>2
<1>4. ASSUME NEW i \in 1..Len(take') PROVE i \in 1..Len(take) \/ (i = Len(take) + 1 /\ take'[i] = f)
  BY <1>2, <1>3
<1>5. ASSUME NEW i \in 1..Len(take') PROVE Recordable(take'[i]) /\ take'[i].t <= time'
  <2>1. CASE i \in 1..Len(take)
    <3>1. Recordable(take'[i]) /\ take'[i].t <= time /\ take'[i].t \in Int
      BY <1>2, <1>3, <2>1 DEF TakeInv
    <3> QED
      BY <1>1, <1>2, <3>1
  <2>2. CASE i = Len(take) + 1 /\ take'[i] = f
    BY <1>1, <1>2, <2>2
  <2> QED
    BY <1>4, <2>1, <2>2
<1>6. ASSUME NEW i \in 1..Len(take'), NEW j \in 1..Len(take'), i <= j
      PROVE  take'[i].t <= take'[j].t
  <2>1. CASE j \in 1..Len(take)
    <3>1. i \in 1..Len(take)
      BY <1>2, <1>3, <1>6, <2>1
    <3> QED
      BY <1>3, <1>6, <2>1, <3>1 DEF TakeInv
  <2>2. CASE j = Len(take) + 1
    BY <1>1, <1>3, <1>5, <2>2
  <2> QED
    BY <1>4, <2>1, <2>2
<1>7. take'[1].boundary
  <2>1. CASE take = <<>>
    BY <1>1, <2>1
  <2>2. CASE take # <<>>
    BY <1>2, <1>3, <2>2 DEF TakeInv
  <2> QED
    BY <2>1, <2>2
<1>8. sent' \in Lookahead!WireColumn \cup {None} /\ time' \in Int
  BY <1>1, <1>2
<1>9. \A i \in 1..Len(take') : Recordable(take'[i]) /\ take'[i].t <= time'
  BY <1>5
<1>10. \A i, j \in 1..Len(take') : i <= j => take'[i].t <= take'[j].t
  BY <1>6
<1> HIDE <1>1
<1> QED
  BY <1>3, <1>7, <1>8, <1>9, <1>10 DEF TakeInv, Recordable

LEMMA BoundaryFrame ==
  ASSUME NEW t \in Int, NEW c \in Lookahead!WireColumn \cup {None}, NEW f,
         f = [t |-> t, boundary |-> TRUE, added |-> c, state |-> None, block |-> None,
              removed |-> FALSE]
  PROVE  f \in Frames /\ Recordable(f) /\ f.t = t /\ f.boundary
<1>2. f \in Frames /\ f.t = t /\ f.boundary
  BY DEF Frames
<1>3. f.state = None /\ f.block = None /\ ~f.removed
  OBVIOUS
<1> QED
  BY <1>2, <1>3, PageAssumption DEF Recordable, Lookahead!LookaheadAssumption, Lookahead!Receipt

LEMMA AddedFrame ==
  ASSUME NEW t \in Int, NEW c \in Lookahead!WireColumn, NEW f,
         f = [t |-> t, boundary |-> FALSE, added |-> c, state |-> None, block |-> None,
              removed |-> FALSE]
  PROVE  f \in Frames /\ Recordable(f) /\ f.t = t
<1>2. f \in Frames /\ f.t = t
  BY DEF Frames
<1>3. f.state = None /\ f.block = None /\ ~f.boundary
  OBVIOUS
<1> QED
  BY <1>2, <1>3, PageAssumption DEF Recordable, Lookahead!LookaheadAssumption, Lookahead!Receipt

LEMMA RemovedFrame ==
  ASSUME NEW t \in Int, NEW f,
         f = [t |-> t, boundary |-> FALSE, added |-> None, state |-> None, block |-> None,
              removed |-> TRUE]
  PROVE  f \in Frames /\ Recordable(f) /\ f.t = t
<1>2. f \in Frames /\ f.t = t
  BY DEF Frames
<1>3. f.state = None /\ f.added = None /\ ~f.boundary
  OBVIOUS
<1> QED
  BY <1>2, <1>3, PageAssumption DEF Recordable, Lookahead!LookaheadAssumption, Lookahead!Receipt

LEMMA DeltaFrame ==
  ASSUME NEW t \in Int, NEW p \in Lookahead!WireColumn, NEW c \in Lookahead!WireColumn,
         NEW f, f = Lookahead!Delta(t, p, c)
  PROVE  f \in Frames /\ Recordable(f) /\ f.t = t
<1> DEFINE resent == Lookahead!ColumnLightOrBiomeChanged(p, c)
           st == IF p.state # c.state THEN c.state ELSE None
           ad == IF resent THEN c ELSE None
           bl == IF Lookahead!NoSection \notin {p.section, c.section} /\ p.section # c.section
                 THEN c.section ELSE None
<1>1. f = [t |-> t, boundary |-> FALSE, added |-> ad, state |-> st, block |-> bl,
           removed |-> FALSE]
  BY DEF Lookahead!Delta, Lookahead!FrameAt
<1>2. /\ c.state \in Lookahead!Receipt /\ p.state \in Lookahead!Receipt
      /\ c.section \in Contents \cup {Lookahead!NoSection}
  BY DEF Lookahead!WireColumn, Lookahead!HeldColumn
<1>3. /\ st \in Lookahead!Receipt \cup {None} /\ ad \in Lookahead!WireColumn \cup {None}
      /\ bl \in Contents \cup {None}
  BY <1>2
<1>4. c # None /\ "complete" # None
  BY NotAbsent, PageAssumption DEF Lookahead!LookaheadAssumption, Lookahead!Receipt
<1>5. st = "complete" => ad # None
  BY <1>2, <1>4 DEF Lookahead!ColumnLightOrBiomeChanged
<1>6. ad # None => ad = c
  OBVIOUS
<1>7. st # None => st = c.state
  OBVIOUS
<1>8. bl # None => bl = c.section
  OBVIOUS
<1> HIDE DEF st, ad, bl
<1>9. f \in Frames /\ f.t = t
  BY <1>1, <1>3 DEF Frames
<1>10. f.state = st /\ f.added = ad /\ f.block = bl /\ ~f.boundary
  BY <1>1
<1> QED
  BY <1>5, <1>6, <1>7, <1>8, <1>9, <1>10 DEF Recordable

LEMMA TakeInit == Lookahead!LookaheadInit => TakeInv
<1> SUFFICES ASSUME Lookahead!LookaheadInit PROVE TakeInv
  OBVIOUS
<1>1. take = <<>> /\ sent = None /\ time = 0
  BY DEF Lookahead!LookaheadInit
<1>2. take \in Seq(Frames) /\ Len(take) = 0
  BY <1>1
<1>3. 1..Len(take) = {}
  BY <1>2
<1> QED
  BY <1>1, <1>2, <1>3 DEF TakeInv

LEMMA TakeStep ==
  ASSUME TakeInv, Lookahead!LookaheadNext
  PROVE  TakeInv'
<1>1. \A t \in Lookahead!NextTimes : t \in Int
  BY PageAssumption DEF TakeInv, Lookahead!NextTimes, Lookahead!LookaheadAssumption
<1>2. Payloads \subseteq Lookahead!WireColumn
  BY PageAssumption DEF Lookahead!LookaheadAssumption
<1>3. CASE Lookahead!Boundary
  <2>1. PICK t \in Lookahead!NextTimes : \E column \in Payloads \cup {None} :
          Lookahead!Recorded([Lookahead!FrameAt(t) EXCEPT !.boundary = TRUE, !.added = column], column)
    BY <1>3 DEF Lookahead!Boundary
  <2>2. PICK column \in Payloads \cup {None} :
          Lookahead!Recorded([Lookahead!FrameAt(t) EXCEPT !.boundary = TRUE, !.added = column], column)
    BY <2>1
  <2> DEFINE f == [Lookahead!FrameAt(t) EXCEPT !.boundary = TRUE, !.added = column]
  <2>3. column \in Lookahead!WireColumn \cup {None} /\ t \in Int
    BY <1>1, <1>2
  <2>4. Lookahead!Recorded(f, column)
    BY <2>2
  <2>5. f = [t |-> t, boundary |-> TRUE, added |-> column,
             state |-> None, block |-> None, removed |-> FALSE]
    <3>1. f = [Lookahead!FrameAt(t) EXCEPT !.boundary = TRUE, !.added = column]
      OBVIOUS
    <3> HIDE DEF f
    <3> QED
      BY <3>1 DEF Lookahead!FrameAt
  <2> HIDE DEF f
  <2>6. f \in Frames /\ Recordable(f) /\ f.t = t /\ f.boundary
    BY <2>3, <2>5, BoundaryFrame
  <2> QED
    BY <2>3, <2>4, <2>6, Recording
<1>4. CASE Lookahead!ColumnAdded
  <2>1. PICK t \in Lookahead!NextTimes : \E column \in Payloads :
          Lookahead!Recorded([Lookahead!FrameAt(t) EXCEPT !.added = column], column)
    BY <1>4 DEF Lookahead!ColumnAdded
  <2>2. PICK column \in Payloads : Lookahead!Recorded([Lookahead!FrameAt(t) EXCEPT !.added = column], column)
    BY <2>1
  <2> DEFINE f == [Lookahead!FrameAt(t) EXCEPT !.added = column]
  <2>3. column \in Lookahead!WireColumn /\ t \in Int /\ take # <<>>
    BY <1>1, <1>2, <1>4 DEF Lookahead!ColumnAdded
  <2>4. Lookahead!Recorded(f, column)
    BY <2>2
  <2>5. f = [t |-> t, boundary |-> FALSE, added |-> column,
             state |-> None, block |-> None, removed |-> FALSE]
    <3>1. f = [Lookahead!FrameAt(t) EXCEPT !.added = column]
      OBVIOUS
    <3> HIDE DEF f
    <3> QED
      BY <3>1 DEF Lookahead!FrameAt
  <2> HIDE DEF f
  <2>6. f \in Frames /\ Recordable(f) /\ f.t = t
    BY <2>3, <2>5, AddedFrame
  <2> QED
    BY <2>3, <2>4, <2>6, Recording
<1>5. CASE Lookahead!ColumnChanged
  <2>1. PICK t \in Lookahead!NextTimes : \E column \in Payloads \ {sent} :
          Lookahead!Forward(sent, column) /\ Lookahead!Recorded(Lookahead!Delta(t, sent, column), column)
    BY <1>5 DEF Lookahead!ColumnChanged
  <2>2. PICK column \in Payloads \ {sent} : Lookahead!Recorded(Lookahead!Delta(t, sent, column), column)
    BY <2>1
  <2> DEFINE f == Lookahead!Delta(t, sent, column)
  <2>3. column \in Lookahead!WireColumn /\ t \in Int /\ take # <<>> /\ sent \in Lookahead!WireColumn
    BY <1>1, <1>2, <1>5 DEF Lookahead!ColumnChanged, TakeInv
  <2>4. Lookahead!Recorded(f, column) /\ f = Lookahead!Delta(t, sent, column)
    BY <2>2
  <2> HIDE DEF f
  <2>5. f \in Frames /\ Recordable(f) /\ f.t = t
    BY <2>3, <2>4, DeltaFrame
  <2> QED
    BY <2>3, <2>4, <2>5, Recording
<1>6. CASE Lookahead!ColumnRemoved
  <2>1. PICK t \in Lookahead!NextTimes : Lookahead!Recorded([Lookahead!FrameAt(t) EXCEPT !.removed = TRUE], None)
    BY <1>6 DEF Lookahead!ColumnRemoved
  <2> DEFINE f == [Lookahead!FrameAt(t) EXCEPT !.removed = TRUE]
  <2>3. t \in Int /\ take # <<>>
    BY <1>1, <1>6 DEF Lookahead!ColumnRemoved, TakeInv
  <2>4. Lookahead!Recorded(f, None)
    BY <2>1
  <2>5. f = [t |-> t, boundary |-> FALSE, added |-> None,
             state |-> None, block |-> None, removed |-> TRUE]
    <3>1. f = [Lookahead!FrameAt(t) EXCEPT !.removed = TRUE]
      OBVIOUS
    <3> HIDE DEF f
    <3> QED
      BY <3>1 DEF Lookahead!FrameAt
  <2> HIDE DEF f
  <2>6. f \in Frames /\ Recordable(f) /\ f.t = t
    BY <2>3, <2>5, RemovedFrame
  <2> QED
    BY <2>3, <2>4, <2>6, Recording
<1> QED
  BY <1>3, <1>4, <1>5, <1>6 DEF Lookahead!LookaheadNext

LEMMA TakeFollowed ==
  ASSUME TakeInv
  PROVE  Lookahead!FilmFollowsTake
<1> SUFFICES ASSUME ~Lookahead!SectionVanished PROVE Lookahead!FilmShowsTheTake
  BY DEF Lookahead!FilmFollowsTake
<1>1. Len(take) \in Nat /\ DOMAIN take = 1..Len(take)
  BY DEF TakeInv
<1>2. \A i \in 1..Len(take) : take[i].added # None /\ take[i].added.state = "complete"
                                => take[i].added.section # Lookahead!NoSection
  BY <1>1 DEF Lookahead!SectionVanished
<1>3. \A i \in 1..Len(take) : Faithful(take[i])
  BY <1>2 DEF TakeInv, Recordable, Faithful
<1>4. Timeline(take)
  BY <1>3 DEF TakeInv, Timeline
<1> SUFFICES ASSUME NEW film, film = Lookahead!RewriteTimelineForLookahead(take),
                    NEW t \in FromTime..ToTime - 1,
                    Lookahead!ShownAt(take, t) # None, Lookahead!ShownAt(take, t).state = "complete"
             PROVE  /\ Lookahead!ShownAt(film, t) # None
                    /\ Lookahead!ShownAt(film, t).section = Lookahead!ShownAt(take, t).section
  BY DEF Lookahead!FilmShowsTheTake
<1> QED
  BY <1>4, FilmShows

LEMMA TakeUntouched == TakeInv /\ UNCHANGED takeVars => TakeInv'
  BY DEF TakeInv, takeVars, Recordable

(* A film whose columns are pulled forward has, at every moment of the     *)
(* window that is rendered, the blocks of the take wherever the take has   *)
(* the column complete, for any take and any window, as long as no payload *)
(* of a complete column lacks its section.                                 *)
THEOREM FilmShown == PageSpec => []FilmFollowsTake
<1>1. PageInit => TakeInv
  BY TakeInit DEF PageInit, PartsInit
<1>2. TakeInv /\ [PageNext]_pageVars => TakeInv'
  BY TakeStep, TakeUntouched DEF PageNext, Terrain, OfEntity, OfUi, OfTake, OfAnimator, pageVars
<1>3. TakeInv => FilmFollowsTake
  BY TakeFollowed DEF FilmFollowsTake
<1> QED
  BY <1>1, <1>2, <1>3, PTL DEF PageSpec

-----------------------------------------------------------------------------
(* The animator.  A step visits controllers until the queue is empty; what *)
(* it does to one of them is shown by induction on the visits.             *)

Instances == [state : Animator!AllStates, from : Animator!AllStates \cup {None},
              blendT : Nat, heads : [Anims -> Int]]

LEMMA Booted ==
  ASSUME NEW c \in Controllers
  PROVE  Animator!BootController(c) \in Instances
<1>1. Initial[c] \in Animator!AllStates
  BY PageAssumption DEF Animator!AnimatorAssumption, Animator!AllStates
<1>2. Animator!Rewound \in [Anims -> Int]
  <2>1. \A a \in Anims : StartDelay[a] \in Nat
    BY PageAssumption DEF Animator!AnimatorAssumption
  <2> QED
    BY <2>1 DEF Animator!Rewound
<1> QED
  BY <1>1, <1>2 DEF Animator!BootController, Instances

LEMMA BlendTimed ==
  ASSUME NEW inst \in Instances, NEW n, n = Animator!BlendAdvanced(inst)
  PROVE  /\ n \in Instances /\ n.state = inst.state /\ n.heads = inst.heads
         /\ n.blendT <= inst.blendT + 1
<1>1. inst.blendT + 1 \in Nat /\ 0 <= inst.blendT + 1
  BY DEF Instances
<1>2. CASE n = inst
  BY <1>1, <1>2 DEF Instances
<1>3. CASE n = [inst EXCEPT !.from = None, !.blendT = 0]
  <2>1. n = [state |-> inst.state, from |-> None, blendT |-> 0, heads |-> inst.heads]
    BY <1>3 DEF Instances
  <2> QED
    BY <1>1, <2>1 DEF Instances
<1>4. CASE n = [inst EXCEPT !.blendT = @ + 1]
  BY <1>1, <1>4 DEF Instances
<1> QED
  BY <1>2, <1>3, <1>4 DEF Animator!BlendAdvanced

(* What a step does to a controller that it visits, apart from playheads. *)
OneTransition(was, is) ==
  /\ is \in Instances /\ is.heads = was.heads /\ is.blendT <= was.blendT + 1
  /\ is.state # was.state =>
       /\ \E i \in DOMAIN NextOf[was.state] : NextOf[was.state][i].to = is.state
       /\ BlendOf[was.state] > 0 => is.from = was.state /\ is.blendT = 0

LEMMA TransitionsOnce ==
  ASSUME NEW c \in Controllers, NEW inst \in Instances, NEW truthy
  PROVE  OneTransition(inst, Animator!Ticked(c, inst, truthy))
<1> DEFINE b == Animator!BlendAdvanced(inst)
           next == NextOf[b.state]
           holding == {i \in DOMAIN next : IF next[i].when = "all_animations_finished"
                                           THEN Animator!AllFinished(b)
                                           ELSE next[i].when \in truthy}
           to == next[Animator!Min(holding)].to
           t == Animator!Ticked(c, inst, truthy)
<1>1. /\ b \in Instances /\ b.state = inst.state /\ b.heads = inst.heads
      /\ b.blendT <= inst.blendT + 1
  BY BlendTimed
<1>2. t = IF holding = {} \/ to \notin StatesOf[c] \/ to = b.state THEN b
          ELSE IF BlendOf[b.state] > 0
          THEN [b EXCEPT !.state = to, !.from = b.state, !.blendT = 0]
          ELSE [b EXCEPT !.state = to, !.from = None]
  BY DEF Animator!Ticked, Animator!Transitioned
<1>3. CASE t = b
  BY <1>1, <1>3 DEF OneTransition
<1>4. CASE holding # {} /\ to \in StatesOf[c] /\ t # b
  <2>1. holding \in SUBSET Nat
    <3>1. b.state \in Animator!AllStates
      BY <1>1 DEF Instances
    <3>2. DOMAIN next \subseteq Nat
      BY <3>1, PageAssumption DEF Animator!AnimatorAssumption
    <3> QED
      BY <3>2
  <2>2. Animator!Min(holding) \in holding
    <3>1. \E m \in holding : \A k \in holding : m <= k
      <4> HIDE DEF holding
      <4> QED
        BY <1>4, <2>1, SmallestThere
    <3> HIDE DEF holding
    <3> QED
      BY <3>1 DEF Animator!Min
  <2>3. \E i \in DOMAIN next : next[i].to = to
    BY <2>2
  <2>4. to \in Animator!AllStates
    BY <1>4 DEF Animator!AllStates
  <2> HIDE DEF b, to, holding
  <2>5. 0 <= inst.blendT + 1
    BY DEF Instances
  <2>6. CASE BlendOf[b.state] > 0
    <3>1. t = [b EXCEPT !.state = to, !.from = b.state, !.blendT = 0]
      BY <1>2, <1>4, <2>6
    <3>2. t = [state |-> to, from |-> b.state, blendT |-> 0, heads |-> b.heads]
      BY <1>1, <3>1 DEF Instances
    <3> HIDE DEF t
    <3>3. t \in Instances /\ t.heads = inst.heads /\ t.blendT = 0 /\ t.from = inst.state
      BY <1>1, <2>4, <3>2 DEF Instances
    <3>4. OneTransition(inst, t)
      BY <1>1, <2>3, <2>5, <3>2, <3>3 DEF OneTransition
    <3> QED
      BY <3>4 DEF t
  <2>7. CASE ~(BlendOf[b.state] > 0)
    <3>1. t = [b EXCEPT !.state = to, !.from = None]
      BY <1>2, <1>4, <2>7
    <3>2. t = [state |-> to, from |-> None, blendT |-> b.blendT, heads |-> b.heads]
      BY <1>1, <3>1 DEF Instances
    <3> HIDE DEF t
    <3>3. t \in Instances /\ t.heads = inst.heads /\ t.blendT = b.blendT
      BY <1>1, <2>4, <3>2 DEF Instances
    <3>4. OneTransition(inst, t)
      BY <1>1, <2>3, <2>7, <3>2, <3>3 DEF OneTransition
    <3> QED
      BY <3>4 DEF t
  <2> QED
    BY <2>6, <2>7
<1> HIDE DEF b, to, holding, t
<1> QED
  BY <1>2, <1>3, <1>4

LEMMA Smaller ==
  ASSUME NEW i \in Int, NEW j \in Int
  PROVE  Animator!Min({i, j}) \in Int /\ Animator!Min({i, j}) <= j
<1>1. \E m \in {i, j} : \A k \in {i, j} : m <= k
  OBVIOUS
<1>2. Animator!Min({i, j}) \in {i, j} /\ \A k \in {i, j} : Animator!Min({i, j}) <= k
  BY <1>1 DEF Animator!Min
<1> QED
  BY <1>2

(* The playheads of a visited controller. *)
Times(inst, a) == Cardinality({s \in {r \in {inst.state, inst.from} : r # None} : a \in AnimsOf[s]})

LEMMA TimesCounted ==
  ASSUME NEW inst, NEW a
  PROVE  /\ Times(inst, a) \in Nat
         /\ ~(inst.from # None /\ a \in AnimsOf[inst.state] \cap AnimsOf[inst.from])
              => Times(inst, a) <= 1
<1> DEFINE S == {s \in {r \in {inst.state, inst.from} : r # None} : a \in AnimsOf[s]}
<1>1. ASSUME NEW x, S \subseteq {x} PROVE Cardinality(S) <= 1
  <2>1. IsFiniteSet({x}) /\ Cardinality({x}) = 1
    BY FS_Singleton
  <2> HIDE DEF S
  <2> QED
    BY <1>1, <2>1, FS_Subset
<1>2. Cardinality(S) \in Nat
  <2>1. IsFiniteSet({inst.state, inst.from})
    <3>1. IsFiniteSet({inst.state}) /\ {inst.state, inst.from} = {inst.state} \cup {inst.from}
      BY FS_Singleton
    <3> QED
      BY <3>1, FS_AddElement
  <2>2. S \subseteq {inst.state, inst.from}
    OBVIOUS
  <2> HIDE DEF S
  <2> QED
    BY <2>1, <2>2, FS_Subset, FS_CardinalityType
<1>3. CASE inst.from = None \/ a \notin AnimsOf[inst.from]
  <2>1. S \subseteq {inst.state}
    BY <1>3
  <2> HIDE DEF S
  <2>2. Cardinality(S) <= 1
    BY <1>1, <2>1
  <2> QED
    BY <1>2, <2>2 DEF Times, S
<1>4. CASE a \notin AnimsOf[inst.state]
  <2>1. S \subseteq {inst.from}
    BY <1>4
  <2> HIDE DEF S
  <2>2. Cardinality(S) <= 1
    BY <1>1, <2>1
  <2> QED
    BY <1>2, <2>2 DEF Times, S
<1> QED
  BY <1>2, <1>3, <1>4 DEF Times

LEMMA PlayheadsAdvance ==
  ASSUME NEW inst \in Instances, NEW n, n = Animator!AdvancePlayheads(inst)
  PROVE  /\ n \in Instances /\ n.state = inst.state /\ n.from = inst.from
         /\ n.blendT = inst.blendT
         /\ \A a \in Anims :
              \/ inst.from # None /\ a \in AnimsOf[inst.state] \cap AnimsOf[inst.from]
              \/ n.heads[a] <= inst.heads[a] + 1
<1> DEFINE heads == [a \in Anims |-> Animator!Min({MaxHead, inst.heads[a] + Times(inst, a)})]
<1>1. n = [inst EXCEPT !.heads = heads]
  BY DEF Animator!AdvancePlayheads, Times, Animator!Cardinality, Cardinality
<1>2. ASSUME NEW a \in Anims
      PROVE  /\ heads[a] \in Int
             /\ \/ inst.from # None /\ a \in AnimsOf[inst.state] \cap AnimsOf[inst.from]
                \/ heads[a] <= inst.heads[a] + 1
  <2>1. MaxHead \in Int /\ inst.heads[a] \in Int
    BY PageAssumption DEF Animator!AnimatorAssumption, Instances
  <2>2. inst.heads[a] + Times(inst, a) \in Int
    BY <2>1, TimesCounted
  <2>3. heads[a] \in Int /\ heads[a] <= inst.heads[a] + Times(inst, a)
    BY <2>1, <2>2, Smaller
  <2> HIDE DEF heads
  <2> QED
    BY <2>1, <2>3, TimesCounted
<1>3. heads \in [Anims -> Int]
  BY <1>2
<1> HIDE DEF heads
<1> QED
  BY <1>1, <1>2, <1>3 DEF Instances


(* The visits so far: each controller is as it was or has been ticked once. *)
VisitedOnce(acc, truthy) ==
  \E q, v :
    acc = [queue |-> q, visited |-> v,
           insts |-> [c \in Controllers |-> IF c \in v THEN Animator!Ticked(c, controllers[c], truthy)
                                            ELSE controllers[c]]]

LEMMA VisitKeeps ==
  ASSUME NEW acc, NEW truthy, NEW weighed, VisitedOnce(acc, truthy)
  PROVE  VisitedOnce(Animator!Visit(acc, truthy, weighed), truthy)
<1> DEFINE Insts(v) == [c \in Controllers |->
                          IF c \in v THEN Animator!Ticked(c, controllers[c], truthy)
                          ELSE controllers[c]]
<1>1. PICK q, v : acc = [queue |-> q, visited |-> v, insts |-> Insts(v)]
  BY DEF VisitedOnce
<1> DEFINE h == Head(q)
           inst == Animator!Ticked(h, acc.insts[h], truthy)
           next == Animator!Visit(acc, truthy, weighed)
           queue == Tail(q) \o Animator!Referred(inst.state, weighed)
                      \o Animator!Referred(inst.from, weighed)
<1> SUFFICES VisitedOnce(next, truthy)
  OBVIOUS
<1>2. ASSUME NEW q2, NEW v2, next = [queue |-> q2, visited |-> v2, insts |-> Insts(v2)]
      PROVE  VisitedOnce(next, truthy)
  <2> HIDE DEF next
  <2> QED
    BY <1>2 DEF VisitedOnce
<1>3. CASE q = <<>>
  <2>1. next = acc
    BY <1>1, <1>3 DEF Animator!Visit
  <2> HIDE DEF next, Insts
  <2> QED
    BY <1>1, <1>2, <2>1
<1>4. CASE q # <<>> /\ h \in v
  <2>1. next = [acc EXCEPT !.queue = Tail(q)]
    BY <1>1, <1>4 DEF Animator!Visit, Animator!Seen
  <2> HIDE DEF next, Insts
  <2>2. next = [queue |-> Tail(q), visited |-> v, insts |-> Insts(v)]
    BY <1>1, <2>1
  <2> QED
    BY <1>2, <2>2
<1>5. CASE q # <<>> /\ h \notin v
  <2>1. next = [queue |-> queue, visited |-> v \cup {h}, insts |-> [Insts(v) EXCEPT ![h] = inst]]
    BY <1>1, <1>5 DEF Animator!Visit, Animator!Seen
  <2>2. [Insts(v) EXCEPT ![h] = inst] = Insts(v \cup {h})
    <3>1. CASE h \in Controllers
      <4>1. inst = Animator!Ticked(h, controllers[h], truthy)
        BY <1>1, <1>5, <3>1
      <4> HIDE DEF inst
      <4> QED
        BY <1>5, <3>1, <4>1
    <3>2. CASE h \notin Controllers
      <4> HIDE DEF inst
      <4> QED
        BY <3>2
    <3> QED
      BY <3>1, <3>2
  <2> HIDE DEF next, Insts, queue
  <2> QED
    BY <1>2, <2>1, <2>2
<1> QED
  BY <1>3, <1>4, <1>5

LEMMA VisitsAreNumbered == Animator!MostVisits \in Nat
<1>1. Animator!IsFiniteSet(Controllers)
  BY PageAssumption DEF Animator!AnimatorAssumption
<1>2. IsFiniteSet(Controllers)
  BY <1>1 DEF Animator!IsFiniteSet, IsFiniteSet
<1>3. Animator!Cardinality(Controllers) = Cardinality(Controllers)
  BY DEF Animator!Cardinality, Cardinality
<1>4. Cardinality(Controllers) \in Nat
  BY <1>2, FS_CardinalityType
<1>5. ASSUME NEW n \in Nat PROVE n * (2 * n + 1) \in Nat
  OBVIOUS
<1> QED
  BY <1>3, <1>4, <1>5 DEF Animator!MostVisits

LEMMA VisitingDoes ==
  ASSUME NEW active, NEW truthy, NEW weighed, controllers \in [Controllers -> Instances]
  PROVE  VisitedOnce(Animator!Visiting(active, truthy, weighed)[Animator!MostVisits], truthy)
<1> DEFINE n == Animator!MostVisits
           base == [queue |-> Animator!SetToSeq(active), visited |-> {}, insts |-> controllers]
           Upto(m, f) == f = [i \in 0..m |-> IF i = 0 THEN base
                                             ELSE Animator!Visit(f[i - 1], truthy, weighed)]
           S == {m \in 0..n : \E f : Upto(m, f)}
           g == Animator!Visiting(active, truthy, weighed)
<1>1. n \in Nat
  BY VisitsAreNumbered
<1> HIDE DEF n
<1>2. 0 \in S
  <2> DEFINE f == [i \in 0..0 |-> base]
  <2>1. Upto(0, f)
    <3> HIDE DEF base
    <3> QED
      OBVIOUS
  <2> HIDE DEF Upto, f
  <2> QED
    BY <1>1, <2>1
<1>3. ASSUME NEW m \in 0 + 1..n, m - 1 \in S PROVE m \in S
  <2>1. PICK f : Upto(m - 1, f)
    BY <1>3
  <2> DEFINE h == [i \in 0..m |-> IF i = m THEN Animator!Visit(f[m - 1], truthy, weighed)
                                  ELSE f[i]]
  <2>2. ASSUME NEW i \in 0..m
        PROVE  h[i] = IF i = 0 THEN base ELSE Animator!Visit(h[i - 1], truthy, weighed)
    <3>1. i # 0 => i - 1 \in 0..m /\ i - 1 # m /\ h[i - 1] = f[i - 1]
      BY <1>1
    <3>2. CASE i = m
      BY <1>1, <3>1, <3>2
    <3>3. CASE i # m
      <4>1. i \in 0..m - 1 /\ h[i] = f[i]
        BY <1>1, <3>3
      <4>2. f[i] = IF i = 0 THEN base ELSE Animator!Visit(f[i - 1], truthy, weighed)
        <5> HIDE DEF base, h
        <5> QED
          BY <2>1, <4>1
      <4> HIDE DEF base, h
      <4> QED
        BY <3>1, <4>1, <4>2
    <3> QED
      BY <3>2, <3>3
  <2>3. Upto(m, h)
    <3>1. h = [i \in 0..m |-> h[i]]
      OBVIOUS
    <3> HIDE DEF h, base
    <3> QED
      BY <2>2, <3>1
  <2> HIDE DEF Upto, h
  <2> QED
    BY <1>1, <2>3
<1>4. 0..n \subseteq S
  <2> HIDE DEF S
  <2> QED
    BY <1>1, <1>2, <1>3, Induction
<1>5. \E f : Upto(n, f)
  <2>1. n \in 0..n
    BY <1>1
  <2> QED
    BY <1>4, <2>1
<1>6. Upto(n, g)
  BY <1>5 DEF Animator!Visiting, n
<1>7. ASSUME NEW i \in 0..n
      PROVE  g[i] = IF i = 0 THEN base ELSE Animator!Visit(g[i - 1], truthy, weighed)
  <2> HIDE DEF g, base
  <2> QED
    BY <1>6
<1> DEFINE T == {i \in 0..n : VisitedOnce(g[i], truthy)}
<1>8. 0 \in T
  <2>1. g[0] = base
    BY <1>1, <1>7
  <2>2. controllers = [c \in Controllers |-> controllers[c]]
    OBVIOUS
  <2>3. VisitedOnce(base, truthy)
    <3> DEFINE q == Animator!SetToSeq(active)
               Insts(v) == [c \in Controllers |->
                              IF c \in v THEN Animator!Ticked(c, controllers[c], truthy)
                              ELSE controllers[c]]
    <3>1. Insts({}) = controllers
      BY <2>2
    <3>2. base = [queue |-> q, visited |-> {}, insts |-> Insts({})]
      BY <3>1
    <3> HIDE DEF q, base
    <3> QED
      BY <3>2 DEF VisitedOnce
  <2> HIDE DEF g, base
  <2> QED
    BY <1>1, <2>1, <2>3
<1>9. ASSUME NEW i \in 0 + 1..n, i - 1 \in T PROVE i \in T
  <2>1. i \in 0..n /\ i # 0
    BY <1>1
  <2>2. g[i] = Animator!Visit(g[i - 1], truthy, weighed) /\ VisitedOnce(g[i - 1], truthy)
    <3> HIDE DEF g, base
    <3> QED
      BY <1>7, <1>9, <2>1
  <2> HIDE DEF g
  <2> QED
    BY <2>1, <2>2, VisitKeeps
<1>10. 0..n \subseteq T
  <2> HIDE DEF T
  <2> QED
    BY <1>1, <1>8, <1>9, Induction
<1>11. n \in T
  BY <1>1, <1>10
<1> QED
  BY <1>11 DEF n

(* What a step does to each controller. *)
LEMMA ControllersStep ==
  ASSUME NEW active, NEW truthy, NEW weighed, controllers \in [Controllers -> Instances],
         NEW new, new = Animator!TickControllers(active, truthy, weighed),
         NEW c \in Controllers
  PROVE  \/ new[c] = controllers[c]
         \/ new[c] = Animator!AdvancePlayheads(Animator!Ticked(c, controllers[c], truthy))
<1> DEFINE ticked == Animator!Visiting(active, truthy, weighed)[Animator!MostVisits]
<1>1. VisitedOnce(ticked, truthy)
  BY VisitingDoes
<1>2. new[c] = IF c \in ticked.visited THEN Animator!AdvancePlayheads(ticked.insts[c])
               ELSE controllers[c]
  BY DEF Animator!TickControllers
<1> HIDE DEF ticked
<1>3. c \in ticked.visited => ticked.insts[c] = Animator!Ticked(c, controllers[c], truthy)
  BY <1>1 DEF VisitedOnce
<1> QED
  BY <1>2, <1>3

(* KeepsTime, of a controller before and after. *)
TimeKept(was, is) ==
  /\ is.state # was.state =>
       /\ \E i \in DOMAIN NextOf[was.state] : NextOf[was.state][i].to = is.state
       /\ BlendOf[was.state] > 0 => is.from = was.state /\ is.blendT = 0
  /\ is.blendT <= was.blendT + 1
  /\ \A a \in Anims : \/ is.from # None /\ a \in AnimsOf[is.state] \cap AnimsOf[is.from]
                      \/ is.heads[a] <= was.heads[a] + 1

LEMMA StepKeepsTime ==
  ASSUME NEW active, NEW truthy, NEW weighed, controllers \in [Controllers -> Instances],
         NEW new, new = Animator!TickControllers(active, truthy, weighed)
  PROVE  /\ new \in [Controllers -> Instances]
         /\ \A c \in Controllers : TimeKept(controllers[c], new[c])
<1>1. ASSUME NEW c \in Controllers
      PROVE  new[c] \in Instances /\ TimeKept(controllers[c], new[c])
  <2> DEFINE was == controllers[c]
             t == Animator!Ticked(c, was, truthy)
             is == Animator!AdvancePlayheads(t)
  <2>1. was \in Instances
    OBVIOUS
  <2>2. OneTransition(was, t)
    BY <2>1, TransitionsOnce
  <2>3. /\ is \in Instances /\ is.state = t.state /\ is.from = t.from /\ is.blendT = t.blendT
        /\ \A a \in Anims : \/ t.from # None /\ a \in AnimsOf[t.state] \cap AnimsOf[t.from]
                            \/ is.heads[a] <= t.heads[a] + 1
    <3>1. t \in Instances
      BY <2>2 DEF OneTransition
    <3> HIDE DEF t
    <3> QED
      BY <3>1, PlayheadsAdvance
  <2>4. new[c] = was \/ new[c] = is
    BY ControllersStep
  <2> HIDE DEF was, t, is
  <2>5. is \in Instances /\ TimeKept(was, is)
    BY <2>2, <2>3 DEF OneTransition, TimeKept
  <2>6. TimeKept(was, was)
    <3>1. \A a \in Anims : was.heads[a] <= was.heads[a] + 1
      BY <2>1 DEF Instances
    <3>2. was.blendT <= was.blendT + 1
      BY <2>1 DEF Instances
    <3> QED
      BY <3>1, <3>2 DEF TimeKept
  <2>7. new[c] \in Instances /\ TimeKept(was, new[c])
    BY <2>1, <2>4, <2>5, <2>6
  <2> QED
    BY <2>7 DEF was
<1>2. new = [c \in Controllers |-> new[c]]
  BY DEF Animator!TickControllers
<1> HIDE DEF TimeKept
<1> QED
  BY <1>1, <1>2

LEMMA JumpTyped ==
  ASSUME controllers \in [Controllers -> Instances], NEW c \in Controllers, NEW to
  PROVE  Animator!JumpController(c, to) \in [Controllers -> Instances]
<1> DEFINE b == Animator!BootController(c)
           i == [b EXCEPT !.state = to]
<1>1. CASE to \in StatesOf[c]
  <2>1. to \in Animator!AllStates
    BY <1>1 DEF Animator!AllStates
  <2>2. b \in Instances
    BY Booted
  <2> HIDE DEF b
  <2>3. i \in Instances
    BY <2>1, <2>2 DEF Instances
  <2>4. \/ Animator!JumpController(c, to) = controllers
        \/ Animator!JumpController(c, to) = [controllers EXCEPT ![c] = i]
    BY DEF Animator!JumpController, b
  <2> HIDE DEF i
  <2> QED
    BY <2>3, <2>4
<1>2. CASE to \notin StatesOf[c]
  BY <1>2 DEF Animator!JumpController
<1> QED
  BY <1>1, <1>2


(* The plays of the server.  A request either waits, and then its play is  *)
(* the only one that it has, or nothing that it has begun will be followed *)
(* by anything more.                                                       *)

StopKinds == {"empty", "once", "molang"}
Plays == [of : Nat, anim : Anims, start : Int, stop : StopKinds, blendOut : Nat,
          stoppedAt : Int, then : Anims \cup {None}]
Asked == [request : Requests, start : Int]

Original(k) == Animator!ServerPlay(k, asked[k].request, asked[k].start)

RequestWaits(k) ==
  /\ Original(k) \in plays /\ Original(k).then # None /\ begun[k] = <<>>
  /\ \A p \in plays : p.of = k => p = Original(k)
  /\ left = 0 => ~Animator!Stopped(Original(k))

(* What a follow-up that has begun shows of the play before it. *)
Overdue(play) ==
  /\ clock >= play.start + Length[play.anim] /\ clock > play.start
  /\ ~Loops[play.anim] \/ (play.stop = "once" /\ Length[play.anim] > 0)

RequestEnded(k) ==
  /\ \A p \in plays : p.of = k => p.then = None
  /\ Original(k).then = None => begun[k] = <<>>
  /\ Original(k).then # None =>
       /\ \E t \in Int : begun[k] = <<t>>
       /\ Original(k).stop # "molang" =>
            /\ begun[k] = <<Original(k).start + Length[Original(k).anim]>>
            /\ Overdue(Original(k))

AnimatorInv ==
  /\ clock \in Int /\ left \in Nat
  /\ controllers \in [Controllers -> Instances]
  /\ plays \in SUBSET Plays /\ asked \in Seq(Asked)
  /\ begun \in Seq(Seq(Int)) /\ Len(begun) = Len(asked)
  /\ \A p \in plays : p.of \in 1..Len(asked) /\ p.start <= clock
  /\ \A k \in 1..Len(asked) : RequestWaits(k) \/ RequestEnded(k)

LEMMA AnimationTyped ==
  /\ None \notin Anims
  /\ \A a \in Anims : Length[a] \in Nat /\ Loops[a] \in BOOLEAN
  BY PageAssumption DEF Animator!AnimatorAssumption

LEMMA PlayTyped ==
  ASSUME NEW k \in Nat, NEW request \in Requests, NEW start \in Int,
         NEW play, play = Animator!ServerPlay(k, request, start)
  PROVE  /\ play \in Plays /\ play.of = k /\ play.anim = request.anim /\ play.start = start
         /\ play.stop = request.stop /\ play.stoppedAt = Animator!Never
         /\ play.then = IF request.controller = None /\ request.next \in Anims
                        THEN request.next ELSE None
<1>1. /\ request.anim \in Anims /\ request.stop \in StopKinds /\ request.blendOut \in Nat
  BY PageAssumption DEF Animator!AnimatorAssumption, StopKinds
<1> QED
  BY <1>1 DEF Animator!ServerPlay, Plays, Animator!Never

LEMMA OriginalTyped ==
  ASSUME AnimatorInv, NEW k \in 1..Len(asked)
  PROVE  /\ Original(k) \in Plays /\ Original(k).of = k
         /\ Original(k).stoppedAt = Animator!Never
         /\ Original(k).anim = asked[k].request.anim /\ Original(k).start = asked[k].start
         /\ Original(k).stop = asked[k].request.stop
         /\ Original(k).then = IF asked[k].request.controller = None
                                    /\ asked[k].request.next \in Anims
                               THEN asked[k].request.next ELSE None
<1>1. asked[k] \in Asked /\ k \in Nat
  BY DEF AnimatorInv
<1>2. asked[k].request \in Requests /\ asked[k].start \in Int
  BY <1>1 DEF Asked
<1> QED
  BY <1>1, <1>2, PlayTyped DEF Original

LEMMA StopTyped ==
  ASSUME NEW p \in Plays
  PROVE  Animator!ServerStopAt(p) \in Int
<1>1. p.stoppedAt \in Int /\ p.anim \in Anims
  BY DEF Plays
<1>2. Length[p.anim] \in Int
  BY <1>1, AnimationTyped
<1>3. Animator!ServerStopAt(p) \in {p.stoppedAt, -1, Length[p.anim]}
  BY DEF Animator!ServerStopAt, Animator!Never
<1> QED
  BY <1>1, <1>2, <1>3

LEMMA LatchedTyped ==
  ASSUME clock \in Int, NEW p \in Plays, p.start <= clock, NEW stopping,
         NEW l, l = Animator!Latched(p, stopping)
  PROVE  /\ l \in Plays /\ l.of = p.of /\ l.then = p.then /\ l.start = p.start
         /\ l.stop = p.stop /\ l.anim = p.anim
         /\ l = p \/ (p.stop = "molang" /\ Animator!Stopped(l))
<1>1. CASE l = p
  BY <1>1
<1>2. CASE l # p
  <2>1. p.stop = "molang" /\ l = [p EXCEPT !.stoppedAt = clock - p.start]
    BY <1>2 DEF Animator!Latched, Animator!Elapsed
  <2>2. clock - p.start \in Int
    BY DEF Plays
  <2>3. /\ l \in Plays /\ l.of = p.of /\ l.then = p.then /\ l.start = p.start
        /\ l.stop = p.stop /\ l.anim = p.anim /\ l.stoppedAt = clock - p.start
    BY <2>1, <2>2 DEF Plays
  <2>4. clock - p.start # -1
    BY DEF Plays
  <2>5. Animator!ServerStopAt(l) = clock - p.start
    BY <2>1, <2>3 DEF Animator!ServerStopAt
  <2>6. Animator!Stopped(l)
    BY <2>2, <2>3, <2>4, <2>5 DEF Animator!Stopped, Animator!Elapsed, Animator!Never
  <2> QED
    BY <2>1, <2>3, <2>6
<1> QED
  BY <1>1, <1>2

LEMMA ViewedTyped ==
  ASSUME NEW p \in Plays, NEW v, v = Animator!Viewed(p)
  PROVE  /\ v \in Plays /\ v.of = p.of
         /\ IF Animator!Stopped(p) THEN v.then = None ELSE v = p
<1>1. CASE Animator!Stopped(p)
  <2>1. v = [p EXCEPT !.then = None]
    BY <1>1 DEF Animator!Viewed
  <2> QED
    BY <1>1, <2>1 DEF Plays
<1>2. CASE ~Animator!Stopped(p)
  BY <1>2 DEF Animator!Viewed
<1> QED
  BY <1>1, <1>2

LEMMA FollowUpTyped ==
  ASSUME NEW p \in Plays, p.then # None, NEW f, f = Animator!FollowUp(p)
  PROVE  /\ f \in Plays /\ f.of = p.of /\ f.then = None
         /\ f.start = p.start + Animator!ServerStopAt(p)
<1> DEFINE s == p.start + Animator!ServerStopAt(p)
<1>1. f = [of |-> p.of, anim |-> p.then, start |-> s, stop |-> "empty",
           blendOut |-> 0, stoppedAt |-> -1, then |-> None]
  BY AnimationTyped DEF Animator!FollowUp, Animator!ServerPlay, Animator!Never
<1>2. s \in Int
  BY StopTyped DEF Plays
<1>3. p.then \in Anims /\ p.of \in Nat /\ "empty" \in StopKinds
  BY DEF Plays, StopKinds
<1>4. f \in Plays /\ f.of = p.of /\ f.then = None /\ f.start = s
  <2> HIDE DEF s
  <2> QED
    <3>1. f.of = p.of /\ f.then = None /\ f.start = s
      BY <1>1
    <3>2. -1 \in Int /\ 0 \in Nat /\ None \in Anims \cup {None}
      OBVIOUS
    <3>3. f \in Plays
      BY <1>1, <1>2, <1>3, <3>2 DEF Plays
    <3> QED
      BY <3>1, <3>3
<1> QED
  BY <1>4


(* The plays that a step ends, and the starts of what follows them. *)
Followed(stopping) ==
  {p \in {Animator!Latched(q, stopping) : q \in plays} : Animator!Stopped(p) /\ p.then # None}
Ending(k, stopping) == {p \in Followed(stopping) : p.of = k}
Starts(s) == [i \in DOMAIN s |-> Animator!FollowUp(s[i]).start]

LEMMA SetsToSequences ==
  ASSUME NEW x
  PROVE  Animator!SetToSeq({}) = <<>> /\ Animator!SetToSeq({x}) = <<x>>
<1>1. \A S : Animator!Cardinality(S) = Cardinality(S)
  BY DEF Animator!Cardinality, Cardinality
<1>2. Cardinality({}) = 0 /\ Cardinality({x}) = 1
  BY FS_EmptySet, FS_Singleton
<1>3. Animator!SetToSeq({}) = <<>>
  <2>1. [1..0 -> {}] = {<<>>}
    <3>1. <<>> \in [1..0 -> {}]
      OBVIOUS
    <3>2. ASSUME NEW f \in [1..0 -> {}] PROVE f = <<>>
      <4>1. f \in Seq({}) /\ Len(f) = 0
        OBVIOUS
      <4> QED
        BY <4>1, EmptySeq
    <3> QED
      BY <3>1, <3>2
  <2>2. Animator!IsInjective(<<>>)
    BY DEF Animator!IsInjective
  <2>3. Animator!SetToSeq({}) = CHOOSE f \in {<<>>} : Animator!IsInjective(f)
    BY <1>1, <1>2, <2>1 DEF Animator!SetToSeq
  <2> QED
    BY <2>2, <2>3
<1>4. Animator!SetToSeq({x}) = <<x>>
  <2>1. \A f : f \in [1..1 -> {x}] <=> f = <<x>>
    OBVIOUS
  <2>2. Animator!IsInjective(<<x>>)
    BY DEF Animator!IsInjective
  <2>3. [1..1 -> {x}] = {<<x>>}
    BY <2>1
  <2>4. Animator!SetToSeq({x}) = CHOOSE f \in {<<x>>} : Animator!IsInjective(f)
    BY <1>1, <1>2, <2>3 DEF Animator!SetToSeq
  <2> QED
    BY <2>2, <2>4
<1> QED
  BY <1>3, <1>4

LEMMA BegunSampled ==
  ASSUME NEW stopping, Animator!SampleServerPlays(stopping), AnimatorInv, NEW k \in 1..Len(asked)
  PROVE  /\ DOMAIN begun' = 1..Len(asked)
         /\ Ending(k, stopping) = {} => begun'[k] = begun[k]
         /\ \A p \in Plays : Ending(k, stopping) = {p} /\ begun[k] = <<>>
              => begun'[k] = <<Animator!FollowUp(p).start>>
<1>1. begun' = [i \in DOMAIN begun |->
                  begun[i] \o Starts(Animator!SetToSeq(Ending(i, stopping)))]
  BY DEF Animator!SampleServerPlays, Starts, Ending, Followed
<1>2. DOMAIN begun = 1..Len(asked) /\ begun[k] \in Seq(Int)
  BY DEF AnimatorInv
<1>3. begun'[k] = begun[k] \o Starts(Animator!SetToSeq(Ending(k, stopping)))
  BY <1>1, <1>2
<1>4. ASSUME Ending(k, stopping) = {} PROVE begun'[k] = begun[k]
  <2>1. Starts(<<>>) = <<>>
    BY DEF Starts
  <2>2. begun'[k] = begun[k] \o <<>>
    BY <1>3, <1>4, <2>1, SetsToSequences
  <2> QED
    BY <1>2, <2>2
<1>5. ASSUME NEW p \in Plays, Ending(k, stopping) = {p}, begun[k] = <<>>
      PROVE  begun'[k] = <<Animator!FollowUp(p).start>>
  <2> DEFINE x == Animator!FollowUp(p).start
  <2>1. Starts(<<p>>) = <<x>>
    BY DEF Starts
  <2>2. <<>> \o <<x>> = <<x>>
    OBVIOUS
  <2> QED
    BY <1>3, <1>5, <2>1, <2>2, SetsToSequences
<1> QED
  BY <1>1, <1>2, <1>4, <1>5

LEMMA PlaysSampled ==
  ASSUME NEW stopping, Animator!SampleServerPlays(stopping), AnimatorInv
  PROVE  /\ \A n \in plays' : \E p \in plays :
              \/ n = Animator!Viewed(Animator!Latched(p, stopping))
              \/ /\ Animator!Latched(p, stopping) \in Followed(stopping)
                 /\ n = Animator!FollowUp(Animator!Latched(p, stopping))
         /\ \A p \in plays : ~Animator!Stopped(Animator!Latched(p, stopping))
              => Animator!Latched(p, stopping) \in plays'
<1> DEFINE latched == {Animator!Latched(p, stopping) : p \in plays}
<1>1. plays' = {p \in {Animator!Viewed(q) : q \in latched}
                        \cup {Animator!FollowUp(q) : q \in Followed(stopping)} : ~Animator!Over(p)}
  BY DEF Animator!SampleServerPlays, Followed
<1>2. ASSUME NEW p \in plays, ~Animator!Stopped(Animator!Latched(p, stopping))
      PROVE  Animator!Latched(p, stopping) \in plays'
  <2> DEFINE l == Animator!Latched(p, stopping)
  <2>1. l \in latched /\ ~Animator!Over(l)
    BY <1>2 DEF Animator!Over
  <2>2. Animator!Viewed(l) = l
    BY <1>2 DEF Animator!Viewed
  <2> HIDE DEF l, latched
  <2>3. l \in plays'
    BY <1>1, <2>1, <2>2
  <2> QED
    BY <2>3 DEF l
<1>3. ASSUME NEW q \in Followed(stopping)
      PROVE  \E p \in plays : q = Animator!Latched(p, stopping)
  BY DEF Followed
<1> QED
  BY <1>1, <1>2, <1>3

(* What a step does to the plays, but for the follow-ups of a request. *)
LEMMA PlaysTyped ==
  ASSUME NEW stopping, Animator!SampleServerPlays(stopping), AnimatorInv
  PROVE  \A n \in plays' : /\ n \in Plays /\ n.start <= clock
                           /\ \E p \in plays : /\ n.of = p.of
                                               /\ \/ n.then = None
                                                  \/ n = p /\ ~Animator!Stopped(p)
<1> SUFFICES ASSUME NEW n \in plays'
             PROVE  /\ n \in Plays /\ n.start <= clock
                    /\ \E p \in plays : /\ n.of = p.of
                                        /\ n.then = None \/ (n = p /\ ~Animator!Stopped(p))
  OBVIOUS
<1>1. PICK p \in plays :
        \/ n = Animator!Viewed(Animator!Latched(p, stopping))
        \/ /\ Animator!Latched(p, stopping) \in Followed(stopping)
           /\ n = Animator!FollowUp(Animator!Latched(p, stopping))
  BY PlaysSampled
<1> DEFINE l == Animator!Latched(p, stopping)
<1>2. clock \in Int /\ p \in Plays /\ p.start <= clock
  BY DEF AnimatorInv
<1>3. /\ l \in Plays /\ l.of = p.of /\ l.then = p.then /\ l.start = p.start
      /\ l = p \/ (p.stop = "molang" /\ Animator!Stopped(l))
  BY <1>2, LatchedTyped
<1>4. CASE n = Animator!Viewed(l)
  <2> HIDE DEF l
  <2>1. /\ n \in Plays /\ n.of = l.of
        /\ IF Animator!Stopped(l) THEN n.then = None ELSE n = l
    BY <1>3, <1>4, ViewedTyped
  <2>2. n.start = l.start
    <3>1. n = l \/ n = [l EXCEPT !.then = None]
      BY <1>4 DEF Animator!Viewed
    <3> QED
      BY <1>3, <3>1 DEF Plays
  <2> QED
    BY <1>2, <1>3, <2>1, <2>2
<1>5. CASE l \in Followed(stopping) /\ n = Animator!FollowUp(l)
  <2>1. Animator!Stopped(l) /\ l.then # None
    BY <1>5 DEF Followed
  <2> HIDE DEF l
  <2>2. /\ n \in Plays /\ n.of = l.of /\ n.then = None
        /\ n.start = l.start + Animator!ServerStopAt(l)
    BY <1>3, <1>5, <2>1, FollowUpTyped
  <2>3. clock - l.start >= Animator!ServerStopAt(l)
    BY <2>1 DEF Animator!Stopped, Animator!Elapsed
  <2>4. n.start <= clock
    <3>1. l.start \in Int /\ Animator!ServerStopAt(l) \in Int
      BY <1>3, StopTyped DEF Plays
    <3> QED
      BY <1>2, <2>2, <2>3, <3>1
  <2> QED
    BY <1>3, <2>2, <2>4
<1> QED
  BY <1>1, <1>4, <1>5


LEMMA StoppedMeansOverdue ==
  ASSUME AnimatorInv, NEW p \in Plays, p.start <= clock, p.stop # "molang"
  PROVE  /\ Animator!Stopped(p) <=> Overdue(p)
         /\ Animator!Stopped(p) => Animator!ServerStopAt(p) = Length[p.anim]
<1> DEFINE n == Length[p.anim]
           stop == Animator!ServerStopAt(p)
<1>1. clock \in Int /\ p.start \in Int /\ n \in Nat /\ p.stop \in StopKinds
  BY AnimationTyped DEF AnimatorInv, Plays
<1>2. /\ Loops[p.anim] /\ (p.stop = "empty" \/ n = 0) => stop = -1
      /\ n = 0 /\ clock - p.start = 0 => stop = -1
      /\ ~(Loops[p.anim] /\ (p.stop = "empty" \/ n = 0)) /\ ~(n = 0 /\ clock - p.start = 0) => stop = n
  BY DEF Animator!ServerStopAt, Animator!Never, Animator!Elapsed
<1>3. Animator!Stopped(p) <=> stop # -1 /\ clock - p.start >= stop
  BY DEF Animator!Stopped, Animator!Never, Animator!Elapsed
<1>4. Overdue(p) <=> /\ clock >= p.start + n /\ clock > p.start
                     /\ ~Loops[p.anim] \/ (p.stop = "once" /\ n > 0)
  BY DEF Overdue
<1>5. p.stop = "empty" \/ p.stop = "once"
  BY <1>1 DEF StopKinds
<1> HIDE DEF n, stop
<1>6. CASE Loops[p.anim] /\ (p.stop = "empty" \/ n = 0)
  BY <1>1, <1>2, <1>3, <1>4, <1>6 DEF n
<1>7. CASE n = 0 /\ clock - p.start = 0
  <2>1. ~(clock > p.start)
    BY <1>1, <1>7
  <2> QED
    BY <1>2, <1>3, <1>4, <1>7, <2>1 DEF n
<1>8. CASE /\ ~(Loops[p.anim] /\ (p.stop = "empty" \/ n = 0))
           /\ ~(n = 0 /\ clock - p.start = 0)
  <2>1. stop = n /\ n # -1
    BY <1>1, <1>2, <1>8
  <2>2. Animator!Stopped(p) <=> clock - p.start >= n
    BY <1>3, <2>1
  <2>3. clock - p.start >= n <=> clock >= p.start + n
    BY <1>1
  <2>4. clock >= p.start + n => clock > p.start
    <3>1. clock - p.start # 0 \/ n > 0
      BY <1>1, <1>8
    <3> QED
      BY <1>1, <3>1
  <2>5. ~Loops[p.anim] \/ (p.stop = "once" /\ n > 0)
    BY <1>1, <1>5, <1>8
  <2> QED
    BY <1>4, <2>1, <2>2, <2>3, <2>4, <2>5 DEF n, stop
<1> QED
  BY <1>6, <1>7, <1>8

(* What a request is after a step, of its original play o. *)
WaitsFor(o, k, now, starts, rest) ==
  /\ o \in now /\ o.then # None /\ starts[k] = <<>>
  /\ \A p \in now : p.of = k => p = o
  /\ rest = 0 => ~Animator!Stopped(o)
EndedFor(o, k, now, starts) ==
  /\ \A p \in now : p.of = k => p.then = None
  /\ o.then = None => starts[k] = <<>>
  /\ o.then # None =>
       /\ \E t \in Int : starts[k] = <<t>>
       /\ o.stop # "molang" => starts[k] = <<o.start + Length[o.anim]>> /\ Overdue(o)

LEMMA RequestsPrimed ==
  ASSUME NEW k, NEW o, Original(k)' = o, UNCHANGED clock
  PROVE  /\ RequestWaits(k)' <=> WaitsFor(o, k, plays', begun', left')
         /\ RequestEnded(k)' <=> EndedFor(o, k, plays', begun')
<1>1. Animator!Stopped(o)' <=> Animator!Stopped(o)
  BY DEF Animator!Stopped, Animator!ServerStopAt, Animator!Elapsed
<1>2. Overdue(o)' <=> Overdue(o)
  BY DEF Overdue
<1>3. Animator!Stopped(Original(k))' <=> Animator!Stopped(o)
  BY <1>1 DEF Animator!Stopped, Animator!ServerStopAt, Animator!Elapsed
<1>4. Overdue(Original(k))' <=> Overdue(o)
  BY DEF Overdue
<1> QED
  BY <1>3, <1>4 DEF RequestWaits, RequestEnded, WaitsFor, EndedFor

LEMMA RequestStep ==
  ASSUME NEW stopping, Animator!SampleServerPlays(stopping), AnimatorInv,
         UNCHANGED <<clock, asked>>, NEW k \in 1..Len(asked)
  PROVE  (RequestWaits(k) \/ RequestEnded(k))'
<1> DEFINE o == Original(k)
           l == Animator!Latched(o, stopping)
<1>1. Original(k)' = Original(k)
  BY DEF Original, Animator!ServerPlay, Animator!Never
<1>2. clock \in Int /\ \A p \in plays : p \in Plays /\ p.start <= clock
  BY DEF AnimatorInv
<1>3. ASSUME NEW q \in Ending(k, stopping)
      PROVE  /\ Animator!Stopped(q) /\ q.then # None
             /\ \E p \in plays : /\ p.of = k /\ p.then # None
                                 /\ q = Animator!Latched(p, stopping)
  <2>1. q.of = k /\ q \in Followed(stopping)
    BY DEF Ending
  <2>2. PICK p \in plays : q = Animator!Latched(p, stopping)
    BY <2>1 DEF Followed
  <2>3. q.of = p.of /\ q.then = p.then
    BY <1>2, <2>2, LatchedTyped
  <2> QED
    BY <2>1, <2>2, <2>3 DEF Followed
<1>4. CASE RequestWaits(k)
  <2>1. o \in plays /\ o.then # None /\ begun[k] = <<>> /\ \A p \in plays : p.of = k => p = o
    BY <1>4 DEF RequestWaits
  <2>2. o \in Plays /\ o.of = k /\ o.start <= clock
    BY <1>2, <2>1, OriginalTyped
  <2>3. /\ l \in Plays /\ l.of = k /\ l.then = o.then /\ l.start = o.start
        /\ l.stop = o.stop /\ l.anim = o.anim
        /\ l = o \/ (o.stop = "molang" /\ Animator!Stopped(l))
    <3> HIDE DEF o
    <3> QED
      BY <1>2, <2>2, LatchedTyped
  <2>4. \A n \in plays' : n.of = k =>
          n = Animator!Viewed(l) \/ (l \in Followed(stopping) /\ n = Animator!FollowUp(l))
    <3>1. SUFFICES ASSUME NEW n \in plays', n.of = k
                   PROVE  \/ n = Animator!Viewed(l)
                          \/ l \in Followed(stopping) /\ n = Animator!FollowUp(l)
      OBVIOUS
    <3>2. PICK p \in plays :
            \/ n = Animator!Viewed(Animator!Latched(p, stopping))
            \/ /\ Animator!Latched(p, stopping) \in Followed(stopping)
               /\ n = Animator!FollowUp(Animator!Latched(p, stopping))
      BY PlaysSampled
    <3>3. Animator!Latched(p, stopping) \in Plays /\ Animator!Latched(p, stopping).of = p.of
      BY <1>2, LatchedTyped
    <3>4. n.of = p.of
      <4>1. CASE n = Animator!Viewed(Animator!Latched(p, stopping))
        BY <3>3, <4>1, ViewedTyped
      <4>2. CASE /\ Animator!Latched(p, stopping) \in Followed(stopping)
                 /\ n = Animator!FollowUp(Animator!Latched(p, stopping))
        <5>1. Animator!Latched(p, stopping).then # None
          BY <4>2 DEF Followed
        <5> QED
          BY <3>3, <4>2, <5>1, FollowUpTyped
      <4> QED
        BY <3>2, <4>1, <4>2
    <3>5. p = o
      BY <2>1, <3>1, <3>4
    <3> QED
      BY <3>2, <3>5
  <2>5. Ending(k, stopping) \subseteq {l}
    <3> HIDE DEF o
    <3>1. ASSUME NEW q \in Ending(k, stopping) PROVE q = l
      BY <1>3, <2>1
    <3> QED
      BY <3>1
  <2>6. CASE ~Animator!Stopped(l)
    <3>1. l = o
      BY <2>3, <2>6
    <3>2. l \notin Followed(stopping)
      BY <2>6 DEF Followed
    <3>3. Ending(k, stopping) = {}
      BY <2>5, <3>2 DEF Ending
    <3>4. begun'[k] = <<>>
      BY <2>1, <3>3, BegunSampled
    <3>5. o \in plays'
      BY <2>1, <2>6, <3>1, PlaysSampled
    <3>6. Animator!Viewed(l) = o
      BY <2>6, <3>1 DEF Animator!Viewed
    <3>7. \A n \in plays' : n.of = k => n = o
      BY <2>4, <3>2, <3>6
    <3>8. ~Animator!Stopped(o)
      BY <2>6, <3>1
    <3>9. RequestWaits(k)'
      BY <1>1, <2>1, <3>4, <3>5, <3>7, <3>8, RequestsPrimed DEF WaitsFor
    <3> QED
      BY <3>9
  <2>7. CASE Animator!Stopped(l)
    <3>1. l \in Followed(stopping)
      BY <2>1, <2>3, <2>7 DEF Followed
    <3>2. Ending(k, stopping) = {l}
      BY <2>3, <2>5, <3>1 DEF Ending
    <3> HIDE DEF l
    <3>3. begun'[k] = <<Animator!FollowUp(l).start>>
      BY <2>1, <2>3, <3>2, BegunSampled
    <3>4. /\ Animator!FollowUp(l).then = None /\ Animator!FollowUp(l) \in Plays
          /\ Animator!FollowUp(l).start = o.start + Animator!ServerStopAt(l)
      BY <2>1, <2>3, FollowUpTyped
    <3>5. \A n \in plays' : n.of = k => n.then = None
      <4>1. Animator!Viewed(l).then = None
        BY <2>3, <2>7, ViewedTyped
      <4> QED
        BY <2>4, <3>4, <4>1
    <3>6. \E t \in Int : begun'[k] = <<t>>
      <4>1. Animator!FollowUp(l).start \in Int
        BY <3>4 DEF Plays
      <4> QED
        BY <3>3, <4>1
    <3>7. ASSUME o.stop # "molang"
          PROVE  begun'[k] = <<o.start + Length[o.anim]>> /\ Overdue(o)
      <4>1. l = o
        BY <2>3, <3>7
      <4> HIDE DEF o
      <4>2. Overdue(o) /\ Animator!ServerStopAt(o) = Length[o.anim]
        BY <2>2, <2>7, <3>7, <4>1, StoppedMeansOverdue
      <4> QED
        BY <3>3, <3>4, <4>1, <4>2
    <3>8. RequestEnded(k)'
      BY <1>1, <2>1, <3>5, <3>6, <3>7, RequestsPrimed DEF EndedFor
    <3> QED
      BY <3>8
  <2> QED
    BY <2>6, <2>7
<1>5. CASE RequestEnded(k)
  <2>1. Ending(k, stopping) = {}
    BY <1>3, <1>5 DEF RequestEnded
  <2>2. begun'[k] = begun[k]
    BY <2>1, BegunSampled
  <2>3. \A n \in plays' : n.of = k => n.then = None
    BY <1>5, PlaysTyped DEF RequestEnded
  <2>4. RequestEnded(k)'
    BY <1>1, <1>5, <2>2, <2>3, RequestsPrimed DEF RequestEnded, EndedFor
  <2> QED
    BY <2>4
<1> QED
  BY <1>4, <1>5 DEF AnimatorInv


LEMMA AnimatorStarts == Animator!AnimatorInit => AnimatorInv
<1> SUFFICES ASSUME Animator!AnimatorInit PROVE AnimatorInv
  OBVIOUS
<1>1. clock = 0 /\ left = 0 /\ plays = {} /\ asked = <<>> /\ begun = <<>>
  BY DEF Animator!AnimatorInit
<1>2. controllers \in [Controllers -> Instances]
  <2>1. controllers = [c \in Controllers |-> Animator!BootController(c)]
    BY DEF Animator!AnimatorInit
  <2> QED
    BY <2>1, Booted
<1> QED
  BY <1>1, <1>2 DEF AnimatorInv

LEMMA StepTyped ==
  ASSUME AnimatorInv, Animator!Step
  PROVE  AnimatorInv' /\ \A c \in Controllers : TimeKept(controllers[c], controllers'[c])
<1>1. PICK stopping : Animator!SampleServerPlays(stopping)
  BY DEF Animator!Step
<1>2. left > 0 /\ left' = left - 1 /\ UNCHANGED <<clock, asked>>
  BY DEF Animator!Step
<1>3. /\ controllers' \in [Controllers -> Instances]
      /\ \A c \in Controllers : TimeKept(controllers[c], controllers'[c])
  <2>1. PICK active, truthy, weighed :
          controllers' = Animator!TickControllers(active, truthy, weighed)
    BY DEF Animator!Step
  <2> QED
    BY <2>1, StepKeepsTime DEF AnimatorInv
<1>4. \A p \in plays' : p \in Plays /\ p.of \in 1..Len(asked) /\ p.start <= clock
  <2>1. \A p \in plays : p.of \in 1..Len(asked)
    BY DEF AnimatorInv
  <2> QED
    BY <1>1, <2>1, PlaysTyped
<1>5. \A k \in 1..Len(asked) : (RequestWaits(k) \/ RequestEnded(k))'
  BY <1>1, <1>2, RequestStep
<1>6. begun' \in Seq(Seq(Int)) /\ Len(begun') = Len(asked)
  <2>1. Len(asked) \in Nat
    BY DEF AnimatorInv
  <2>2. ASSUME NEW k \in 1..Len(asked) PROVE begun'[k] \in Seq(Int)
    <3>1. begun'[k] = <<>> \/ \E t \in Int : begun'[k] = <<t>>
      BY <1>2, <1>5 DEF RequestWaits, RequestEnded
    <3>2. ASSUME NEW t \in Int PROVE <<t>> \in Seq(Int)
      OBVIOUS
    <3>3. CASE begun'[k] = <<>>
      BY <3>3
    <3>4. CASE \E t \in Int : begun'[k] = <<t>>
      <4>1. PICK t \in Int : begun'[k] = <<t>>
        BY <3>4
      <4> QED
        BY <3>2, <4>1
    <3> QED
      BY <3>1, <3>3, <3>4
  <2>3. begun' = [k \in 1..Len(asked) |-> begun'[k]]
    <3>1. begun' = [i \in DOMAIN begun |->
                      begun[i] \o Starts(Animator!SetToSeq(Ending(i, stopping)))]
      BY <1>1 DEF Animator!SampleServerPlays, Starts, Ending, Followed
    <3>2. DOMAIN begun = 1..Len(asked)
      BY DEF AnimatorInv
    <3> QED
      BY <3>1, <3>2
  <2> QED
    BY <2>1, <2>2, <2>3
<1> QED
  BY <1>2, <1>3, <1>4, <1>5, <1>6 DEF AnimatorInv

LEMMA FrameTyped ==
  ASSUME AnimatorInv, Animator!Frame
  PROVE  AnimatorInv' /\ left' > 0
<1>1. /\ left = 0 /\ UNCHANGED <<controllers, plays, asked, begun>>
      /\ \E n \in 1..MaxFrame : clock' = clock + n /\ left' = n
  BY DEF Animator!Frame
<1>2. PICK n \in 1..MaxFrame : clock' = clock + n /\ left' = n
  BY <1>1
<1>3. clock \in Int /\ n \in Nat /\ n > 0
  BY PageAssumption DEF Animator!AnimatorAssumption, AnimatorInv
<1>4. clock' \in Int /\ left' \in Nat /\ left' > 0 /\ clock' > clock
  BY <1>2, <1>3
<1>5. \A p \in plays : p.start <= clock'
  <2>1. \A p \in plays : p.start \in Int /\ p.start <= clock
    BY DEF AnimatorInv, Plays
  <2> QED
    BY <1>3, <1>4, <2>1
<1>6. ASSUME NEW k \in 1..Len(asked) PROVE (RequestWaits(k) \/ RequestEnded(k))'
  <2>1. Original(k)' = Original(k)
    BY <1>1 DEF Original, Animator!ServerPlay, Animator!Never
  <2>2. CASE RequestWaits(k)
    <3>1. RequestWaits(k)'
      BY <1>1, <1>4, <2>1, <2>2 DEF RequestWaits
    <3> QED
      BY <3>1
  <2>3. CASE RequestEnded(k)
    <3>1. ASSUME Overdue(Original(k)) PROVE Overdue(Original(k))'
      <4> DEFINE o == Original(k)
      <4>1. o.start \in Int /\ Length[o.anim] \in Int
        BY OriginalTyped, AnimationTyped DEF Plays
      <4>2. /\ clock >= o.start + Length[o.anim] /\ clock > o.start
            /\ ~Loops[o.anim] \/ (o.stop = "once" /\ Length[o.anim] > 0)
        BY <3>1 DEF Overdue
      <4> HIDE DEF o
      <4>3. clock' >= o.start + Length[o.anim] /\ clock' > o.start
        BY <1>3, <1>4, <4>1, <4>2
      <4>4. o' = o
        BY <2>1 DEF o
      <4> QED
        BY <4>2, <4>3, <4>4 DEF Overdue, o
    <3>2. RequestEnded(k)'
      BY <1>1, <2>1, <2>3, <3>1 DEF RequestEnded
    <3> QED
      BY <3>2
  <2> QED
    BY <2>2, <2>3 DEF AnimatorInv
<1> QED
  BY <1>1, <1>4, <1>5, <1>6 DEF AnimatorInv

LEMMA RequestTyped ==
  ASSUME AnimatorInv, NEW request \in Requests, Animator!PlayServerAnimation(request)
  PROVE  AnimatorInv'
<1>0. PICK n : n = Len(asked) + 1
  OBVIOUS
<1> DEFINE play == Animator!ServerPlay(n, request, clock)
           entry == [request |-> request, start |-> clock]
<1>1. /\ left = 0 /\ asked' = Append(asked, entry) /\ plays' = plays \cup {play}
      /\ begun' = Append(begun, <<>>) /\ UNCHANGED <<clock, left>>
  BY <1>0 DEF Animator!PlayServerAnimation
<1>2. controllers' \in [Controllers -> Instances]
  <2>1. \/ controllers' = controllers
        \/ /\ request.controller # None
           /\ controllers' = Animator!JumpController(request.controller, request.next)
    BY DEF Animator!PlayServerAnimation
  <2>2. request.controller # None => request.controller \in Controllers
    BY PageAssumption DEF Animator!AnimatorAssumption
  <2> QED
    BY <2>1, <2>2, JumpTyped DEF AnimatorInv
<1>3. clock \in Int /\ Len(asked) \in Nat /\ n \in Nat /\ Len(begun) = Len(asked)
  BY <1>0 DEF AnimatorInv
<1>4. /\ play \in Plays /\ play.of = n /\ play.anim = request.anim /\ play.start = clock
      /\ play.stop = request.stop /\ play.stoppedAt = Animator!Never
  BY <1>3, PlayTyped
<1>5. /\ asked' \in Seq(Asked) /\ Len(asked') = n /\ asked'[n] = entry
      /\ \A k \in 1..Len(asked) : asked'[k] = asked[k]
  <2>1. entry \in Asked /\ asked \in Seq(Asked)
    BY <1>3 DEF Asked, AnimatorInv
  <2> HIDE DEF entry
  <2> QED
    BY <1>0, <1>1, <1>3, <2>1, AppendProperties
<1>6. /\ begun' \in Seq(Seq(Int)) /\ Len(begun') = n /\ begun'[n] = <<>>
      /\ \A k \in 1..Len(asked) : begun'[k] = begun[k]
  <2>1. <<>> \in Seq(Int) /\ begun \in Seq(Seq(Int))
    BY DEF AnimatorInv
  <2> QED
    BY <1>0, <1>1, <1>3, <2>1, AppendProperties
<1> HIDE DEF play, entry
<1>7. \A p \in plays' : p \in Plays /\ p.of \in 1..n /\ p.start <= clock
  <2>1. \A p \in plays : p \in Plays /\ p.of \in 1..Len(asked) /\ p.start <= clock
    BY DEF AnimatorInv
  <2>2. play.of \in 1..n /\ play.start <= clock
    BY <1>0, <1>3, <1>4
  <2> QED
    BY <1>0, <1>1, <1>3, <1>4, <2>1, <2>2
<1>8. ASSUME NEW k \in 1..Len(asked) PROVE (RequestWaits(k) \/ RequestEnded(k))'
  <2>1. Original(k)' = Original(k)
    BY <1>5 DEF Original, Animator!ServerPlay, Animator!Never
  <2>2. \A p \in plays' : p.of = k => p \in plays
    BY <1>0, <1>1, <1>3, <1>4
  <2>3. begun'[k] = begun[k]
    BY <1>6
  <2>4. CASE RequestWaits(k)
    <3>1. RequestWaits(k)'
      BY <1>1, <2>1, <2>2, <2>3, <2>4, RequestsPrimed DEF RequestWaits, WaitsFor
    <3> QED
      BY <3>1
  <2>5. CASE RequestEnded(k)
    <3>1. RequestEnded(k)'
      BY <1>1, <2>1, <2>2, <2>3, <2>5, RequestsPrimed DEF RequestEnded, EndedFor
    <3> QED
      BY <3>1
  <2> QED
    BY <2>4, <2>5 DEF AnimatorInv
<1>9. (RequestWaits(n) \/ RequestEnded(n))'
  <2>1. Original(n)' = play
    <3>1. asked'[n].request = request /\ asked'[n].start = clock
      BY <1>5 DEF entry
    <3> QED
      BY <3>1 DEF Original, play, Animator!ServerPlay, Animator!Never
  <2>2. \A p \in plays' : p.of = n => p = play
    <3>1. \A p \in plays : p.of # n
      BY <1>0, <1>3 DEF AnimatorInv
    <3> QED
      BY <1>1, <3>1
  <2>3. CASE play.then = None
    <3>1. EndedFor(play, n, plays', begun')
      BY <1>6, <2>2, <2>3 DEF EndedFor
    <3>2. RequestEnded(n)'
      BY <1>1, <2>1, <3>1, RequestsPrimed
    <3> QED
      BY <3>2
  <2>4. CASE play.then # None
    <3>1. ~Animator!Stopped(play)
      <4>1. ~Overdue(play)
        BY <1>3, <1>4 DEF Overdue
      <4>2. play.stop = "molang" => Animator!ServerStopAt(play) = Animator!Never
        BY <1>4 DEF Animator!ServerStopAt
      <4>3. play.stop # "molang" => (Animator!Stopped(play) <=> Overdue(play))
        BY <1>3, <1>4, StoppedMeansOverdue
      <4> QED
        BY <4>1, <4>2, <4>3 DEF Animator!Stopped
    <3>2. WaitsFor(play, n, plays', begun', left')
      BY <1>1, <1>6, <2>2, <2>4, <3>1 DEF WaitsFor
    <3>3. RequestWaits(n)'
      BY <1>1, <2>1, <3>2, RequestsPrimed
    <3> QED
      BY <3>3
  <2> QED
    BY <2>3, <2>4
<1>10. \A k \in 1..Len(asked') : (RequestWaits(k) \/ RequestEnded(k))'
  BY <1>0, <1>3, <1>5, <1>8, <1>9
<1> QED
  BY <1>1, <1>2, <1>3, <1>5, <1>6, <1>7, <1>10 DEF AnimatorInv


LEMMA AnimatorActs ==
  ASSUME AnimatorInv, Animator!AnimatorNext
  PROVE  /\ AnimatorInv'
         /\ left' < left => \A c \in Controllers : TimeKept(controllers[c], controllers'[c])
<1>1. CASE Animator!Step
  BY <1>1, StepTyped
<1>2. CASE Animator!Frame
  <2>1. left = 0
    BY <1>2 DEF Animator!Frame
  <2>2. AnimatorInv' /\ left' > 0
    BY <1>2, FrameTyped
  <2>3. left' \in Nat
    BY <2>2 DEF AnimatorInv
  <2> QED
    BY <2>1, <2>2, <2>3
<1>3. ASSUME NEW request \in Requests, Animator!PlayServerAnimation(request)
      PROVE  AnimatorInv' /\ left' = left
  BY <1>3, RequestTyped DEF Animator!PlayServerAnimation
<1> QED
  BY <1>1, <1>2, <1>3 DEF Animator!AnimatorNext, AnimatorInv

(* When no step of the frame is left, what is due has begun. *)
LEMMA FollowUpsBegan ==
  ASSUME AnimatorInv, left = 0
  PROVE  Animator!FollowUpsOnTime
<1> SUFFICES ASSUME NEW k \in DOMAIN asked
             PROVE  LET request == asked[k].request
                        length == Length[request.anim]
                        due == asked[k].start + length
                        expected ==
                          /\ request.controller = None /\ request.next \in Anims
                          /\ ~Loops[request.anim] \/ (request.stop = "once" /\ length > 0)
                          /\ clock >= due /\ clock > asked[k].start
                    IN  IF request.stop = "molang" THEN Len(begun[k]) <= 1
                        ELSE begun[k] = (IF expected THEN <<due>> ELSE <<>>)
  BY DEF Animator!FollowUpsOnTime
<1> DEFINE o == Original(k)
           request == asked[k].request
<1>1. k \in 1..Len(asked)
  BY DEF AnimatorInv
<1>2. /\ o \in Plays /\ o.anim = request.anim /\ o.start = asked[k].start /\ o.stop = request.stop
      /\ o.then = IF request.controller = None /\ request.next \in Anims
                  THEN request.next ELSE None
  BY <1>1, OriginalTyped
<1>3. o.then # None <=> request.controller = None /\ request.next \in Anims
  BY <1>2, AnimationTyped
<1>4. ASSUME o.stop = "molang"
      PROVE  Len(begun[k]) <= 1
  <2>1. begun[k] = <<>> \/ \E t \in Int : begun[k] = <<t>>
    BY <1>1 DEF AnimatorInv, RequestWaits, RequestEnded
  <2>2. CASE begun[k] = <<>>
    BY <2>2
  <2>3. CASE \E t \in Int : begun[k] = <<t>>
    BY <2>3
  <2> QED
    BY <2>1, <2>2, <2>3
<1>5. ASSUME o.stop # "molang"
      PROVE  begun[k] = IF o.then # None /\ Overdue(o) THEN <<o.start + Length[o.anim]>> ELSE <<>>
  <2>1. CASE RequestWaits(k)
    <3>1. ~Animator!Stopped(o) /\ begun[k] = <<>> /\ o.start <= clock
      BY <1>1, <2>1 DEF RequestWaits, AnimatorInv
    <3>2. ~Overdue(o)
      <4> HIDE DEF o
      <4> QED
        BY <1>2, <1>5, <3>1, StoppedMeansOverdue
    <3> QED
      BY <3>1, <3>2
  <2>2. CASE RequestEnded(k)
    BY <1>5, <2>2 DEF RequestEnded
  <2> QED
    BY <1>1, <2>1, <2>2 DEF AnimatorInv
<1> HIDE DEF o
<1> QED
  BY <1>2, <1>3, <1>4, <1>5 DEF Overdue

LEMMA ActsInTime ==
  ASSUME AnimatorInv, [Animator!AnimatorNext]_animatorVars
  PROVE  AnimatorInv' /\ [Animator!StepsInTime]_animatorVars
<1>1. CASE Animator!AnimatorNext
  <2>1. /\ AnimatorInv'
        /\ left' < left => \A c \in Controllers : TimeKept(controllers[c], controllers'[c])
    BY <1>1, AnimatorActs
  <2>2. ASSUME NEW c \in Controllers, TimeKept(controllers[c], controllers'[c])
        PROVE  Animator!KeepsTime(c)
    BY <2>2 DEF Animator!KeepsTime, TimeKept
  <2>3. left' = 0 => Animator!FollowUpsOnTime'
    <3>1. (AnimatorInv /\ left = 0 => Animator!FollowUpsOnTime)'
      BY FollowUpsBegan, PTL
    <3> QED
      BY <2>1, <3>1
  <2> QED
    BY <2>1, <2>2, <2>3 DEF Animator!StepsInTime
<1>2. CASE UNCHANGED animatorVars
  <2>1. AnimatorInv'
    BY <1>2 DEF animatorVars, AnimatorInv, RequestWaits, RequestEnded, Original, Overdue,
         Animator!ServerPlay, Animator!Never, Animator!Stopped, Animator!ServerStopAt,
         Animator!Elapsed
  <2> QED
    BY <1>2, <2>1
<1> QED
  BY <1>1, <1>2

(* The steps of a frame take each controller through one transition at     *)
(* most, from the state that it was in, start its blend at weight 0, and   *)
(* move neither the blend nor a playhead faster than the clock; between    *)
(* frames each follow-up of a request that is due has begun, once, at the  *)
(* moment the animation before it stopped: for any controllers, animations *)
(* and requests, and for frames of any length.                             *)
THEOREM AnimatorInTime == PageSpec => AnimatorKeepsTime
<1>1. PageInit => AnimatorInv
  BY AnimatorStarts DEF PageInit, PartsInit
<1>2. [PageNext]_pageVars => [Animator!AnimatorNext]_animatorVars
  BY DEF PageNext, Terrain, OfEntity, OfUi, OfTake, OfAnimator, pageVars
<1>3. AnimatorInv /\ [PageNext]_pageVars => AnimatorInv' /\ [Animator!StepsInTime]_animatorVars
  BY <1>2, ActsInTime
<1> QED
  BY <1>1, <1>3, PTL DEF PageSpec, AnimatorKeepsTime

=============================================================================
