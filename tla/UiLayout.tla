------------------------------ MODULE UiLayout ------------------------------
(***************************************************************************)
(* The layout of a JSON UI tree (viewer/src/ui/jsonui/layout.ts): sizes    *)
(* that refer to the parent, to the element's other axis, to its children  *)
(* or to the room left, solved in several passes over the tree.            *)
(*                                                                         *)
(* Numbers are gui pixels, and trees are such that every division is       *)
(* exact.  A label has a text of one word.  Which expression makes an      *)
(* element visible or ignored, the bars of scroll views, and explicit grid *)
(* positions are left out.                                                 *)
(***************************************************************************)
EXTENDS Integers, Sequences, FiniteSetsExt, SequencesExt

CONSTANTS
  Trees,     \* the resolved trees that are laid out
  Viewport,  \* the size of the screen
  CharW,     \* the size of a character of a label
  LineH,
  Unset,     \* no anchor given
  NoLayout   \* nothing laid out yet

VARIABLES
  tree,  \* the resolved tree
  laid   \* what layoutTree returns for it

vars == <<tree, laid>>

(* An element is a record of                                               *)
(*   kind      "panel", "stack", "grid" or "label"                         *)
(*   along     the main axis of a stack                                    *)
(*   size, least, most     size, min_size and max_size on each axis        *)
(*   from, to  anchor_from and anchor_to in halves of each axis, or Unset  *)
(*   offset    from there on each axis                                     *)
(*   factory   whether the controls of a stack are made by a factory       *)
(*   seen      "shown", "hidden" or "ignored"                              *)
(*   layer, text (its length), dims (columns and rows), controls           *)
(* and a laid-out node is a record of the element, its box, layer and      *)
(* children.                                                               *)
Axis == {"w", "h"}
Other(a) == IF a = "w" THEN "h" ELSE "w"
OnAxes(w, h) == [a \in Axis |-> IF a = "w" THEN w ELSE h]
Zero == OnAxes(0, 0)
Larger(a, b) == IF a > b THEN a ELSE b
Smaller(a, b) == IF a < b THEN a ELSE b
Sum(seq) == FoldLeft(LAMBDA total, n : total + n, 0, seq)
Highest(seq) == FoldLeft(Larger, 0, seq)
Each(op(_), seq) == [i \in DOMAIN seq |-> op(seq[i])]

Box(at, size) == [at |-> at, size |-> size]
Node(el, box, children) ==
  [element |-> el, box |-> box, layer |-> el.layer, children |-> children]
Stub(el, parent) == Node(el, Box(parent.at, Zero), << >>)

-----------------------------------------------------------------------------
(* A size is n of a unit, plus some pixels.                                *)
NeedsChildren(spec) == spec.unit \in {"%c", "%cm"}
IsFill(spec) == spec.unit = "fill"
IsDefault(spec) == spec.unit = "default"

Value(spec, env, a) ==
  spec.plus +
    CASE spec.unit = "default" -> env.parent[a]
      [] spec.unit = "fill" -> env.remaining[a]
      [] spec.unit = "px" -> 0
      [] spec.unit = "%" -> (spec.n * env.parent[a]) \div 100
      [] spec.unit = "%c" -> (spec.n * env.children[a]) \div 100
      [] spec.unit = "%cm" -> (spec.n * env.maxChild[a]) \div 100
      [] spec.unit = "%x" -> (spec.n * env.self["w"]) \div 100
      [] spec.unit = "%y" -> (spec.n * env.self["h"]) \div 100

Env(parent, remaining) ==
  [parent |-> parent, self |-> Zero, children |-> Zero, maxChild |-> Zero,
   remaining |-> remaining]

TextSize(el) == OnAxes(el.text * CharW, LineH)
(* A word that is too long for its line goes on in the next. *)
WrappedHeight(el, width) ==
  LET perLine == Larger(1, width \div CharW)
  IN  LineH * Larger(1, (el.text + perLine - 1) \div perLine)

(* resolveSizePair: a label without children is as large as its text, and  *)
(* wraps to a width that is given.                                         *)
ResolveSizePair(el, env) ==
  LET intrinsic(of) == [a \in Axis |-> IF of[a] = 0 THEN TextSize(el)[a] ELSE of[a]]
      e == IF el.kind = "label"
             THEN [env EXCEPT !.children = intrinsic(@), !.maxChild = intrinsic(@)]
             ELSE env
      plain == [a \in Axis |-> Value(el.size[a], e, a)]
      isText(a) == el.kind = "label" /\ IsDefault(el.size[a])
      w == IF isText("w") THEN TextSize(el)["w"] ELSE plain["w"]
  IN  OnAxes(w, IF ~isText("h") THEN plain["h"]
                ELSE IF ~isText("w") /\ w > 0 THEN WrappedHeight(el, w)
                ELSE TextSize(el)["h"])

ClampSize(el, size, env) ==
  LET atLeast(a) == IF IsDefault(el.least[a]) THEN size[a]
                    ELSE Larger(size[a], Value(el.least[a], env, a))
  IN  [a \in Axis |-> IF IsDefault(el.most[a]) THEN atLeast(a)
                      ELSE Smaller(atLeast(a), Value(el.most[a], env, a))]

(* positionWithAnchors and resolveOffset. *)
Center == OnAxes(1, 1)
TopLeft == OnAxes(0, 0)
OrElse(anchor, default) == IF anchor = Unset THEN default ELSE anchor
Place(el, parent, size) ==
  LET from == OrElse(el.from, Center)
      to == OrElse(el.to, Center)
      env == [Env(parent.size, parent.size) EXCEPT !.self = size]
  IN  [a \in Axis |-> parent.at[a] + (parent.size[a] * from[a] - size[a] * to[a]) \div 2
                                 + Value(el.offset[a], env, a)]

IsKept(el) == el.seen # "ignored"
IsShown(el) == el.seen = "shown"
Boxes(nodes) == Each(LAMBDA node : node.box, nodes)
Sizes(nodes, a) == Each(LAMBDA node : node.box.size[a], nodes)

(* The box around boxes; that one includes the origin is the bug a comment *)
(* of measureChildren tells of.                                            *)
MutantBounds(boxes) ==
  [a \in Axis |-> Max({0} \cup {b.at[a] + b.size[a] : b \in ToSet(boxes)})
                   - Min({0} \cup {b.at[a] : b \in ToSet(boxes)})]
Bounds(boxes) ==
  LET all == ToSet(boxes)
  IN  IF all = {} THEN Zero
      ELSE [a \in Axis |-> Larger(0, Max({b.at[a] + b.size[a] : b \in all})
                                       - Min({b.at[a] : b \in all}))]

(* A box is moved with all that is in it. *)
MutantShift(node, by) == [node EXCEPT !.box.at = [a \in Axis |-> @[a] + by[a]]]
RECURSIVE ShiftLayoutTree(_, _)
ShiftLayoutTree(node, by) ==
  [node EXCEPT !.box.at = [a \in Axis |-> @[a] + by[a]],
               !.children = Each(LAMBDA child : ShiftLayoutTree(child, by), @)]

-----------------------------------------------------------------------------
RECURSIVE LayoutElement(_, _, _)

(* layoutAnchored: panels and labels.  Children are measured only for a    *)
(* size that needs them, in the parent's room on the axes that do.         *)
LayoutAnchored(el, parent, remaining) ==
  LET env0 == Env(parent.size, remaining)
      tentative == ResolveSizePair(el, env0)
      content == [a \in Axis |-> IF NeedsChildren(el.size[a]) THEN parent.size[a]
                                 ELSE Larger(tentative[a], 0)]
      measured == IF \E a \in Axis : NeedsChildren(el.size[a])
                    THEN Each(LAMBDA c : LayoutElement(c, Box(Zero, content), content),
                              SelectSeq(el.controls, IsShown))
                    ELSE << >>
      env == [env0 EXCEPT !.children = Bounds(Boxes(measured)),
                          !.maxChild = [a \in Axis |-> Highest(Sizes(measured, a))]]
      first == ResolveSizePair(el, [env EXCEPT !.self = tentative])
      second == ResolveSizePair(el, [env EXCEPT !.self = first])
      size == ClampSize(el, second, [env EXCEPT !.self = second])
      self == Box(Place(el, parent, size), size)
  IN  Node(el, self, Each(LAMBDA c : LayoutElement(c, self, size),
                          SelectSeq(el.controls, IsKept)))

(* A column of icons lies on top of the row it is in and takes no room of  *)
(* the flow.                                                               *)
IsOverlayGutter(stack, el) ==
  stack.along = "w" /\ el.size["w"].unit = "px" /\ NeedsChildren(el.size["h"])
IsMainFill(stack, el) == IsFill(el.size[stack.along]) /\ ~IsOverlayGutter(stack, el)
TakesRoom(stack, el) == IsShown(el) /\ ~IsOverlayGutter(stack, el) /\ ~IsMainFill(stack, el)
Taking(stack, nodes) == SelectSeq(nodes, LAMBDA node : TakesRoom(stack, node.element))
Filling(stack, nodes) == SelectSeq(nodes, LAMBDA node : IsMainFill(stack, node.element))

(* layoutStack: children are measured first, those that fill the stack     *)
(* with no room at all; then the stack has its size; then they are laid    *)
(* out in its box and moved to their place in the flow.                    *)
RoomOf(stack, tentative, el) ==
  IF IsMainFill(stack, el) THEN [tentative EXCEPT ![stack.along] = 0] ELSE tentative

StackSize(el, parent, remaining, measured) ==
  LET main == el.along
      used == Sum(Sizes(Taking(el, measured), main))
      env == [Env(parent.size, remaining) EXCEPT
                !.children = [a \in Axis |-> IF a = main THEN used
                                             ELSE Highest(Sizes(measured, a))],
                !.maxChild = [a \in Axis |-> Highest(Sizes(measured, a))]]
      size == ResolveSizePair(el, env)
  IN  [size |-> ClampSize(el, size, [env EXCEPT !.self = size]), used |-> used]

(* In a stack no anchor is the top left; what a factory makes is put there. *)
NoOffset == LET zero == [unit |-> "px", n |-> 0, plus |-> 0] IN OnAxes(zero, zero)
InFlow(stack, child) ==
  IF stack.factory
    THEN [child EXCEPT !.from = TopLeft, !.to = TopLeft, !.offset = NoOffset]
    ELSE [child EXCEPT !.from = OrElse(@, TopLeft), !.to = OrElse(@, TopLeft)]

(* One child goes behind those placed before it, or, as an overlay, to the *)
(* start of the stack and, if there are children that fill, above them.    *)
PlaceInFlow(el, self, share, below, sofar, child) ==
  LET main == el.along
      fills == IsMainFill(el, child)
      node == LayoutElement(InFlow(el, child), self,
                            [self.size EXCEPT ![main] = IF fills THEN share ELSE @])
      sized == IF fills THEN [node EXCEPT !.box.size[main] = share] ELSE node
      toStart == [a \in Axis |-> self.at[a] - node.box.at[a]]
      toCursor == [Zero EXCEPT ![main] = toStart[main] + sofar.cursor]
  IN  IF ~IsShown(child) THEN [sofar EXCEPT !.nodes = Append(@, Stub(child, self))]
      ELSE IF IsOverlayGutter(el, child)
      THEN LET raised == [ShiftLayoutTree(node, toStart) EXCEPT
                            !.layer = Max({@} \cup {layer + 1 : layer \in below})]
           IN  [sofar EXCEPT !.nodes = Append(@, raised)]
      ELSE [nodes |-> Append(sofar.nodes, ShiftLayoutTree(sized, toCursor)),
            cursor |-> sofar.cursor + sized.box.size[main]]

LayoutStack(el, parent, remaining) ==
  LET main == el.along
      tent == ResolveSizePair(el, Env(parent.size, remaining))
      tentative == [a \in Axis |-> IF NeedsChildren(el.size[a]) THEN parent.size[a]
                                   ELSE Larger(tent[a], 0)]
      measured == Each(LAMBDA c : LayoutElement(c, Box(Zero, tentative), RoomOf(el, tentative, c)),
                       SelectSeq(el.controls, IsShown))
      whole == StackSize(el, parent, remaining, measured)
      fillers == Len(Filling(el, measured))
      share == IF fillers = 0 THEN 0
               ELSE Larger(0, whole.size[main] - whole.used) \div fillers
      flowing == SelectSeq(measured, LAMBDA node : ~IsOverlayGutter(el, node.element))
      below == IF fillers = 0 THEN {} ELSE {0} \cup {node.layer : node \in ToSet(flowing)}
      self == Box(Place(el, parent, whole.size), whole.size)
  IN  Node(el, self,
           FoldLeft(LAMBDA sofar, c : PlaceInFlow(el, self, share, below, sofar, c),
                    [nodes |-> << >>, cursor |-> 0], SelectSeq(el.controls, IsKept)).nodes)

(* layoutGrid: a size in % is taken of the grid, unless that would be more *)
(* than a cell.  A grid whose height is that of its content, or is not     *)
(* given, has rows as high as its first item.                              *)
Scaled(spec, factor) ==
  IF spec.unit = "%" /\ spec.plus = 0 /\ spec.n * factor <= 101
    THEN [spec EXCEPT !.n = @ * factor] ELSE spec
GridItem(el, dims) == [el EXCEPT !.size = [a \in Axis |-> Scaled(@[a], dims[a])]]

LayoutGrid(el, parent) ==
  LET env == Env(parent.size, parent.size)
      byContent == NeedsChildren(el.size["h"]) \/ IsDefault(el.size["h"])
      width == IF NeedsChildren(el.size["w"]) THEN parent.size["w"]
               ELSE Value(el.size["w"], env, "w")
      items == SelectSeq(el.controls, IsKept)
      probed == OnAxes(width \div el.dims["w"], 1000)
      rowH == IF items = << >> THEN 1
              ELSE Larger(1, LayoutElement(GridItem(items[1], el.dims),
                                           Box(Zero, probed), probed).box.size["h"])
      height == IF byContent THEN rowH * el.dims["h"]
                ELSE Value(el.size["h"], [env EXCEPT !.self["w"] = width], "h")
      gross == OnAxes(width, height)
      clamped == ClampSize(el, gross, [env EXCEPT !.self = gross, !.children = gross])
      cell == OnAxes(clamped["w"] \div el.dims["w"],
                     IF byContent THEN rowH ELSE clamped["h"] \div el.dims["h"])
      size == [clamped EXCEPT !["h"] = IF byContent THEN rowH * el.dims["h"] ELSE @]
      self == Box(Place(el, parent, size), size)
      cellAt(i) == OnAxes(self.at["w"] + ((i - 1) % el.dims["w"]) * cell["w"],
                          self.at["h"] + ((i - 1) \div el.dims["w"]) * cell["h"])
      inGrid == Smaller(Len(items), el.dims["w"] * el.dims["h"])
  IN  Node(el, self, [i \in 1..inGrid |->
                        LayoutElement(GridItem(items[i], el.dims), Box(cellAt(i), cell), cell)])

LayoutElement(el, parent, remaining) ==
  IF ~IsShown(el) THEN Stub(el, parent)
  ELSE CASE el.kind = "stack" -> LayoutStack(el, parent, remaining)
         [] el.kind = "grid" -> LayoutGrid(el, parent)
         [] OTHER -> LayoutAnchored(el, parent, remaining)

-----------------------------------------------------------------------------
Init == tree = NoLayout /\ laid = NoLayout

LayoutTree ==
  /\ laid = NoLayout
  /\ tree' \in Trees
  /\ laid' = LayoutElement(tree', Box(Zero, Viewport), Viewport)

Next == LayoutTree
Spec == Init /\ [][Next]_vars

-----------------------------------------------------------------------------
(* What a solved layout is.  A size is what is written, with what it refers *)
(* to read off the layout itself: the box the element is in (in a grid, a  *)
(* cell), its other axis, its children, and the room a stack leaves to     *)
(* what fills it.  A place is where the anchors put the element in that    *)
(* box; along a stack, behind the elements before it.                      *)
ShownIn(nodes) == SelectSeq(nodes, LAMBDA node : IsShown(node.element))

Content(node) ==
  LET el == node.element
      shown == ShownIn(node.children)
      widest == [a \in Axis |-> Highest(Sizes(shown, a))]
      all == Bounds(Boxes(shown))
      rowH == IF node.children = << >> THEN 1 ELSE Larger(1, node.children[1].box.size["h"])
  IN  CASE el.kind = "stack" ->
             [widest EXCEPT ![el.along] = Sum(Sizes(Taking(el, shown), el.along))]
        [] el.kind = "grid" -> [all EXCEPT !["h"] = el.dims["h"] * rowH]
        [] OTHER -> all

(* A grid as high as its content, or without a height, is as high as its   *)
(* rows.                                                                   *)
AsWritten(el) ==
  IF el.kind = "grid" /\ (NeedsChildren(el.size["h"]) \/ IsDefault(el.size["h"]))
    THEN [el EXCEPT !.size["h"] = [unit |-> "%c", n |-> 100, plus |-> 0]] ELSE el

HasItsSize(node, parent, room) ==
  LET el == AsWritten(node.element)
      env == [parent |-> parent, self |-> node.box.size, remaining |-> room,
              children |-> Content(node),
              maxChild |-> [a \in Axis |-> Highest(Sizes(ShownIn(node.children), a))]]
  IN  node.box.size = ClampSize(el, ResolveSizePair(el, env), env)

BoxOf(node, i) ==
  LET dims == node.element.dims
      cell == [a \in Axis |-> node.box.size[a] \div dims[a]]
      index == OnAxes((i - 1) % dims["w"], (i - 1) \div dims["w"])
  IN  IF node.element.kind = "grid"
        THEN Box([a \in Axis |-> node.box.at[a] + index[a] * cell[a]], cell) ELSE node.box

RoomFor(node, i) ==
  LET el == node.element
      shown == ShownIn(node.children)
      left == node.box.size[el.along] - Sum(Sizes(Taking(el, shown), el.along))
  IN  IF el.kind = "stack" /\ IsMainFill(el, node.children[i].element)
        THEN [node.box.size EXCEPT ![el.along] = Larger(0, left) \div Len(Filling(el, shown))]
        ELSE BoxOf(node, i).size

IsInPlace(node, i) ==
  LET el == node.element
      child == node.children[i]
      before == SelectSeq(ShownIn(SubSeq(node.children, 1, i - 1)),
                          LAMBDA other : ~IsOverlayGutter(el, other.element))
      anchored == Place(child.element, BoxOf(node, i), child.box.size)
  IN  child.box.at = CASE el.kind # "stack" -> anchored
                       [] IsOverlayGutter(el, child.element) -> node.box.at
                       [] OTHER -> [anchored EXCEPT ![el.along] =
                                      node.box.at[el.along] + Sum(Sizes(before, el.along))]

RECURSIVE Solved(_, _, _)
Solved(node, parent, room) ==
  /\ HasItsSize(node, parent, room)
  /\ \A i \in DOMAIN node.children :
       IsShown(node.children[i].element) =>
         /\ IsInPlace(node, i)
         /\ Solved(node.children[i], BoxOf(node, i).size, RoomFor(node, i))

-----------------------------------------------------------------------------
(* Sizes that have no solution, or more than one: an axis as large as the  *)
(* children is one that a child takes from its parent, or that the places  *)
(* of its children depend on; or a size is given in terms of itself.       *)
OfOther(el, a) == el.size[a].unit = (IF a = "w" THEN "%y" ELSE "%x")
OfParent(el, a) ==
  \/ el.size[a].unit \in {"%", "fill"} \/ "%" \in {el.least[a].unit, el.most[a].unit}
  \/ el.kind # "label" /\ IsDefault(el.size[a])
TakenByChild(el, a) == \E c \in ToSet(el.controls) : IsShown(c) /\ OfParent(c, a)
PlacedApart(el, a) ==
  LET shown == SelectSeq(el.controls, IsShown)
  IN  /\ el.kind \notin {"stack", "grid"}
      /\ \/ Cardinality({OrElse(c.from, Center)[a] : c \in ToSet(shown)}) > 1
         \/ \E c \in ToSet(shown) : c.offset[a].unit # "px"
Circular(el) ==
  \/ el.size["w"].unit = "%x" \/ el.size["h"].unit = "%y"
  \/ \A a \in Axis : OfOther(el, a)
  \/ \E a \in Axis : /\ NeedsChildren(AsWritten(el).size[a])
                      /\ \/ TakenByChild(el, a) \/ PlacedApart(el, a)
                         \/ OfOther(el, Other(a)) /\ TakenByChild(el, Other(a))

(* Sizes that have a solution which the passes do not find.  A limit on an *)
(* axis is applied last, when the other axis and, for what has the size of *)
(* its children, their sizes have been taken of the size without it.  A    *)
(* stack or a grid has no second pass for its other axis, a grid is as     *)
(* wide as its parent whatever its items are, and its rows do not shrink.  *)
(* The share of what fills a stack is set after its content was laid out.  *)
Limited(el, a) == ~IsDefault(el.least[a]) \/ ~IsDefault(el.most[a])
LimitTooLate(el) ==
  \E a \in Axis :
    /\ Limited(el, a)
    /\ \/ OfOther(el, Other(a))
       \/ TakenByChild(el, a) /\ (el.kind \in {"stack", "grid"} \/ NeedsChildren(el.size[Other(a)]))
OnePass(el) == el.kind \in {"stack", "grid"} /\ \E a \in Axis : OfOther(el, a)
GridOfItems(el) == el.kind = "grid" /\ (NeedsChildren(el.size["w"]) \/ Limited(el, "h"))
ShareTooLate(el) ==
  /\ el.kind = "stack"
  /\ \E c \in ToSet(el.controls) :
       IsShown(c) /\ IsMainFill(el, c) /\ (Limited(c, el.along) \/ c.kind = "grid")

RECURSIVE Solvable(_)
Solvable(el) ==
  /\ ~(Circular(el) \/ LimitTooLate(el) \/ OnePass(el) \/ GridOfItems(el) \/ ShareTooLate(el))
  /\ \A c \in ToSet(el.controls) : IsShown(c) => Solvable(c)

(* The passes of layoutTree find the layout a tree asks for: every size    *)
(* and every place agrees with all the others in the result, although      *)
(* children are measured before their parents have a size and moved after  *)
(* their own children are placed.                                          *)
LayoutSolved ==
  laid # NoLayout /\ IsShown(tree) /\ Solvable(tree) =>
    /\ laid.box.at = Place(tree, Box(Zero, Viewport), laid.box.size)
    /\ Solved(laid, Viewport, Viewport)
=============================================================================
