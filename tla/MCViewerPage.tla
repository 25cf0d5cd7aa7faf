---------------------------- MODULE MCViewerPage ----------------------------
(***************************************************************************)
(* What the viewer page draws, for TLC: the parts of ViewerPage, and the   *)
(* layout of one screen of the game's user interface.                      *)
(***************************************************************************)
EXTENDS ViewerPage

CONSTANTS c1, c2, cow, pig, iron, menu, page, dialogue, slider, face, bar

VARIABLES tree, laid

layoutVars == <<tree, laid>>

-----------------------------------------------------------------------------
(* Two columns next to each other. *)
MCAdjacent == {{c1, c2}}
Received(s, blocks) == [state |-> s, section |-> blocks]
MCArriving == {Received("complete", "none"), Received("complete", "full"),
               Received("partial", "none")}

(* A pack whose "player" refers to "look" from both its states, shares     *)
(* "stand" between them, and has a transition to a state that is missing.  *)
(* "turn" has no length.                                                   *)
PlayerStates == {"idle", "act"}
LookStates == {"ahead", "aside", "back"}
OfState(values, otherwise) ==
    [s \in PlayerStates \cup LookStates |-> IF s \in DOMAIN values THEN values[s] ELSE otherwise]
To(s, when) == [to |-> s, when |-> when]
Ask(anim, controller, next, stop, blendOut) ==
    [anim |-> anim, controller |-> controller, next |-> next, stop |-> stop, blendOut |-> blendOut]

MCInitial == [player |-> "idle", look |-> "ahead"]
MCStatesOf == [player |-> PlayerStates, look |-> LookStates]
MCAnimsOf == OfState([idle |-> {"stand"}, act |-> {"stand", "swing"}, ahead |-> {"turn"}], {})
MCChildrenOf == OfState([idle |-> {"look"}, act |-> {"look"}], {})
MCBlendOf == OfState([idle |-> 2, ahead |-> 1], 0)
MCNextOf == OfState([idle |-> <<To("act", "moving")>>,
                     act |-> <<To("idle", "all_animations_finished")>>,
                     ahead |-> <<To("aside", "looking")>>,
                     aside |-> <<To("back", "moving")>>,
                     back |-> <<To("lost", "moving"), To("ahead", "looking")>>], <<>>)
MCLength == [stand |-> 1, swing |-> 2, turn |-> 0]
MCLoops == [stand |-> TRUE, swing |-> FALSE, turn |-> FALSE]
MCStartDelay == [stand |-> 0, swing |-> 1, turn |-> 0]
MCRequests == {Ask("swing", None, "turn", "empty", 1), Ask("stand", None, "swing", "once", 0),
               Ask("turn", None, "stand", "molang", 2), Ask("turn", "look", "back", "empty", 0),
               Ask("turn", None, "swing", "once", 0)}

(* Of a column of a take. *)
Payload(s, section, light) == [state |-> s, section |-> section, light |-> light]
MCPayloads == {Payload("requested", "none", 0), Payload("partial", "A", 0),
               Payload("complete", "A", 0), Payload("complete", "A", 1),
               Payload("complete", "B", 0), Payload("complete", "none", 0)}

(* Two forms with the same buttons, one without a screen in the packs and  *)
(* one the renderer refuses.                                               *)
MCForm == {menu, page, dialogue, slider}
MCFace == [f \in MCForm |-> IF f = page THEN menu ELSE f]
MCTexturesOf == [f \in MCForm |-> IF f = page THEN {face, bar} ELSE IF f = menu THEN {face} ELSE {}]

(* A screen with one element of each kind, in turn, and two controls in it: *)
(* of every sort of size, labels, an icon column, hidden or ignored, held   *)
(* to a corner.  What is in a vertical stack is made by a factory.          *)
SizeOf(unit, n, plus) == [unit |-> unit, n |-> n, plus |-> plus]
Px(n) == SizeOf("px", 0, n)
Pc(n) == SizeOf("%", n, 0)
Default == SizeOf("default", 0, 0)
Fill == SizeOf("fill", 0, 0)
OfChildren == SizeOf("%c", 100, 0)
OnAxes(w, h) == [w |-> w, h |-> h]
Corner == OnAxes(2, 2)
Element(kind, along, w, h, controls) ==
    [kind |-> kind, along |-> along, size |-> OnAxes(w, h),
     least |-> OnAxes(Default, Default), most |-> OnAxes(Default, Default),
     from |-> None, to |-> None, offset |-> OnAxes(Px(0), Px(0)), factory |-> along = "h",
     seen |-> "shown", layer |-> 0, text |-> 8, dims |-> OnAxes(2, 1), controls |-> controls]
Leaf(w, h) == Element("panel", "w", w, h, <<>>)
Around(w, h) == Element("panel", "w", w, h, <<Leaf(Pc(50), Pc(50))>>)
Controls ==
    {Around(Px(32), Px(64)), Around(Fill, Fill), Around(Pc(25), SizeOf("%x", 50, 0)),
     [Around(Fill, Pc(25)) EXCEPT !.most = OnAxes(Px(64), Default)],
     Element("panel", "w", Px(16), OfChildren, <<Leaf(Px(16), Px(32))>>),
     [Leaf(Px(32), Px(16)) EXCEPT !.from = Corner, !.to = Corner,
                                  !.offset = OnAxes(Px(-8), Px(-8))],
     [Leaf(Px(32), Px(32)) EXCEPT !.seen = "hidden"],
     [Leaf(Px(32), Px(32)) EXCEPT !.seen = "ignored"],
     Element("label", "w", Default, Default, <<>>), Element("label", "w", Pc(25), Default, <<>>)}
Screens ==
    {Element("panel", "w", Default, Default,
        <<[Element(shape[1], shape[2], w, h, <<one, two>>)
             EXCEPT !.most = OnAxes(most, Default)]>>) :
        shape \in {<<"panel", "w">>, <<"stack", "w">>, <<"stack", "h">>, <<"grid", "w">>},
        w \in {Px(128), SizeOf("%", 100, -64), SizeOf("%y", 50, 0), OfChildren},
        h \in {Px(128), SizeOf("%", 100, -64), OfChildren},
        most \in {Default, Px(64)}, one \in Controls, two \in Controls}

Layout == INSTANCE UiLayout WITH
    Trees <- Screens, Viewport <- OnAxes(512, 256), CharW <- 8, LineH <- 16,
    Unset <- None, NoLayout <- None

-----------------------------------------------------------------------------
allVars == <<pageVars, layoutVars>>

OfPage(A) == A /\ UNCHANGED layoutVars
OfLayout(A) == part = "layout" /\ A /\ UNCHANGED pageVars

MCInit ==
    /\ part \in {"terrain", "entity", "animator", "take", "ui", "layout"} /\ PartsInit
    /\ Layout!Init

MCNext ==
    \/ OfPage(Terrain(Next))
    \/ OfPage(OfEntity(Entities!Next))
    \/ OfPage(OfUi(UserInterface!Next))
    \/ OfPage(OfTake(Lookahead!LookaheadNext))
    \/ OfPage(OfAnimator(Animator!AnimatorNext))
    \/ OfLayout(Layout!Next)

MCSpec == MCInit /\ [][MCNext]_allVars /\ PageFairness

-----------------------------------------------------------------------------
(* UiLayout: the layout of a screen agrees with all the sizes and anchors  *)
(* written in it.                                                          *)
LayoutSolved == Layout!LayoutSolved
=============================================================================
