----------------------------- MODULE ViewerPage -----------------------------
(***************************************************************************)
(* What the viewer page draws of the stream: its terrain, one entity, the  *)
(* animator of one, a column of a take that the film tool rewrites before  *)
(* the page plays it, and the game's user interface.  They share no state, *)
(* so a behaviour is one of them, chosen at the start.                     *)
(***************************************************************************)
EXTENDS TerrainScene

CONSTANTS
    None,
    Look, PlainLook, Gear, Bare, EarlyMax, MaxEntityFrames, MaxPlays,      \* see EntityScene
    Form, Unsupported, PlainForm, Face, Button, Vitals,                    \* see JsonUi
    Texture, TexturesOf, HudTextures, MaxUiFrames, MaxEvents,
    Contents, FromTime, ToTime, Payloads, MaxTake, LastTime,               \* see FilmLookahead
    Controllers, Roots, Anims, Initial, StatesOf, AnimsOf, ChildrenOf,     \* see EntityAnimator
    BlendOf, Conditions, NextOf, Length, Loops, StartDelay, Requests,
    MaxFrame, MaxHead, MaxServerPlays, MaxClock

VARIABLES
    part,
    entity, node, earlyAnims, loads, unseen, wiping, entityRegistry, entityFrames, playCount,
    form, formHover, vitals, pending, seen, link, mounted, ui, grab,
    uiFrames, eventCount, handed, lost, hoverFace, thrown,
    take, sent, time,
    clock, left, controllers, plays, asked, begun

entityVars == <<entity, node, earlyAnims, loads, unseen, wiping, entityRegistry,
                entityFrames, playCount>>
uiVars == <<form, formHover, vitals, pending, seen, link, mounted, ui, grab,
            uiFrames, eventCount, handed, lost, hoverFace, thrown>>
takeVars == <<take, sent, time>>
animatorVars == <<clock, left, controllers, plays, asked, begun>>
pageVars == <<part, vars, entityVars, uiVars, takeVars, animatorVars>>

Entities == INSTANCE EntityScene WITH
    Plain <- PlainLook, MaxFrames <- MaxEntityFrames,
    worldClearPending <- wiping, frameCount <- entityFrames

UserInterface == INSTANCE JsonUi WITH
    Plain <- PlainForm, MaxFrames <- MaxUiFrames, frameCount <- uiFrames

Lookahead == INSTANCE FilmLookahead WITH Absent <- None

Animator == INSTANCE EntityAnimator WITH Nothing <- None, MaxPlays <- MaxServerPlays

ASSUME PageAssumption ==
    /\ Entities!EntityAssumption /\ UserInterface!UiAssumption
    /\ Lookahead!LookaheadAssumption /\ Animator!AnimatorAssumption

Terrain(A) ==
    part = "terrain" /\ A /\ UNCHANGED <<part, entityVars, uiVars, takeVars, animatorVars>>
OfEntity(A) == part = "entity" /\ A /\ UNCHANGED <<part, vars, uiVars, takeVars, animatorVars>>
OfUi(A) == part = "ui" /\ A /\ UNCHANGED <<part, vars, entityVars, takeVars, animatorVars>>
OfTake(A) == part = "take" /\ A /\ UNCHANGED <<part, vars, entityVars, uiVars, animatorVars>>
OfAnimator(A) == part = "animator" /\ A /\ UNCHANGED <<part, vars, entityVars, uiVars, takeVars>>

(* What has a choice makes it in the part that it matters to. *)
PartsInit ==
    /\ Init /\ (part # "terrain" => ~filmMode)
    /\ Entities!Init /\ (part # "entity" => ~entityRegistry)
    /\ UserInterface!Init /\ (part # "ui" => ~UserInterface!filmMode)
    /\ Lookahead!LookaheadInit
    /\ Animator!AnimatorInit

PageInit == part \in {"terrain", "entity", "ui", "take", "animator"} /\ PartsInit

PageNext ==
    \/ Terrain(Next)
    \/ OfEntity(Entities!Next)
    \/ OfUi(UserInterface!Next)
    \/ OfTake(Lookahead!LookaheadNext)
    \/ OfAnimator(Animator!AnimatorNext)

(* The fairness of TerrainScene and EntityScene. *)
PageFairness ==
    /\ WF_pageVars(Terrain(PaintLive)) /\ WF_pageVars(Terrain(PaintFilm))
    /\ WF_pageVars(Terrain(StartBuild))
    /\ WF_pageVars(Terrain(BuildDone \/ BuildFails))
    /\ WF_pageVars(Terrain(ApplyDone \/ ApplyFails))
    /\ WF_pageVars(OfEntity(Entities!DrainWorldClear))
    /\ WF_pageVars(OfEntity(Entities!Arrives))
    /\ WF_pageVars(OfEntity(Entities!Paint))

PageSpec == PageInit /\ [][PageNext]_pageVars /\ PageFairness

-----------------------------------------------------------------------------
(* EntityScene: the model and the equipment shown are those of the store,  *)
(* and every play reaches the entity's animator once, in order.            *)
EntityFollowsStore == Entities!EntityFollowsStore /\ Entities!PlaysKept
(* JsonUi: the form on screen is the one of the store, and the button that *)
(* is hovered was hovered on it.                                           *)
FormOnScreen == UserInterface!FormOnScreen /\ UserInterface!HoverBelongsToForm
(* JsonUi: particles and animations are handed over once, in order.        *)
EventsHandedOnce == UserInterface!EventsHandedOnce
(* JsonUi: a picture of a film shows the form of its moment, complete.     *)
FilmShowsForm == UserInterface!FilmShowsForm
(* FilmLookahead: in the window the film has the blocks of the take.       *)
FilmFollowsTake == Lookahead!FilmFollowsTake
(* EntityAnimator: steps and follow-ups keep to the clock.                 *)
AnimatorKeepsTime == [][Animator!StepsInTime]_animatorVars
(* The queue of sections and the fetches for entities run empty, so that a *)
(* frame can be taken of a settled page (main.ts: __viewerSettled).        *)
PageSettles == (part = "terrain" => SceneSettles) /\ (part = "entity" => Entities!LoadsEnd)
=============================================================================
