------------------------------- MODULE JsonUi -------------------------------
(***************************************************************************)
(* The game's user interface on the viewer page: what the stream brings of *)
(* it (viewer/src/store.ts), the runtime that draws it with the screens of *)
(* the packs (viewer/src/ui/jsonui/runtime.ts, forms.ts, hud.ts) and the   *)
(* film tool that takes pictures of it (viewer/film/frame.ts).             *)
(*                                                                         *)
(* A form is drawn with the textures there are; those that are missing are *)
(* fetched, and the form is drawn again when the last one has been         *)
(* answered.  A form the renderer refuses throws in the middle of a frame: *)
(* live, the stream is opened again; in a film, the film fails.            *)
(*                                                                         *)
(* The frames that one picture is due are applied in one turn; here a      *)
(* texture may be answered in between, as it may between two pictures.     *)
(***************************************************************************)
EXTENDS Naturals, Sequences

CONSTANTS
    Form,         \* forms the server opens
    Unsupported,  \* those with a field that the renderer refuses
    Plain,        \* those whose screen the packs do not have
    Face,         \* Face[f]: title and buttons of f
    Button,       \* indices of buttons
    Vitals,       \* what the HUD shows
    Texture, TexturesOf, HudTextures,
    None,
    MaxFrames, MaxEvents   \* bounds

VARIABLES
    form, formHover, vitals,   \* WorldState: ui.form, formHover, vitals
    pending,                   \* pendingParticles and pendingEntityAnims
    seen,                      \* has a frame come?
    link,                      \* "opening" until the keyframe, "open"
    mounted,                   \* are the packs loaded and the renderers there?
    ui,                        \* the runtime, its renderers and what they drew
    grab,                      \* presentFilmFrame; "off" in a live page
    frameCount, eventCount,
    handed, lost, hoverFace, thrown   \* histories

storeVars == <<form, formHover, vitals, pending, seen, link>>
historyVars == <<frameCount, eventCount, handed, lost, hoverFace, thrown>>
vars == <<storeVars, mounted, ui, grab, historyVars>>

filmMode == grab.at # "off"
FaceOf(f) == IF f = None THEN None ELSE Face[f]
Loaded(u, textures) == {t \in textures : u.textures[t] = "here"}
TexturesPending(u) == \E t \in Texture : u.textures[t] = "loading"

Drawn == [form : Form, hover : Button \cup {None}, plain : BOOLEAN, with : SUBSET Texture]
Hud == [vitals : Vitals \cup {None}, with : SUBSET Texture]

UiAssumption ==
    /\ None \notin Form \cup Button \cup Drawn \cup Hud
    /\ TexturesOf \in [Form -> SUBSET Texture] /\ HudTextures \subseteq Texture
    /\ MaxFrames \in Nat /\ MaxEvents \in Nat

(* failed is dataset.jsonuiError; threw lasts for one call. *)
Init ==
    /\ form = None /\ formHover = None /\ vitals = None
    /\ pending = <<>> /\ seen = FALSE /\ link = "opening"
    /\ mounted = FALSE
    /\ ui = [lastFormKey |-> None, lastHover |-> None, currentForm |-> None,
             hoverIndex |-> None, shown |-> None, hud |-> None,
             textures |-> [t \in Texture |-> "unasked"], failed |-> FALSE, threw |-> FALSE]
    /\ grab \in [at : {"off", "present"}, due : {TRUE}, prev : {None}]
    /\ frameCount = 0 /\ eventCount = 0
    /\ handed = <<>> /\ lost = {} /\ hoverFace = None /\ thrown = FALSE

-----------------------------------------------------------------------------
(* The renderers.                                                          *)

(* textureInfo: what is asked for the first time is fetched. *)
Asked(u, textures) ==
    [u EXCEPT !.textures = [t \in Texture |-> IF t \in textures /\ @[t] = "unasked"
                                              THEN "loading" ELSE @[t]]]

ShowEngine(u) ==
    IF u.currentForm \in Unsupported THEN [u EXCEPT !.threw = TRUE]
    ELSE LET needed == TexturesOf[u.currentForm]
         IN  Asked([u EXCEPT !.shown = [form |-> u.currentForm, hover |-> u.hoverIndex,
                                        plain |-> FALSE, with |-> Loaded(u, needed)]], needed)

ShowPlain(u) ==
    [u EXCEPT !.shown = [form |-> u.currentForm, hover |-> u.hoverIndex,
                         plain |-> TRUE, with |-> {}]]

Show(u, f) ==
    LET v == [u EXCEPT !.currentForm = f, !.hoverIndex = None]
    IN  IF f \in Plain THEN ShowPlain(v) ELSE ShowEngine(v)

Hide(u) == [u EXCEPT !.shown = None, !.currentForm = None, !.hoverIndex = None]

(* A form of the packs is drawn again, a plain one only marks the button.  *)
Hover(u, index) ==
    LET v == [u EXCEPT !.hoverIndex = index]
    IN  IF index = u.hoverIndex \/ u.shown = None THEN v
        ELSE IF u.shown.plain THEN [v EXCEPT !.shown.hover = index]
        ELSE ShowEngine(v)

(* The HUD is drawn again when what it is bound to has changed. *)
HudOnFrame(u, v) ==
    IF u.hud # None /\ u.hud.vitals = v THEN u
    ELSE Asked([u EXCEPT !.hud = [vitals |-> v, with |-> Loaded(u, HudTextures)]], HudTextures)

ProjectForm(u, f, hover) ==
    LET keyed == IF f = u.lastFormKey THEN u
                 ELSE LET v == [u EXCEPT !.lastHover = None]
                          w == IF f = None THEN Hide(v) ELSE Show(v, f)
                      IN  IF w.threw THEN [w EXCEPT !.failed = TRUE]
                          ELSE [w EXCEPT !.failed = FALSE, !.lastFormKey = f]
    IN  IF keyed.threw \/ hover = keyed.lastHover THEN keyed
        ELSE Hover([keyed EXCEPT !.lastHover = hover], hover)

OnFrame(u, f, hover, v) == ProjectForm(HudOnFrame(u, v), f, hover)

-----------------------------------------------------------------------------
(* Frames: the store takes one in and tells its listener.                  *)

MutantListener(f, hover, v, events) ==
    LET drawn == IF mounted THEN OnFrame(ui, f, hover, v) ELSE ui
    IN  /\ ui' = [drawn EXCEPT !.threw = FALSE]
        /\ thrown' = (thrown \/ drawn.threw)
        /\ handed' = handed \o events
        /\ pending' = IF drawn.threw THEN events ELSE <<>>
        /\ IF filmMode
           THEN link' = "open" /\ grab' = [grab EXCEPT !.at = IF drawn.threw THEN "failed" ELSE @]
           ELSE /\ link' \in IF drawn.threw THEN {"open", "opening"} ELSE {"open"}
                /\ UNCHANGED grab
Listener(f, hover, v, events) ==
    LET drawn == IF mounted THEN OnFrame(ui, f, hover, v) ELSE ui
    IN  /\ ui' = [drawn EXCEPT !.threw = FALSE]
        /\ thrown' = (thrown \/ drawn.threw)
        /\ IF drawn.threw THEN pending' = events /\ UNCHANGED handed
           ELSE pending' = <<>> /\ handed' = handed \o events
        /\ IF filmMode
           THEN link' = "open" /\ grab' = [grab EXCEPT !.at = IF drawn.threw THEN "failed" ELSE @]
           ELSE /\ link' \in IF drawn.threw THEN {"open", "opening"} ELSE {"open"}
                /\ UNCHANGED grab

Apply(f, hover, v, events) ==
    /\ frameCount < MaxFrames
    /\ filmMode => grab.at = "present" /\ grab.due
    /\ frameCount' = frameCount + 1
    /\ form' = f /\ formHover' = hover /\ vitals' = v /\ seen' = TRUE
    /\ Listener(f, hover, v, events)
    /\ UNCHANGED mounted

Keyframe ==
    /\ \E f \in Form \cup {None} : Apply(f, None, vitals, <<>>)
    /\ lost' = lost \cup {pending[i] : i \in DOMAIN pending}
    /\ UNCHANGED <<eventCount, hoverFace>>

MutantUiDelta ==
    /\ link = "open"
    /\ \E f \in Form \cup {None} : Apply(f, formHover, vitals, pending)
    /\ UNCHANGED <<eventCount, lost, hoverFace>>
UiDelta ==
    /\ link = "open"
    /\ \E f \in Form \cup {None} :
         Apply(f, IF FaceOf(f) # FaceOf(form) THEN None ELSE formHover, vitals, pending)
    /\ UNCHANGED <<eventCount, lost, hoverFace>>

FormHover ==
    /\ link = "open"
    /\ \E i \in Button \cup {None} : Apply(form, i, vitals, pending)
    /\ hoverFace' = FaceOf(form)
    /\ UNCHANGED <<eventCount, lost>>

VitalsFrame ==
    /\ link = "open"
    /\ \E v \in Vitals : Apply(form, formHover, v, pending)
    /\ UNCHANGED <<eventCount, lost, hoverFace>>

(* A particle or an animation. *)
Event ==
    /\ link = "open" /\ eventCount < MaxEvents
    /\ eventCount' = eventCount + 1
    /\ Apply(form, formHover, vitals, Append(pending, eventCount'))
    /\ UNCHANGED <<lost, hoverFace>>

-----------------------------------------------------------------------------
(* The packs and the textures.                                             *)

Mount ==
    /\ ~mounted /\ ~ui.failed
    /\ mounted' = TRUE
    /\ ui' = IF seen THEN [OnFrame(ui, form, formHover, vitals) EXCEPT !.threw = FALSE] ELSE ui
    /\ UNCHANGED <<storeVars, grab, historyVars>>

LoadFails ==
    /\ ~mounted /\ ~ui.failed
    /\ ui' = [ui EXCEPT !.failed = TRUE]
    /\ UNCHANGED <<storeVars, mounted, grab, historyVars>>

(* preloadTextureInfo: what is drawn is drawn again behind the last one.   *)
MutantTextureAnswered ==
    \E t \in Texture, answer \in {"here", "missing"} :
      /\ ui.textures[t] = "loading"
      /\ LET u == [ui EXCEPT !.textures[t] = answer]
         IN  ui' = IF TexturesPending(u) THEN u
                   ELSE [OnFrame(u, form, formHover, vitals) EXCEPT !.threw = FALSE]
      /\ UNCHANGED <<storeVars, mounted, grab, historyVars>>
TextureAnswered ==
    \E t \in Texture, answer \in {"here", "missing"} :
      /\ ui.textures[t] = "loading"
      /\ LET u == [ui EXCEPT !.textures[t] = answer]
         IN  ui' = IF TexturesPending(u) THEN u
                   ELSE [OnFrame([u EXCEPT !.lastFormKey = None], form, formHover, vitals)
                           EXCEPT !.threw = FALSE]
      /\ UNCHANGED <<storeVars, mounted, grab, historyVars>>

-----------------------------------------------------------------------------
(* presentFilmFrame: two pictures that are the same, of a page that says   *)
(* it is ready.                                                            *)

Picture == [shown |-> ui.shown, hud |-> ui.hud]

Step(g) == grab' = g /\ UNCHANGED <<storeVars, mounted, ui, historyVars>>

Present == grab.at = "present" /\ Step([grab EXCEPT !.at = "check", !.due = FALSE])

(* hudReadiness.  An image may still have to be decoded, which ends the    *)
(* film when it fails or takes too long.                                   *)
MutantCheck ==
    /\ grab.at = "check"
    /\ IF ui.failed \/ (ui.shown # None /\ ui.shown.plain)
       THEN Step([grab EXCEPT !.at = "failed"])
       ELSE \/ Step([grab EXCEPT !.at = "present", !.prev = None])
            \/ Step([grab EXCEPT !.at = "shoot"])
            \/ Step([grab EXCEPT !.at = "failed"])
Check ==
    /\ grab.at = "check"
    /\ IF ui.failed \/ (ui.shown # None /\ ui.shown.plain)
       THEN Step([grab EXCEPT !.at = "failed"])
       ELSE \/ Step([grab EXCEPT !.at = "present", !.prev = None])
            \/ mounted /\ ~TexturesPending(ui) /\ Step([grab EXCEPT !.at = "shoot"])
            \/ Step([grab EXCEPT !.at = "failed"])

Shoot ==
    /\ grab.at = "shoot"
    /\ Step(IF grab.prev = Picture THEN [grab EXCEPT !.at = "returned"]
            ELSE [grab EXCEPT !.at = "present", !.prev = Picture])

NextPicture ==
    grab.at = "returned" /\ Step([grab EXCEPT !.at = "present", !.due = TRUE, !.prev = None])

-----------------------------------------------------------------------------
Next ==
    \/ Keyframe \/ UiDelta \/ FormHover \/ VitalsFrame \/ Event
    \/ Mount \/ LoadFails \/ TextureAnswered
    \/ Present \/ Check \/ Shoot \/ NextPicture

Spec == Init /\ [][Next]_vars

-----------------------------------------------------------------------------
(* shown draws form f with its button, and with all there is for it once   *)
(* nothing is being fetched.                                               *)
Draws(shown, f) ==
    IF f = None THEN shown = None
    ELSE /\ shown # None /\ shown.form = f /\ shown.hover = formHover
         /\ (~shown.plain /\ ~TexturesPending(ui)) => shown.with = Loaded(ui, TexturesOf[f])

(* projectForm: unless the page says that its UI failed, the form of the   *)
(* store is the one on screen, with the button that is hovered, drawn with *)
(* every texture that has come; and it says so no longer than the form     *)
(* that failed, or the one before it, is open.                             *)
FormOnScreen ==
    mounted /\ seen =>
        IF ui.failed THEN form \in Unsupported \cup {ui.lastFormKey} ELSE Draws(ui.shown, form)

(* applyDelta: a button on screen is hovered because of a frame that came  *)
(* for a form with this title and these buttons.                           *)
HoverBelongsToForm ==
    ~ui.failed /\ ui.shown # None /\ ui.shown.hover # None => hoverFace = Face[ui.shown.form]

(* store.subscribe: every particle and animation is handed over once and   *)
(* in order, or waits behind a frame that threw; only a keyframe that came *)
(* behind such a frame drops any.                                          *)
EventsHandedOnce ==
    /\ \A i, j \in DOMAIN handed : i < j => handed[i] < handed[j]
    /\ \A e \in 1..eventCount :
         (\E i \in DOMAIN handed : handed[i] = e)
           # (e \in lost \/ \E i \in DOMAIN pending : pending[i] = e)
    /\ ~thrown => lost = {} /\ pending = <<>>

(* presentFilmFrame: the picture of a film that was asked for shows the    *)
(* form and the HUD of the moment, the form by the packs and complete.     *)
FilmShowsForm ==
    grab.at = "returned" =>
        /\ mounted /\ ~TexturesPending(ui) /\ ~ui.failed
        /\ seen => /\ Draws(grab.prev.shown, form)
                   /\ form # None => ~grab.prev.shown.plain
                   /\ grab.prev.hud.vitals = vitals

(* runtime.ts:178-186: textures that come late are published by the last   *)
(* answer.  So they are for forms; the HUD is not drawn again.             *)
LateTexturesPublished ==
    mounted /\ ui.hud # None /\ ~TexturesPending(ui) => ui.hud.with = Loaded(ui, HudTextures)
=============================================================================
