------------------------------ MODULE FormWalk ------------------------------
(***************************************************************************)
(* A bot walked through a chain of forms: Bot.clickThrough of the addon    *)
(* (scripts/bot.ts), the instructions it gives (waitForForm,               *)
(* hoverFormButton, clickFormButton), and the one form the actor keeps     *)
(* open (bot/handler_modal_form_request.go, actor/form.go).  The server    *)
(* may send a form at any moment, and any instruction may fail, also after *)
(* the bot has carried it out.                                             *)
(*                                                                         *)
(* A choice is named by the form it was made for.  Whether a form has the  *)
(* button chosen is left open.  Several walkers are test bodies that drive *)
(* the same bot: one that has passed its deadline goes on next to the      *)
(* tests after it (see SuiteRunner).                                       *)
(***************************************************************************)
EXTENDS Integers, Sequences

CONSTANTS
  Walker,    \* calls of clickThrough
  Form,      \* forms the server may send
  None,      \* no form
  MaxForms   \* maxForms

FormWalkAssumption == None \notin Form /\ MaxForms \in Nat

VARIABLES
  unsent,    \* forms the server has not sent yet
  open,      \* the actor's lastForm, None when it is used
  goal,      \* what until returns
  at,        \* where each walker is
  shown,     \* the form it has in hand
  answered,  \* answered
  pressed,   \* history: the forms whose button each walker's click has pressed
  madeFor,   \* history: the form the choice pressed on each form was made for
  late       \* history: presses of each walker since until became true

serverVars == <<unsent, open, goal>>
pressVars == <<pressed, madeFor, late>>
vars == <<serverVars, at, shown, answered, pressVars>>

Init ==
  /\ unsent = Form /\ open = None /\ goal = FALSE
  /\ at = [w \in Walker |-> "until"]
  /\ shown = [w \in Walker |-> None]
  /\ answered = [w \in Walker |-> << >>]
  /\ pressed = [w \in Walker |-> << >>]
  /\ madeFor = [f \in Form |-> None]
  /\ late = [w \in Walker |-> 0]

-----------------------------------------------------------------------------
(* The actor takes a form only when none is open: a form that comes while  *)
(* one is gets the answer that the client is busy.                         *)
MutantTakesAnyForm(f) ==
  open' = f
ReceiveForm(f) ==
  open' = IF open = None THEN f ELSE open

ServerSendsForm(f) ==
  /\ f \in unsent
  /\ unsent' = unsent \ {f}
  /\ ReceiveForm(f)
  /\ UNCHANGED <<goal, at, shown, answered, pressVars>>

GoalReached ==
  /\ ~goal /\ goal' = TRUE
  /\ UNCHANGED <<unsent, open, at, shown, answered, pressVars>>

-----------------------------------------------------------------------------
To(w, place) == at' = [at EXCEPT ![w] = place]

(* The head of the loop: until, then the limit. *)
MutantLimitFirst(w) ==
  /\ at[w] = "until"
  /\ To(w, IF answered[w] # << >> /\ Len(answered[w]) >= MaxForms THEN "tooMany"
           ELSE "waitForForm")
  /\ UNCHANGED <<serverVars, shown, answered, pressVars>>
Until(w) ==
  /\ at[w] = "until"
  /\ To(w, IF goal THEN "returned"
           ELSE IF Len(answered[w]) >= MaxForms THEN "tooMany" ELSE "waitForForm")
  /\ UNCHANGED <<serverVars, shown, answered, pressVars>>

(* The form that is open, or that opens while the bot waits; the walker    *)
(* notes it as answered before it answers.                                 *)
WaitForForm(w) ==
  /\ at[w] = "waitForForm"
  /\ open # None
  /\ shown' = [shown EXCEPT ![w] = open]
  /\ answered' = [answered EXCEPT ![w] = Append(@, open)]
  /\ To(w, "hover")
  /\ UNCHANGED <<serverVars, pressVars>>

(* No form in time, or the instruction failed: the condition once more. *)
NoForm(w) ==
  /\ at[w] = "waitForForm"
  /\ To(w, IF goal THEN "returned" ELSE "timedOut")
  /\ UNCHANGED <<serverVars, shown, answered, pressVars>>

(* Hovering takes its time, and whatever goes wrong with it is swallowed.  *)
Hover(w) ==
  /\ at[w] = "hover"
  /\ To(w, "click")
  /\ UNCHANGED <<serverVars, shown, answered, pressVars>>

(* clickFormButton presses the button on the form that is open now. *)
Press(w) ==
  /\ open # None
  /\ open' = None
  /\ pressed' = [pressed EXCEPT ![w] = Append(@, open)]
  /\ madeFor' = [madeFor EXCEPT ![open] = shown[w]]
  /\ late' = [late EXCEPT ![w] = @ + (IF goal THEN 1 ELSE 0)]
Click(w) ==
  /\ at[w] \in {"click", "abandoned"}
  /\ Press(w)
  /\ To(w, IF at[w] = "click" THEN "until" ELSE "failed")
  /\ UNCHANGED <<unsent, goal, shown, answered>>

(* The walk fails with the click: no form, no such button, or the status   *)
(* is late or lost, and the bot may still press the button.                *)
ClickFails(w) ==
  /\ at[w] = "click"
  /\ To(w, "failed") \/ To(w, "abandoned")
  /\ UNCHANGED <<serverVars, shown, answered, pressVars>>

Next ==
  \/ \E f \in Form : ServerSendsForm(f)
  \/ GoalReached
  \/ \E w \in Walker : Until(w) \/ WaitForForm(w) \/ NoForm(w) \/ Hover(w)
                         \/ Click(w) \/ ClickFails(w)

Spec == Init /\ [][Next]_vars

-----------------------------------------------------------------------------
(* The button pressed on a form is the one chosen for that form, although  *)
(* the choice is made before a hover of most of a second and the click     *)
(* names no form.                                                          *)
ChosenForIt == \A f \in Form : madeFor[f] \in {None, f}

(* clickThrough returns "the forms that were answered, in order": those it *)
(* pressed a button on, and in the end perhaps one it could not answer.    *)
AnswersAccounted ==
  \A w \in Walker :
    \/ answered[w] = pressed[w]
    \/ at[w] \in {"hover", "click", "abandoned", "failed"}
       /\ answered[w] = Append(pressed[w], shown[w])

(* "The walk stops when [until] returns true": it may have had a form in   *)
(* hand at that moment, and answers that one, but no other.                *)
StopsAtGoal ==
  \A w \in Walker : late[w] <= 1 /\ Len(answered[w]) <= MaxForms

WalkFaithful == ChosenForIt /\ AnswersAccounted /\ StopsAtGoal
=============================================================================
