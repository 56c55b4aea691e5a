------------------------------ MODULE Desktop ------------------------------
(***************************************************************************)
(* Computer use on the paired machine (core/tool_executor.py, the Pack 3   *)
(* section): an action is staged, approved and run by the agent, one at a  *)
(* time, while the user and other programs go on using the desktop.        *)
(*                                                                         *)
(* A window shows controls in slots; the C ids of a read number the shown  *)
(* controls in slot order.  Reads of the screen and the password probe run *)
(* in child processes, so the desktop may change before they answer and    *)
(* again before the input is sent.  One SendInput batch is atomic; between *)
(* the batches of an action, which moves the pointer, clicks, clicks again *)
(* and puts the pointer back, the user goes on.  Grid arithmetic, labels,  *)
(* key codes and the walk of the control tree are left out.                *)
(***************************************************************************)
EXTENDS Naturals, FiniteSets

CONSTANTS
    Controls,  \* what windows show
    Secrets,   \* those whose IsPassword is true
    Empty,     \* a slot that shows nothing; no control, no window
    Windows, Slots,
    Actions,   \* bound: actions of a behaviour
    Changes    \* bound: changes of the desktop

VARIABLES
    screen,   \* what each window shows in its slots
    front,    \* the foreground window
    focus,    \* the focused control
    mouse,    \* where the pointer is: the user's spot, or a slot acted on
    held,     \* a button or a modifier is down
    read,     \* the last look: the window read and the control of each id
    act,      \* the action being staged or run
    actions, changes,
    stale,    \* history: the desktop, or the pointer on target, moved since the look
    drifted,  \* history: the focus moved since the probe looked
    refused,  \* history: the system refused an input
    astray,   \* history: the pointer's position could not be read, or not restored
    struck    \* history: what received the action's last input, and how

desktopVars == <<screen, front, focus, mouse, held, read, act, actions, changes,
                 stale, drifted, refused, astray, struck>>
desk == <<screen, front, focus, mouse, held>>
past == <<stale, drifted, refused, astray, struck>>

User == 0
Nothing == [how |-> "none", control |-> Empty, meant |-> Empty, changed |-> FALSE,
            behind |-> FALSE]
-----------------------------------------------------------------------------
(* Reading the screen.                                                     *)

\* The slots of a set in ascending order: the i-th has i - 1 before it.
InOrder(S) ==
    [i \in 1 .. Cardinality(S) |-> CHOOSE s \in S : Cardinality({t \in S : t < s}) = i - 1]

Shown(w) == InOrder({s \in Slots : screen[w][s] # Empty})

\* The C ids of a read, in slot order: the control behind each.
Ids(w) == [i \in DOMAIN Shown(w) |-> screen[w][Shown(w)[i]]]

Walk(w) == [window |-> w, ids |-> Ids(w), slots |-> Shown(w)]

Tools == {"click", "scroll", "drag", "type_text", "press_keys", "open_app"}
Idle == [name |-> "none", pc |-> "none", target |-> Empty, meant |-> Empty,
         where |-> User, saved |-> Empty, probe |-> "none"]

\* look_at_screen with a selector: any window, the front one by default.  A
\* readiness wait reads until a control matches or the deadline passes: either
\* way the answer is one walk of the window.
\* A window that is gone and a reader that crashed answer no ids.
LookAtScreen(w) ==
    /\ act.pc = "none" /\ actions > 0
    /\ read' = Walk(w)
    /\ stale' = FALSE
    /\ UNCHANGED <<desk, act, actions, changes, drifted, refused, astray, struck>>

ReadFails ==
    /\ act.pc = "none" /\ actions > 0
    /\ read' = [window |-> front, ids |-> <<>>, slots |-> <<>>]
    /\ UNCHANGED <<desk, act, actions, changes, past>>
-----------------------------------------------------------------------------
(* Staging and execution.                                                  *)

\* normalize_computer_args for the target of an action: a C id, a point of the
\* grid, or none where the cursor or the focused field will do.
Takes(name, kind) ==
    CASE name \in {"click", "drag"} -> kind \in {"control", "point"}
      [] name \in {"type_text", "press_keys", "scroll"} -> TRUE
      [] name = "open_app" -> kind = "bare"

\* The arguments a drag is stored with, {from, to}, are not the arguments it is
\* called with: normalizing them again finds no target.
Renormalizes(name) == name # "drag"

\* stage_computer_action: what the caller meant is the control the last look
\* showed at that id or place.
Stage(name, kind, n) ==
    /\ act.pc = "none" /\ actions > 0 /\ Takes(name, kind)
    /\ kind # "bare" => n \in DOMAIN read.ids
    /\ actions' = actions - 1
    /\ act' = [Idle EXCEPT !.name = name, !.pc = "staged",
                  !.target = kind,
                  !.meant = IF kind = "bare" THEN Empty ELSE read.ids[n],
                  !.where = CASE kind = "control" -> n
                              [] kind = "point" -> read.slots[n]
                              [] OTHER -> User]
    /\ struck' = Nothing
    /\ UNCHANGED <<desk, read, changes, stale, drifted, refused, astray>>

\* What the caller is told: done, or why not; a refusal is one of "error".
Answer(result) == act' = [Idle EXCEPT !.probe = result]

\* The confirmation runs it on the agent, which normalizes again (Wall 2).
Execute ==
    /\ act.pc = "staged"
    /\ IF ~Renormalizes(act.name) THEN Answer("shape")
       ELSE act' = [act EXCEPT !.pc = CASE act.name = "open_app" -> "open"
                                        [] act.target = "control" -> "resolve"
                                        [] act.target = "point" -> "dwell"
                                        [] OTHER -> "dwell"]
    /\ UNCHANGED <<desk, read, actions, changes, past>>

Decline ==
    /\ act.pc = "staged" /\ Answer("error")
    /\ UNCHANGED <<desk, read, actions, changes, past>>

\* A C id is looked up in a fresh read of the foreground window.
Resolve ==
    /\ act.pc = "resolve"
    /\ IF act.where \in DOMAIN Ids(front)
       THEN act' = [act EXCEPT !.pc = "dwell", !.where = Shown(front)[act.where]]
       ELSE Answer("error")
    /\ UNCHANGED <<desk, read, actions, changes, past>>

ResolveFails ==
    /\ act.pc = "resolve" /\ Answer("error")
    /\ UNCHANGED <<desk, read, actions, changes, past>>

Under(place) == IF place = User THEN Empty ELSE screen[front][place]

Struck(how, control, changed) ==
    struck' = [how |-> how, control |-> control, meant |-> act.meant,
               changed |-> changed, behind |-> read.window # front]

\* What follows a click that focuses, and what ends an action.
AfterClick ==
    CASE act.name = "type_text" -> act' = [act EXCEPT !.pc = "probe"]
      [] act.name = "press_keys" -> act' = [act EXCEPT !.pc = "keys"]
      [] OTHER -> Answer("ok")

\* The dwell is over: the pointer's position is read, if it can be, and the
\* pointer moved to the place.
Hover(known, lands) ==
    /\ act.pc = "dwell" /\ act.target # "bare"
    /\ mouse' = IF lands THEN act.where ELSE mouse
    /\ act' = [act EXCEPT !.saved = IF known THEN mouse ELSE Empty,
                          !.pc = IF lands THEN "press" ELSE "warp",
                          !.probe = IF lands THEN @ ELSE "error"]
    /\ refused' = (refused \/ ~lands)
    /\ UNCHANGED <<screen, front, focus, held, read, actions, changes, stale, drifted,
                   astray, struck>>

\* A click or a turn of the wheel, where the pointer is by now; a double click is
\* a second batch.
Press ==
    /\ act.pc \in {"press", "again"}
    /\ focus' = IF act.name = "scroll" THEN focus ELSE Under(mouse)
    /\ Struck("mouse", Under(mouse), stale)
    /\ \/ act' = [act EXCEPT !.pc = "warp"]
       \/ /\ act.name = "click" /\ act.pc = "press"
          /\ act' = [act EXCEPT !.pc = "again"]
    /\ UNCHANGED <<screen, front, mouse, held, read, actions, changes, stale, drifted,
                   refused, astray>>

\* Variant: the pointer is put back only when the input was taken.
PressFailsNoFinally ==
    /\ act.pc \in {"press", "again"}
    /\ Answer("error") /\ refused' = TRUE
    /\ held' \in IF act.name = "scroll" THEN {held} ELSE {held, TRUE}
    /\ UNCHANGED <<screen, front, focus, mouse, read, actions, changes, stale, drifted,
                   astray, struck>>

\* The batch is refused, or taken in part: then a button stays down.
PressFails ==
    /\ act.pc \in {"press", "again"}
    /\ act' = [act EXCEPT !.pc = "warp", !.probe = "error"] /\ refused' = TRUE
    /\ held' \in IF act.name = "scroll" THEN {held} ELSE {held, TRUE}
    /\ UNCHANGED <<screen, front, focus, mouse, read, actions, changes, stale, drifted,
                   astray, struck>>

\* Whatever became of the input, the pointer goes back to where it was, if that
\* could be read and the system agrees.
WarpBack(moves) ==
    LET back == act.saved # Empty /\ moves IN
    /\ act.pc = "warp"
    /\ mouse' = IF back THEN act.saved ELSE mouse
    /\ astray' = (astray \/ ~back)
    /\ IF act.probe = "error" THEN Answer("error") ELSE AfterClick
    /\ UNCHANGED <<screen, front, focus, held, read, actions, changes, stale, drifted,
                   refused, struck>>

\* Without a target, the wheel turns or the keys go where the user is.
ActInPlace ==
    /\ act.pc = "dwell" /\ act.target = "bare"
    /\ IF act.name = "scroll" THEN Answer("ok")
       ELSE act' = [act EXCEPT !.pc = IF act.name = "type_text" THEN "probe" ELSE "keys"]
    /\ UNCHANGED <<desk, read, actions, changes, past>>

\* The probe's child reads the focused element; a child that fails answers None.
FocusIsPassword ==
    /\ act.pc = "probe"
    /\ drifted' = FALSE
    /\ \/ act' = [act EXCEPT !.pc = "probed",
                     !.probe = IF focus \in Secrets THEN "password"
                               ELSE IF focus = Empty THEN "unknown" ELSE "no"]
       \/ act' = [act EXCEPT !.pc = "probed", !.probe = "unknown"]
    /\ UNCHANGED <<desk, read, actions, changes, stale, refused, astray, struck>>

\* The answer arrives: a password field blocks, an unknown one is refused, and
\* otherwise the text is typed into whatever has the focus now.
TypeText(lands) ==
    /\ act.pc = "probed"
    /\ IF act.probe # "no"
       THEN /\ Answer("error")
            /\ UNCHANGED <<struck, refused>>
       ELSE /\ Answer(IF lands THEN "ok" ELSE "error")
            /\ Struck("text", focus, drifted)
            /\ refused' = (refused \/ ~lands)
    /\ UNCHANGED <<desk, read, actions, changes, stale, drifted, astray>>

\* One chord, checked against the denylist when it was normalized; a batch that
\* is taken in part leaves a modifier down.
PressKeys(lands) ==
    /\ act.pc = "keys"
    /\ Answer(IF lands THEN "ok" ELSE "error")
    /\ Struck("keys", focus, stale)
    /\ held' \in IF lands THEN {held} ELSE {held, TRUE}
    /\ refused' = (refused \/ ~lands)
    /\ UNCHANGED <<screen, front, focus, mouse, read, actions, changes, stale, drifted, astray>>

\* open_app and open_url: the launcher brings a window to the front, now or
\* later; open_app may add the first look, whose failure is not an error.
Open(w, ok, look) ==
    /\ act.pc = "open"
    /\ Answer(IF ok THEN "ok" ELSE "error")
    /\ IF ok THEN front' = w /\ focus' = Empty ELSE UNCHANGED <<front, focus>>
    /\ IF ok /\ look THEN read' = Walk(w) /\ stale' = FALSE
       ELSE stale' = (stale \/ ok) /\ UNCHANGED read
    /\ UNCHANGED <<screen, mouse, held, actions, changes, drifted, refused, astray, struck>>
-----------------------------------------------------------------------------
(* The user and the other programs.                                        *)

ScreenChanges(w, s, c) ==
    /\ changes > 0 /\ changes' = changes - 1
    /\ screen[w][s] # c
    /\ c # Empty => \A v \in Windows, t \in Slots : screen[v][t] # c
    /\ screen' = [screen EXCEPT ![w][s] = c]
    /\ stale' = TRUE
    /\ drifted' = (drifted \/ focus = screen[w][s])
    /\ focus' = IF focus = screen[w][s] THEN Empty ELSE focus
    /\ UNCHANGED <<front, mouse, held, read, act, actions, refused, astray, struck>>

\* The user's hand, while an action has the pointer.
PointerMoves(spot) ==
    /\ act.pc \in {"press", "again"}
    /\ changes > 0 /\ changes' = changes - 1
    /\ spot # mouse /\ mouse' = spot
    /\ stale' = TRUE
    /\ UNCHANGED <<screen, front, focus, held, read, act, actions, drifted, refused, astray,
                   struck>>

FocusMoves(w, c) ==
    /\ changes > 0 /\ changes' = changes - 1
    /\ \E s \in Slots : screen[w][s] = c
    /\ front' = w /\ focus' = c
    /\ stale' = (stale \/ w # front)
    /\ drifted' = (drifted \/ c # focus)
    /\ UNCHANGED <<screen, mouse, held, read, act, actions, refused, astray, struck>>
-----------------------------------------------------------------------------
\* Every control is shown somewhere.
DesktopInit ==
    /\ screen \in [Windows -> [Slots -> Controls \cup {Empty}]]
    /\ \A c \in Controls : \E w \in Windows, t \in Slots : screen[w][t] = c
    /\ \A v, w \in Windows, t, u \in Slots :
          screen[v][t] = screen[w][u] /\ screen[v][t] # Empty => v = w /\ t = u
    /\ front \in Windows
    /\ focus = Empty /\ mouse = User /\ held = FALSE
    /\ read = Walk(front)
    /\ act = Idle /\ actions = Actions /\ changes = Changes
    /\ stale = FALSE /\ drifted = FALSE /\ refused = FALSE /\ astray = FALSE
    /\ struck = Nothing

DesktopStep ==
    \/ \E w \in Windows : LookAtScreen(w)
    \/ ReadFails
    \/ \E name \in Tools, kind \in {"control", "point", "bare"}, n \in Slots :
          Stage(name, kind, n)
    \/ Execute \/ Decline \/ Resolve \/ ResolveFails
    \/ \E known, lands \in BOOLEAN : Hover(known, lands)
    \/ Press \/ PressFails
    \/ \E moves \in BOOLEAN : WarpBack(moves)
    \/ ActInPlace \/ FocusIsPassword
    \/ \E lands \in BOOLEAN : TypeText(lands) \/ PressKeys(lands)
    \/ \E w \in Windows, ok, look \in BOOLEAN : Open(w, ok, look)

DesktopNext ==
    \/ DesktopStep
    \/ \E w \in Windows, s \in Slots, c \in Controls \cup {Empty} : ScreenChanges(w, s, c)
    \/ \E w \in Windows, c \in Controls : FocusMoves(w, c)
    \/ \E spot \in Slots \cup {User} : PointerMoves(spot)
-----------------------------------------------------------------------------
DesktopTypeOK ==
    /\ focus \in Controls \cup {Empty} /\ mouse \in Slots \cup {User}
    /\ act.pc \in {"none", "staged", "resolve", "dwell", "press", "again", "warp", "probe",
                   "probed", "keys", "open"}
    /\ act.where \in Slots \cup {User}

\* Text reaches a password field only when the focus moved after the probe
\* looked: the click that focuses comes first, and no answer is no permission.
NoTextInSecrets ==
    struck.how = "text" /\ struck.control \in Secrets => struck.changed

\* A click, the second of a double click too, lands on the control the caller saw
\* unless the desktop changed since that look or the pointer was moved on, or the
\* look was at a window that is not in front.
HitsWhatWasSeen ==
    struck.how = "mouse" /\ struck.control # struck.meant
        => struck.changed \/ struck.behind

\* Between actions the pointer is where the user left it, refused input or not,
\* unless the system would not say where that is or not put it back, and no button
\* or modifier is down, unless the system refused an input half-way.
LeavesNoTrace ==
    act.pc = "none" => (mouse = User \/ astray) /\ (held => refused)

DesktopSafe == DesktopTypeOK /\ NoTextInSecrets /\ HitsWhatWasSeen /\ LeavesNoTrace

\* What was staged normalizes again when it runs: a confirmed action is never
\* answered with an error about the shape of its arguments.
StagedRenormalizes == act.probe # "shape"
=============================================================================
