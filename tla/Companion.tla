----------------------------- MODULE Companion -----------------------------
(***************************************************************************)
(* The companion overlay (agent/overlay.py): a child process that draws a  *)
(* face and a pointer, and the agent (agent/runner.py) that commands it.   *)
(*                                                                         *)
(* The agent serves one envelope at a time and writes JSON lines to the    *)
(* child's stdin.  A reader thread of the child moves them to a bounded    *)
(* inbox, from which it drops silently; the window's tick drains the inbox,*)
(* moves the pointer and draws.  A tick is the unit of time; positions are *)
(* places, and the durations are constants that keep the code's order      *)
(* (burst < hold < idle < voice watchdog).  Geometry, easing, bubbles and  *)
(* rings are left out.                                                     *)
(***************************************************************************)
EXTENDS Naturals, Sequences

CONSTANTS
    Places,      \* points of the screen a job acts on or looks at
    Home,        \* the parked spot beside the face
    Unknown,     \* _OVERLAY_POINTER_PX is None
    InboxSize,   \* maxsize of the child's inbox
    FlightTicks, \* duration of a flight or of a glide home
    HoldTicks,   \* OVERLAY_POINT_FLIGHT_SECONDS + OVERLAY_POINT_MIN_HOLD_SECONDS
    IdleTicks,   \* OVERLAY_IDLE_HOME_SECONDS
    BurstTicks,  \* OVERLAY_FACE_HAPPY_SECONDS, OVERLAY_FACE_ERROR_SECONDS
    VoiceTicks,  \* OVERLAY_FACE_VOICE_SECONDS
    Envelopes,   \* bound: jobs, handoffs and voice states of a behaviour
    Deaths       \* bound: crashes of the child

VARIABLES
    agent,   \* what the agent's loop is doing
    track,   \* _OVERLAY_POINTER_PX: where the agent thinks the pointer goes
    cooling, \* time.monotonic() < _OVERLAY_RETRY_AT
    child,   \* the overlay process: none, alive or gone
    pipe,    \* lines written to the child's stdin and not read yet
    inbox,   \* the child's queue
    view,    \* the window's state
    budget,  \* envelopes left
    deaths,  \* crashes left
    lost,    \* history: a message was dropped from a full inbox
    won      \* history: the last result was not a failure, or a handoff came

companionVars == <<agent, track, cooling, child, pipe, inbox, view, budget,
                   deaths, lost, won>>
-----------------------------------------------------------------------------
(* The lines the agent writes.                                             *)

Message(type, arg) == [type |-> type, arg |-> arg]
Target(p) == Message("target", p)
Point(p) == Message("point", p)
Speaking(on) == Message("speaking", on)
Face(state) == Message("face", state)
Effect == Message("effect", Unknown)
Settle == Message("settle", Unknown)
Quit == Message("quit", Unknown)

\* The end of the pipe: what the child reads when its parent is dead.
EndOfPipe == Message("eof", Unknown)

(* The window: the face, the choreography and the pointer.                 *)

NewView ==
    [face |-> "idle", left |-> 0, speaking |-> FALSE, queue |-> <<>>, hold |-> 0,
     quiet |-> 0, at |-> Home, goal |-> Home, moving |-> "no", steps |-> 0]

Persistent == {"working", "searching"}
VoiceFaces == {"listening", "speaking"}

\* The face drawn: a burst or a voice state shows until its stamp.
FaceKind(v) == IF v.face \in Persistent \/ v.left > 0 THEN v.face ELSE "idle"

FaceApply(v, state) ==
    [v EXCEPT !.face = state,
              !.left = CASE state \in {"happy", "error"} -> BurstTicks
                         [] state \in VoiceFaces -> VoiceTicks
                         [] OTHER -> 0]

\* The moment speech stops stamps the quiet clock.
SetSpeaking(v, on) ==
    [v EXCEPT !.speaking = on, !.quiet = IF v.speaking /\ ~on THEN 0 ELSE @]

ChoreoPoint(v, p) == [v EXCEPT !.queue = Append(@, p)]

TakeControl(v) == [v EXCEPT !.queue = <<>>]

GoHome(v) == [v EXCEPT !.queue = <<>>]

Launch(v, p) ==
    [v EXCEPT !.goal = p, !.moving = "flight", !.steps = FlightTicks]

Dock(v) == [v EXCEPT !.goal = Home, !.moving = "path", !.steps = FlightTicks]

\* One message of the inbox.
Obey(v, m) ==
    CASE m.type = "settle" -> GoHome(Dock(v))
      [] m.type = "target" -> Launch(TakeControl(v), m.arg)
      [] m.type = "point" -> ChoreoPoint(v, m.arg)
      [] m.type = "speaking" -> SetSpeaking(v, m.arg)
      [] m.type = "face" -> FaceApply(v, m.arg)
      [] m.type = "effect" -> v

\* One decision of the choreography: the next queued point once the hold is
\* over, or home once the pointer has been quiet; speech pauses homing.
ChoreoStep(v) ==
    IF v.hold > 0 THEN v
    ELSE IF v.queue # <<>>
    THEN [Launch(v, Head(v.queue)) EXCEPT
             !.queue = Tail(@), !.hold = HoldTicks,
             !.quiet = IF v.speaking THEN @ ELSE 0]
    ELSE IF ~v.speaking /\ v.quiet > IdleTicks
    THEN IF v.at # Home THEN GoHome(Dock(v)) ELSE GoHome(v)
    ELSE v

\* A flight or a glide advances; a pointer at rest asks the choreography.
Move(v) ==
    IF v.moving = "no" THEN ChoreoStep(v)
    ELSE IF v.steps > 1 THEN [v EXCEPT !.steps = @ - 1, !.at = Unknown]
    ELSE [v EXCEPT !.steps = 0, !.at = v.goal, !.moving = "no"]

\* Drawing releases the homing pause when the mouth is no longer speaking.
Draw(v) ==
    IF FaceKind(v) # "speaking" /\ v.speaking THEN SetSpeaking(v, FALSE) ELSE v

Minus1(n) == IF n = 0 THEN 0 ELSE n - 1

Elapse(v) ==
    [v EXCEPT !.left = Minus1(@), !.hold = Minus1(@),
              !.quiet = IF @ > IdleTicks THEN @ ELSE @ + 1]

\* The messages of one tick, in order.
ObeyAll(v, messages) ==
    LET after[n \in 0 .. Len(messages)] ==
            IF n = 0 THEN v ELSE Obey(after[n - 1], messages[n])
    IN after[Len(messages)]

Tick ==
    /\ child = "alive"
    /\ inbox' = <<>>
    /\ IF \E i \in DOMAIN inbox : inbox[i].type = "quit"
       THEN child' = "gone" /\ pipe' = <<>> /\ view' = NewView
       ELSE /\ view' = Elapse(Draw(Move(ObeyAll(view, inbox))))
            /\ UNCHANGED <<child, pipe>>
    /\ UNCHANGED <<agent, track, cooling, budget, deaths, lost, won>>

\* The reader thread: a message that finds the inbox full is dropped.
Read ==
    /\ child = "alive" /\ pipe # <<>> /\ Head(pipe) # EndOfPipe
    /\ pipe' = Tail(pipe)
    /\ IF Len(inbox) < InboxSize
       THEN inbox' = Append(inbox, Head(pipe)) /\ UNCHANGED lost
       ELSE lost' = TRUE /\ UNCHANGED inbox
    /\ UNCHANGED <<agent, track, cooling, child, view, budget, deaths, won>>

\* Variant: the quit of a dead parent is dropped like any other message.
EndOfFileDropping ==
    /\ child = "alive" /\ pipe = <<EndOfPipe>>
    /\ pipe' = <<>>
    /\ inbox' = IF Len(inbox) < InboxSize THEN Append(inbox, Quit) ELSE inbox
    /\ lost' = (lost \/ Len(inbox) = InboxSize)
    /\ UNCHANGED <<agent, track, cooling, child, view, budget, deaths, won>>

\* The parent is gone: the quit makes room for itself.
EndOfFile ==
    /\ child = "alive" /\ pipe = <<EndOfPipe>>
    /\ pipe' = <<>>
    /\ inbox' = Append(IF Len(inbox) < InboxSize THEN inbox ELSE Tail(inbox), Quit)
    /\ lost' = (lost \/ Len(inbox) = InboxSize)
    /\ UNCHANGED <<agent, track, cooling, child, view, budget, deaths, won>>
-----------------------------------------------------------------------------
(* The agent.                                                              *)

\* Overlay.alive of the current handle.
Alive == child = "alive"

\* Lines to a live child; a dead one swallows them.
Send(lines) == IF Alive THEN pipe' = pipe \o lines ELSE UNCHANGED pipe

\* Overlay.start: a fresh child, if the spawn succeeds.
Start(up, lines) ==
    IF up THEN child' = "alive" /\ pipe' = lines /\ inbox' = <<>> /\ view' = NewView
    ELSE UNCHANGED <<child, pipe, inbox, view>>

\* ensure_overlay: spawn unless alive or cooling down, then write the lines.
\* up says whether the caller got a live handle.
Ensure(up, lines) ==
    IF Alive \/ cooling
    THEN up = Alive /\ Send(lines) /\ UNCHANGED <<child, inbox, view, cooling>>
    ELSE cooling' = TRUE /\ Start(up, lines)

\* The agent's estimate after a point was queued or announced.
Estimate(up, target) ==
    track' = IF up /\ target # Unknown THEN target ELSE track

\* run_agent_ws and run_agent bring the overlay up when they start.
Connect(up) ==
    /\ agent = "starting"
    /\ agent' = "idle"
    /\ Ensure(up, <<>>)
    /\ UNCHANGED <<track, budget, deaths, lost, won>>

JobFace(kind) == Face(IF kind = "look" THEN "searching" ELSE "working")

StartJob(kind) ==
    /\ agent = "idle" /\ budget > 0
    /\ budget' = budget - 1
    /\ agent' = kind
    /\ Send(<<JobFace(kind)>>)
    /\ UNCHANGED <<track, cooling, child, inbox, view, deaths, lost, won>>

ResultFace(ok) == Face(IF ok THEN "happy" ELSE "error")

\* A job without a place: a command, a fetch, a screenshot.
EndPlain(ok) ==
    /\ agent = "plain" /\ agent' = "idle"
    /\ Send(<<ResultFace(ok)>>)
    /\ won' = ok
    /\ UNCHANGED <<track, cooling, child, inbox, view, budget, deaths, lost>>

\* look_at_screen queues the control nearest to the cursor, if it has one.
EndLook(up, target, ok) ==
    /\ agent = "look" /\ agent' = "idle"
    /\ target # Unknown => ok
    /\ Ensure(up, (IF target = Unknown THEN <<>> ELSE <<Point(target)>>)
                     \o <<ResultFace(ok)>>)
    /\ Estimate(up, target)
    /\ won' = ok
    /\ UNCHANGED <<budget, deaths, lost>>

\* A click, a drag, typing or pressing: the resolved point is announced and
\* the agent dwells while the pointer flies.
Announce(up, target) ==
    /\ agent = "input" /\ agent' = "dwell"
    /\ Ensure(up, IF target = Unknown THEN <<>> ELSE <<Target(target)>>)
    /\ Estimate(up, target)
    /\ UNCHANGED <<budget, deaths, lost, won>>

\* Variant: the finally block forgets that the pointer was sent home.
EndInputUnsettled(ok) ==
    /\ agent = "dwell" /\ agent' = "idle"
    /\ Send((IF ok THEN <<Effect>> ELSE <<>>) \o <<ResultFace(ok)>>)
    /\ track' = Unknown
    /\ won' = ok
    /\ UNCHANGED <<cooling, child, inbox, view, budget, deaths, lost>>

\* The action was done or refused: the pointer is sent home, then the effect
\* of a success, then the result's face.
EndInput(ok) ==
    /\ agent = "dwell" /\ agent' = "idle"
    /\ Send(<<Settle>>
              \o (IF ok THEN <<Effect>> ELSE <<>>)
              \o <<ResultFace(ok)>>)
    /\ track' = Unknown
    /\ won' = ok
    /\ UNCHANGED <<cooling, child, inbox, view, budget, deaths, lost>>

\* The job raised or was cancelled: the face is cleared, the connection is
\* lost with the loop.
CrashJob ==
    /\ agent \in {"plain", "look", "dwell"} /\ agent' = "stopping"
    /\ Send((IF agent = "dwell" THEN <<Settle>> ELSE <<>>)
              \o <<Face("idle"), Quit>>)
    /\ track' = IF agent = "dwell" THEN Unknown ELSE track
    /\ UNCHANGED <<cooling, child, inbox, view, budget, deaths, lost, won>>

HandleHandoff(up) ==
    /\ agent = "idle" /\ budget > 0
    /\ budget' = budget - 1
    /\ Ensure(up, <<Settle, Face("happy")>>)
    /\ track' = IF up THEN Unknown ELSE track
    /\ won' = (won \/ up)
    /\ UNCHANGED <<agent, deaths, lost>>

HandleVoiceState(state) ==
    /\ agent = "idle" /\ budget > 0
    /\ budget' = budget - 1
    /\ Send(<<Speaking(state = "speaking"), Face(state)>>)
    /\ UNCHANGED <<agent, track, cooling, child, inbox, view, deaths, lost, won>>

\* The relay closed: stop_overlay asks the child to quit ...
Disconnect ==
    /\ agent = "idle" /\ budget > 0
    /\ budget' = budget - 1
    /\ agent' = "stopping"
    /\ Send(<<Quit>>)
    /\ UNCHANGED <<track, cooling, child, inbox, view, deaths, lost, won>>

\* ... waits for it, kills it after two seconds, and the poll loop starts with
\* a fresh one; the retry cooldown is cleared.
Stopped ==
    /\ agent = "stopping" /\ agent' = "starting"
    /\ child' = "gone" /\ pipe' = <<>> /\ inbox' = <<>> /\ view' = NewView
    /\ cooling' = FALSE
    /\ track' = Unknown
    /\ UNCHANGED <<budget, deaths, lost, won>>

CooldownEnds ==
    /\ cooling /\ cooling' = FALSE
    /\ UNCHANGED <<agent, track, child, pipe, inbox, view, budget, deaths, lost, won>>

\* The child crashes, or its window is closed by the system.
ChildDies ==
    /\ Alive /\ deaths > 0
    /\ deaths' = deaths - 1
    /\ child' = "gone" /\ pipe' = <<>> /\ inbox' = <<>> /\ view' = NewView
    /\ UNCHANGED <<agent, track, cooling, budget, lost, won>>

\* The agent's process is killed: nothing is sent, the pipe reaches its end.
AgentDies ==
    /\ agent # "dead" /\ deaths > 0
    /\ deaths' = deaths - 1
    /\ agent' = "dead"
    /\ Send(<<EndOfPipe>>)
    /\ UNCHANGED <<track, cooling, child, inbox, view, budget, lost, won>>
-----------------------------------------------------------------------------
CompanionInit ==
    /\ agent = "starting" /\ track = Unknown /\ cooling = FALSE
    /\ child = "none" /\ pipe = <<>> /\ inbox = <<>> /\ view = NewView
    /\ budget = Envelopes /\ deaths = Deaths /\ lost = FALSE /\ won = FALSE

AgentStep ==
    \/ \E up \in BOOLEAN : Connect(up) \/ HandleHandoff(up)
    \/ \E kind \in {"plain", "look", "input"} : StartJob(kind)
    \/ \E ok \in BOOLEAN : EndPlain(ok) \/ EndInput(ok)
    \/ \E up \in BOOLEAN, p \in Places \cup {Unknown} :
          Announce(up, p) \/ \E ok \in BOOLEAN : EndLook(up, p, ok)
    \/ \E state \in {"listening", "speaking", "idle"} : HandleVoiceState(state)
    \/ CrashJob \/ Disconnect \/ Stopped \/ CooldownEnds

CompanionNext ==
    Tick \/ Read \/ EndOfFile \/ AgentStep \/ ChildDies \/ AgentDies

\* The reader thread and the window's timer run as long as the child does.
CompanionFairness == WF_companionVars(Tick) /\ WF_companionVars(Read \/ EndOfFile)
-----------------------------------------------------------------------------
CompanionTypeOK ==
    /\ agent \in {"starting", "idle", "plain", "look", "input", "dwell", "stopping", "dead"}
    /\ track \in Places \cup {Unknown}
    /\ child \in {"none", "alive", "gone"}
    /\ Len(inbox) <= InboxSize
    /\ view.moving \in {"no", "flight", "path"}
    /\ (view.moving = "no") = (view.steps = 0)

Heard == child = "alive" /\ pipe = <<>> /\ inbox = <<>> /\ ~lost /\ agent # "dead"

\* Once everything sent has been heard, a working or searching face means a job
\* is running and a happy one that the last result was not a failure.
FaceHonest ==
    Heard => /\ view.face \in Persistent => agent \in {"plain", "look", "input", "dwell"}
             /\ FaceKind(view) = "happy" => won

\* Once everything sent has been heard, the agent's estimate of the pointer is
\* right: with no estimate the pointer is parked or gliding home and has no
\* tour left, so the next dwell may start from the parked spot; otherwise it
\* goes to the estimate, possibly through queued points, or home.
EstimateHolds ==
    Heard => IF track = Unknown THEN view.goal = Home /\ view.queue = <<>>
             ELSE view.goal \in {track, Home} \/ view.queue # <<>>

\* The homing pause lasts no longer than the speaking face that is drawn.
PausedOnlyWhileSpeaking == view.speaking => view.face = "speaking"

OverlaySafe ==
    CompanionTypeOK /\ FaceHonest /\ EstimateHolds /\ PausedOnlyWhileSpeaking

\* A child whose parent died ends, even when its inbox was full.
Orphaned == agent = "dead" /\ child = "alive"

\* A pointer that left its spot comes home, or its process ends: with the
\* envelopes of a behaviour bounded, speech that is never ended by the browser
\* cannot keep it away.
OverlayEnds == <>[](~Orphaned) /\ <>[](child # "alive" \/ view.at = Home)
=============================================================================
