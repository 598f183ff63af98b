------------------------------ MODULE Runtime ------------------------------
(***************************************************************************)
(* The thread that ties the input listener to the transport:               *)
(* taprelay-app/src/runtime.rs with connection.rs and capture.rs.          *)
(*                                                                         *)
(* A call of the runtime changes its own fields, the router of the         *)
(* listener (which answers synchronously) and the handle of the transport, *)
(* so the operators below take a world <<app, hook, tr, seen>> as a record *)
(* and return the world after the call; Becomes makes it the next state.   *)
(* A tick is one step: it reads the state of the other threads once (the   *)
(* snapshot, whether they have ended, what the channel holds), and what    *)
(* they do later in it they could as well do after it.                     *)
(*                                                                         *)
(* The instants only matter against Runtime.epoch.  An instant is          *)
(* therefore the flag "fresh" (not before the epoch), and setting the      *)
(* epoch to now clears the flag of everything captured or created so far.  *)
(* A generation is likewise the flag "now" (it is the current revision),   *)
(* cleared when the revision moves; the generation of a snapshot is also   *)
(* "early" while it is below required_generation.                          *)
(*                                                                         *)
(* The router is reduced to one shortcut whose hold gesture is a seek, and *)
(* the toggle of listening, which is always configured, so that            *)
(* input_required always holds and the first tick has made the listener.   *)
(* InputRouter and BluetoothSupervisor have both sides in detail.          *)
(* Receipts are kept for tests only: those of other commands are counted.  *)
(***************************************************************************)
EXTENDS Naturals, Sequences, SequencesExt

CONSTANTS
  Device, None,
  ControlCapacity,   \* commands the supervisor's channel takes
  Bounds             \* a set of [events |-> of the listener not yet applied,
                     \* changes |-> of the session, captures and failures,
                     \* tests |-> of the connection]; a behaviour keeps to one

ASSUME RuntimeAssumption ==
  /\ None \notin Device
  /\ ControlCapacity \in Nat \ {0}
  /\ Bounds \subseteq [events : Nat, changes : Nat, tests : Nat]

VARIABLES
  app,    \* the fields of Runtime
  hook,   \* the listener thread: its router, and the events it has sent
  tr,     \* the transport: handle, supervisor and worker
  seen    \* observers: the last choice of the user, releases dropped, bounds

vars == <<app, hook, tr, seen>>

\* batch: the events that tick has taken from the channel and not yet applied.
world == [app |-> app, hook |-> hook, tr |-> tr, seen |-> seen, batch |-> <<>>]

\* A dropped release matters while the receiver holds the key or will.
Pressing(w) ==
  \/ w.tr.held
  \/ \E i \in DOMAIN w.hook.events : w.hook.events[i].kind = "press"
  \/ \E i \in DOMAIN w.tr.control : w.tr.control[i].kind = "press"

Becomes(w) ==
  /\ app' = [w.app EXCEPT !.now = @ /\ w.app.ready]    \* nothing reads it otherwise
  /\ hook' = w.hook
  /\ tr' = w.tr
  /\ seen' = [w.seen EXCEPT !.lost = @ /\ Pressing(w)]

-----------------------------------------------------------------------------
\* The bound on what the user and the environment do to the session.
MayDisturb   == seen.changes < seen.bound.changes
Disturbed(w) == [w EXCEPT !.seen.changes = @ + 1]

(* Events and instants.  ordered: a RoutedInput::Control.  ui: captured     *)
(* before the last input of the configuration window.  current (observer):  *)
(* captured after the session last changed.                                 *)

Event(ordered, kind, fresh, current) ==
  [ordered |-> ordered, kind |-> kind, fresh |-> fresh, current |-> current, ui |-> FALSE]

IsPress(e) == e.kind \in {"press", "tap"}
IsSend(e)  == IsPress(e) \/ e.kind = "release"

Aged(events)     == [i \in DOMAIN events |-> [events[i] EXCEPT !.fresh = FALSE]]
Outdated(events) == [i \in DOMAIN events |-> [events[i] EXCEPT !.current = ~IsPress(events[i])]]

\* Mutant: what was captured before stays valid.
NewEpochOfReceipts(w) ==
  [w EXCEPT !.app.receipt = [t \in DOMAIN @ |-> [@[t] EXCEPT !.fresh = FALSE]]]

\* self.epoch = Instant::now()
NewEpoch(w) ==
  [w EXCEPT !.hook.events = Aged(@),
            !.hook.fresh  = FALSE,
            !.batch       = Aged(@),
            !.app.receipt = [t \in DOMAIN @ |-> [@[t] EXCEPT !.fresh = FALSE]]]

\* Observer: what was captured and queued so far belongs to an earlier session.
SessionOver(w) ==
  [w EXCEPT !.hook.events  = Outdated(@),
            !.hook.current = FALSE,
            !.tr.control   = Outdated(@)]

\* consume_ui_input
ConsumeUi(w) ==
  [w EXCEPT !.hook.events = [i \in DOMAIN @ |-> [@[i] EXCEPT !.ui = ~w.hook.events[i].ordered]]]

Recording(w) == w.app.capture # "none"

-----------------------------------------------------------------------------
(* The handle of the transport.                                             *)

Command(kind, dev, now, id, current) ==
  [kind |-> kind, dev |-> dev, now |-> now, id |-> id, current |-> current]

\* The commands of a generation that has passed: only sends depend on it.
Revised(commands) ==
  [i \in DOMAIN commands |-> [commands[i] EXCEPT !.now = commands[i].now /\ ~IsSend(commands[i])]]

\* revision.fetch_add(1)
NextRevision(w) ==
  [w EXCEPT !.app.now = FALSE, !.tr.snapshot.now = FALSE, !.tr.control = Revised(@)]

\* required_generation = the revision after a change
Require(w) == [w EXCEPT !.tr.snapshot.early = w.tr.unread]

\* Mutant: the channel has no capacity.
CanAlwaysRequest(w) == w.tr.life = "up"

CanRequest(w) == w.tr.life = "up" /\ Len(w.tr.control) < ControlCapacity

\* change: the revision moves first, then the command may find no room.
Change(w, kind, dev) ==
  LET next == NextRevision(w) IN
  IF CanRequest(w)
  THEN [next EXCEPT !.tr.control = Append(@, Command(kind, dev, TRUE, 0, TRUE))]
  ELSE [next EXCEPT !.seen.lost = TRUE]

-----------------------------------------------------------------------------
(* enqueue_media and apply_router_outputs.                                  *)

CanEnqueue(w, e) ==
  w.app.ready /\ e.fresh /\ w.app.selected # None /\ CanRequest(w)

Enqueue(w, e, id) ==
  [w EXCEPT !.tr.control =
     Append(@, Command(e.kind, w.app.selected, w.app.now, id, e.current))]

\* The router gives up what it captured; a held seek yields a release that
\* carries the instant of its press (InputRouter::terminate).
Terminated(w)  == [w EXCEPT !.hook.hold = "none", !.hook.fresh = FALSE, !.hook.current = FALSE]
HeldRelease(w) == Event(TRUE, "release", w.hook.fresh, TRUE)
HoldsSeek(w)   == w.hook.alive = "up" /\ w.hook.hold = "held"

\* Outputs of terminate inside invalidate: a failure has no consequence there.
Cleanup(w) ==
  LET e == HeldRelease(w) IN
  IF HoldsSeek(w) /\ CanEnqueue(w, e) THEN Enqueue(w, e, 0) ELSE w

\* invalidate.  A pending test is over, whatever the reason.
Invalidate(w, reason) ==
  LET ended == NewEpoch(IF w.hook.alive = "up" THEN Terminated(Cleanup(w)) ELSE w)
      reset == [ended EXCEPT
                  !.app.capture = IF @ = "none" THEN "none" ELSE "waiting",
                  !.app.test    = 0]
      tells == \/ reason = "TransportLost"
               \/ reason = "ListenerStopped" /\ ~w.app.input
  IN IF tells /\ w.tr.life # "none" THEN Change(reset, "Invalidate", None) ELSE reset

\* configure_input: the router follows listening and recording, and the
\* cleanup of a change joins the events in order.
Configure(w) ==
  LET stops == \/ w.hook.listening /\ ~w.app.listening
               \/ ~w.hook.recording /\ Recording(w)
      told  == [w EXCEPT !.hook.listening = w.app.listening,
                         !.hook.recording = Recording(w)]
  IN CASE w.hook.alive # "up" -> w
       [] w.hook.alive = "up" /\ ~stops -> told
       [] OTHER -> [Terminated(told) EXCEPT
                      !.hook.events = IF HoldsSeek(w) THEN Append(@, HeldRelease(w)) ELSE @]

\* A media output.  late: a press older than COMMAND_TTL.
Media(w, e, late) ==
  LET ignored == IsPress(e) /\ (~w.app.listening \/ ~e.fresh)
      queued  == CanEnqueue(w, e) /\ ~(IsPress(e) /\ late)
  IN CASE ignored                                  -> w
       [] ~ignored /\ queued                       -> Enqueue(w, e, 0)
       [] ~ignored /\ ~queued /\ w.app.ready       -> Invalidate(w, "TransportLost")
       [] OTHER                                    -> w

\* discard_events: only the ordered cleanup is applied.
Discard(w, late) ==
  LET Step(v, e) ==
        IF e.ordered THEN Media(v, e, late)
        ELSE [v EXCEPT !.seen.lost = @ \/ e.kind = "release"]
  IN FoldLeft(LAMBDA v, e : Step([v EXCEPT !.hook.events = Tail(@)], Head(v.hook.events)),
              w, w.hook.events)

\* ensure_input: a listener that ended is replaced by one that knows nothing.
EnsureInput(w, late) ==
  IF w.hook.alive = "up" THEN w
  ELSE [NewEpoch(Discard(w, late)) EXCEPT
          !.hook.alive = "up", !.hook.listening = FALSE, !.hook.recording = FALSE]

\* set_listening
SetListening(w, on, late) ==
  LET ready == IF on THEN EnsureInput(w, late) ELSE w
      told  == Configure([ready EXCEPT !.app.listening = on])
  IN IF on THEN told ELSE Invalidate(told, "ListenerStopped")

Apply(w, e, late) ==
  CASE e.kind \in {"press", "tap", "release"} -> Media(w, e, late)
    [] e.kind = "toggle" /\ ~Recording(w) /\ e.fresh ->
         SetListening(w, ~w.app.listening, late)
    [] OTHER -> w

-----------------------------------------------------------------------------
(* Recording a shortcut.                                                    *)

\* finish_recording
FinishRecording(w, late) ==
  IF ~Recording(w) THEN w
  ELSE Discard(NewEpoch(Configure([w EXCEPT !.app.capture = "none"])), late)

\* apply_binding_command(BeginCapture): consume_ui_input, finish_recording, record
Record(w, late) ==
  LET open == EnsureInput(FinishRecording(ConsumeUi(w), late), late)
  IN NewEpoch(Configure([open EXCEPT !.app.capture = "waiting"]))

\* A recorded edge may complete the shortcut or be Escape.
Recorded(w, ends, late) ==
  IF w.app.capture = "recording" /\ ends THEN FinishRecording(w, late) ELSE w

-----------------------------------------------------------------------------
(* The worker and its supervisor, as BluetoothSupervisor has them in        *)
(* detail: control, replace_worker, message(Status), finish.                *)

\* publish_snapshot.  What a snapshot has besides may always have changed.
Publish(w) ==
  LET s == [now |-> TRUE, early |-> FALSE, selected |-> w.tr.selected,
            ready |-> w.tr.ready, switching |-> w.tr.switching]
  IN [w EXCEPT !.tr.unread = TRUE, !.tr.snapshot = s]

\* A receipt whose sender is gone or answered.
Answer(w, ids, answer) ==
  [w EXCEPT !.app.receipt =
              [t \in DOMAIN @ |-> IF t \in ids THEN [@[t] EXCEPT !.answer = answer] ELSE @[t]],
            !.tr.pending = @ \ ids]

Replace(w, switching, full) ==
  Publish([NextRevision(Answer(w, w.tr.pending, "refused")) EXCEPT
             !.tr.native    = "none",
             !.tr.switching = switching,
             !.tr.full      = full,
             !.tr.ready     = FALSE,
             !.tr.held      = FALSE])

Accepts(w, c) ==
  /\ c.now
  /\ w.tr.ready /\ ~w.tr.switching
  /\ w.tr.selected = c.dev

\* What the worker does with an accepted command; HidSender has the rest.
Execute(w, c) ==
  [w EXCEPT !.tr.held    = CASE c.kind = "press" -> TRUE
                             [] c.kind = "release" -> FALSE
                             [] OTHER -> @,
            !.tr.pending = IF c.id = 0 THEN @ ELSE @ \union {c.id}]

Control(w, c) ==
  CASE c.kind = "Select" ->
         Replace([w EXCEPT !.tr.selected = c.dev, !.tr.remembered = None],
                 c.dev # None, FALSE)
    [] c.kind = "Restart" ->
         Replace([w EXCEPT !.tr.selected = None, !.tr.remembered = None], TRUE, FALSE)
    [] c.kind = "Invalidate" ->
         Publish([w EXCEPT !.tr.ready = FALSE, !.tr.held = FALSE,
                           !.tr.native = IF @ = "none" THEN "none" ELSE "blocked"])
    [] OTHER ->
         IF Accepts(w, c) THEN Execute(w, c) ELSE Answer(w, {c.id} \ {0}, "refused")

NoSnapshot == [now |-> FALSE, early |-> FALSE, selected |-> None,
               ready |-> FALSE, switching |-> FALSE]

NoTransport ==
  [life |-> "none", control |-> <<>>, snapshot |-> NoSnapshot, unread |-> FALSE,
   selected |-> None, ready |-> FALSE, switching |-> FALSE, full |-> FALSE,
   native |-> "none", remembered |-> None, held |-> FALSE, pending |-> {}]

\* The first step of a new supervisor.
NewTransport(w) ==
  Replace([w EXCEPT !.tr = [NoTransport EXCEPT !.life = "up", !.remembered = w.app.restore],
                    !.app.now = FALSE], FALSE, FALSE)

-----------------------------------------------------------------------------
(* connection.rs                                                            *)

\* start_bluetooth_with.  made: the operating system lets a worker start.
Start(w, made) ==
  LET shut == SessionOver(Invalidate(
                [w EXCEPT !.app.ready = FALSE, !.app.selected = None], "SessionChanged"))
      old  == shut.tr.life = "up"
      next == CASE old          -> LET asked == Change(shut, "Restart", None) IN
                                   IF CanRequest(shut) THEN Require(asked) ELSE asked
                [] ~old /\ made  -> NewTransport(shut)
                [] ~old /\ ~made -> [shut EXCEPT !.tr = NoTransport, !.app.now = FALSE]
  IN [next EXCEPT !.seen.chosen = w.app.restore]

\* choose, for a device that is not already being connected.
Choose(w, d) ==
  LET asked == Change([w EXCEPT !.app.restore = None], "Select", d) IN
  CASE w.tr.life = "none" -> [w EXCEPT !.app.restore = None]
    [] w.tr.life # "none" /\ ~CanRequest(w) -> asked
    [] OTHER -> SessionOver(Invalidate(
         [Require(asked) EXCEPT !.app.ready      = FALSE,
                                !.app.selected   = d,
                                !.seen.chosen    = d,
                                !.seen.forgotten = FALSE], "SessionChanged"))

\* disconnect: the selection goes even when the command found no room.
Disconnect(w) ==
  LET forgot == [w EXCEPT !.app.restore = None, !.app.remembered = None,
                          !.seen.chosen = None, !.seen.forgotten = TRUE]
      asked  == Change(forgot, "Select", None)
      over   == SessionOver(Invalidate(
                  [asked EXCEPT !.app.ready = FALSE, !.app.selected = None], "SessionChanged"))
  IN CASE w.tr.life = "none" -> forgot
       [] w.tr.life # "none" /\ CanRequest(forgot) -> Require(over)
       [] OTHER -> over

-----------------------------------------------------------------------------
(* tick, up to the batch of events.                                         *)

\* Mutant: the generation alone decides.
AdmitsByGeneration(w, s) == w.tr.life = "stopped" \/ ~s.early

\* Whose snapshot is it?
Admits(w, s) ==
  \/ w.tr.life = "stopped"
  \/ /\ ~s.early
     /\ \/ s.selected = w.app.selected
        \/ s.selected = None
        \/ w.app.selected = None /\ w.app.restore # None /\ s.selected = w.app.restore

TakeSnapshot(w) ==
  LET s     == w.tr.snapshot
      ready == s.ready /\ s.selected # None /\ w.tr.life # "stopped"
      read  == [w EXCEPT !.tr.unread = FALSE, !.tr.snapshot = NoSnapshot]
  IN IF w.tr.life = "none" \/ ~(w.tr.unread \/ w.tr.life = "stopped") \/ ~Admits(w, s) THEN read
     ELSE [read EXCEPT !.app.now        = s.now /\ ready,
                       !.app.selected   = s.selected,
                       !.app.ready      = ready,
                       !.app.switching  = s.switching,
                       !.app.remembered = IF ready THEN s.selected ELSE @,
                       !.app.restore    = IF ready THEN None ELSE @]

\* retry_startup_with; due: five seconds have passed since the last attempt.
Retry(w, due, made) ==
  IF due /\ w.app.restore # None /\ w.tr.life # "up" THEN Start(w, made) ELSE w

NoticeLoss(w) ==
  LET lost == w.app.lastReady /\ ~w.app.ready /\ ~w.app.switching IN
  [(IF lost THEN SessionOver(Invalidate(w, "TransportLost")) ELSE w)
     EXCEPT !.app.lastReady = w.app.ready]

\* configure_input with the error that a failed passthrough left.
ConfigureInput(w, fault) ==
  LET alive == [w EXCEPT !.app.input = w.hook.alive = "up"] IN
  Configure(IF fault /\ w.hook.alive # "none"
            THEN Invalidate([alive EXCEPT !.app.listening = FALSE], "TransportLost")
            ELSE alive)

\* The listener ended by itself.
NoticeInput(w, late) ==
  IF w.hook.alive # "down" THEN w
  ELSE [FinishRecording(Invalidate([w EXCEPT !.app.listening = FALSE], "ListenerStopped"), late)
          EXCEPT !.hook.alive = "none"]

\* foreground: the window is ours.  keys: some input is still held.
NoticeWindow(w, foreground, keys, late) ==
  LET left == IF foreground THEN w ELSE FinishRecording(w, late) IN
  IF left.app.capture = "waiting" /\ ~keys
  THEN NewEpoch([Discard(left, late) EXCEPT !.app.capture = "recording"])
  ELSE left

-----------------------------------------------------------------------------
(* The rest of tick: the batch, then the receipts.                          *)

\* Mutant: input of the configuration window has no output at all.
AllowedElsewhere(e) == ~e.ui

\* Input of the configuration window only releases what the receiver holds.
Allowed(e) == ~e.ui \/ e.kind = "release"

Handle(w, e, late, ends) ==
  CASE e.ordered                -> Apply(w, e, late)
    [] ~e.ordered /\ ~e.fresh   -> [w EXCEPT !.seen.lost = @ \/ e.kind = "release"]
    [] ~e.ordered /\ e.fresh /\ Recording(w)  -> Recorded(w, ends, late)
    [] ~e.ordered /\ e.fresh /\ ~Recording(w) /\ Allowed(e) -> Apply(w, e, late)
    [] OTHER -> w

HandleEvents(w, late, ends) ==
  FoldLeft(LAMBDA v, e : Handle([v EXCEPT !.batch = Tail(@)], Head(v.batch), late, ends),
           [w EXCEPT !.batch = w.hook.events, !.hook.events = <<>>], w.hook.events)

\* Mutant: what is older than the epoch is skipped before the test is looked at.
SettleCurrent(w, t) ==
  [w EXCEPT !.app.test       = IF @ = t /\ w.app.receipt[t].fresh THEN 0 ELSE @,
            !.app.receipt[t] = [answer |-> "none", fresh |-> FALSE]]

\* An answer ends the test it belongs to, then the receipt only counts when it
\* is not older than the epoch.
Settle(w, t) ==
  [w EXCEPT !.app.test       = IF @ = t THEN 0 ELSE @,
            !.app.receipt[t] = [answer |-> "none", fresh |-> FALSE]]

ReadReceipts(w) ==
  FoldLeft(Settle, w,
           SetToSeq({t \in DOMAIN w.app.receipt : w.app.receipt[t].answer \notin {"none", "waiting"}}))

Tick ==
  \E due, made, fault, foreground, keys, late, ends \in BOOLEAN :
    /\ (fault \/ late) => MayDisturb
    /\ fault => hook.alive = "up"
    /\ late => \E i \in DOMAIN hook.events : IsPress(hook.events[i])
    /\ due => app.restore # None /\ tr.life # "up"
    /\ made => due
    /\ Recording(world) \/ (foreground /\ keys /\ ~ends)
    /\ LET synced == NoticeWindow(NoticeInput(ConfigureInput(
                       NoticeLoss(Retry(TakeSnapshot(world), due, made)), fault), late),
                       foreground, keys, late)
           done == ReadReceipts(HandleEvents(synced, late, ends))
       IN Becomes(IF fault \/ late THEN Disturbed(done) ELSE done)

-----------------------------------------------------------------------------
(* Commands of the user, run by the worker's loop between two ticks.        *)

UserStart ==
  /\ MayDisturb
  /\ \E made \in BOOLEAN : Becomes(Disturbed(Start(world, made)))

UserChoose ==
  /\ MayDisturb
  /\ \E d \in Device : Becomes(Disturbed(Choose(world, d)))

UserDisconnect == MayDisturb /\ Becomes(Disturbed(Disconnect(world)))

UserListening == \E on \in BOOLEAN : Becomes(SetListening(world, on, FALSE))

UserCapture ==
  \/ MayDisturb /\ Becomes(Disturbed(Record(world, FALSE)))
  \/ Recording(world) /\ Becomes(FinishRecording(ConsumeUi(world), FALSE))

UserInput == hook.events # <<>> /\ Becomes(ConsumeUi(world))

\* send: a test is a press of PlayPause with a receipt that the user waits for.
UserTest ==
  LET e == Event(FALSE, "tap", TRUE, TRUE)
      t == app.tests + 1
  IN /\ app.test = 0 /\ app.tests < seen.bound.tests
     /\ CanEnqueue(world, e)
     /\ Becomes([Enqueue(world, e, t) EXCEPT
                   !.app.tests = t, !.app.test = t,
                   !.app.receipt[t] = [answer |-> "waiting", fresh |-> TRUE]])

-----------------------------------------------------------------------------
(* The listener thread.                                                     *)

Room == Len(hook.events) < seen.bound.events

Emits(w, e) == [w EXCEPT !.hook.events = Append(@, e)]

KeyDown ==
  /\ hook.alive = "up" /\ hook.listening /\ ~hook.recording /\ hook.hold = "none"
  /\ Becomes([world EXCEPT !.hook.hold = "down", !.hook.fresh = TRUE, !.hook.current = TRUE])

\* InputRouter::tick at the threshold; the policy timer dispatches a Control.
HoldDue ==
  /\ hook.alive = "up" /\ hook.hold = "down" /\ Room
  /\ Becomes(Emits([world EXCEPT !.hook.hold = "held"],
                   Event(TRUE, "press", TRUE, hook.current)))

KeyUp ==
  /\ hook.alive = "up" /\ hook.hold # "none" /\ Room
  /\ Becomes(Emits(Terminated(world),
                   IF hook.hold = "held" THEN Event(FALSE, "release", TRUE, TRUE)
                   ELSE Event(FALSE, "tap", TRUE, hook.current)))

ToggleKey ==
  /\ hook.alive = "up" /\ ~hook.recording /\ Room
  /\ Becomes(Emits(world, Event(FALSE, "toggle", TRUE, TRUE)))

RecordedKey ==
  /\ hook.alive = "up" /\ hook.recording /\ Room
  /\ Becomes(Emits(world, Event(FALSE, "key", TRUE, TRUE)))

\* The thread ends; its cleanup terminates the router and dispatches the rest.
ListenerEnds ==
  /\ hook.alive = "up" /\ MayDisturb
  /\ Becomes(Disturbed([Terminated(IF HoldsSeek(world) THEN Emits(world, HeldRelease(world)) ELSE world)
                EXCEPT !.hook.alive = "down"]))

-----------------------------------------------------------------------------
(* The supervisor thread and its worker.                                    *)

Supervise ==
  /\ tr.life = "up" /\ tr.control # <<>>
  /\ Becomes(Control([world EXCEPT !.tr.control = Tail(@)], Head(tr.control)))

\* A status of the worker: of a new native generation, or of the one at hand
\* when it has become ready.  Whatever takes readiness away makes a new native
\* generation (authorization.rs:99, macOS revoke).
Status ==
  /\ tr.life = "up"
  /\ \E new, ready \in BOOLEAN :
       /\ new \/ (tr.native = "open" /\ ~tr.ready /\ ready)
       /\ (new /\ tr.ready) => MayDisturb
       /\ LET selected == IF tr.selected = None THEN tr.remembered ELSE tr.selected
              told     == Publish([(IF new THEN NextRevision(world) ELSE world) EXCEPT
                  !.tr.native    = "open",
                  !.tr.selected  = IF ready THEN selected ELSE @,
                  !.tr.ready     = ready,
                  !.tr.switching = @ /\ (tr.full \/ ~ready),
                  !.tr.held      = @ /\ ~new])
          IN /\ ready => selected # None
             /\ Becomes(IF new /\ tr.ready THEN Disturbed(told) ELSE told)

\* Whole-device capture is requested or given up (desired_profile).
SwitchProfile ==
  /\ tr.life = "up" /\ tr.selected # None /\ MayDisturb
  /\ Becomes(Disturbed(Replace(world, TRUE, ~tr.full)))

\* The worker is armed, which ends a switch to the full profile.
Armed ==
  /\ tr.life = "up" /\ tr.switching /\ tr.full /\ tr.ready
  /\ Becomes(Publish([world EXCEPT !.tr.switching = FALSE]))

\* Thirty seconds without a receiver.
SwitchExpires ==
  /\ tr.life = "up" /\ tr.switching
  /\ Becomes(IF tr.full THEN Replace(world, TRUE, FALSE)
             ELSE Publish([world EXCEPT !.tr.switching = FALSE]))

\* The worker answers, or two seconds pass.
Reply ==
  /\ tr.life = "up"
  /\ \E t \in tr.pending, answer \in {"done", "refused"} :
       Becomes(Answer(world, {t}, answer))

\* finish: the worker failed beyond repair.
SupervisorEnds ==
  /\ tr.life = "up" /\ MayDisturb
  /\ LET queued == {tr.control[i].id : i \in DOMAIN tr.control} \ {0}
         told   == Answer(world, tr.pending \union queued, "refused")
     IN Becomes(Disturbed([Publish([told EXCEPT !.tr.selected = None, !.tr.ready = FALSE,
                                      !.tr.switching = FALSE])
                   EXCEPT !.tr.life = "stopped", !.tr.control = <<>>, !.tr.held = FALSE]))

-----------------------------------------------------------------------------
\* The first tick makes the listener; then the window starts Bluetooth.  Whether
\* a device is saved comes from the configuration.
Created(saved, bound) ==
  [app  |-> [listening |-> FALSE, capture |-> "none", input |-> TRUE,
             ready |-> FALSE, selected |-> None, now |-> FALSE, switching |-> FALSE,
             lastReady |-> FALSE, restore |-> saved, remembered |-> saved,
             test |-> 0, tests |-> 0,
             receipt |-> [t \in 1 .. bound.tests |-> [answer |-> "none", fresh |-> FALSE]]],
   hook |-> [alive |-> "up", listening |-> FALSE, recording |-> FALSE, hold |-> "none",
             fresh |-> FALSE, current |-> FALSE, events |-> <<>>],
   tr   |-> NoTransport,
   seen |-> [chosen |-> saved, forgotten |-> FALSE, lost |-> FALSE, changes |-> 0,
             bound |-> bound],
   batch |-> <<>>]

Init ==
  \E saved \in Device \union {None}, made \in BOOLEAN, bound \in Bounds :
    LET w == Start(Created(saved, bound), made) IN
    app = w.app /\ hook = w.hook /\ tr = w.tr /\ seen = w.seen

User     == UserStart \/ UserChoose \/ UserDisconnect \/ UserListening
            \/ UserCapture \/ UserInput \/ UserTest
Listener == KeyDown \/ HoldDue \/ KeyUp \/ ToggleKey \/ RecordedKey \/ ListenerEnds
Worker   == Supervise \/ Status \/ SwitchProfile \/ Armed \/ SwitchExpires \/ Reply \/ SupervisorEnds

Next == Tick \/ User \/ Listener \/ Worker

Spec == Init /\ [][Next]_vars

-----------------------------------------------------------------------------
(* Properties.                                                              *)

TypeOK ==
  /\ app.capture \in {"none", "waiting", "recording"}
  /\ {app.selected, app.restore, app.remembered, tr.selected, tr.remembered}
       \subseteq Device \union {None}
  /\ app.test \in 0 .. app.tests /\ app.tests \in 0 .. seen.bound.tests
  /\ app.ready => app.selected # None /\ tr.life # "none"
  /\ hook.alive \in {"none", "up", "down"}
  /\ hook.hold \in {"none", "down", "held"}
  /\ hook.alive # "up" => hook.hold = "none"
  /\ tr.life \in {"none", "up", "stopped"}
  /\ Len(tr.control) <= ControlCapacity
  /\ tr.native \in {"none", "blocked", "open"}

\* A seek that the receiver holds is still held at the keyboard, or something
\* on its way ends it: a release among the events or commands, or a command
\* that makes the worker give up its session.  Exempt are releases that the
\* runtime dropped by their age and commands that found no room.
Ends(c) ==
  \/ c.kind \in {"Select", "Restart", "Invalidate"}
  \/ c.kind = "release" /\ c.now /\ c.dev = tr.selected

ReleaseComes ==
  \/ hook.hold = "held"
  \/ \E i \in DOMAIN hook.events : hook.events[i].kind = "release"
  \/ \E i \in DOMAIN tr.control : Ends(tr.control[i])

HeldUnlessDiscarded == tr.held => seen.lost \/ ReleaseComes

\* A press that the supervisor is about to accept was made after the session
\* last changed: an old key never acts on a new connection.
PressIsCurrent ==
  \A i \in DOMAIN tr.control :
    LET c == tr.control[i] IN
    IsPress(c) /\ Accepts(world, c) => c.current

\* The runtime shows, and sends to, nobody but the device that was chosen last
\* or that is being restored, whatever snapshots are still on their way; a
\* device the user disconnected is not remembered again.
ShownIsChosen ==
  /\ app.selected \in {None, seen.chosen}
  /\ seen.forgotten => app.remembered = None

\* A pending test has a receipt that was answered, or that the supervisor still
\* owes an answer: no test stays pending for good, and none is started twice.
TestOwed ==
  app.test # 0 =>
    \/ app.receipt[app.test].answer \in {"done", "refused"}
    \/ /\ app.receipt[app.test].answer = "waiting"
       /\ tr.life = "up"
       /\ app.test \in tr.pending \union {tr.control[i].id : i \in DOMAIN tr.control}

\* What the comment at runtime.rs:611-614 promises of releases.
NeverStuck == tr.held => ReleaseComes
=============================================================================
