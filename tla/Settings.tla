------------------------------ MODULE Settings ------------------------------
(***************************************************************************)
(* Who owns the settings: taprelay-app/src/runtime/worker.rs, with the     *)
(* parts of the GUI controller that edit and save them and the file of     *)
(* config/storage.rs.                                                      *)
(*                                                                         *)
(* The worker owns the live bindings, rules, mappings and the remembered   *)
(* receiver; the GUI owns the options, a copy of the rest that is as old   *)
(* as the last answer it read, and the edits that the worker has not       *)
(* answered.  Both write the whole file.                                   *)
(*                                                                         *)
(* The value of a part of the settings is the set of the edits that led to *)
(* it, so that one value is older than another exactly when it lacks some  *)
(* of its edits.  The channels and the worker are first in, first out, so  *)
(* an answer is that of the oldest request: pending is a sequence in the   *)
(* order of the identifiers.  What the GUI shows of the outcome of a save  *)
(* (rules_saved, mappings_saved, notices) is left out.                     *)
(***************************************************************************)
EXTENDS Naturals, Sequences, FiniteSets, SequencesExt

CONSTANTS
  Function,        \* functions whose scope or switch is edited
  QueueCapacity,   \* requests that the worker's channel takes
  Plans            \* a set of [edits |-> the kinds that a behaviour may use,
                   \* most |-> edits, keys |-> of the window, failures |->
                   \* of saves, restarts |-> of the process]

VARIABLES
  handle,    \* RuntimeHandle: config, pending, window_keys, closing, stopped ...
  gui,       \* Controller: save_pending, last_remembered_device, exit, and the
             \* candidate it has computed and not handed over yet
  queue,     \* requests on their way to the worker
  worker,    \* the live settings of the Runtime, the window keys it was given
  answers,   \* responses on their way back
  file,      \* the configuration file
  seen       \* observers and bounds

vars == <<handle, gui, queue, worker, answers, file, seen>>

Fields    == {"functions", "rules", "mappings", "remembered", "options"}
Live     == Fields \ {"options"}
Bindings == {"functions", "rules", "mappings"}    \* what bindings_revision counts

Nothing == [kind |-> "none"]
AllOf == "any"                                     \* for requests that are not about one function

\* x with edit e made to a part
Edited(config, parts, e) == [p \in DOMAIN config |-> IF p \in parts THEN config[p] \union {e} ELSE config[p]]

\* The parts of a that b knows nothing of
Older(b, a) == {p \in DOMAIN a : ~ a[p] \subseteq b[p]}

-----------------------------------------------------------------------------
(* RuntimeHandle.                                                           *)

Pending(h, kinds) == \E i \in DOMAIN h.pending : h.pending[i].kind \in kinds
PendingOn(h, kind, f) == \E i \in DOMAIN h.pending : h.pending[i] = [kind |-> kind, on |-> f]

EditsBlocked(h)  == \E i \in DOMAIN h.pending : h.pending[i].kind \notin {"poll", "toggle", "scope"}
SavingRules(h)   == Pending(h, {"rules", "scope"})
SavingMappings(h) == Pending(h, {"mappings"})
Busy(h)          == \E i \in DOMAIN h.pending : h.pending[i].kind # "poll"

\* apply
Apply(h, view) ==
  [h EXCEPT !.config  = [p \in Fields |-> IF p \in Live THEN view[p] ELSE @[p]],
            !.changed = @ \/ \E p \in Bindings : view[p] # h.config[p]]

MarkStopped(h) == [h EXCEPT !.stopped = TRUE, !.pending = <<>>, !.keys = <<>>]

Answered(h, answer) ==
  IF answer.kind = "stopped" THEN MarkStopped(Apply(h, answer.view))
  ELSE Apply([h EXCEPT !.pending = Tail(@)], answer.view)

\* poll takes every answer that is there.
Poll(h) == FoldLeft(Answered, h, answers)

\* A change of the rate is an Edit of the worker too.
EditKinds == {"edit", "toggle", "rules", "scope", "mappings", "rate"}

Refused(h, kind, f) ==
  \/ h.stopped \/ h.closing
  \/ /\ kind \in EditKinds
     /\ \/ EditsBlocked(h)
        \/ kind = "toggle" /\ PendingOn(h, "toggle", f)
        \/ kind = "scope" /\ PendingOn(h, "scope", f)
        \/ kind = "rules" /\ SavingRules(h)

\* Mutant: every tick asks.
MergedCancel(h, kind) == kind = "cancel" /\ Pending(h, {kind})

\* Poll and CancelCapture are pending at most once.
Merged(h, kind) == kind \in {"poll", "cancel"} /\ Pending(h, {kind})

HasRoom == Len(queue) < QueueCapacity

Accepted(h, kind, f) == ~Refused(h, kind, f) /\ ~Merged(h, kind) /\ HasRoom

\* Mutant: the keys of a request that found no room are gone.
EnqueuedOrDropped(h, kind, f) ==
  CASE Accepted(h, kind, f) -> [h EXCEPT !.keys = <<>>, !.pending = Append(@, [kind |-> kind, on |-> f]),
                                         !.closing = kind = "shutdown"]
    [] ~Refused(h, kind, f) /\ ~Merged(h, kind) /\ ~HasRoom -> [h EXCEPT !.keys = <<>>]
    [] OTHER -> h

\* The handle after enqueue: the request takes the window keys with it, and gives
\* them back when the channel is full.
Enqueued(h, kind, f) ==
  IF Accepted(h, kind, f)
  THEN [h EXCEPT !.keys = <<>>, !.pending = Append(@, [kind |-> kind, on |-> f]),
                 !.closing = kind = "shutdown"]
  ELSE h

\* The closure of a request keeps the options and the new rules or mappings that
\* were read for it.  Observers: the edit it makes, the window keys that came
\* before it, and whether the value lacks an edit that was answered in between.
Request(h, kind, f, value, edit) ==
  [kind |-> kind, on |-> f, options |-> h.config["options"], value |-> value, keys |-> h.keys,
   edit |-> edit, after |-> seen.keys,
   stale |-> kind \in {"rules", "mappings"} /\ ~ h.config[kind] \subseteq value]

\* The request is queued; answers have been read by poll.
Hand(h, kind, f, value, edit) ==
  /\ queue' = IF Accepted(h, kind, f) THEN Append(queue, Request(h, kind, f, value, edit)) ELSE queue
  /\ answers' = <<>>

-----------------------------------------------------------------------------
(* The file, and the saves of the GUI.                                      *)

\* Config::save: the new file is renamed over the old one, or nothing changes.
MayFail == seen.failures < seen.plan.failures

\* Mutant: the copy of the GUI is saved whatever the worker is saving.
Saves(h) == TRUE

\* Controller::save_config waits for the saves of the worker.
MaySave(h) == ~SavingRules(h) /\ ~SavingMappings(h)

Dirty(h, g) == g.dirty \/ g.remembered # h.config["remembered"] \/ h.changed

\* Mutant: what is to be saved is forgotten when the save must wait.
SaveConfigOnce(h, g, s) ==
  /\ handle' = [h EXCEPT !.changed = FALSE]
  /\ gui' = [g EXCEPT !.dirty = FALSE, !.remembered = h.config["remembered"]]
  /\ file' = IF MaySave(h) /\ Dirty(h, g) THEN h.config ELSE file
  /\ seen' = s

\* save_config in a step that leaves the handle h and the controller g: a save
\* that fails is not tried again.
SaveConfig(h, g, s) ==
  IF ~MaySave(h) THEN handle' = h /\ gui' = g /\ seen' = s /\ UNCHANGED file
  ELSE /\ handle' = [h EXCEPT !.changed = FALSE]
       /\ gui' = [g EXCEPT !.dirty = FALSE, !.remembered = h.config["remembered"]]
       /\ \/ ~Dirty(h, g) /\ seen' = s /\ UNCHANGED file
          \/ Dirty(h, g) /\ file' = h.config /\ seen' = [s EXCEPT !.failed = FALSE]
          \/ /\ Dirty(h, g) /\ MayFail
             /\ seen' = [s EXCEPT !.failed = TRUE, !.failures = @ + 1]
             /\ UNCHANGED file

-----------------------------------------------------------------------------
(* What the user does.  dispatch polls before every command; the answers   *)
(* that come between that and the poll of enqueue are the reason why a     *)
(* candidate is a step of its own.                                          *)

Polled == Poll(handle)
Idle   == gui.candidate = Nothing /\ gui.exit = "no"

\* One more edit of a kind
Edits(kind) == kind \in seen.plan.edits /\ seen.edits < seen.plan.most
Edit        == seen.edits + 1
Counted     == [seen EXCEPT !.edits = @ + 1]

\* apply_binding_command: shortcuts are removed, functions switched on or off.
EditBinding ==
  \E kind \in {"edit", "toggle"}, f \in Function :
    /\ Idle /\ Edits(kind)
    /\ Hand(Polled, kind, f, {}, Edit)
    /\ handle' = Enqueued(Polled, kind, f)
    /\ seen' = Counted
    /\ UNCHANGED <<gui, worker, file>>

CancelCapture ==
  /\ Idle /\ "cancel" \in seen.plan.edits
  /\ Hand(Polled, "cancel", AllOf, {}, 0)
  /\ handle' = Enqueued(Polled, "cancel", AllOf)
  /\ UNCHANGED <<gui, worker, file, seen>>

\* save_function_scope: the worker merges the assignment into the live rules.
SaveScope ==
  \E f \in Function :
    /\ Idle /\ Edits("scope")
    /\ Hand(Polled, "scope", f, {}, Edit)
    /\ handle' = Enqueued(Polled, "scope", f)
    /\ seen' = Counted
    /\ UNCHANGED <<gui, worker, file>>

\* group_command and mapping_command: the whole new rules or mappings are computed
\* from the copy of the GUI.
Compute ==
  \E kind \in {"rules", "mappings"} :
    /\ Idle /\ Edits(kind)
    /\ ~EditsBlocked(Polled) /\ ~Polled.stopped
    /\ handle' = Polled /\ answers' = <<>>
    /\ gui' = [gui EXCEPT !.candidate =
                 [kind |-> kind, value |-> Polled.config[kind] \union {Edit}, edit |-> Edit]]
    /\ seen' = Counted
    /\ UNCHANGED <<queue, worker, file>>

\* set_foreground_app_rules, set_custom_mappings
HandCandidate ==
  LET c == gui.candidate IN
  /\ c # Nothing
  /\ Hand(Polled, c.kind, AllOf, c.value, c.edit)
  /\ handle' = Enqueued(Polled, c.kind, AllOf)
  /\ gui' = [gui EXCEPT !.candidate = Nothing]
  /\ UNCHANGED <<worker, file, seen>>

\* action, for the options that only the GUI knows
ChangeOption ==
  /\ Idle /\ Edits("option")
  /\ answers' = <<>>
  /\ SaveConfig([Polled EXCEPT !.config = Edited(@, {"options"}, Edit)],
                [gui EXCEPT !.dirty = TRUE], Counted)
  /\ UNCHANGED <<queue, worker>>

\* set_passthrough_mouse_report_rate and the like: the worker is told first.
ChangeRate ==
  /\ Idle /\ Edits("rate")
  /\ Hand(Polled, "rate", AllOf, {}, 0)
  /\ IF Accepted(Polled, "rate", AllOf)
     THEN SaveConfig([Enqueued(Polled, "rate", AllOf) EXCEPT !.config = Edited(@, {"options"}, Edit)],
                     [gui EXCEPT !.dirty = TRUE], Counted)
     ELSE handle' = Polled /\ UNCHANGED <<gui, file, seen>>
  /\ UNCHANGED worker

\* window_key
WindowKey ==
  /\ Idle /\ seen.keys < seen.plan.keys
  /\ ~handle.closing /\ ~handle.stopped
  /\ handle' = [handle EXCEPT !.keys = Append(@, seen.keys + 1)]
  /\ seen' = [seen EXCEPT !.keys = @ + 1]
  /\ UNCHANGED <<gui, queue, worker, answers, file>>

\* Also once the process was started again as administrator, which is not followed
\* by a save.  A full queue refuses it.
Quit ==
  LET h    == Enqueued(Polled, "shutdown", AllOf)
      exit == IF h.closing \/ h.stopped THEN "quit" ELSE "no"
  IN /\ gui.candidate = Nothing /\ gui.exit \in {"no", "relaunch"}
     /\ seen.restarts < seen.plan.restarts
     /\ Hand(Polled, "shutdown", AllOf, {}, 0)
     /\ IF gui.exit = "no" /\ exit = "quit" THEN SaveConfig(h, [gui EXCEPT !.exit = exit], seen)
        ELSE handle' = h /\ gui' = [gui EXCEPT !.exit = exit] /\ UNCHANGED <<file, seen>>
     /\ UNCHANGED worker

\* A recording is cancelled first.
Elevate ==
  LET h == Enqueued(Polled, "cancel", AllOf) IN
  /\ Idle /\ "elevate" \in seen.plan.edits
  /\ Hand(Polled, "cancel", AllOf, {}, 0)
  /\ IF Pending(h, {"cancel"}) THEN SaveConfig(h, [gui EXCEPT !.exit = "elevate"], seen)
     ELSE handle' = h /\ UNCHANGED <<gui, file, seen>>
  /\ UNCHANGED worker

-----------------------------------------------------------------------------
(* The tick of the controller, and the end of the process.                  *)

\* save_geometry is part of the last save.
FinishQuit(h) == gui.exit = "quit" /\ h.stopped

\* The configuration is saved before the process is started again as administrator,
\* which may be refused or fail.
FinishElevate(h) == gui.exit = "elevate" /\ ~Busy(h)

Elevated(h) ==
  /\ handle' = h
  /\ \/ /\ \E exit \in {"no", "relaunch"} : gui' = [gui EXCEPT !.dirty = FALSE, !.exit = exit]
        /\ file' = h.config /\ seen' = [seen EXCEPT !.failed = FALSE]
     \/ /\ MayFail
        /\ gui' = [gui EXCEPT !.dirty = TRUE, !.exit = "no"]
        /\ UNCHANGED <<file, seen>>

\* tick asks the worker for its view.
GuiTick ==
  LET h == Enqueued(Polled, "poll", AllOf) IN
  /\ gui.candidate = Nothing /\ gui.exit # "over"
  /\ Hand(Polled, "poll", AllOf, {}, 0)
  /\ CASE FinishQuit(h)     -> SaveConfig(h, [gui EXCEPT !.dirty = TRUE, !.exit = "over"], seen)
       [] FinishElevate(h)  -> Elevated(h)
       [] gui.exit = "no"   -> SaveConfig(h, gui, seen)
       [] OTHER             -> handle' = h /\ UNCHANGED <<gui, file, seen>>
  /\ UNCHANGED worker

FirstHandle == [config |-> file, pending |-> <<>>, keys |-> <<>>, changed |-> FALSE,
                closing |-> FALSE, stopped |-> FALSE]
FirstGui    == [dirty |-> FALSE, remembered |-> file["remembered"], exit |-> "no", candidate |-> Nothing]
FirstWorker == [live |-> [p \in Live |-> file[p]], keys |-> <<>>, running |-> TRUE]

\* The process ends, as it should or not, and is started again.
Restart ==
  /\ gui.exit = "over" \/ seen.restarts < seen.plan.restarts
  /\ handle' = FirstHandle /\ gui' = FirstGui /\ worker' = FirstWorker
  /\ queue' = <<>> /\ answers' = <<>>
  /\ seen' = [seen EXCEPT !.keys = 0, !.failed = FALSE, !.restarts = @ + 1]
  /\ UNCHANGED file

-----------------------------------------------------------------------------
(* The worker.  A request and the save in it are one step: only the GUI     *)
(* reads what it changes, and not before the answer.                        *)

View(live) == [kind |-> "completed", view |-> live]

\* What the file gets from a save of the worker
Whole(live, options) == [p \in Fields |-> IF p \in Live THEN live[p] ELSE options]

\* A new set of groups also changes the mappings that were limited to one.
Changed(request, live) ==
  CASE request.kind \in {"edit", "toggle"} -> Edited(live, {"functions"}, request.edit)
    [] request.kind = "scope"    -> Edited(live, {"rules"}, request.edit)
    [] request.kind = "rules"    -> [Edited(live, {"mappings"}, request.edit) EXCEPT !["rules"] = request.value]
    [] request.kind = "mappings" -> [live EXCEPT !["mappings"] = request.value]
    [] OTHER                     -> live

Saving(request) == request.kind \in {"rules", "scope", "mappings"}

\* A save that fails changes nothing.
Serve ==
  LET request == Head(queue)
      live    == Changed(request, worker.live)
  IN /\ worker.running /\ queue # <<>> /\ request.kind # "shutdown"
     /\ queue' = Tail(queue)
     /\ \/ /\ worker' = [worker EXCEPT !.live = live, !.keys = @ \o request.keys]
           /\ file' = IF Saving(request) THEN Whole(live, request.options) ELSE file
           /\ answers' = Append(answers, View(live))
           /\ UNCHANGED seen
        \/ /\ Saving(request) /\ MayFail
           /\ worker' = [worker EXCEPT !.keys = @ \o request.keys]
           /\ answers' = Append(answers, View(worker.live))
           /\ seen' = [seen EXCEPT !.failures = @ + 1]
           /\ UNCHANGED file
     /\ UNCHANGED <<handle, gui>>

Stop ==
  /\ worker.running /\ queue # <<>> /\ Head(queue).kind = "shutdown"
  /\ queue' = Tail(queue)
  /\ worker' = [worker EXCEPT !.running = FALSE, !.keys = @ \o Head(queue).keys]
  /\ answers' = Append(answers, [kind |-> "stopped", view |-> worker.live])
  /\ UNCHANGED <<handle, gui, file, seen>>

\* A tick of the runtime takes a recorded shortcut or remembers a receiver.
RuntimeTick ==
  \E part \in {"functions", "remembered"} :
    /\ worker.running /\ Edits(part)
    /\ worker' = [worker EXCEPT !.live = Edited(@, {part}, Edit)]
    /\ seen' = Counted
    /\ UNCHANGED <<handle, gui, queue, answers, file>>

-----------------------------------------------------------------------------
Init ==
  /\ file = [p \in Fields |-> {}]
  /\ handle = FirstHandle /\ gui = FirstGui /\ worker = FirstWorker
  /\ queue = <<>> /\ answers = <<>>
  /\ seen \in {[plan |-> plan, edits |-> 0, keys |-> 0, failures |-> 0, restarts |-> 0,
                failed |-> FALSE] : plan \in Plans}

User == EditBinding \/ CancelCapture \/ SaveScope \/ Compute \/ HandCandidate
        \/ ChangeOption \/ ChangeRate \/ WindowKey \/ Quit \/ Elevate
Worker == Serve \/ Stop \/ RuntimeTick

Next == User \/ GuiTick \/ Worker \/ Restart

Spec == Init /\ [][Next]_vars

-----------------------------------------------------------------------------
(* Properties.                                                              *)

TypeOK ==
  /\ DOMAIN handle.config = Fields /\ DOMAIN file = Fields /\ DOMAIN worker.live = Live
  /\ Len(queue) <= QueueCapacity
  /\ Cardinality({i \in DOMAIN handle.pending : handle.pending[i].kind = "poll"}) <= 1
  /\ handle.stopped => handle.pending = <<>>
  /\ Len(handle.pending) >= Len(queue)

\* The rules that the next request brings lack a scope that was saved after they
\* were computed.
Overwrites == queue # <<>> /\ Head(queue).stale /\ queue' = Tail(queue)

\* No save puts an older value into the file or the live settings, whoever made it
\* and in whatever order saves, answers, edits of the worker and restarts come
\* (rules computed from an old copy are the exception).
Kept ==
  /\ Older(file', file) = {}
  /\ Older(worker'.live, worker.live) = {} \/ seen'.restarts # seen.restarts

NothingLost == [][Kept \/ Overwrites]_vars

\* When nothing is to be saved any more, the file has everything that the GUI
\* shows, unless its last save failed.
FileFollows ==
  handle.pending = <<>> /\ answers = <<>> /\ ~Dirty(handle, gui) /\ ~seen.failed
  => file = handle.config

\* A request reaches the runtime after exactly the window keys that were pressed
\* before it, in their order; none is lost to a full queue.
KeysBeforeEdits ==
  LET Flow(n) == FoldLeft(LAMBDA keys, r : keys \o r.keys, worker.keys, SubSeq(queue, 1, n))
      Upto(n) == [i \in 1..n |-> i]
  IN worker.running =>
       /\ \A n \in DOMAIN queue : Flow(n) = Upto(queue[n].after)
       /\ Flow(Len(queue)) \o handle.keys = Upto(seen.keys)

\* What the comment at controller.rs:212 and the tests of the worker promise also
\* of the rules computed by the GUI
SavesKeepScopes == [][Kept]_vars
=============================================================================
