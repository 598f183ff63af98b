---------------------------- MODULE MappingEditor ----------------------------
(***************************************************************************)
(* The editor of a mapping and the recorder it uses:                       *)
(* taprelay-app/src/gui/controller/mappings.rs with the pages and the      *)
(* dialog that issue its commands, runtime/capture.rs, the recording part  *)
(* of runtime.rs, and Recorder of taprelay-core/src/input.rs.              *)
(*                                                                         *)
(* The GUI edits a draft and asks the worker for two things, to record a   *)
(* chord and to save a list of mappings.  It learns of both from an answer *)
(* that it reads at its next command or tick, after the user may have left *)
(* the editor, kept it or gone on to another one.  A button is enabled by  *)
(* what the last sync saw (Shown), its command checks again after a poll   *)
(* (Ready).                                                                *)
(*                                                                         *)
(* Requests are answered in their order (Settings has the queue, its       *)
(* capacity and the end of the worker), so pending is a sequence whose     *)
(* first Len(answers) members are answered.  Scopes, names and what a      *)
(* mapping's output looks like are reduced to whether they were edited.    *)
(* A key is a primary key or button, or a modifier; slots count from 1.    *)
(***************************************************************************)
EXTENDS Naturals, SequencesExt

CONSTANTS
  Primary, Modifier,   \* keys
  Bare,                \* primaries that need a modifier: the left and right buttons
  Saved,               \* the mappings at the start, a function from their identifiers
  NewId,               \* the identifier of a new mapping
  Plans                \* a set of [orders |-> commands of the user, presses |-> of keys,
                       \* unread |-> edges at a time, failures |-> of saves and starts, lapses |-> ends and resets of a
                       \* recording]

VARIABLES
  gui,       \* Controller with its RuntimeHandle
  answers,   \* on their way to the GUI
  worker,    \* Runtime: custom_mappings, capture, recorder, capture_state, results
  keyboard,  \* the keys that are down, the edges the runtime has not read
  seen       \* observers and bounds

vars == <<gui, answers, worker, keyboard, seen>>

Absent   == [kind |-> "none"]
Key    == Primary \union Modifier
Slots  == {1, 2}
Output == 3            \* stands for the slot of the output
NoKey  == "none"

Chord(modifiers, primary) == [modifiers |-> modifiers, primary |-> primary]

\* Shortcut::valid, and MappingOutput::from_shortcut, which drops the modifiers
ValidChord(slot, c) == slot = Output \/ c.primary \notin Bare \/ c.modifiers # {}

-----------------------------------------------------------------------------
(* The recorder.                                                            *)

NotRecording == [primary |-> NoKey, modifiers |-> {}, released |-> FALSE, invalid |-> FALSE]

Start(slot, id, shortcuts) == [kind |-> "capture", slot |-> slot, id |-> id, shortcuts |-> shortcuts,
                               waiting |-> TRUE]

\* A second primary, or the same one again, makes the chord invalid.
ObservePrimary(r, key, held) ==
  IF r.primary = NoKey THEN [r EXCEPT !.primary = key, !.modifiers = held \intersect Modifier]
  ELSE [r EXCEPT !.invalid = @ \/ r.released \/ r.primary # key]

\* The recorder after an edge that left the keys held
Observed(r, edge, held) ==
  CASE edge.down /\ edge.key \in Primary -> ObservePrimary(r, edge.key, held)
    [] ~edge.down /\ r.primary = edge.key -> [r EXCEPT !.released = TRUE]
    [] OTHER -> r

\* The chord is complete when every key is up.
Complete(edge, held) == ~edge.down /\ held = {}

\* custom_capture_error: what other mappings and the other slot of the draft have
Taken(w, c) ==
  \/ \E i \in DOMAIN w.capture.shortcuts : i # w.capture.slot /\ w.capture.shortcuts[i] = c
  \/ \E id \in DOMAIN w.mappings \ {w.capture.id} :
       \E i \in DOMAIN w.mappings[id].shortcuts : w.mappings[id].shortcuts[i] = c

Acceptable(w, c) ==
  ValidChord(w.capture.slot, c) /\ (w.capture.slot # Output => ~Taken(w, c))

\* finish_recording, which also forgets the edges that were not read
Finished(w) == [w EXCEPT !.capture = Absent, !.held = {}, !.recorder = NotRecording]

\* submit_capture: what is refused stays open for another try.
Submitted(w, c) ==
  IF ~Acceptable(w, c) THEN w
  ELSE [Finished(w) EXCEPT !.result = [serial |-> @.serial + 1, slot |-> w.capture.slot, chord |-> c,
                                       id |-> w.capture.id, before |-> w.capture.shortcuts]]

\* The edges of modifiers are not for an output, and a repeated one is not new.
Skipped(w, edge) ==
  \/ w.capture.waiting
  \/ w.capture.slot = Output /\ edge.key \in Modifier
  \/ edge.down = (edge.key \in w.held)

Read(w, edge) ==
  LET held == IF edge.down THEN w.held \union {edge.key} ELSE w.held \ {edge.key}
      r    == Observed(w.recorder, edge, held)
      next == [w EXCEPT !.held = held, !.recorder = r]
  IN CASE Skipped(w, edge) -> w
       [] ~Skipped(w, edge) /\ ~Complete(edge, held) -> next
       [] ~Skipped(w, edge) /\ Complete(edge, held) ->
            LET reset == [next EXCEPT !.recorder = NotRecording]
            IN IF r.invalid \/ r.primary = NoKey THEN reset
               ELSE Submitted(reset, Chord(r.modifiers, r.primary))

-----------------------------------------------------------------------------
(* The handle of the runtime, as far as the editor sees it.                 *)

Pending(g, kind) == \E i \in DOMAIN g.pending : g.pending[i].kind = kind
EditsBlocked(g)  == \E i \in DOMAIN g.pending : g.pending[i].kind \notin {"poll", "scope"}
Busy(g)          == \E i \in DOMAIN g.pending : g.pending[i].kind # "poll"
Recording(g)     == g.capture # Absent

\* Poll and CancelCapture are pending at most once.
Sent(g, request) ==
  IF request.kind \in {"poll", "cancel"} /\ Pending(g, request.kind) THEN g
  ELSE [g EXCEPT !.pending = Append(@, request)]

Cancelled(g) == Sent(g, [kind |-> "cancel"])

\* The request of an answer is the oldest one.
Answered(g, answer) ==
  [g EXCEPT !.pending = Tail(@), !.mappings = answer.mappings, !.capture = answer.capture,
            !.result = answer.result,
            !.saved = IF Head(g.pending).kind = "save" THEN answer.ok ELSE @]

Polled == FoldLeft(Answered, gui, answers)

-----------------------------------------------------------------------------
(* The draft.                                                               *)

Dirty(g)  == g.draft # Absent /\ g.draft.now # g.draft.original
Closed(g) == [g EXCEPT !.draft = Absent, !.saving = FALSE, !.leaving = FALSE]

\* What a command needs besides an enabled button
Ready(g) == ~EditsBlocked(g) /\ ~Recording(g)

\* The buttons of the editor and of the list are disabled.
Shown(g) == EditsBlocked(g) \/ Recording(g) \/ g.saving

Blank == [shortcuts |-> <<>>, output |-> NoKey, text |-> 0]

\* A result that is there already is none for this draft.
Opened(g, id) ==
  LET mapping == IF id = NewId THEN Blank ELSE g.mappings[id]
  IN IF ~Ready(g) \/ (id # NewId /\ id \notin DOMAIN g.mappings) THEN g
     ELSE [g EXCEPT !.draft = [kind |-> "draft", id |-> id, original |-> mapping, now |-> mapping],
                    !.last = g.result.serial]

\* action, once the editor is left
Gone(g, next) ==
  CASE next = "page" -> Cancelled(g)
    [] next = "stay" -> g
    [] OTHER         -> Opened(g, next)

FinishLeave(g) == Gone([Closed(g) EXCEPT !.next = "stay"], g.next)

\* mapping_leave, and the action if it may go on
Leave(g, next) ==
  LET c == IF Recording(g) THEN Cancelled(g) ELSE g
  IN CASE g.wait # Absent              -> g
       [] g.wait = Absent /\ Dirty(c)  -> [c EXCEPT !.next = next, !.leaving = TRUE]
       [] g.wait = Absent /\ ~Dirty(c) -> Gone(Closed(c), next)

Placed(shortcuts, slot, chord) ==
  CASE slot = Len(shortcuts) + 1    -> Append(shortcuts, chord)
    [] slot \in DOMAIN shortcuts    -> [shortcuts EXCEPT ![slot] = chord]
    [] OTHER                        -> shortcuts

\* Mutant: the saved draft is taken for the saved mapping whatever came in between.
SettleAlways(g) ==
  IF Busy(g) \/ g.wait = Absent THEN g
  ELSE LET taken == [g EXCEPT !.wait = Absent, !.saved = "none"]
       IN IF g.wait.purpose = "editor" THEN FinishLeave(taken) ELSE taken

\* sync_mapping_operation: the outcome of a save, ...
Settle(g) ==
  IF Busy(g) \/ g.wait = Absent THEN g
  ELSE LET taken == [g EXCEPT !.wait = Absent, !.saved = "none"]
       IN IF g.saved = "yes" /\ g.mappings = g.wait.list
          THEN IF g.wait.purpose = "editor" THEN FinishLeave(taken) ELSE taken
          ELSE [taken EXCEPT !.saving = FALSE, !.next = "stay"]

\* ... then that of a recording
TakeResult(g) ==
  IF g.result.serial = g.last THEN g
  ELSE LET r     == g.result
           taken == [g EXCEPT !.last = r.serial]
       IN CASE g.draft = Absent -> taken
            [] g.draft # Absent /\ r.slot = Output ->
                 [taken EXCEPT !.draft.now.output = r.chord.primary]
            [] g.draft # Absent /\ r.slot # Output ->
                 [taken EXCEPT !.draft.now.shortcuts = Placed(@, r.slot, r.chord)]

Sync(g) == TakeResult(Settle(g))

-----------------------------------------------------------------------------
(* What the user does: a command polls, changes the controller and syncs.   *)

May(order) == order \in DOMAIN seen.plan.orders /\ seen.orders[order] < seen.plan.orders[order]

Dispatch(order, g) ==
  /\ gui' = Sync(g) /\ answers' = <<>>
  /\ seen' = [seen EXCEPT !.orders[order] = @ + 1, !.discarded = order = "discard",
                          !.late = gui'.wait # Absent /\ (@ \/ gui'.last # g.last)]
  /\ UNCHANGED <<worker, keyboard>>

InEditor == gui.draft # Absent /\ ~gui.leaving
InList   == gui.draft = Absent

Open ==
  \E id \in DOMAIN gui.mappings \union {NewId} :
    /\ May("open") /\ InList /\ ~Shown(gui)
    /\ Dispatch("open", Opened(Polled, id))

\* The name, the scopes, a manual choice: not a command of its own, or one that ends here
Type ==
  /\ May("type") /\ InEditor /\ ~Shown(gui)
  /\ Dispatch("type", IF Ready(Polled) THEN [Polled EXCEPT !.draft.now.text = 1 - @] ELSE Polled)

\* capture-input and capture-output
BeginCapture ==
  \E slot \in Slots \union {Output} :
    /\ May("record") /\ InEditor /\ ~Shown(gui)
    /\ slot # Output => slot <= Len(gui.draft.now.shortcuts) + 1
    /\ LET d == gui.draft IN
       Dispatch("record", IF Ready(Polled)
                          THEN Sent(Polled, [kind |-> "begin", slot |-> slot, id |-> d.id,
                                             shortcuts |-> d.now.shortcuts])
                          ELSE Polled)

\* Only what is recorded here shows the button, and Escape.
CancelCapture ==
  /\ May("cancel") /\ Recording(gui)
  /\ Dispatch("cancel", Cancelled(Polled))

RemoveInput ==
  /\ InEditor
  /\ \E i \in DOMAIN gui.draft.now.shortcuts :
    /\ May("remove") /\ ~Shown(gui)
    /\ Dispatch("remove", IF Ready(Polled) THEN [Polled EXCEPT !.draft.now.shortcuts = RemoveAt(@, i)]
                          ELSE Polled)

ListOf(g) == [id \in DOMAIN g.mappings \union {g.draft.id} |->
                IF id = g.draft.id THEN g.draft.now ELSE g.mappings[id]]

\* validate_mappings
ListValid(list) ==
  LET at == {<<id, i>> \in (DOMAIN list) \X Slots : i \in DOMAIN list[id].shortcuts}
  IN /\ \A id \in DOMAIN list : list[id].shortcuts # <<>> /\ list[id].output # NoKey
     /\ \A a, b \in at : list[a[1]].shortcuts[a[2]] = list[b[1]].shortcuts[b[2]] => a = b

Wait(g, list, purpose) ==
  [Sent(g, [kind |-> "save", list |-> list]) EXCEPT
     !.wait = [kind |-> "wait", list |-> list, purpose |-> purpose], !.saved = "none"]

Refused(g, order) == IF order = "save-leave" THEN [g EXCEPT !.leaving = FALSE, !.next = "stay"] ELSE g

SaveDraft(g, order) ==
  CASE ~Ready(g)                              -> g
    [] Ready(g) /\ ~ListValid(ListOf(g))      -> Refused(g, order)
    [] Ready(g) /\ ListValid(ListOf(g))       ->
         [Wait(g, ListOf(g), "editor") EXCEPT !.saving = TRUE, !.leaving = FALSE]

\* The button of the editor waits for Shown, that of the dialog only for a save.
Save ==
  \/ /\ May("save") /\ InEditor /\ ~Shown(gui)
     /\ Dispatch("save", SaveDraft(Polled, "save"))
  \/ /\ May("save") /\ gui.leaving /\ ~gui.saving
     /\ Dispatch("save", SaveDraft(Polled, "save-leave"))

\* toggle and delete, from the list
Change ==
  \E id \in DOMAIN gui.mappings, delete \in BOOLEAN :
    /\ May("change") /\ InList /\ ~Shown(gui)
    /\ LET p    == Polled
           list == IF delete THEN [i \in DOMAIN p.mappings \ {id} |-> p.mappings[i]]
                   ELSE [p.mappings EXCEPT ![id].text = 2]
       IN Dispatch("change", IF Ready(p) /\ id \in DOMAIN p.mappings THEN Wait(p, list, "change") ELSE p)

\* back, a page of the sidebar, the mapping that the draft is in conflict with
LeaveEditor ==
  \E next \in {"stay", "page"} \union (DOMAIN gui.mappings \ {NewId}) :
    /\ May("leave") /\ InEditor /\ ~gui.saving
    /\ next \notin {"stay", "page"} => ~Shown(gui) /\ next # gui.draft.id
    /\ Dispatch("leave", Leave(Polled, next))

Stay ==
  /\ May("stay") /\ gui.leaving /\ ~gui.saving
  /\ Dispatch("stay", [Polled EXCEPT !.leaving = FALSE, !.next = "stay"])

Discard ==
  /\ May("discard") /\ gui.leaving /\ ~gui.saving
  /\ Dispatch("discard", FinishLeave(Polled))

\* A page of the sidebar while the list is shown: a recording that was left ends here.
Navigate ==
  /\ May("leave") /\ InList
  /\ Dispatch("leave", Cancelled(Polled))

\* The scope of a function is saved without blocking other edits.
SaveScope ==
  /\ May("scope") /\ InList /\ ~Shown(gui)
  /\ Dispatch("scope", Sent(Polled, [kind |-> "scope"]))

GuiTick ==
  /\ gui' = Sync(Sent(Polled, [kind |-> "poll"])) /\ answers' = <<>>
  /\ seen' = [seen EXCEPT !.discarded = FALSE,
                          !.late = gui'.wait # Absent /\ (@ \/ gui'.last # gui.last)]
  /\ UNCHANGED <<worker, keyboard>>

-----------------------------------------------------------------------------
(* The worker.                                                              *)

Unread == [keyboard EXCEPT !.edges = <<>>]

\* A start or a save may fail.
MayFail == seen.failures < seen.plan.failures

Answer(w, ok) == Append(answers, [mappings |-> w.mappings, capture |-> w.capture, result |-> w.result,
                                  ok |-> ok])

Serve ==
  LET request == gui.pending[Len(answers) + 1]
      begun   == [Finished(worker) EXCEPT !.capture = Start(request.slot, request.id, request.shortcuts)]
      saved   == [worker EXCEPT !.mappings = request.list]
  IN /\ Len(answers) < Len(gui.pending)
     /\ \/ /\ request.kind \in {"poll", "scope"}
           /\ answers' = Answer(worker, "yes")
           /\ UNCHANGED <<worker, keyboard, seen>>
        \/ /\ request.kind = "cancel"
           /\ worker' = Finished(worker)
           /\ keyboard' = IF worker.capture = Absent THEN keyboard ELSE Unread
           /\ answers' = Answer(worker', "yes")
           /\ UNCHANGED seen
        \/ /\ request.kind = "begin"
           /\ worker' = begun /\ keyboard' = Unread
           /\ answers' = Answer(worker', "yes")
           /\ seen' = [seen EXCEPT !.strokes = <<>>]
        \/ /\ request.kind = "begin" /\ MayFail
           /\ worker' = Finished(worker) /\ keyboard' = Unread
           /\ answers' = Answer(worker', "no")
           /\ seen' = [seen EXCEPT !.failures = @ + 1]
        \/ /\ request.kind = "save"
           /\ worker' = saved /\ answers' = Answer(saved, "yes")
           /\ UNCHANGED <<keyboard, seen>>
        \/ /\ request.kind = "save" /\ MayFail
           /\ answers' = Answer(worker, "no")
           /\ seen' = [seen EXCEPT !.failures = @ + 1]
           /\ UNCHANGED <<worker, keyboard>>
     /\ UNCHANGED gui

\* A recording begins once no key is held.
BeginRecording ==
  /\ worker.capture # Absent /\ worker.capture.waiting /\ keyboard.down = {}
  /\ worker' = [worker EXCEPT !.capture.waiting = FALSE, !.held = {}]
  /\ keyboard' = Unread
  /\ seen' = [seen EXCEPT !.strokes = <<>>]
  /\ UNCHANGED <<gui, answers>>

\* The next edge is read.
ReadEdge ==
  LET edge == Head(keyboard.edges) IN
  /\ worker.capture # Absent /\ keyboard.edges # <<>>
  /\ worker' = Read(worker, edge)
  /\ keyboard' = IF worker'.capture = Absent THEN Unread ELSE [keyboard EXCEPT !.edges = Tail(@)]
  /\ seen' = [seen EXCEPT !.strokes = IF worker.held # {} /\ worker'.held = {} THEN <<>>
                                      ELSE IF worker.capture.waiting THEN @ ELSE Append(@, edge)]
  /\ UNCHANGED <<gui, answers>>

\* The window is left, Escape is pressed or the listener ends; or the connection is
\* lost, and the recording starts anew.
Lapse ==
  /\ worker.capture # Absent /\ seen.lapses < seen.plan.lapses
  /\ \/ worker' = Finished(worker)
     \/ worker' = [Finished(worker) EXCEPT !.capture = [worker.capture EXCEPT !.waiting = TRUE]]
  /\ keyboard' = Unread
  /\ seen' = [seen EXCEPT !.lapses = @ + 1, !.strokes = <<>>]
  /\ UNCHANGED <<gui, answers>>

\* A key is pressed, or repeats; or it is released.
KeyEdge ==
  \E key \in Key, down \in BOOLEAN :
    /\ down => seen.presses < seen.plan.presses
    /\ ~down => key \in keyboard.down
    /\ Len(keyboard.edges) < seen.plan.unread
    /\ keyboard' = [down  |-> IF down THEN keyboard.down \union {key} ELSE keyboard.down \ {key},
                    edges |-> IF worker.capture = Absent THEN <<>>
                              ELSE Append(keyboard.edges, [key |-> key, down |-> down])]
    /\ seen' = IF down THEN [seen EXCEPT !.presses = @ + 1] ELSE seen
    /\ UNCHANGED <<gui, answers, worker>>

-----------------------------------------------------------------------------
NoResult == [serial |-> 0, slot |-> Output, chord |-> Absent, id |-> NewId, before |-> <<>>]

Init ==
  /\ gui = [draft |-> Absent, wait |-> Absent, next |-> "stay", last |-> 0, saving |-> FALSE,
            leaving |-> FALSE, mappings |-> Saved, capture |-> Absent, result |-> NoResult,
            saved |-> "none", pending |-> <<>>]
  /\ answers = <<>>
  /\ worker = [mappings |-> Saved, capture |-> Absent, held |-> {}, recorder |-> NotRecording,
               result |-> NoResult]
  /\ keyboard = [down |-> {}, edges |-> <<>>]
  /\ seen \in {[plan |-> plan, orders |-> [o \in DOMAIN plan.orders |-> 0], presses |-> 0,
                failures |-> 0, lapses |-> 0, strokes |-> <<>>, discarded |-> FALSE,
                late |-> FALSE] : plan \in Plans}

User == \/ Open \/ Type \/ BeginCapture \/ CancelCapture \/ RemoveInput \/ Save
        \/ Change \/ LeaveEditor \/ Stay \/ Discard \/ Navigate \/ SaveScope \/ KeyEdge
Worker == Serve \/ BeginRecording \/ ReadEdge \/ Lapse

Next == User \/ GuiTick \/ Worker

Spec == Init /\ [][Next]_vars

-----------------------------------------------------------------------------
(* Properties.                                                              *)

TypeOK ==
  /\ Len(answers) <= Len(gui.pending)
  /\ worker.held \subseteq Key /\ keyboard.down \subseteq Key
  /\ gui.saving => gui.wait # Absent /\ gui.draft # Absent
  /\ gui.leaving => gui.draft # Absent
  /\ gui.last <= worker.result.serial

\* The last edge of a key before the i-th was a press.
DownBefore(strokes, i, key) ==
  \E j \in 1..(i - 1) : /\ strokes[j] = [key |-> key, down |-> TRUE]
                         /\ \A k \in (j + 1)..(i - 1) : strokes[k].key # key

\* The primaries that the strokes press
Pressed(strokes) ==
  {i \in DOMAIN strokes : /\ strokes[i].down /\ strokes[i].key \in Primary
                          /\ ~DownBefore(strokes, i, strokes[i].key)}

\* What the strokes mean when they press one primary
Meaning(strokes, slot) ==
  LET i == CHOOSE i \in Pressed(strokes) : TRUE
  IN Chord(IF slot = Output THEN {} ELSE {m \in Modifier : DownBefore(strokes, i, m)}, strokes[i].key)

\* A recording gives the chord that was played, and gives it as soon as every key is
\* up, unless another primary, or the same one again, was part of it (observe).
Recorded ==
  LET strokes == Append(seen.strokes, Head(keyboard.edges))
      slot    == worker.capture.slot
      Matters(key) == slot # Output \/ key \in Primary
      Up      == \A key \in Key : Matters(key) => ~DownBefore(strokes, Len(strokes) + 1, key)
  IN /\ worker'.result # worker.result
        => /\ Up /\ Cardinality(Pressed(strokes)) = 1
           /\ worker'.result.chord = Meaning(strokes, slot)
     /\ /\ keyboard.edges # <<>> /\ keyboard'.down = keyboard.down /\ worker.capture # Absent
        /\ Len(keyboard'.edges) < Len(keyboard.edges) /\ seen'.lapses = seen.lapses
        /\ ~worker.capture.waiting /\ worker'.mappings = worker.mappings /\ gui' = gui
        /\ answers' = answers
        /\ Up /\ Cardinality(Pressed(strokes)) = 1 /\ Acceptable(worker, Meaning(strokes, slot))
        => worker'.result.serial = worker.result.serial + 1

\* What was recorded changes the draft it was recorded for, as that was when the
\* recording began, and nothing else of it.
Landed ==
  gui.draft # Absent /\ gui'.draft # Absent /\ gui'.last # gui.last /\ gui'.draft.now # gui.draft.now
  => LET r == gui'.result
         d == gui.draft.now
     IN /\ r.id = gui.draft.id /\ r.before = d.shortcuts
        /\ gui'.draft.now = IF r.slot = Output THEN [d EXCEPT !.output = r.chord.primary]
                            ELSE [d EXCEPT !.shortcuts = Placed(@, r.slot, r.chord)]

\* An edited draft is given up only by the user, or as one that is saved.  (What a
\* recording gives while the leave dialog is open, in the poll of its Save, comes too
\* late for that save.)
Held ==
  Dirty(gui) /\ (gui'.draft = Absent \/ gui'.draft.original # gui.draft.original)
  => \/ seen'.discarded \/ seen.late
     \/ gui.draft.id \in DOMAIN gui'.mappings /\ gui'.mappings[gui.draft.id] = gui.draft.now

\* Recorded, Landed and Held: what the user did to a draft is what is saved.
Meant == Recorded /\ Landed /\ Held
AsMeant == [][Meant]_vars
=============================================================================
