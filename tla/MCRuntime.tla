----------------------------- MODULE MCRuntime -----------------------------
(***************************************************************************)
(* The runtime, the settings and the editors of mappings and of groups for *)
(* TLC.  The command that the worker's loop runs between two ticks is in   *)
(* Runtime for the session, in Settings for what is saved, in MappingEditor*)
(* for a recording, in GroupEditor for the groups: a behaviour moves one   *)
(* of the four (part), and the others have no state or stay in their first *)
(* one.  The two editors have their variables in common.                   *)
(***************************************************************************)
EXTENDS Runtime, TLC

CONSTANTS Parts,       \* of {"runtime", "settings", "editor", "groups"}: what moves
          SavePlans    \* the Plans of Settings

VARIABLES part, handle, gui, queue, worker, answers, file, edits,
          page, replies, work, typing, marks

Saves == INSTANCE Settings
           WITH Function <- {"f", "g"}, QueueCapacity <- 3, Plans <- SavePlans, seen <- edits

\* Two mappings whose inputs are chords of one key
MCSaved == "m1" :> [shortcuts |-> <<[modifiers |-> {}, primary |-> "x"]>>, output |-> "x", text |-> 0]
        @@ "m2" :> [shortcuts |-> <<[modifiers |-> {"shift"}, primary |-> "x"]>>, output |-> "x", text |-> 0]

At(n, orders) == [o \in orders |-> n]

\* A recording while the editor is left for another draft, or edited; the keys of a
\* recording; a recording around a save; saves that fail, and edits of the list.
LeavePlan  == [orders |-> At(2, {"open"}) @@ At(1, {"record", "leave", "discard", "remove"}),
               presses |-> 2, unread |-> 1, failures |-> 0, lapses |-> 0]
StrokePlan == [orders |-> At(1, {"open", "record"}),
               presses |-> 3, unread |-> 1, failures |-> 0, lapses |-> 0]
LatePlan   == [orders |-> At(1, {"open", "record", "save", "leave", "cancel"}),
               presses |-> 1, unread |-> 1, failures |-> 0, lapses |-> 1]
SavePlan   == [orders |-> At(2, {"open", "save", "leave"}) @@ At(1, {"type", "discard", "stay", "change", "scope"}),
               presses |-> 0, unread |-> 0, failures |-> 1, lapses |-> 0]

Editor == INSTANCE MappingEditor
            WITH Primary <- {"x", "left"}, Modifier <- {"shift"}, Bare <- {"left"}, Saved <- MCSaved,
                 NewId <- "m3", Plans <- {LeavePlan, StrokePlan, LatePlan, SavePlan},
                 gui <- page, answers <- replies, worker <- work, keyboard <- typing, seen <- marks

\* A draft that is edited, saved, left and opened again, with a prompt that is answered
\* late; deletions next to scopes, switches and a draft.
DraftPlan  == [orders |-> At(1, {"rename", "add", "remove", "browse", "picked", "save", "cancel", "navigate"})
                         @@ At(2, {"open"}),
               failures |-> 1]
DeletePlan == [orders |-> At(1, {"open", "add", "save", "cancel", "confirm", "scope", "toggle"})
                         @@ At(2, {"delete", "navigate"}),
               failures |-> 1]

Groups == INSTANCE GroupEditor
            WITH App <- {"x"}, Plans <- {DraftPlan, DeletePlan},
                 gui <- page, answers <- replies, worker <- work, seen <- marks

Devices == Permutations(Device)

\* Two events of the keyboard during one change of the session; a test during
\* two; three changes without input.
MCBounds == {[events |-> 2, changes |-> 1, tests |-> 0],
             [events |-> 0, changes |-> 2, tests |-> 1],
             [events |-> 0, changes |-> 3, tests |-> 0]}

\* Only keys and the switch of listening
KeyBounds == {[events |-> 2, changes |-> 0, tests |-> 0]}

\* Three edits of any kind; saves around a quit, a relaunch or a crash; window keys
\* with a queue that is full.
EditPlan  == [edits |-> {"edit", "toggle", "scope", "rules", "mappings", "option", "rate", "remembered"},
              most |-> 3, keys |-> 0, failures |-> 1, restarts |-> 0]
ExitPlan  == [edits |-> {"scope", "option", "functions", "elevate"},
              most |-> 2, keys |-> 0, failures |-> 1, restarts |-> 1]
KeyPlan   == [edits |-> {"edit", "cancel", "scope"},
              most |-> 3, keys |-> 2, failures |-> 0, restarts |-> 1]
AllPlans  == {EditPlan, ExitPlan, KeyPlan}
OnePlan   == {EditPlan}

Choice(set) == CHOOSE x \in set : TRUE

settings == <<handle, gui, queue, worker, answers, file, edits>>
editor   == <<page, replies, work, typing, marks>>

NoSettings == /\ handle = 0 /\ gui = 0 /\ queue = 0 /\ worker = 0 /\ answers = 0 /\ file = 0
              /\ edits = 0
NoEditor   == page = 0 /\ replies = 0 /\ work = 0 /\ typing = 0 /\ marks = 0
NoKeyboard == typing = 0
NoRuntime  == Init /\ seen.bound = Choice(Bounds) /\ seen.chosen = None /\ tr.life = "none"

PartsInit ==
  /\ part \in Parts
  /\ \/ part = "runtime"  /\ Init /\ NoSettings /\ NoEditor
     \/ part = "settings" /\ Saves!Init /\ NoRuntime /\ NoEditor
     \/ part = "editor"   /\ Editor!Init /\ NoRuntime /\ NoSettings
     \/ part = "groups"   /\ Groups!Init /\ NoKeyboard /\ NoRuntime /\ NoSettings

Runs   == part = "runtime" /\ UNCHANGED <<part, settings, editor>>
Kept   == part = "settings" /\ UNCHANGED <<part, vars, editor>>
Drafts == part = "editor" /\ UNCHANGED <<part, vars, settings>>
Grouped == part = "groups" /\ UNCHANGED <<part, vars, settings, typing>>

PartsNext ==
  \/ Runs /\ Tick
  \/ Runs /\ UserStart
  \/ Runs /\ UserChoose
  \/ Runs /\ UserDisconnect
  \/ Runs /\ UserListening
  \/ Runs /\ UserCapture
  \/ Runs /\ UserInput
  \/ Runs /\ UserTest
  \/ Runs /\ KeyDown
  \/ Runs /\ HoldDue
  \/ Runs /\ KeyUp
  \/ Runs /\ ToggleKey
  \/ Runs /\ RecordedKey
  \/ Runs /\ ListenerEnds
  \/ Runs /\ Supervise
  \/ Runs /\ Status
  \/ Runs /\ SwitchProfile
  \/ Runs /\ Armed
  \/ Runs /\ SwitchExpires
  \/ Runs /\ Reply
  \/ Runs /\ SupervisorEnds
  \/ Kept /\ Saves!EditBinding
  \/ Kept /\ Saves!CancelCapture
  \/ Kept /\ Saves!SaveScope
  \/ Kept /\ Saves!Compute
  \/ Kept /\ Saves!HandCandidate
  \/ Kept /\ Saves!ChangeOption
  \/ Kept /\ Saves!ChangeRate
  \/ Kept /\ Saves!WindowKey
  \/ Kept /\ Saves!Quit
  \/ Kept /\ Saves!Elevate
  \/ Kept /\ Saves!GuiTick
  \/ Kept /\ Saves!Serve
  \/ Kept /\ Saves!Stop
  \/ Kept /\ Saves!RuntimeTick
  \/ Kept /\ Saves!Restart
  \/ Drafts /\ Editor!Open
  \/ Drafts /\ Editor!Type
  \/ Drafts /\ Editor!BeginCapture
  \/ Drafts /\ Editor!CancelCapture
  \/ Drafts /\ Editor!RemoveInput
  \/ Drafts /\ Editor!Save
  \/ Drafts /\ Editor!Change
  \/ Drafts /\ Editor!LeaveEditor
  \/ Drafts /\ Editor!Stay
  \/ Drafts /\ Editor!Discard
  \/ Drafts /\ Editor!Navigate
  \/ Drafts /\ Editor!SaveScope
  \/ Drafts /\ Editor!KeyEdge
  \/ Drafts /\ Editor!GuiTick
  \/ Drafts /\ Editor!Serve
  \/ Drafts /\ Editor!BeginRecording
  \/ Drafts /\ Editor!ReadEdge
  \/ Drafts /\ Editor!Lapse
  \/ Grouped /\ Groups!Open
  \/ Grouped /\ Groups!Rename
  \/ Grouped /\ Groups!Add
  \/ Grouped /\ Groups!RemoveApp
  \/ Grouped /\ Groups!Browse
  \/ Grouped /\ Groups!Picked
  \/ Grouped /\ Groups!Save
  \/ Grouped /\ Groups!Cancel
  \/ Grouped /\ Groups!RequestDelete
  \/ Grouped /\ Groups!Delete
  \/ Grouped /\ Groups!Navigate
  \/ Grouped /\ Groups!SaveScope
  \/ Grouped /\ Groups!Toggle
  \/ Grouped /\ Groups!GuiTick
  \/ Grouped /\ Groups!Serve

PartsSpec == PartsInit /\ [][PartsNext]_<<vars, part, settings, editor>>

\* The shapes of the four states
TypesOK == CASE part = "runtime"  -> TypeOK
             [] part = "settings" -> Saves!TypeOK
             [] part = "editor"   -> Editor!TypeOK
             [] part = "groups"   -> Groups!TypeOK

\* The properties of Settings
NothingLost     == [][part = "settings" => Saves!Kept \/ Saves!Overwrites]_<<part, settings>>
\* FileFollows and KeysBeforeEdits: what was saved, and what was sent, is what was shown
InStep == part = "settings" => Saves!FileFollows /\ Saves!KeysBeforeEdits
SavesKeepScopes == Saves!SavesKeepScopes

\* The properties of the editors: what the user did to a draft is what is saved.
AsMeant == [][/\ part = "editor" => Editor!Meant
              /\ part = "groups" => Groups!Meant]_<<part, editor>>
=============================================================================
