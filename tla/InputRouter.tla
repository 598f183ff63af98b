---------------------------- MODULE InputRouter ----------------------------
(***************************************************************************)
(* The input routing state machine of taprelay-core/src/input_router.rs.   *)
(* One InputRouter lives on the native input thread.  Every physical edge  *)
(* goes through it, and it decides whether the computer sees the edge      *)
(* (consume = false), whether the receiver does, or nobody.                *)
(*                                                                         *)
(* Abstractions.  Codes, functions, applications and outputs are model     *)
(* values.  An instant is kept only as "a deadline is armed": Tick may     *)
(* find any non-empty set of armed deadlines due.  Tokens, revisions and   *)
(* creation times stamped on outputs are left out, except that             *)
(* mapping_active maps a code to one entry, which is what makes a token    *)
(* identify one press.  Motion and wheel change no state of the router.    *)
(*                                                                         *)
(* The last five variables are not fields: they add up the RouteResults    *)
(* returned so far, as the parties that consume them see them.             *)
(***************************************************************************)
EXTENDS Naturals, Sequences, FiniteSets, Functions

CONSTANTS
  Codes,              \* InputCode: keys and mouse buttons
  Logical,            \* modifier code -> the logical modifier it sets
  FunctionIds,        \* FunctionId
  HoldFunctions,      \* functions with a hold_action
  RepeatFunctions,    \* functions that repeat while held (the two volumes)
  AppFunctions,       \* functions of category App
  AppTogglePassthrough,
  Apps, NoApp,        \* foreground identities; NoApp is None
  Configs,            \* the FunctionConfigs the user may save
  MappingLists,       \* the mapping lists the user may save
  Rules,              \* the ForegroundAppRules the user may save
  MaxRevision         \* bound on the published revisions

(***************************************************************************)
(* A binding index is a sequence of bindings in catalog order; a mapping   *)
(* list is a sequence of mappings; rules give the applications of every    *)
(* assigned function and of every group.                                   *)
(***************************************************************************)
Modifiers == {Logical[c] : c \in DOMAIN Logical}

IsBinding(b) ==
  /\ b.function \in FunctionIds /\ b.slot \in Nat
  /\ b.modifiers \subseteq Modifiers
  /\ b.primary \in Codes \ DOMAIN Logical    \* Shortcut::valid

IsMapping(m) ==
  \A s \in m.shortcuts : /\ s.modifiers \subseteq Modifiers
                         /\ s.primary \in Codes \ DOMAIN Logical

ASSUME CodesAssumption ==
  /\ DOMAIN Logical \subseteq Codes
  /\ IsFiniteSet(Codes)

ASSUME FunctionsAssumption ==
  /\ HoldFunctions \subseteq FunctionIds
  /\ RepeatFunctions \subseteq FunctionIds
  /\ AppFunctions \subseteq FunctionIds
  /\ HoldFunctions \cap RepeatFunctions = {}
  /\ AppFunctions \cap (HoldFunctions \cup RepeatFunctions) = {}
  /\ AppTogglePassthrough \in AppFunctions

ASSUME SavedAssumption ==
  /\ NoApp \notin Apps
  /\ \A s \in Configs \cup MappingLists : DOMAIN s \subseteq Nat
  /\ \A c \in Configs : \A i \in DOMAIN c : IsBinding(c[i])
  /\ \A l \in MappingLists : \A i \in DOMAIN l : IsMapping(l[i])
  /\ \A l \in MappingLists : \A i, j \in DOMAIN l : l[i].id = l[j].id => i = j
  /\ MaxRevision \in Nat

VARIABLES
  index,                \* the BindingIndex
  revision,
  mappings,
  rules,                \* mapping_rules and foreground_app_scopes
  foreground,
  listening, passthrough, recording,
  physical,             \* codes that are physically down
  active,               \* captured shortcut presses, by primary code
  mapping_active,       \* mappings held down, by primary code
  held_functions,       \* function -> number of escalated holds
  local_held,           \* codes whose down went to the computer
  suppressed_until_up,  \* codes that belong to nobody until they are released
  \* ------- what the outputs add up to
  os,                   \* codes the computer has seen go down
  remote,               \* codes the receiver holds through passthrough
  mapped,               \* <<code, output>> the receiver holds for mappings
  pressed,              \* hold function -> presses not yet released
  presses               \* functions pressed by the last call

config_vars == <<index, revision, mappings, rules, foreground>>
mode_vars   == <<listening, passthrough, recording>>
owner_vars  == <<physical, active, mapping_active, local_held, suppressed_until_up>>
hold_vars   == <<held_functions, pressed>>
vars == <<config_vars, mode_vars, owner_vars, hold_vars, os, remote, mapped, presses>>

-----------------------------------------------------------------------------
\* Helpers on sets of codes and on partial functions.

Toggled(S, code, down) == IF down THEN S \cup {code} ELSE S \ {code}

Without(f, S) == Restrict(f, DOMAIN f \ S)

With(f, code, value) ==
  [c \in DOMAIN f \cup {code} |-> IF c = code THEN value ELSE f[c]]

Empty == [c \in {} |-> {}]

-----------------------------------------------------------------------------
\* Matching.

\* InputState::logical_modifiers of the codes in `down`
LogicalModifiers(down) == {Logical[c] : c \in down \cap DOMAIN Logical}

\* ScopeIndex::allows
Allows(r, function, app) ==
  \/ function \in AppFunctions
  \/ function \notin DOMAIN r.assigned
  \/ app # NoApp /\ app \in r.assigned[function]

\* InputRouter::mapping_allows
MappingAllows(r, mapping, app) ==
  \/ mapping.groups = {}
  \/ app # NoApp /\ \E g \in mapping.groups : app \in r.groups[g]

\* Positions of the bindings whose shortcut is `code` with exactly the
\* modifiers that are down (BindingIndex::best_match_where, no filter yet)
Bound(code, down) ==
  {i \in DOMAIN index : /\ index[i].primary = code
                        /\ index[i].modifiers = LogicalModifiers(down)}

\* ... that may start now
Startable(code, down) ==
  {i \in Bound(code, down) :
     /\ Allows(rules, index[i].function, foreground)
     /\ listening \/ passthrough \/ index[i].function \in AppFunctions}

\* Positions of the enabled mappings with a shortcut on `code`
Candidates(code) ==
  {i \in DOMAIN mappings : /\ mappings[i].enabled
                           /\ \E s \in mappings[i].shortcuts : s.primary = code}

\* ... that may start now
MappingMatches(code, down) ==
  {i \in Candidates(code) :
     /\ listening
     /\ MappingAllows(rules, mappings[i], foreground)
     /\ \E s \in mappings[i].shortcuts :
          s.primary = code /\ s.modifiers = LogicalModifiers(down)}

First(positions) == CHOOSE i \in positions : \A j \in positions : i <= j

-----------------------------------------------------------------------------
\* Held outputs.

\* Number of escalated holds of f among the captured presses of `codes`
Holding(codes, f) ==
  Cardinality({c \in codes \cap DOMAIN active :
                 active[c].function = f /\ active[c].hold_started})

\* Faulty variant of Remaining: counts down for presses that never escalated
RemainingUnchecked(codes, f) ==
  held_functions[f] - Cardinality({c \in codes \cap DOMAIN active : active[c].function = f})

Remaining(codes, f) ==
  IF Holding(codes, f) >= held_functions[f]
    THEN 0 ELSE held_functions[f] - Holding(codes, f)

\* release_hold, once for every code in `codes`: the receiver sees the
\* release when the last hold of a function goes.
ReleaseHolds(codes) ==
  /\ held_functions' = [f \in HoldFunctions |-> Remaining(codes, f)]
  /\ pressed' = [f \in HoldFunctions |->
                   IF held_functions[f] > 0 /\ Remaining(codes, f) = 0
                     THEN 0 ELSE pressed[f]]

\* Faulty variant of FirstHold: every escalated hold presses the key again
AnyHold(f) == TRUE

\* Two shortcuts of one function share a single held output.
FirstHold(f) == held_functions[f] = 0

\* release_mapping, once for every code in `codes`
ReleaseMappings(codes) ==
  /\ mapping_active' = Without(mapping_active, codes)
  /\ mapped' = mapped \ {<<c, mapping_active[c].output>> :
                           c \in codes \cap DOMAIN mapping_active}

-----------------------------------------------------------------------------
\* Termination and reconfiguration.

\* terminate, ending in the mode `enabled`; `isolate` is the set of codes
\* that isolate_held takes.
End(enabled, isolate) ==
  /\ suppressed_until_up' =
       suppressed_until_up \cup DOMAIN mapping_active \cup DOMAIN active \cup isolate
  /\ ReleaseMappings(DOMAIN mapping_active)
  /\ remote' = IF passthrough THEN {} ELSE remote       \* EndPassthrough
  /\ passthrough' = enabled
  /\ active' = Empty
  /\ held_functions' = [f \in HoldFunctions |-> 0]
  /\ pressed' = [f \in HoldFunctions |->
                   IF Holding(DOMAIN active, f) > 0 THEN 0 ELSE pressed[f]]
  /\ presses' = {}
  /\ UNCHANGED <<physical, rules, foreground>>

\* Faulty variant of TerminateInto: does not isolate what the receiver held
TerminateWithoutIsolation(rest) ==
  /\ End(FALSE, {})
  /\ UNCHANGED <<local_held, os>>
  /\ UNCHANGED rest

TerminateInto(rest) ==
  /\ End(FALSE, IF passthrough THEN physical ELSE {})
  /\ UNCHANGED <<local_held, os>>
  /\ UNCHANGED rest

\* Faulty variant of SwitchPassthrough: no Replay to the computer
SwitchWithoutReplay(enabled) ==
  /\ End(enabled, physical)
  /\ os' = os
  /\ local_held' = {}

\* set_passthrough when the value changes: the computer gets the releases of
\* everything it holds (Replay), and every held code is isolated.
SwitchPassthrough(enabled) ==
  /\ End(enabled, physical)
  /\ os' = os \ local_held
  /\ local_held' = {}

\* Drop the captured presses of `captured` and the mappings held by `holding`.
Cancel(captured, holding) ==
  /\ suppressed_until_up' = suppressed_until_up \cup captured \cup holding
  /\ ReleaseMappings(holding)
  /\ ReleaseHolds(captured)
  /\ active' = Without(active, captured)
  /\ presses' = {}
  /\ UNCHANGED <<physical, local_held, os, remote, mode_vars>>

\* Faulty variant of CancelOutOfScope: forgets the custom mappings
CancelFunctionsOutOfScope(r, app) ==
  Cancel({c \in DOMAIN active : ~Allows(r, active[c].function, app)}, {})

\* cancel_out_of_scope under the rules r with `app` in front
CancelOutOfScope(r, app) ==
  Cancel({c \in DOMAIN active : ~Allows(r, active[c].function, app)},
         {c \in DOMAIN mapping_active : ~MappingAllows(r, mapping_active[c], app)})

SetForegroundAppRules(r) ==
  /\ rules' = r
  /\ CancelOutOfScope(r, foreground)
  /\ UNCHANGED <<index, revision, mappings, foreground>>

SetForeground(app) ==
  /\ app # foreground
  /\ foreground' = app
  /\ CancelOutOfScope(rules, app)
  /\ UNCHANGED <<index, revision, mappings, rules>>

SetPassthrough(enabled) ==
  /\ passthrough # enabled
  /\ SwitchPassthrough(enabled)
  /\ UNCHANGED <<index, revision, mappings, listening, recording>>

\* Faulty variant of SetListening: does not terminate what is captured
SetListeningOnly(value) ==
  /\ listening' = value
  /\ presses' = {}
  /\ UNCHANGED <<config_vars, passthrough, recording, owner_vars,
                 hold_vars, os, remote, mapped>>

SetListening(value) ==
  /\ listening' = value
  /\ IF value
       THEN /\ presses' = {}
            /\ UNCHANGED <<config_vars, passthrough, recording, owner_vars,
                           hold_vars, os, remote, mapped>>
       ELSE TerminateInto(<<index, revision, mappings, recording>>)

SetRecording(value) ==
  /\ recording' = value
  /\ IF value
       THEN TerminateInto(<<index, revision, mappings, listening>>)
       ELSE /\ presses' = {}
            /\ UNCHANGED <<config_vars, passthrough, listening, owner_vars,
                           hold_vars, os, remote, mapped>>

Terminate == TerminateInto(<<index, revision, mappings, listening, recording>>)

\* Captured presses whose binding is gone or has another shortcut in c
Rebound(c) ==
  {code \in DOMAIN active :
     ~ \E i \in DOMAIN c : /\ c[i].function = active[code].function
                           /\ c[i].slot = active[code].slot
                           /\ c[i].primary = code
                           /\ c[i].modifiers = active[code].modifiers}

UpdateConfig(c, r) ==
  /\ r >= revision
  /\ index' = c
  /\ revision' = r
  /\ IF passthrough /\ ~ \E i \in DOMAIN c : c[i].function = AppTogglePassthrough
       THEN /\ SwitchPassthrough(FALSE)
            /\ UNCHANGED <<mappings, listening, recording>>
       ELSE /\ Cancel(Rebound(c), {})
            /\ UNCHANGED <<mappings, rules, foreground>>

\* Held mappings that are gone, disabled or edited in l
Remapped(l) ==
  {code \in DOMAIN mapping_active :
     ~ \E i \in DOMAIN l : /\ l[i].id = mapping_active[code].id
                           /\ l[i].enabled
                           /\ l[i].output = mapping_active[code].output
                           /\ l[i].shortcuts = mapping_active[code].shortcuts
                           /\ l[i].groups = mapping_active[code].groups}

UpdateMappings(l) ==
  /\ mappings' = l
  /\ Cancel({}, Remapped(l))
  /\ UNCHANGED <<index, revision, rules, foreground>>

-----------------------------------------------------------------------------
\* Physical edges.

\* Repeating presses whose modifiers no longer match (cancel_unmatched_repeats)
Unmatched(down) ==
  {c \in DOMAIN active : /\ active[c].function \in RepeatFunctions
                         /\ active[c].modifiers # LogicalModifiers(down)}

\* Both routes start alike: record the edge, then cancel unmatched repeats.
After(code, down)       == Toggled(physical, code, down)
Changed(code, down)     == down # (code \in physical)
StillActive(code, down) == Without(active, Unmatched(After(code, down)))

\* Faulty variant of Suppressed: a cancelled repeat is not suppressed
Unsuppressed(code, down) == suppressed_until_up

Suppressed(code, down)  == suppressed_until_up \cup Unmatched(After(code, down))

Observe(code, down) ==
  /\ physical' = After(code, down)
  /\ active' = StillActive(code, down)
  /\ suppressed_until_up' = Suppressed(code, down)

\* consume = true and no output
Consume == presses' = {} /\ UNCHANGED <<hold_vars, mapping_active, mapped, local_held, os, remote>>

\* normal_input: to the receiver under passthrough, to the computer otherwise
NormalInput(code, down) ==
  /\ presses' = {}
  /\ \/ /\ passthrough
        /\ remote' = Toggled(remote, code, down)
        /\ UNCHANGED <<local_held, os>>
     \/ /\ ~passthrough
        /\ local_held' = Toggled(local_held, code, down)
        /\ os' = Toggled(os, code, down)
        /\ UNCHANGED remote
  /\ UNCHANGED <<hold_vars, mapping_active, mapped>>

SuppressedEdge(code, down) ==
  /\ physical' = After(code, down)
  /\ active' = StillActive(code, down)
  /\ suppressed_until_up' =
       IF down THEN Suppressed(code, down) ELSE Suppressed(code, down) \ {code}
  /\ Consume

\* Faulty variant of Taps: the release of an escalated hold taps as well
TapsAlways(code) == {active[code].function} \cap HoldFunctions

\* finish: a hold function released before its threshold is a tap
Taps(code) == IF active[code].hold_started THEN {} ELSE {active[code].function} \cap HoldFunctions

ActiveEdge(code, down) ==
  /\ physical' = After(code, down)
  /\ suppressed_until_up' = Suppressed(code, down)
  /\ UNCHANGED <<mapping_active, mapped, local_held, os, remote>>
  /\ \/ /\ down
        /\ active' = StillActive(code, down)
        /\ presses' = {}
        /\ UNCHANGED hold_vars
     \/ /\ ~down
        /\ active' = Without(StillActive(code, down), {code})
        /\ presses' = Taps(code)
        /\ ReleaseHolds({code})

MappedEdge(code, down) ==
  /\ presses' = {}
  /\ IF down THEN UNCHANGED <<mapping_active, mapped>> ELSE ReleaseMappings({code})
  /\ UNCHANGED <<hold_vars, local_held, os, remote>>

\* activate: a function without a hold gesture fires on the press
Activate(code, b) ==
  /\ physical' = After(code, TRUE)
  /\ suppressed_until_up' = Suppressed(code, TRUE)
  /\ active' = With(StillActive(code, TRUE), code,
                    [function |-> b.function, slot |-> b.slot,
                     modifiers |-> b.modifiers, hold_started |-> FALSE,
                     deadline |-> b.function \in HoldFunctions \cup RepeatFunctions])
  /\ presses' = {b.function} \ HoldFunctions
  /\ UNCHANGED <<hold_vars, mapping_active, mapped, local_held, os, remote>>

ActivateMapping(code, m) ==
  /\ Observe(code, TRUE)
  /\ mapping_active' = With(mapping_active, code, m)
  /\ mapped' = mapped \cup {<<code, m.output>>}
  /\ presses' = {}
  /\ UNCHANGED <<hold_vars, local_held, os, remote>>

\* An edge that is not a physical change: key repeat, or a lost counterpart
UnchangedEdge(code, down) ==
  /\ Observe(code, down)
  /\ IF \/ passthrough
        \/ code \in DOMAIN mapping_active
        \/ code \in DOMAIN StillActive(code, down)
        \/ code \in Suppressed(code, down)
       THEN Consume
       ELSE NormalInput(code, down)

\* A change on a code that no earlier press has claimed
FreshEdge(code, down) ==
  LET functions == Startable(code, After(code, down))
      matches   == MappingMatches(code, After(code, down))
  IN \/ /\ ~down \/ (functions = {} /\ matches = {})
        /\ Observe(code, down)
        /\ NormalInput(code, down)
     \/ /\ down
        /\ functions # {}
        /\ Activate(code, index[First(functions)])
     \/ /\ down
        /\ functions = {}
        /\ matches # {}
        /\ ActivateMapping(code, mappings[First(matches)])

\* route_edge.  The up of a code in local_held goes where its down went, to
\* the computer, whatever the mode is by then.
RouteEdge(code, down) ==
  LET owned == code \in DOMAIN mapping_active
      captured == code \in DOMAIN StillActive(code, down)
  IN \/ /\ ~Changed(code, down)
        /\ UnchangedEdge(code, down)
     \/ /\ Changed(code, down)
        /\ \/ /\ code \in Suppressed(code, down)
              /\ SuppressedEdge(code, down)
           \/ /\ code \notin Suppressed(code, down)
              /\ \/ recording /\ Observe(code, down) /\ NormalInput(code, down)
                 \/ ~recording /\ owned /\ Observe(code, down) /\ MappedEdge(code, down)
                 \/ ~recording /\ ~owned /\ captured /\ ActiveEdge(code, down)
                 \/ /\ ~recording /\ ~owned /\ ~captured
                    /\ \/ /\ ~down /\ code \in local_held
                          /\ Observe(code, down)
                          /\ local_held' = local_held \ {code}
                          /\ os' = os \ {code}
                          /\ presses' = {}
                          /\ UNCHANGED <<hold_vars, mapping_active, mapped, remote>>
                       \/ /\ down \/ code \notin local_held
                          /\ FreshEdge(code, down)

RouteEvent(code, down) ==
  /\ RouteEdge(code, down)
  /\ UNCHANGED <<config_vars, mode_vars>>

\* The part of route_local_event that does not defer to route_event
LocalEdge(code, down) ==
  \/ /\ code \in DOMAIN mapping_active
     /\ physical' = After(code, down)
     /\ MappedEdge(code, down)
     /\ UNCHANGED <<active, suppressed_until_up>>
  \/ /\ code \notin DOMAIN mapping_active
     /\ \/ /\ ~Changed(code, down)
           /\ Observe(code, down)
           /\ presses' = {}
           /\ os' = IF code \in DOMAIN StillActive(code, down) \cup Suppressed(code, down)
                      THEN os ELSE Toggled(os, code, down)
           /\ UNCHANGED <<hold_vars, mapping_active, mapped, local_held, remote>>
        \/ /\ Changed(code, down)
           /\ \/ code \in DOMAIN StillActive(code, down) /\ ActiveEdge(code, down)
              \/ /\ code \notin DOMAIN StillActive(code, down)
                 /\ \/ code \in Suppressed(code, down) /\ SuppressedEdge(code, down)
                    \/ /\ code \notin Suppressed(code, down)
                       /\ Observe(code, down)
                       /\ NormalInput(code, down)

\* An edge while TapRelay's own window is in front
RouteLocalEvent(code, down) ==
  /\ IF \/ passthrough
        \/ /\ down
           /\ ~recording
           /\ Bound(code, physical) # {} \/ Candidates(code) # {}
       THEN RouteEdge(code, down)
       ELSE LocalEdge(code, down)
  /\ UNCHANGED <<config_vars, mode_vars>>

\* The timer finds the armed deadlines of `due` passed: volumes repeat, holds
\* escalate, and the first hold of a function presses its key.
Tick(due) ==
  LET escalating(f) == {c \in due : active[c].function = f}
  IN /\ due # {}
     /\ \A c \in due : active[c].deadline
     /\ active' =
          [c \in DOMAIN active |->
             IF c \in due /\ active[c].function \in HoldFunctions
               THEN [active[c] EXCEPT !.hold_started = TRUE, !.deadline = FALSE]
               ELSE active[c]]
     /\ held_functions' =
          [f \in HoldFunctions |-> held_functions[f] + Cardinality(escalating(f))]
     /\ pressed' =
          [f \in HoldFunctions |->
             IF escalating(f) # {} /\ FirstHold(f)
               THEN pressed[f] + 1 ELSE pressed[f]]
     /\ presses' = {f \in RepeatFunctions : escalating(f) # {}}
          \cup {f \in HoldFunctions : escalating(f) # {} /\ FirstHold(f)}
     /\ UNCHANGED <<config_vars, mode_vars, physical, mapping_active, local_held,
                    suppressed_until_up, os, remote, mapped>>

-----------------------------------------------------------------------------

Init ==
  /\ index \in Configs
  /\ revision = 0
  /\ mappings = << >>
  /\ rules \in {r \in Rules : DOMAIN r.assigned = {}}
  /\ foreground = NoApp
  /\ listening = FALSE /\ passthrough = FALSE /\ recording = FALSE
  /\ physical = {} /\ active = Empty /\ mapping_active = Empty
  /\ held_functions = [f \in HoldFunctions |-> 0]
  /\ local_held = {} /\ suppressed_until_up = {}
  /\ os = {} /\ remote = {} /\ mapped = {} /\ presses = {}
  /\ pressed = [f \in HoldFunctions |-> 0]

Edge ==
  \E code \in Codes, down \in BOOLEAN :
    RouteEvent(code, down) \/ RouteLocalEvent(code, down)

Mode ==
  \/ \E value \in BOOLEAN :
       SetPassthrough(value) \/ SetListening(value) \/ SetRecording(value)
  \/ Terminate

Publish ==
  \/ \E c \in Configs, r \in 0..MaxRevision : UpdateConfig(c, r)
  \/ \E l \in MappingLists : UpdateMappings(l)
  \/ \E r \in Rules : SetForegroundAppRules(r)
  \/ \E app \in Apps \cup {NoApp} : SetForeground(app)

Next == Edge \/ Mode \/ Publish \/ \E due \in SUBSET DOMAIN active : Tick(due)

Spec == Init /\ [][Next]_vars

-----------------------------------------------------------------------------
\* Properties.

CapturedPress ==
  [function : FunctionIds, slot : Nat, modifiers : SUBSET Modifiers,
   hold_started : BOOLEAN, deadline : BOOLEAN]

TypeOK ==
  /\ index \in Configs /\ revision \in 0..MaxRevision
  /\ mappings \in MappingLists \cup {<< >>}
  /\ rules \in Rules /\ foreground \in Apps \cup {NoApp}
  /\ listening \in BOOLEAN /\ passthrough \in BOOLEAN /\ recording \in BOOLEAN
  /\ physical \subseteq Codes
  /\ DOMAIN active \subseteq Codes
  /\ active \in [DOMAIN active -> CapturedPress]
  /\ DOMAIN mapping_active \subseteq Codes
  /\ held_functions \in [HoldFunctions -> Nat]
  /\ pressed \in [HoldFunctions -> Nat]
  /\ local_held \subseteq Codes /\ suppressed_until_up \subseteq Codes
  /\ os \subseteq Codes /\ remote \subseteq Codes
  /\ presses \subseteq FunctionIds

\* Every code that is physically down belongs to exactly one of the computer,
\* a captured shortcut, a held mapping, the receiver and nobody, and only
\* such codes do: route_edge tests these in an order that only works if no
\* two of them can hold one code.
OneOwner ==
  /\ physical = local_held \cup DOMAIN active \cup DOMAIN mapping_active
                  \cup suppressed_until_up \cup remote
  /\ local_held \cap (DOMAIN active \cup DOMAIN mapping_active
                         \cup suppressed_until_up \cup remote) = {}
  /\ DOMAIN active \cap (DOMAIN mapping_active \cup suppressed_until_up \cup remote) = {}
  /\ DOMAIN mapping_active \cap (suppressed_until_up \cup remote) = {}
  /\ suppressed_until_up \cap remote = {}

\* The computer never keeps a key down that the router would not release for
\* it: what it has seen go down is what local_held remembers, through every
\* change of mode (normal_input, the Replay of set_passthrough).  Passthrough
\* is exclusive: while it is on the computer holds nothing, and when it is off
\* the receiver holds nothing through it, whichever call (terminate,
\* update_config, set_listening, set_recording) ended it.
NothingStuck ==
  /\ os = local_held
  /\ IF passthrough THEN os = {} ELSE remote = {}

\* Two shortcuts of one function share a single held output: the receiver
\* sees its key pressed once while any escalated hold is left, and released
\* when the last one goes (tick, release_hold, terminate).
HeldOutputs ==
  \A f \in HoldFunctions :
    /\ held_functions[f] = Holding(DOMAIN active, f)
    /\ pressed[f] = IF held_functions[f] > 0 THEN 1 ELSE 0

\* The receiver holds exactly the outputs of the mappings that are held
\* down, with the output they were pressed with, even after an edit.
MappedOutputs ==
  mapped = {<<c, mapping_active[c].output>> : c \in DOMAIN mapping_active}

\* HeldOutputs and MappedOutputs: what the receiver was told is down is what the router
\* will take back (release_hold, release_mapping).
OutputsHeld == HeldOutputs /\ MappedOutputs

\* What is captured would still be allowed: the application in front is in
\* scope, ...
CapturedInScope ==
  /\ \A c \in DOMAIN active : Allows(rules, active[c].function, foreground)
  /\ \A c \in DOMAIN mapping_active :
       MappingAllows(rules, mapping_active[c], foreground)

\* ... listening or passthrough is on unless an App function is captured, and
\* shortcuts are not being recorded, ...
CapturedWhileOn ==
  /\ listening \/ passthrough \/ \A c \in DOMAIN active : active[c].function \in AppFunctions
  /\ listening \/ DOMAIN mapping_active = {}
  /\ recording => DOMAIN active = {} /\ DOMAIN mapping_active = {}

\* ... and a volume keeps repeating only while its exact modifiers are held.
RepeatsExact ==
  \A c \in DOMAIN active :
    active[c].function \in RepeatFunctions =>
      active[c].modifiers = LogicalModifiers(physical)

\* No captured press or mapping outlives what allowed it, whichever of the
\* modes, the rules, the application in front and the modifiers changed
\* (cancel_out_of_scope, cancel_unmatched_repeats, terminate).
CapturedAllowed == CapturedInScope /\ CapturedWhileOn /\ RepeatsExact

\* Nothing acts without permission: a step leaves only captures that are allowed
\* after it, and whatever press it sends, on the press edge, on the release of a tap
\* or from the timer, is one the modes and the application in front allow.
Authorized ==
  [][/\ CapturedAllowed'
     /\ \A f \in presses' :
          /\ Allows(rules, f, foreground)
          /\ listening \/ passthrough \/ f \in AppFunctions]_vars

\* A captured hold gives one gesture: when it was escalated, or is taken away
\* before its release, its end sends no tap.
OneGesture ==
  [][\A c \in DOMAIN active \ DOMAIN active' :
       (active[c].hold_started \/ c \in suppressed_until_up')
         => active[c].function \notin presses']_vars

\* The route of a press, as KeyOwnership sees it
Owner ==
  [c \in Codes |->
     CASE c \in local_held                              -> "local"
       [] c \in remote                                  -> "remote"
       [] c \in DOMAIN active \cup DOMAIN mapping_active -> "captured"
       [] c \in suppressed_until_up                     -> "suppressed"
       [] OTHER                                         -> "up"]

Ownership == INSTANCE KeyOwnership WITH owner <- Owner

\* Routing keeps the promise of KeyOwnership: the release of a key goes where
\* its press went, and a key taken away stays silent until it is released.
FollowsPress == Ownership!Spec

=============================================================================
