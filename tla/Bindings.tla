------------------------------ MODULE Bindings ------------------------------
(***************************************************************************)
(* Which shortcut belongs to which rule: taprelay-core/src/mapping.rs and  *)
(* foreground_app.rs, with the edits of taprelay-app/src/runtime that      *)
(* change shortcuts, groups of applications and mappings.                  *)
(*                                                                         *)
(* A shortcut may serve several functions and mappings as long as no       *)
(* application is in the scope of two of them.  Three parts of the code    *)
(* decide that, each in its own way: what the recording of a function's    *)
(* shortcut refuses (submit_capture), what the editor of a mapping shows   *)
(* (shortcut_conflict) and what every commit and every save demands        *)
(* (valid).                                                                *)
(*                                                                         *)
(* Names are left out, every Shortcut is one that Shortcut::valid accepts, *)
(* an application is its executable_identity, and slots count from 1.      *)
(* A disabled rule keeps its shortcuts, so the switch of a mapping is left *)
(* out, and that of a function only decides what may be recorded.          *)
(***************************************************************************)
EXTENDS Naturals, Sequences, SequencesExt

CONSTANTS
  Function, AppFunction,   \* AppFunction: of the category App
  Id,                      \* of mappings
  Shortcut, Group, App,
  RuleSets,                \* the groups and assignments that the user may save
  Drafts                   \* the mappings that the user may save

VARIABLES
  config,     \* Runtime: functions, foreground_app_rules, custom_mappings
  capture     \* what is being recorded, for which slot

settings == <<config, capture>>

None == [kind |-> "none"]

MAX_SHORTCUTS_PER_FUNCTION == 2
Slot == 1..MAX_SHORTCUTS_PER_FUNCTION

-----------------------------------------------------------------------------
(* Scopes.                                                                  *)

Groups(rules) == DOMAIN rules.groups

ScopePaths(rules, groups) == UNION {rules.groups[g] : g \in groups \intersect Groups(rules)}

\* assignments.get(id).unwrap_or_default()
Assigned(rules, f) == IF f \in DOMAIN rules.assignments THEN rules.assignments[f] ELSE {}

\* Mutant: two groups with the same application do not overlap.
ScopesOverlapById(rules, a, b) == a = {} \/ b = {} \/ a \intersect b # {}

ScopesOverlap(rules, a, b) ==
  \/ a = {} \/ b = {} \/ a \intersect b # {}
  \/ ScopePaths(rules, a) \intersect ScopePaths(rules, b) # {}

\* ForegroundAppRules::overlaps, the older test for two functions
Overlaps(rules, f, g) ==
  \/ f = g
  \/ {f, g} \cap DOMAIN rules.assignments # {f, g}
  \/ LET a == rules.assignments[f]
         b == rules.assignments[g]
     IN \/ a \intersect b # {} \/ a = {} \/ b = {}
        \/ ~ (a \union b) \subseteq Groups(rules)
        \/ \E x \in a, y \in b : rules.groups[x] \intersect rules.groups[y] # {}

RulesValid(rules) ==
  \A f \in DOMAIN rules.assignments :
    /\ f \notin AppFunction
    /\ rules.assignments[f] # {} /\ rules.assignments[f] \subseteq Groups(rules)

-----------------------------------------------------------------------------
(* Conflicts.  An entry is one shortcut of one rule.                        *)

Entry == [kind : {"function"}, id : Function, slot : Slot] \union
         [kind : {"mapping"}, id : Id, slot : Slot]

ShortcutsOf(c, e) ==
  IF e.kind = "function" THEN c.functions[e.id].shortcuts ELSE c.mappings[e.id].shortcuts

Entries(c) == {e \in Entry : /\ e.kind = "mapping" => e.id \in DOMAIN c.mappings
                             /\ e.slot \in DOMAIN ShortcutsOf(c, e)}

ShortcutOf(c, e) == ShortcutsOf(c, e)[e.slot]

GroupsOf(c, e) ==
  IF e.kind = "function" THEN Assigned(c.rules, e.id) ELSE c.mappings[e.id].groups

Conflict(c) ==
  \E a, b \in Entries(c) :
    /\ a # b /\ ShortcutOf(c, a) = ShortcutOf(c, b)
    /\ ScopesOverlap(c.rules, GroupsOf(c, a), GroupsOf(c, b))

\* ForegroundAppRules::conflict
FunctionConflict(c) ==
  \E f, g \in Function : \E i \in DOMAIN c.functions[f].shortcuts, j \in DOMAIN c.functions[g].shortcuts :
    /\ <<f, i>> # <<g, j>> /\ c.functions[f].shortcuts[i] = c.functions[g].shortcuts[j]
    /\ Overlaps(c.rules, f, g)

MappingValid(c, m) == /\ Len(m.shortcuts) \in Slot
                      /\ m.groups \subseteq Groups(c.rules)

ValidBindings(c) == RulesValid(c.rules) /\ ~FunctionConflict(c)

\* mapping::valid
Valid(c) ==
  /\ ValidBindings(c)
  /\ \A id \in DOMAIN c.mappings : MappingValid(c, c.mappings[id])
  /\ ~Conflict(c)

\* What the editor of a mapping shows at a slot of the draft
ShortcutConflict(c, id, draft, slot, shortcut) ==
  \/ \E i \in DOMAIN draft.shortcuts : i # slot /\ draft.shortcuts[i] = shortcut
  \/ \E f \in Function :
       /\ \E i \in DOMAIN c.functions[f].shortcuts : c.functions[f].shortcuts[i] = shortcut
       /\ ScopesOverlap(c.rules, draft.groups, Assigned(c.rules, f))
  \/ \E other \in DOMAIN c.mappings \ {id} :
       /\ \E i \in DOMAIN c.mappings[other].shortcuts : c.mappings[other].shortcuts[i] = shortcut
       /\ ScopesOverlap(c.rules, draft.groups, c.mappings[other].groups)

-----------------------------------------------------------------------------
(* The edits of the runtime.                                                *)

WithShortcuts(c, f, shortcuts) == [c EXCEPT !.functions[f].shortcuts = shortcuts]

\* The shortcuts with one in a slot that is taken or the next free one
Placed(shortcuts, slot, shortcut) ==
  IF slot = Len(shortcuts) + 1 THEN Append(shortcuts, shortcut)
  ELSE [shortcuts EXCEPT ![slot] = shortcut]

Fits(c, f, slot) ==
  c.functions[f].enabled /\ slot \in Slot /\ slot <= Len(c.functions[f].shortcuts) + 1

Replaced(c, f, slot, shortcut) ==
  WithShortcuts(c, f, Placed(c.functions[f].shortcuts, slot, shortcut))

\* A recording ends, whatever it had.
FinishRecording == capture' = None

BeginCapture ==
  \E f \in Function, slot \in Slot :
    /\ Fits(config, f, slot)
    /\ capture' = [kind |-> "function", id |-> f, slot |-> slot]
    /\ UNCHANGED config

\* For an input of a mapping; the output is recorded without a check.
BeginCustomCapture ==
  \E list \in Drafts, id \in Id, slot \in Slot :
    /\ id \in DOMAIN list /\ slot <= Len(list[id].shortcuts) + 1
    /\ capture' = [kind |-> "mapping", id |-> id, slot |-> slot, draft |-> list[id]]
    /\ UNCHANGED config

CancelCapture == FinishRecording /\ UNCHANGED config

\* Mutant: the recording goes on.
DeleteQuietly ==
  \E f \in Function, slot \in Slot :
    /\ slot <= Len(config.functions[f].shortcuts)
    /\ config' = WithShortcuts(config, f, RemoveAt(config.functions[f].shortcuts, slot))
    /\ UNCHANGED capture

DeleteShortcut ==
  \E f \in Function, slot \in Slot :
    /\ slot <= Len(config.functions[f].shortcuts)
    /\ config' = WithShortcuts(config, f, RemoveAt(config.functions[f].shortcuts, slot))
    /\ FinishRecording

SetFunctionEnabled ==
  \E f \in Function, enabled \in BOOLEAN :
    /\ config' = [config EXCEPT !.functions[f].enabled = enabled]
    /\ FinishRecording

\* CaptureError::Duplicate, DuplicateMapping
Duplicate(c, f, slot, shortcut) ==
  \E g \in Function : \E i \in DOMAIN c.functions[g].shortcuts :
    /\ <<g, i>> # <<f, slot>> /\ c.functions[g].shortcuts[i] = shortcut
    /\ Overlaps(c.rules, f, g)

DuplicateMapping(c, f, shortcut) ==
  \E id \in DOMAIN c.mappings :
    /\ \E i \in DOMAIN c.mappings[id].shortcuts : c.mappings[id].shortcuts[i] = shortcut
    /\ ScopesOverlap(c.rules, Assigned(c.rules, f), c.mappings[id].groups)

Refused(c, f, slot, shortcut) == Duplicate(c, f, slot, shortcut) \/ DuplicateMapping(c, f, shortcut)

\* replace_shortcut
CanCommit(c, f, slot, shortcut) ==
  Fits(c, f, slot) /\ Valid(Replaced(c, f, slot, shortcut))

\* submit_capture for a function: what is refused stays open for another try.
SubmitFunction ==
  /\ capture.kind = "function"
  /\ \E shortcut \in Shortcut :
       LET f == capture.id
           slot == capture.slot
       IN /\ ~Refused(config, f, slot, shortcut) /\ CanCommit(config, f, slot, shortcut)
          /\ config' = Replaced(config, f, slot, shortcut)
          /\ FinishRecording

\* submit_capture for a draft: the shortcut goes to the editor.
SubmitDraft ==
  /\ capture.kind = "mapping"
  /\ \E shortcut \in Shortcut :
       ~ShortcutConflict(config, capture.id, capture.draft, capture.slot, shortcut)
  /\ FinishRecording /\ UNCHANGED config

\* set_function_scope: no group at all is no assignment.
Scoped(rules, f, groups) ==
  [rules EXCEPT !.assignments =
     [g \in IF groups = {} THEN DOMAIN @ \ {f} ELSE DOMAIN @ \union {f} |->
        IF g = f THEN groups ELSE @[g]]]

\* A save that is not valid fails and changes nothing.
Save(c) == Valid(c) /\ config' = c /\ UNCHANGED capture

SaveScope ==
  \E f \in Function, groups \in SUBSET Group :
    Save([config EXCEPT !.rules = Scoped(@, f, groups)])

\* Mappings keep what is left of their groups; those that have none left apply to
\* every application.
Retained(mappings, rules) ==
  [id \in DOMAIN mappings |-> [mappings[id] EXCEPT !.groups = @ \intersect Groups(rules)]]

SaveRules ==
  \E rules \in RuleSets :
    Save([config EXCEPT !.rules = rules, !.mappings = Retained(@, rules)])

SaveMappings == \E list \in Drafts : Save([config EXCEPT !.mappings = list])

-----------------------------------------------------------------------------
NoEntries == [x \in {} |-> x]

BindingsInit ==
  /\ config = [functions |-> [f \in Function |-> [enabled |-> FALSE, shortcuts |-> <<>>]],
               rules |-> [groups |-> NoEntries, assignments |-> NoEntries], mappings |-> NoEntries]
  /\ capture = None

BindingsNext ==
  \/ BeginCapture \/ BeginCustomCapture \/ CancelCapture
  \/ DeleteShortcut \/ SetFunctionEnabled \/ SubmitFunction \/ SubmitDraft
  \/ SaveScope \/ SaveRules \/ SaveMappings

BindingsSpec == BindingsInit /\ [][BindingsNext]_settings

-----------------------------------------------------------------------------
(* Properties.                                                              *)

\* ScopeIndex::allows and mapping_allows with an application in front, if any
InScope(c, e, foreground) ==
  IF e.kind = "function"
  THEN \/ e.id \in AppFunction \/ e.id \notin DOMAIN c.rules.assignments
       \/ foreground \intersect ScopePaths(c.rules, c.rules.assignments[e.id]) # {}
  ELSE LET groups == c.mappings[e.id].groups
       IN groups = {} \/ foreground \intersect ScopePaths(c.rules, groups) # {}

Foreground == {{}} \union {{app} : app \in App}

\* Whatever application is in front, a shortcut starts at most one rule: what a key
\* does never depends on the order of functions or mappings.
Unambiguous ==
  \A foreground \in Foreground, a, b \in Entries(config) :
    /\ ShortcutOf(config, a) = ShortcutOf(config, b)
    /\ InScope(config, a, foreground) /\ InScope(config, b, foreground)
    => a = b

\* The settings pass the check that every save and every start of the program makes.
Savable == Valid(config)

\* The three tests agree: a recorded shortcut that is not refused is committed, and
\* a draft in which the editor shows no conflict can be saved.
ChecksAgree ==
  /\ capture.kind = "function" =>
       \A shortcut \in Shortcut :
         Refused(config, capture.id, capture.slot, shortcut)
           \/ CanCommit(config, capture.id, capture.slot, shortcut)
  /\ \A list \in Drafts, id \in Id :
       /\ id \in DOMAIN list /\ MappingValid(config, list[id])
       /\ \A slot \in DOMAIN list[id].shortcuts :
            ~ShortcutConflict(config, id, list[id], slot, list[id].shortcuts[slot])
       => Valid([config EXCEPT !.mappings =
                   [other \in DOMAIN @ \union {id} |-> IF other = id THEN list[id] ELSE @[other]]])
=============================================================================
