--------------------------- MODULE BindingsProofs ---------------------------
(***************************************************************************)
(* Proofs about Bindings for every set of functions, mappings, shortcuts,  *)
(* groups and applications, and whatever the user tries to save.           *)
(*                                                                         *)
(* The invariant says that the live settings pass the check of a save.     *)
(* That is inductive because removing a shortcut or switching a function   *)
(* can create no conflict (they are the edits that the code does not       *)
(* check), and because a recording ends with every edit that could make    *)
(* its slot wrong.                                                         *)
(***************************************************************************)
EXTENDS Bindings, TLAPS

Lists == {s \in Seq(Shortcut) : Len(s) <= 2}

\* Only the functions need a type: rules and mappings change as a whole.
Shape ==
  /\ config = [functions |-> config.functions, rules |-> config.rules,
               mappings |-> config.mappings]
  /\ config.functions \in [Function -> [enabled : BOOLEAN, shortcuts : Lists]]

\* What is recorded for a function fits into a slot of it.
CaptureFits ==
  capture.kind = "function" =>
    capture.id \in Function /\ Fits(config, capture.id, capture.slot)

Inv == Shape /\ Savable /\ CaptureFits

-----------------------------------------------------------------------------
(* Scopes and conflicts.                                                    *)

\* The newer test for an overlap of scopes finds nothing that the older one misses.
LEMMA OverlapsAgree ==
  ASSUME NEW rules, RulesValid(rules), NEW f, NEW g,
         ScopesOverlap(rules, Assigned(rules, f), Assigned(rules, g))
  PROVE  Overlaps(rules, f, g)
<1>1. CASE f = g \/ {f, g} \cap DOMAIN rules.assignments # {f, g}
  BY <1>1 DEF Overlaps
<1>2. CASE ~(f = g \/ {f, g} \cap DOMAIN rules.assignments # {f, g})
  <2> DEFINE a == rules.assignments[f]
             b == rules.assignments[g]
  <2>1. Assigned(rules, f) = a /\ Assigned(rules, g) = b
    BY <1>2 DEF Assigned
  <2>2. CASE a = {} \/ b = {} \/ a \intersect b # {}
    BY <2>2 DEF Overlaps
  <2>3. CASE ScopePaths(rules, a) \intersect ScopePaths(rules, b) # {}
    <3>1. PICK x \in a, y \in b : rules.groups[x] \intersect rules.groups[y] # {}
      BY <2>3 DEF ScopePaths
    <3>2. QED
      BY <3>1 DEF Overlaps
  <2>4. QED
    BY <2>1, <2>2, <2>3 DEF ScopesOverlap
<1>3. QED
  BY <1>1, <1>2

\* The order of two functions does not matter.
LEMMA OverlapsSymmetric ==
  ASSUME NEW rules, NEW f, NEW g, Overlaps(rules, f, g)
  PROVE  Overlaps(rules, g, f)
BY DEF Overlaps

\* The order of two scopes does not matter.
LEMMA ScopesOverlapSymmetric ==
  ASSUME NEW rules, NEW a, NEW b, ScopesOverlap(rules, a, b)
  PROVE  ScopesOverlap(rules, b, a)
BY DEF ScopesOverlap

\* A rule that is allowed in front of an application has no scope, or one with it.
LEMMA AllowedInScope ==
  ASSUME NEW c, RulesValid(c.rules), NEW e \in Entry, NEW foreground, InScope(c, e, foreground),
         GroupsOf(c, e) # {}
  PROVE  foreground \intersect ScopePaths(c.rules, GroupsOf(c, e)) # {}
<1>1. CASE e.kind = "function"
  <2>1. e.id \in DOMAIN c.rules.assignments
    BY <1>1 DEF GroupsOf, Assigned
  <2>2. e.id \notin AppFunction
    BY <2>1 DEF RulesValid
  <2>3. QED
    BY <1>1, <2>1, <2>2 DEF InScope, GroupsOf, Assigned
<1>2. CASE e.kind # "function"
  BY <1>2 DEF InScope, GroupsOf
<1>3. QED
  BY <1>1, <1>2

\* Settings that pass the check leave no choice to the order of the rules.
LEMMA ValidIsUnambiguous ==
  ASSUME Valid(config)
  PROVE  Unambiguous
<1> SUFFICES ASSUME NEW foreground \in Foreground, NEW a \in Entries(config), NEW b \in Entries(config),
                    ShortcutOf(config, a) = ShortcutOf(config, b),
                    InScope(config, a, foreground), InScope(config, b, foreground), a # b
             PROVE  FALSE
  BY DEF Unambiguous
<1>1. a \in Entry /\ b \in Entry /\ RulesValid(config.rules)
  BY DEF Entries, Valid, ValidBindings
<1>2. ~ScopesOverlap(config.rules, GroupsOf(config, a), GroupsOf(config, b))
  BY DEF Valid, Conflict
<1>3. GroupsOf(config, a) # {} /\ GroupsOf(config, b) # {}
  BY <1>2 DEF ScopesOverlap
<1>4. /\ foreground \intersect ScopePaths(config.rules, GroupsOf(config, a)) # {}
      /\ foreground \intersect ScopePaths(config.rules, GroupsOf(config, b)) # {}
  BY <1>1, <1>3, AllowedInScope
<1>5. PICK app \in App : foreground = {app}
  BY <1>4 DEF Foreground
<1>6. app \in ScopePaths(config.rules, GroupsOf(config, a))
        \intersect ScopePaths(config.rules, GroupsOf(config, b))
  BY <1>4, <1>5
<1>7. QED
  BY <1>2, <1>6 DEF ScopesOverlap

\* Settings whose shortcuts are all shortcuts of others that pass the check, with
\* the same scopes and different entries for different entries, pass it too.
LEMMA FewerShortcuts ==
  ASSUME NEW c, NEW d, Valid(c), d.rules = c.rules, d.mappings = c.mappings,
         NEW Old,
         \A f \in Function : \A i \in DOMAIN d.functions[f].shortcuts :
           /\ i \in Slot
           /\ Old[f][i] \in DOMAIN c.functions[f].shortcuts /\ Old[f][i] \in Slot
           /\ d.functions[f].shortcuts[i] = c.functions[f].shortcuts[Old[f][i]],
         \A f \in Function : \A i, j \in DOMAIN d.functions[f].shortcuts :
           Old[f][i] = Old[f][j] => i = j
  PROVE  Valid(d)
<1>1. ValidBindings(d)
  BY DEF Valid, ValidBindings, FunctionConflict
<1>2. \A id \in DOMAIN d.mappings : MappingValid(d, d.mappings[id])
  BY DEF Valid, MappingValid
<1>3. ~Conflict(d)
  <2> DEFINE Before(e) == IF e.kind = "function"
                          THEN [kind |-> "function", id |-> e.id, slot |-> Old[e.id][e.slot]] ELSE e
  <2>1. \A e \in Entries(d) : /\ Before(e) \in Entries(c)
                              /\ ShortcutOf(c, Before(e)) = ShortcutOf(d, e)
                              /\ GroupsOf(c, Before(e)) = GroupsOf(d, e)
    BY DEF Entries, Entry, ShortcutsOf, ShortcutOf, GroupsOf
  <2>2. \A a, b \in Entries(d) : Before(a) = Before(b) => a = b
    BY DEF Entries, Entry, ShortcutsOf
  <2> SUFFICES ASSUME NEW a \in Entries(d), NEW b \in Entries(d), a # b,
                      ShortcutOf(d, a) = ShortcutOf(d, b),
                      ScopesOverlap(d.rules, GroupsOf(d, a), GroupsOf(d, b))
               PROVE  FALSE
    BY DEF Conflict
  <2>3. /\ Before(a) \in Entries(c) /\ Before(b) \in Entries(c) /\ Before(a) # Before(b)
        /\ ShortcutOf(c, Before(a)) = ShortcutOf(c, Before(b))
        /\ GroupsOf(c, Before(a)) = GroupsOf(d, a) /\ GroupsOf(c, Before(b)) = GroupsOf(d, b)
    BY <2>1, <2>2
  <2>4. ScopesOverlap(c.rules, GroupsOf(c, Before(a)), GroupsOf(c, Before(b)))
    BY <2>3
  <2> HIDE DEF Before
  <2>5. Conflict(c)
    BY <2>3, <2>4 DEF Conflict
  <2>6. QED
    BY <2>5 DEF Valid
<1>4. QED
  BY <1>1, <1>2, <1>3 DEF Valid

-----------------------------------------------------------------------------
(* The edits that the code does not check.                                  *)

\* A slot that is taken.
LEMMA Taken ==
  ASSUME NEW s \in Lists, NEW slot \in DOMAIN s
  PROVE  Len(s) \in 1..2 /\ slot \in 1..Len(s) /\ s \in Seq(Shortcut)
<1>1. s \in Seq(Shortcut) /\ Len(s) <= 2
  BY DEF Lists
<1>2. Len(s) \in Nat /\ DOMAIN s = 1..Len(s)
  BY <1>1
<1>3. slot \in 1..Len(s)
  BY <1>2
<1>4. Len(s) \in 1..2
  BY <1>1, <1>2, <1>3
<1>5. QED
  BY <1>1, <1>3, <1>4

\* Vec::remove: what comes after the slot moves up.
LEMMA Removed ==
  ASSUME NEW s \in Lists, NEW slot \in DOMAIN s
  PROVE  /\ RemoveAt(s, slot) \in Lists
         /\ Len(RemoveAt(s, slot)) = Len(s) - 1
         /\ \A i \in DOMAIN RemoveAt(s, slot) :
              RemoveAt(s, slot)[i] = s[IF i >= slot THEN i + 1 ELSE i]
<1> DEFINE before == SubSeq(s, 1, slot - 1)
           after == SubSeq(s, slot + 1, Len(s))
<1>1. Len(s) \in 1..2 /\ slot \in 1..Len(s) /\ s \in Seq(Shortcut)
  BY Taken
<1>2. /\ before \in Seq(Shortcut) /\ Len(before) = slot - 1
      /\ \A i \in 1..(slot - 1) : before[i] = s[i]
  BY <1>1
<1>3. /\ after \in Seq(Shortcut) /\ Len(after) = Len(s) - slot
      /\ \A i \in 1..(Len(s) - slot) : after[i] = s[slot + i]
  BY <1>1
<1>4. RemoveAt(s, slot) = before \o after
  BY DEF RemoveAt
<1> HIDE DEF before, after
<1>5. /\ before \o after \in Seq(Shortcut) /\ Len(before \o after) = Len(s) - 1
      /\ \A i \in 1..(Len(s) - 1) :
           (before \o after)[i] = IF i <= slot - 1 THEN before[i] ELSE after[i - (slot - 1)]
  BY <1>1, <1>2, <1>3
<1>6. ASSUME NEW i \in 1..(Len(s) - 1)
      PROVE  (before \o after)[i] = s[IF i >= slot THEN i + 1 ELSE i]
  <2>1. CASE i <= slot - 1
    <3>1. i \in 1..(slot - 1) /\ ~(i >= slot)
      BY <1>1, <2>1
    <3>2. (before \o after)[i] = before[i]
      BY <1>5, <2>1
    <3>3. QED
      BY <1>2, <3>1, <3>2
  <2>2. CASE i >= slot
    <3>1. i - (slot - 1) \in 1..(Len(s) - slot) /\ slot + (i - (slot - 1)) = i + 1
      BY <1>1, <2>2
    <3>2. (before \o after)[i] = after[i - (slot - 1)]
      BY <1>1, <1>5, <2>2
    <3>3. after[i - (slot - 1)] = s[i + 1]
      BY <1>3, <3>1
    <3>4. QED
      BY <2>2, <3>2, <3>3
  <2>3. i \in Int /\ slot \in Int
    BY <1>1
  <2>4. i <= slot - 1 \/ i >= slot
    BY <2>3
  <2>5. QED
    BY <2>1, <2>2, <2>4
<1>7. QED
  BY <1>1, <1>4, <1>5, <1>6 DEF Lists

\* remove_shortcut creates no conflict.
LEMMA DeleteKeepsValid ==
  ASSUME Shape, Savable, NEW f \in Function,
         NEW slot \in DOMAIN config.functions[f].shortcuts
  PROVE  LET d == WithShortcuts(config, f, RemoveAt(config.functions[f].shortcuts, slot))
         IN Valid(d) /\ d.functions \in [Function -> [enabled : BOOLEAN, shortcuts : Lists]]
<1> DEFINE s == config.functions[f].shortcuts
           r == RemoveAt(s, slot)
           d == WithShortcuts(config, f, r)
           Old == [g \in Function |-> [i \in Slot |-> IF g = f /\ i >= slot THEN i + 1 ELSE i]]
<1>1. \A g \in Function : config.functions[g] \in [enabled : BOOLEAN, shortcuts : Lists]
  BY DEF Shape
<1>2. s \in Lists
  BY <1>1
<1>3. /\ r \in Lists /\ Len(r) = Len(s) - 1
      /\ \A i \in DOMAIN r : r[i] = s[IF i >= slot THEN i + 1 ELSE i]
  BY <1>2, Removed
<1> HIDE DEF r
<1>4. /\ d.rules = config.rules /\ d.mappings = config.mappings
      /\ d.functions = [config.functions EXCEPT ![f].shortcuts = r]
  BY DEF WithShortcuts, Shape
<1>5. d.functions \in [Function -> [enabled : BOOLEAN, shortcuts : Lists]]
  BY <1>1, <1>3, <1>4 DEF Shape
<1>6. \A g \in Function : d.functions[g].shortcuts = IF g = f THEN r ELSE config.functions[g].shortcuts
  BY <1>1, <1>4 DEF Shape
<1>7. \A g \in Function : \A i \in DOMAIN d.functions[g].shortcuts : i \in Slot
  BY <1>1, <1>3, <1>6 DEF Lists, Slot, MAX_SHORTCUTS_PER_FUNCTION
<1>8. ASSUME NEW g \in Function, NEW i \in DOMAIN d.functions[g].shortcuts
      PROVE  /\ Old[g][i] \in DOMAIN config.functions[g].shortcuts /\ Old[g][i] \in Slot
             /\ d.functions[g].shortcuts[i] = config.functions[g].shortcuts[Old[g][i]]
  <2>1. i \in Slot
    BY <1>7
  <2>2. CASE g = f
    <3>1. i \in 1..(Len(s) - 1) /\ Len(s) \in 1..2 /\ slot \in 1..Len(s)
      <4>1. r \in Seq(Shortcut) /\ DOMAIN d.functions[g].shortcuts = DOMAIN r
        BY <1>3, <1>6, <2>2 DEF Lists
      <4>2. i \in 1..(Len(s) - 1)
        BY <1>3, <4>1
      <4>3. QED
        BY <1>2, <4>2, Taken
    <3>2. Old[g][i] = IF i >= slot THEN i + 1 ELSE i
      BY <2>1, <2>2
    <3>3. QED
      BY <1>2, <1>3, <1>6, <2>2, <3>1, <3>2 DEF Lists, Slot, MAX_SHORTCUTS_PER_FUNCTION
  <2>3. CASE g # f
    BY <1>6, <2>1, <2>3
  <2>4. QED
    BY <2>2, <2>3
<1>9. ASSUME NEW g \in Function, NEW i \in DOMAIN d.functions[g].shortcuts,
             NEW j \in DOMAIN d.functions[g].shortcuts, Old[g][i] = Old[g][j]
      PROVE  i = j
  <2>1. i \in 1..2 /\ j \in 1..2 /\ slot \in 1..2
    BY <1>2, <1>7 DEF Slot, MAX_SHORTCUTS_PER_FUNCTION, Lists
  <2>2. QED
    BY <1>9, <2>1 DEF Slot, MAX_SHORTCUTS_PER_FUNCTION
<1> HIDE DEF d, Old
<1>10. Valid(d)
  <2>1. \A g \in Function : \A i \in DOMAIN d.functions[g].shortcuts :
          /\ i \in Slot
          /\ Old[g][i] \in DOMAIN config.functions[g].shortcuts /\ Old[g][i] \in Slot
          /\ d.functions[g].shortcuts[i] = config.functions[g].shortcuts[Old[g][i]]
    BY <1>7, <1>8
  <2>2. \A g \in Function : \A i, j \in DOMAIN d.functions[g].shortcuts :
          Old[g][i] = Old[g][j] => i = j
    BY <1>9
  <2>3. Valid(config) /\ d.rules = config.rules /\ d.mappings = config.mappings
    BY <1>4 DEF Savable
  <2>4. QED
    BY ONLY <2>1, <2>2, <2>3, FewerShortcuts
<1>11. QED
  BY <1>5, <1>10 DEF d, r

\* set_function_enabled creates no conflict.
LEMMA SwitchKeepsValid ==
  ASSUME Shape, Savable, NEW f \in Function, NEW enabled \in BOOLEAN
  PROVE  LET d == [config EXCEPT !.functions[f].enabled = enabled]
         IN Valid(d) /\ d.functions \in [Function -> [enabled : BOOLEAN, shortcuts : Lists]]
<1> DEFINE d == [config EXCEPT !.functions[f].enabled = enabled]
           Old == [g \in Function |-> [i \in Slot |-> i]]
<1>1. \A g \in Function : config.functions[g] \in [enabled : BOOLEAN, shortcuts : Lists]
  BY DEF Shape
<1>2. /\ d.rules = config.rules /\ d.mappings = config.mappings
      /\ d.functions = [config.functions EXCEPT ![f].enabled = enabled]
  BY DEF Shape
<1>3. d.functions \in [Function -> [enabled : BOOLEAN, shortcuts : Lists]]
  BY <1>1, <1>2 DEF Shape
<1>4. \A g \in Function : d.functions[g].shortcuts = config.functions[g].shortcuts
  BY <1>1, <1>2 DEF Shape
<1>5. \A g \in Function : \A i \in DOMAIN d.functions[g].shortcuts : i \in Slot
  BY <1>1, <1>4 DEF Lists, Slot, MAX_SHORTCUTS_PER_FUNCTION
<1>6. \A g \in Function : \A i \in DOMAIN d.functions[g].shortcuts : Old[g][i] = i
  BY <1>5
<1> HIDE DEF d, Old
<1>7. Valid(d)
  <2>1. \A g \in Function : \A i \in DOMAIN d.functions[g].shortcuts :
          /\ i \in Slot
          /\ Old[g][i] \in DOMAIN config.functions[g].shortcuts /\ Old[g][i] \in Slot
          /\ d.functions[g].shortcuts[i] = config.functions[g].shortcuts[Old[g][i]]
    BY <1>4, <1>5, <1>6
  <2>2. \A g \in Function : \A i, j \in DOMAIN d.functions[g].shortcuts :
          Old[g][i] = Old[g][j] => i = j
    BY <1>6
  <2>3. Valid(config) /\ d.rules = config.rules /\ d.mappings = config.mappings
    BY <1>2 DEF Savable
  <2>4. QED
    BY ONLY <2>1, <2>2, <2>3, FewerShortcuts
<1>8. QED
  BY <1>3, <1>7 DEF d

-----------------------------------------------------------------------------
(* A recorded shortcut that is not refused can be committed.                *)

\* A slot gets its shortcut, the other slots keep theirs.
LEMMA PlacedInLists ==
  ASSUME NEW s \in Lists, NEW slot \in Slot, slot <= Len(s) + 1, NEW shortcut \in Shortcut
  PROVE  /\ Placed(s, slot, shortcut) \in Lists
         /\ DOMAIN Placed(s, slot, shortcut) = DOMAIN s \union {slot}
         /\ Placed(s, slot, shortcut)[slot] = shortcut
         /\ \A i \in DOMAIN s \ {slot} : Placed(s, slot, shortcut)[i] = s[i]
<1>1. s \in Seq(Shortcut) /\ Len(s) \in Nat /\ Len(s) <= 2 /\ DOMAIN s = 1..Len(s)
  BY DEF Lists
<1>2. slot \in 1..2
  BY DEF Slot, MAX_SHORTCUTS_PER_FUNCTION
<1>3. CASE slot = Len(s) + 1
  <2>1. Placed(s, slot, shortcut) = Append(s, shortcut)
    BY <1>3 DEF Placed
  <2>2. /\ Append(s, shortcut) \in Seq(Shortcut)
        /\ Len(Append(s, shortcut)) = Len(s) + 1 /\ DOMAIN Append(s, shortcut) = 1..(Len(s) + 1)
        /\ Append(s, shortcut)[Len(s) + 1] = shortcut
        /\ \A i \in 1..Len(s) : Append(s, shortcut)[i] = s[i]
    BY <1>1
  <2>3. Len(s) + 1 <= 2
    BY <1>1, <1>2, <1>3
  <2>4. 1..(Len(s) + 1) = 1..Len(s) \union {slot}
    BY <1>1, <1>3
  <2>5. QED
    BY <1>1, <1>3, <2>1, <2>2, <2>3, <2>4 DEF Lists
<1>4. CASE slot # Len(s) + 1
  <2>1. slot \in 1..Len(s)
    BY <1>1, <1>2, <1>4
  <2>2. Placed(s, slot, shortcut) = [s EXCEPT ![slot] = shortcut]
    BY <1>4 DEF Placed
  <2>3. QED
    BY <1>1, <2>1, <2>2 DEF Lists
<1>5. QED
  BY <1>3, <1>4

\* What replace_shortcut does to the settings.
LEMMA ReplacedShape ==
  ASSUME Shape, NEW f \in Function, NEW slot, Fits(config, f, slot), NEW shortcut \in Shortcut
  PROVE  LET d == Replaced(config, f, slot, shortcut)
             s == config.functions[f].shortcuts
             r == Placed(s, slot, shortcut)
         IN /\ s \in Lists /\ slot \in Slot /\ slot <= Len(s) + 1
            /\ d = [functions |-> [config.functions EXCEPT ![f].shortcuts = r],
                    rules |-> config.rules, mappings |-> config.mappings]
            /\ d.functions \in [Function -> [enabled : BOOLEAN, shortcuts : Lists]]
            /\ d.functions[f].shortcuts = r
            /\ \A g \in Function \ {f} : d.functions[g].shortcuts = config.functions[g].shortcuts
<1> DEFINE s == config.functions[f].shortcuts
           r == Placed(s, slot, shortcut)
           d == Replaced(config, f, slot, shortcut)
<1>1. \A g \in Function : config.functions[g] \in [enabled : BOOLEAN, shortcuts : Lists]
  BY DEF Shape
<1>2. s \in Lists /\ slot \in Slot /\ slot <= Len(s) + 1
  BY <1>1 DEF Fits
<1>3. r \in Lists
  BY <1>2, PlacedInLists
<1> HIDE DEF r
<1>4. d = [functions |-> [config.functions EXCEPT ![f].shortcuts = r],
           rules |-> config.rules, mappings |-> config.mappings]
  BY DEF Replaced, WithShortcuts, Shape, r
<1>5. d.functions = [config.functions EXCEPT ![f].shortcuts = r]
  BY <1>4
<1>6. d.functions \in [Function -> [enabled : BOOLEAN, shortcuts : Lists]]
  BY <1>1, <1>3, <1>5 DEF Shape
<1>7. /\ d.functions[f].shortcuts = r
      /\ \A g \in Function \ {f} : d.functions[g].shortcuts = config.functions[g].shortcuts
  BY <1>1, <1>5 DEF Shape
<1>8. QED
  BY <1>2, <1>4, <1>6, <1>7 DEF r

\* submit_capture refuses every shortcut that replace_shortcut would refuse.
LEMMA NotRefusedCommits ==
  ASSUME Shape, Savable, NEW f \in Function, NEW slot, Fits(config, f, slot),
         NEW shortcut \in Shortcut, ~Refused(config, f, slot, shortcut)
  PROVE  Valid(Replaced(config, f, slot, shortcut))
<1> DEFINE d == Replaced(config, f, slot, shortcut)
           s == config.functions[f].shortcuts
           r == Placed(s, slot, shortcut)
<1>1. /\ s \in Lists /\ slot \in Slot /\ slot <= Len(s) + 1
      /\ d = [functions |-> [config.functions EXCEPT ![f].shortcuts = r],
              rules |-> config.rules, mappings |-> config.mappings]
      /\ d.functions[f].shortcuts = r
      /\ \A g \in Function \ {f} : d.functions[g].shortcuts = config.functions[g].shortcuts
  BY ReplacedShape
<1>2. DOMAIN r = DOMAIN s \union {slot} /\ r[slot] = shortcut /\ \A i \in DOMAIN s \ {slot} : r[i] = s[i]
  BY <1>1, PlacedInLists
<1>3. d.rules = config.rules /\ d.mappings = config.mappings
  BY <1>1
<1> HIDE DEF d, r
<1>4. \A g \in Function : \A i \in DOMAIN d.functions[g].shortcuts :
        IF <<g, i>> = <<f, slot>> THEN d.functions[g].shortcuts[i] = shortcut
        ELSE /\ i \in DOMAIN config.functions[g].shortcuts
             /\ d.functions[g].shortcuts[i] = config.functions[g].shortcuts[i]
  BY <1>1, <1>2
<1>5. ~Duplicate(config, f, slot, shortcut) /\ ~DuplicateMapping(config, f, shortcut)
  BY DEF Refused
<1>6. RulesValid(config.rules) /\ ~FunctionConflict(config) /\ ~Conflict(config)
  BY DEF Savable, Valid, ValidBindings
<1>7. ~FunctionConflict(d)
  <2> SUFFICES ASSUME NEW g \in Function, NEW h \in Function,
                      NEW i \in DOMAIN d.functions[g].shortcuts,
                      NEW j \in DOMAIN d.functions[h].shortcuts, <<g, i>> # <<h, j>>,
                      d.functions[g].shortcuts[i] = d.functions[h].shortcuts[j],
                      Overlaps(config.rules, g, h)
               PROVE  FALSE
    BY <1>3 DEF FunctionConflict
  <2>1. CASE <<g, i>> = <<f, slot>>
    BY <1>4, <1>5, <2>1 DEF Duplicate
  <2>2. CASE <<h, j>> = <<f, slot>>
    <3>1. Overlaps(config.rules, f, g)
      BY <2>2, OverlapsSymmetric
    <3>2. QED
      BY <1>4, <1>5, <2>2, <3>1 DEF Duplicate
  <2>3. CASE <<g, i>> # <<f, slot>> /\ <<h, j>> # <<f, slot>>
    BY <1>4, <1>6, <2>3 DEF FunctionConflict
  <2>4. QED
    BY <2>1, <2>2, <2>3
<1>8. \A a \in Entries(d) :
        \/ /\ a.kind = "function" /\ a.id = f /\ a.slot = slot
           /\ ShortcutOf(d, a) = shortcut /\ GroupsOf(d, a) = Assigned(config.rules, f)
        \/ /\ a \in Entries(config)
           /\ ShortcutOf(d, a) = ShortcutOf(config, a) /\ GroupsOf(d, a) = GroupsOf(config, a)
  BY <1>3, <1>4 DEF Entries, Entry, ShortcutsOf, ShortcutOf, GroupsOf
<1>9. ASSUME NEW a \in Entries(d), a.kind = "function", a.id = f, a.slot = slot, NEW b \in Entries(d), a # b,
             ShortcutOf(d, b) = shortcut,
             ScopesOverlap(config.rules, Assigned(config.rules, f), GroupsOf(d, b))
      PROVE  FALSE
  <2>1. CASE b.kind = "function"
    <3>1. b.id \in Function /\ b.slot \in DOMAIN d.functions[b.id].shortcuts
          /\ GroupsOf(d, b) = Assigned(config.rules, b.id) /\ d.functions[b.id].shortcuts[b.slot] = shortcut
      BY <1>3, <1>9, <2>1 DEF Entries, Entry, GroupsOf, ShortcutOf, ShortcutsOf
    <3>2. <<b.id, b.slot>> # <<f, slot>>
      BY <1>9, <2>1 DEF Entries, Entry
    <3>3. Overlaps(config.rules, f, b.id)
      BY <1>6, <1>9, <3>1, OverlapsAgree
    <3>4. QED
      BY <1>4, <1>5, <3>1, <3>2, <3>3 DEF Duplicate
  <2>2. CASE b.kind # "function"
    <3>1. /\ b.kind = "mapping" /\ b.id \in DOMAIN config.mappings
          /\ b.slot \in DOMAIN config.mappings[b.id].shortcuts
          /\ config.mappings[b.id].shortcuts[b.slot] = shortcut
          /\ GroupsOf(d, b) = config.mappings[b.id].groups
      BY <1>3, <1>9, <2>2 DEF Entries, Entry, GroupsOf, ShortcutOf, ShortcutsOf
    <3>2. QED
      BY <1>5, <1>9, <3>1 DEF DuplicateMapping
  <2>3. QED
    BY <2>1, <2>2
<1>10. ~Conflict(d)
  <2> SUFFICES ASSUME NEW a \in Entries(d), NEW b \in Entries(d), a # b,
                      ShortcutOf(d, a) = ShortcutOf(d, b),
                      ScopesOverlap(config.rules, GroupsOf(d, a), GroupsOf(d, b))
               PROVE  FALSE
    BY <1>3 DEF Conflict
  <2>1. ScopesOverlap(config.rules, GroupsOf(d, b), GroupsOf(d, a))
    BY ScopesOverlapSymmetric
  <2>2. CASE a.kind = "function" /\ a.id = f /\ a.slot = slot
    <3>1. ShortcutOf(d, a) = shortcut /\ GroupsOf(d, a) = Assigned(config.rules, f)
      BY <1>3, <1>4, <2>2 DEF Entries, GroupsOf, ShortcutOf, ShortcutsOf
    <3>2. QED
      BY <1>9, <2>2, <3>1
  <2>3. CASE b.kind = "function" /\ b.id = f /\ b.slot = slot
    <3>1. ShortcutOf(d, b) = shortcut /\ GroupsOf(d, b) = Assigned(config.rules, f)
      BY <1>3, <1>4, <2>3 DEF Entries, GroupsOf, ShortcutOf, ShortcutsOf
    <3>2. QED
      BY <1>9, <2>1, <2>3, <3>1
  <2>4. CASE /\ ~(a.kind = "function" /\ a.id = f /\ a.slot = slot)
             /\ ~(b.kind = "function" /\ b.id = f /\ b.slot = slot)
    <3>1. /\ a \in Entries(config) /\ b \in Entries(config)
          /\ ShortcutOf(config, a) = ShortcutOf(config, b)
          /\ ScopesOverlap(config.rules, GroupsOf(config, a), GroupsOf(config, b))
      BY <1>8, <2>4
    <3>2. QED
      BY <1>6, <3>1 DEF Conflict
  <2>5. QED
    BY <2>2, <2>3, <2>4
<1>11. QED
  BY <1>3, <1>6, <1>7, <1>10 DEF Valid, ValidBindings, MappingValid, Savable, d

\* A draft that is complete and shows no conflict at any slot can be saved.
LEMMA CleanDraftSaves ==
  ASSUME Shape, Savable, NEW id \in Id, NEW draft, MappingValid(config, draft),
         \A slot \in DOMAIN draft.shortcuts :
           ~ShortcutConflict(config, id, draft, slot, draft.shortcuts[slot])
  PROVE  Valid([config EXCEPT !.mappings =
                  [other \in DOMAIN @ \union {id} |-> IF other = id THEN draft ELSE @[other]]])
<1> DEFINE mappings == [other \in DOMAIN config.mappings \union {id} |->
                          IF other = id THEN draft ELSE config.mappings[other]]
           d == [config EXCEPT !.mappings = mappings]
           Mine(e) == e.kind = "mapping" /\ e.id = id
<1>1. d.functions = config.functions /\ d.rules = config.rules /\ d.mappings = mappings
  BY DEF Shape
<1> HIDE DEF d
<1>2. /\ RulesValid(config.rules) /\ ~FunctionConflict(config) /\ ~Conflict(config)
      /\ \A other \in DOMAIN config.mappings : MappingValid(config, config.mappings[other])
  BY DEF Savable, Valid, ValidBindings
<1>3. ValidBindings(d)
  BY <1>1, <1>2 DEF ValidBindings, FunctionConflict
<1>4. \A other \in DOMAIN d.mappings : MappingValid(d, d.mappings[other])
  BY <1>1, <1>2 DEF MappingValid
<1>5. ASSUME NEW a \in Entries(d), NEW b \in Entries(d), Mine(a), a # b,
             ShortcutOf(d, a) = ShortcutOf(d, b),
             ScopesOverlap(config.rules, GroupsOf(d, a), GroupsOf(d, b))
      PROVE  FALSE
  <2>1. /\ a.slot \in DOMAIN draft.shortcuts /\ ShortcutOf(d, a) = draft.shortcuts[a.slot]
        /\ GroupsOf(d, a) = draft.groups
    BY <1>1, <1>5 DEF Entries, Entry, ShortcutsOf, ShortcutOf, GroupsOf
  <2>2. ~ShortcutConflict(config, id, draft, a.slot, draft.shortcuts[a.slot])
    BY <2>1
  <2>3. CASE b.kind = "function"
    <3>1. /\ b.id \in Function /\ b.slot \in DOMAIN config.functions[b.id].shortcuts
          /\ config.functions[b.id].shortcuts[b.slot] = draft.shortcuts[a.slot]
          /\ GroupsOf(d, b) = Assigned(config.rules, b.id)
      BY <1>1, <1>5, <2>1, <2>3 DEF Entries, Entry, ShortcutsOf, ShortcutOf, GroupsOf
    <3>2. QED
      BY <1>5, <2>1, <2>2, <3>1 DEF ShortcutConflict
  <2>4. CASE Mine(b)
    <3>1. b.slot \in DOMAIN draft.shortcuts /\ draft.shortcuts[b.slot] = draft.shortcuts[a.slot]
      BY <1>1, <1>5, <2>1, <2>4 DEF Entries, Entry, ShortcutsOf, ShortcutOf
    <3>2. b.slot # a.slot
      BY <1>5, <2>4 DEF Entries, Entry
    <3>3. QED
      BY <2>2, <3>1, <3>2 DEF ShortcutConflict
  <2>5. CASE b.kind # "function" /\ ~Mine(b)
    <3>1. /\ b.id \in DOMAIN config.mappings \ {id}
          /\ b.slot \in DOMAIN config.mappings[b.id].shortcuts
          /\ config.mappings[b.id].shortcuts[b.slot] = draft.shortcuts[a.slot]
          /\ GroupsOf(d, b) = config.mappings[b.id].groups
      BY <1>1, <1>5, <2>1, <2>5 DEF Entries, Entry, ShortcutsOf, ShortcutOf, GroupsOf
    <3>2. QED
      BY <1>5, <2>1, <2>2, <3>1 DEF ShortcutConflict
  <2>6. QED
    BY <2>3, <2>4, <2>5
<1>6. ~Conflict(d)
  <2> SUFFICES ASSUME NEW a \in Entries(d), NEW b \in Entries(d), a # b,
                      ShortcutOf(d, a) = ShortcutOf(d, b),
                      ScopesOverlap(config.rules, GroupsOf(d, a), GroupsOf(d, b))
               PROVE  FALSE
    BY <1>1 DEF Conflict
  <2>1. CASE Mine(a)
    BY <1>5, <2>1
  <2>2. CASE Mine(b)
    BY <1>5, <2>2, ScopesOverlapSymmetric
  <2>3. CASE ~Mine(a) /\ ~Mine(b)
    <3>1. \A e \in {a, b} : /\ e \in Entries(config) /\ ShortcutOf(d, e) = ShortcutOf(config, e)
                            /\ GroupsOf(d, e) = GroupsOf(config, e)
      BY <1>1, <2>3 DEF Entries, Entry, ShortcutsOf, ShortcutOf, GroupsOf
    <3>2. QED
      BY <1>2, <3>1 DEF Conflict
  <2>4. QED
    BY <2>1, <2>2, <2>3
<1>7. Valid(d)
  BY <1>3, <1>4, <1>6 DEF Valid
<1>8. QED
  BY <1>7 DEF d

\* Whatever is valid now, the three tests agree on what may come next.
LEMMA InvGivesChecksAgree ==
  ASSUME Inv
  PROVE  ChecksAgree
<1>1. ASSUME capture.kind = "function", NEW shortcut \in Shortcut,
             ~Refused(config, capture.id, capture.slot, shortcut)
      PROVE  CanCommit(config, capture.id, capture.slot, shortcut)
  <2>1. capture.id \in Function /\ Fits(config, capture.id, capture.slot)
    BY <1>1 DEF Inv, CaptureFits
  <2>2. QED
    BY <1>1, <2>1, NotRefusedCommits DEF Inv, CanCommit
<1>2. ASSUME NEW list \in Drafts, NEW id \in Id, MappingValid(config, list[id]),
             \A slot \in DOMAIN list[id].shortcuts :
               ~ShortcutConflict(config, id, list[id], slot, list[id].shortcuts[slot])
      PROVE  Valid([config EXCEPT !.mappings =
               [other \in DOMAIN @ \union {id} |-> IF other = id THEN list[id] ELSE @[other]]])
  BY <1>2, CleanDraftSaves DEF Inv
<1>3. QED
  BY <1>1, <1>2 DEF ChecksAgree

-----------------------------------------------------------------------------
(* The invariant.                                                           *)

LEMMA InitInv == BindingsInit => Inv
<1> SUFFICES ASSUME BindingsInit PROVE Inv
  OBVIOUS
<1>1. Shape
  BY DEF BindingsInit, Shape, Lists
<1>2. \A f \in Function : DOMAIN config.functions[f].shortcuts = {}
  BY DEF BindingsInit
<1>3. DOMAIN config.rules.assignments = {} /\ DOMAIN config.mappings = {}
  BY DEF BindingsInit, NoEntries
<1>4. Entries(config) = {}
  BY <1>2, <1>3 DEF Entries, Entry, ShortcutsOf
<1>5. Valid(config)
  BY <1>2, <1>3, <1>4 DEF Valid, ValidBindings, RulesValid, FunctionConflict, Conflict
<1>6. QED
  BY <1>1, <1>5 DEF Inv, Savable, CaptureFits, BindingsInit, None

LEMMA NextInv == Inv /\ [BindingsNext]_settings => Inv'
<1> SUFFICES ASSUME Inv, [BindingsNext]_settings PROVE Inv'
  OBVIOUS
<1> USE DEF Inv
<1>1. CASE UNCHANGED settings
  BY <1>1 DEF settings, Shape, Savable, CaptureFits
<1>2. ASSUME UNCHANGED config, capture'.kind # "function" PROVE Inv'
  BY <1>2 DEF Shape, Savable, CaptureFits
<1>3. None.kind # "function"
  BY DEF None
<1>4. CASE BeginCapture
  BY <1>4 DEF BeginCapture, Shape, Savable, CaptureFits
<1>5. CASE BeginCustomCapture
  BY <1>2, <1>5 DEF BeginCustomCapture
<1>6. CASE CancelCapture
  BY <1>2, <1>3, <1>6 DEF CancelCapture, FinishRecording
<1>7. CASE DeleteShortcut
  <2>1. PICK f \in Function, slot \in Slot :
          /\ slot <= Len(config.functions[f].shortcuts)
          /\ config' = WithShortcuts(config, f, RemoveAt(config.functions[f].shortcuts, slot))
          /\ FinishRecording
    BY <1>7 DEF DeleteShortcut
  <2>2. slot \in DOMAIN config.functions[f].shortcuts
    <3>1. config.functions[f].shortcuts \in Lists
      BY DEF Shape
    <3>2. /\ DOMAIN config.functions[f].shortcuts = 1..Len(config.functions[f].shortcuts)
          /\ Len(config.functions[f].shortcuts) \in Nat
      BY <3>1 DEF Lists
    <3>3. QED
      BY <2>1, <3>2 DEF Slot, MAX_SHORTCUTS_PER_FUNCTION
  <2>3. Valid(config') /\ config'.functions \in [Function -> [enabled : BOOLEAN, shortcuts : Lists]]
    BY <2>1, <2>2, DeleteKeepsValid
  <2>4. config' = [functions |-> config'.functions, rules |-> config'.rules, mappings |-> config'.mappings]
    BY <2>1 DEF Shape, WithShortcuts
  <2>5. QED
    BY <1>3, <2>1, <2>3, <2>4 DEF Shape, Savable, CaptureFits, FinishRecording
<1>8. CASE SetFunctionEnabled
  <2>1. PICK f \in Function, enabled \in BOOLEAN :
          config' = [config EXCEPT !.functions[f].enabled = enabled] /\ FinishRecording
    BY <1>8 DEF SetFunctionEnabled
  <2>2. Valid(config') /\ config'.functions \in [Function -> [enabled : BOOLEAN, shortcuts : Lists]]
    BY <2>1, SwitchKeepsValid
  <2>3. config' = [functions |-> config'.functions, rules |-> config'.rules, mappings |-> config'.mappings]
    BY <2>1 DEF Shape
  <2>4. QED
    BY <1>3, <2>1, <2>2, <2>3 DEF Shape, Savable, CaptureFits, FinishRecording
<1>9. CASE SubmitFunction
  <2>1. PICK shortcut \in Shortcut :
          /\ CanCommit(config, capture.id, capture.slot, shortcut)
          /\ config' = Replaced(config, capture.id, capture.slot, shortcut) /\ FinishRecording
    BY <1>9 DEF SubmitFunction
  <2>2. capture.id \in Function /\ Fits(config, capture.id, capture.slot)
    BY <1>9 DEF SubmitFunction, CaptureFits
  <2>3. /\ config'.functions \in [Function -> [enabled : BOOLEAN, shortcuts : Lists]]
        /\ config' = [functions |-> config'.functions, rules |-> config'.rules, mappings |-> config'.mappings]
    BY <2>1, <2>2, ReplacedShape
  <2>4. Valid(config')
    BY <2>1 DEF CanCommit
  <2>5. QED
    BY <1>3, <2>1, <2>3, <2>4 DEF Shape, Savable, CaptureFits, FinishRecording
<1>10. CASE SubmitDraft
  BY <1>2, <1>3, <1>10 DEF SubmitDraft, FinishRecording
<1>11. ASSUME NEW c, Save(c), c.functions = config.functions,
              c = [functions |-> c.functions, rules |-> c.rules, mappings |-> c.mappings]
       PROVE  Inv'
  BY <1>11 DEF Save, Shape, Savable, CaptureFits, Fits
<1>12. CASE SaveScope
  <2>1. PICK f \in Function, groups \in SUBSET Group :
          Save([config EXCEPT !.rules = Scoped(@, f, groups)])
    BY <1>12 DEF SaveScope
  <2> DEFINE c == [config EXCEPT !.rules = Scoped(@, f, groups)]
  <2>2. /\ c.functions = config.functions
        /\ c = [functions |-> c.functions, rules |-> c.rules, mappings |-> c.mappings]
    BY DEF Shape
  <2>3. QED
    BY <1>11, <2>1, <2>2
<1>13. CASE SaveRules
  <2>1. PICK rules \in RuleSets :
          Save([config EXCEPT !.rules = rules, !.mappings = Retained(@, rules)])
    BY <1>13 DEF SaveRules
  <2> DEFINE half == [config EXCEPT !.rules = rules]
             c == [half EXCEPT !.mappings = Retained(config.mappings, rules)]
  <2>2. half = [functions |-> config.functions, rules |-> rules, mappings |-> config.mappings]
    BY DEF Shape
  <2>3. Save(c)
    BY <2>1
  <2> HIDE DEF half
  <2>4. c = [functions |-> config.functions, rules |-> rules,
             mappings |-> Retained(config.mappings, rules)]
    BY <2>2
  <2> HIDE DEF c
  <2>5. QED
    BY <1>11, <2>3, <2>4
<1>14. CASE SaveMappings
  <2>1. PICK list \in Drafts : Save([config EXCEPT !.mappings = list])
    BY <1>14 DEF SaveMappings
  <2> DEFINE c == [config EXCEPT !.mappings = list]
  <2>2. /\ c.functions = config.functions
        /\ c = [functions |-> c.functions, rules |-> c.rules, mappings |-> c.mappings]
    BY DEF Shape
  <2>3. Save(c)
    BY <2>1
  <2> HIDE DEF c
  <2>4. QED
    BY <1>11, <2>2, <2>3
<1>15. QED
  BY <1>1, <1>4, <1>5, <1>6, <1>7, <1>8, <1>9, <1>10, <1>12, <1>13, <1>14 DEF BindingsNext

LEMMA AlwaysInv == BindingsSpec => []Inv
BY InitInv, NextInv, PTL DEF BindingsSpec

\* Whatever application is in front, no shortcut ever starts two rules.
THEOREM NeverAmbiguous == BindingsSpec => []Unambiguous
<1>1. Inv => Unambiguous
  BY ValidIsUnambiguous DEF Inv, Savable
<1>2. QED
  BY <1>1, AlwaysInv, PTL

\* The settings can be saved after every edit, also after those that nothing checks.
THEOREM AlwaysSavable == BindingsSpec => []Savable
<1>1. Inv => Savable
  BY DEF Inv
<1>2. QED
  BY <1>1, AlwaysInv, PTL

\* What the recording and the editor of mappings accept, a commit and a save accept.
THEOREM ChecksAlwaysAgree == BindingsSpec => []ChecksAgree
<1>1. Inv => ChecksAgree
  BY InvGivesChecksAgree
<1>2. QED
  BY <1>1, AlwaysInv, PTL
=============================================================================
