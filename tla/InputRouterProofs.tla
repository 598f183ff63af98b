------------------------- MODULE InputRouterProofs -------------------------
(***************************************************************************)
(* Proofs about InputRouter for every set of codes, functions, bindings,   *)
(* mappings and rules.                                                     *)
(***************************************************************************)
EXTENDS InputRouter, FiniteSetTheorems, WellFoundedInduction, TLAPS

(***************************************************************************)
(* Ownership.  OneOwner and NothingStuck are inductive together once it is *)
(* known that recording captures nothing: under recording route_edge sends *)
(* an edge to normal_input without asking whether a shortcut or a mapping  *)
(* holds the code.                                                         *)
(***************************************************************************)
NothingWhileRecording ==
  recording => DOMAIN active = {} /\ DOMAIN mapping_active = {}

OwnershipInv ==
  /\ physical \subseteq Codes
  /\ OneOwner
  /\ NothingStuck
  /\ NothingWhileRecording

(***************************************************************************)
(* The promise of KeyOwnership, step by step: an edge moves its own key,   *)
(* and every other key keeps its owner unless a captured press is taken    *)
(* away; a change of mode takes captured presses away, or all keys.        *)
(***************************************************************************)
Captured == DOMAIN active \cup DOMAIN mapping_active

\* The key keeps its owner, unless it is one of the captured presses of S.
Keeps(key, S) ==
  /\ key \in physical' <=> key \in physical
  /\ key \in local_held' <=> key \in local_held
  /\ key \in remote' <=> key \in remote
  /\ key \in Captured' <=> key \in Captured \ S

\* A press of the key gives it an owner, a release takes its owner away.
Turns(key) ==
  \/ key \notin physical /\ key \in physical' /\ key \notin suppressed_until_up'
  \/ key \in physical /\ key \notin physical'

EdgeOf(code, S) ==
  /\ S \subseteq Captured
  /\ \A key \in Codes \ {code} : Keeps(key, S)
  /\ Keeps(code, S) \/ Turns(code)

FollowsEdge(code) == \E S : EdgeOf(code, S)

TakesAway ==
  \/ \E S \in SUBSET Captured : \A key \in Codes : Keeps(key, S)
  \/ physical' = physical /\ suppressed_until_up' = physical

\* Owner in terms of the sets it stands for
OwnerIs(key) ==
  /\ Owner[key] = "local" <=> key \in local_held
  /\ Owner[key] = "remote" <=> key \in remote
  /\ Owner[key] = "captured" <=> key \in Captured
  /\ Owner[key] = "suppressed" <=> key \in suppressed_until_up
  /\ Owner[key] = "up" <=> key \notin physical
  /\ Owner[key] \in {"up", "local", "remote", "captured", "suppressed"}

LEMMA OwnerNow ==
  ASSUME OneOwner, NEW key \in Codes
  PROVE  OwnerIs(key)
BY DEF OneOwner, OwnerIs, Owner, Captured

LEMMA OwnerNext ==
  ASSUME OneOwner', NEW key \in Codes
  PROVE  OwnerIs(key)'
BY DEF OneOwner, OwnerIs, Owner, Captured

LEMMA KeptOwner ==
  ASSUME OneOwner, OneOwner', NEW key \in Codes, NEW S \in SUBSET Captured, Keeps(key, S)
  PROVE  Owner'[key] = IF key \in S THEN "suppressed" ELSE Owner[key]
<1>1. OwnerIs(key) /\ OwnerIs(key)'
  BY OwnerNow, OwnerNext
<1>2. key \in S => key \in Captured /\ key \in physical
  BY DEF OneOwner, Captured
<1>3. CASE key \in S
  <2>1. key \in physical' /\ key \notin Captured' /\ key \notin local_held' /\ key \notin remote'
    BY <1>1, <1>2, <1>3 DEF Keeps, OneOwner, Captured
  <2>2. key \in suppressed_until_up'
    BY <2>1 DEF OneOwner, Captured
  <2>3. QED
    BY <1>1, <1>3, <2>2 DEF OwnerIs
<1>4. CASE key \notin S
  <2>1. key \in suppressed_until_up' <=> key \in suppressed_until_up
    BY <1>4 DEF Keeps, OneOwner, Captured
  <2>2. QED
    BY <1>1, <1>4, <2>1 DEF OwnerIs, Keeps
<1>5. QED
  BY <1>3, <1>4

\* Owner is a function of the codes, before and after.
LEMMA OwnerFunction ==
  /\ Owner = [key \in Codes |-> Owner[key]]
  /\ Owner' = [key \in Codes |-> Owner'[key]]
BY DEF Owner

LEMMA CancelledOwners ==
  ASSUME OneOwner, OneOwner', TakesAway
  PROVE  Ownership!Next
<1>1. CASE \E S \in SUBSET Captured : \A key \in Codes : Keeps(key, S)
  <2>1. PICK S \in SUBSET Captured : \A key \in Codes : Keeps(key, S)
    BY <1>1
  <2>2. \A key \in Codes : Owner'[key] = IF key \in S THEN "suppressed" ELSE Owner[key]
    BY <2>1, KeptOwner
  <2>3. S \cap Codes \in SUBSET Ownership!Of("captured")
    BY OwnerNow DEF Ownership!Of, OwnerIs
  <2>4. Ownership!Cancel(S \cap Codes)
    BY <2>2, OwnerFunction DEF Ownership!Cancel
  <2>5. QED
    BY <2>3, <2>4 DEF Ownership!Next
<1>2. CASE physical' = physical /\ suppressed_until_up' = physical
  <2>1. \A key \in Codes : Owner'[key] = IF Owner[key] = "up" THEN "up" ELSE "suppressed"
    BY <1>2, OwnerNow, OwnerNext DEF OwnerIs
  <2>2. Ownership!Isolate
    BY <2>1, OwnerFunction DEF Ownership!Isolate
  <2>3. QED
    BY <2>2 DEF Ownership!Next
<1>3. QED
  BY <1>1, <1>2 DEF TakesAway

LEMMA EdgeOwners ==
  ASSUME OneOwner, OneOwner', NEW code \in Codes, FollowsEdge(code)
  PROVE  Ownership!Next
<1>1. PICK S : EdgeOf(code, S)
  BY DEF FollowsEdge
<1>2. OwnerIs(code) /\ OwnerIs(code)' /\ S \subseteq Captured
  BY <1>1, OwnerNow, OwnerNext DEF EdgeOf
<1>3. CASE Keeps(code, S)
  <2>1. \A key \in Codes : Keeps(key, S)
    BY <1>1, <1>3 DEF EdgeOf
  <2>2. TakesAway
    BY <1>2, <2>1 DEF TakesAway
  <2>3. QED
    BY <2>2, CancelledOwners
<1>4. CASE Turns(code)
  <2> DEFINE T == (S \cap Codes) \ {code}
             to == Owner'[code]
  <2>1. T \in SUBSET Ownership!Of("captured")
    BY <1>2, OwnerNow DEF Ownership!Of, OwnerIs
  <2>2. \A key \in Codes \ {code} : Owner'[key] = IF key \in S THEN "suppressed" ELSE Owner[key]
    BY <1>1, <1>2, KeptOwner DEF EdgeOf
  <2>3. Owner' = [key \in Codes |-> IF key = code THEN to
                                    ELSE IF key \in T THEN "suppressed" ELSE Owner[key]]
    BY <2>2, OwnerFunction
  <2>4. Ownership!Hand(code, to, T)
    BY <2>3 DEF Ownership!Hand
  <2>5. CASE Owner[code] = "up"
    <3>1. to \in {"local", "remote", "captured"}
      BY <1>2, <1>4, <2>5 DEF OwnerIs, Turns
    <3>2. Ownership!Press(code)
      BY <2>1, <2>4, <2>5, <3>1 DEF Ownership!Press
    <3>3. QED
      BY <3>2 DEF Ownership!Next
  <2>6. CASE Owner[code] # "up"
    <3>1. to = "up"
      BY <1>2, <1>4, <2>6 DEF OwnerIs, Turns
    <3>2. Ownership!Release(code)
      BY <2>1, <2>4, <2>6, <3>1 DEF Ownership!Release
    <3>3. QED
      BY <3>2 DEF Ownership!Next
  <2>7. QED
    BY <2>5, <2>6
<1>5. QED
  BY <1>1, <1>3, <1>4 DEF EdgeOf

\* The domains of the helpers on partial functions
LEMMA Domains ==
  /\ DOMAIN Empty = {}
  /\ \A f, S : DOMAIN Without(f, S) = DOMAIN f \ S
  /\ \A f, c, v : DOMAIN With(f, c, v) = DOMAIN f \cup {c}
BY DEF Empty, Without, Restrict, With

\* terminate, in both of its uses
LEMMA EndOwnership ==
  ASSUME OwnershipInv, NEW enabled \in BOOLEAN, NEW isolate \in {{}, physical},
         passthrough => isolate = physical, End(enabled, isolate)
  PROVE  /\ DOMAIN active' = {} /\ DOMAIN mapping_active' = {}
         /\ physical' = physical /\ remote' = {} /\ passthrough' = enabled
         /\ suppressed_until_up' = suppressed_until_up \cup DOMAIN mapping_active
                                     \cup DOMAIN active \cup isolate
<1>1. DOMAIN mapping_active' = {}
  BY DEF End, ReleaseMappings, Without, Restrict
<1>2. DOMAIN active' = {}
  BY Domains DEF End
<1>3. remote' = {}
  BY DEF End, OwnershipInv, NothingStuck
<1>4. QED
  BY <1>1, <1>2, <1>3 DEF End

LEMMA TerminateOwnership ==
  ASSUME OwnershipInv, End(FALSE, IF passthrough THEN physical ELSE {}),
         UNCHANGED <<local_held, os>>
  PROVE  OwnershipInv' /\ TakesAway
<1> DEFINE isolate == IF passthrough THEN physical ELSE {}
<1>1. isolate \in {{}, physical} /\ (passthrough => isolate = physical)
  OBVIOUS
<1>2. /\ DOMAIN active' = {} /\ DOMAIN mapping_active' = {}
      /\ physical' = physical /\ remote' = {} /\ passthrough' = FALSE
      /\ suppressed_until_up' = suppressed_until_up \cup DOMAIN mapping_active
                                  \cup DOMAIN active \cup isolate
  BY <1>1, EndOwnership
<1>3. OneOwner'
  BY <1>2 DEF OwnershipInv, OneOwner, NothingStuck
<1>4. passthrough => physical' = physical /\ suppressed_until_up' = physical
  BY <1>2 DEF OwnershipInv, OneOwner
<1>5. ~passthrough => \A key \in Codes : Keeps(key, Captured)
  BY <1>2 DEF OwnershipInv, NothingStuck, Keeps, Captured
<1>6. TakesAway
  BY <1>4, <1>5 DEF TakesAway
<1>7. QED
  BY <1>2, <1>3, <1>6 DEF OwnershipInv, NothingStuck, NothingWhileRecording

LEMMA SwitchOwnership ==
  ASSUME OwnershipInv, NEW enabled \in BOOLEAN, SwitchPassthrough(enabled)
  PROVE  OwnershipInv' /\ TakesAway
<1>1. /\ DOMAIN active' = {} /\ DOMAIN mapping_active' = {}
      /\ physical' = physical /\ remote' = {} /\ passthrough' = enabled
      /\ suppressed_until_up' = suppressed_until_up \cup DOMAIN mapping_active
                                  \cup DOMAIN active \cup physical
  BY EndOwnership DEF SwitchPassthrough
<1>2. local_held' = {} /\ os' = {}
  BY DEF SwitchPassthrough, OwnershipInv, NothingStuck
<1>3. OneOwner'
  BY <1>1, <1>2 DEF OwnershipInv, OneOwner
<1>4. TakesAway
  BY <1>1 DEF OwnershipInv, OneOwner, TakesAway
<1>5. QED
  BY <1>1, <1>2, <1>3, <1>4 DEF OwnershipInv, NothingStuck, NothingWhileRecording

LEMMA CancelOwnership ==
  ASSUME OwnershipInv, NEW captured, NEW holding,
         captured \subseteq DOMAIN active, holding \subseteq DOMAIN mapping_active,
         Cancel(captured, holding)
  PROVE  OwnershipInv' /\ TakesAway
<1>1. /\ DOMAIN active' = DOMAIN active \ captured
      /\ DOMAIN mapping_active' = DOMAIN mapping_active \ holding
      /\ suppressed_until_up' = suppressed_until_up \cup captured \cup holding
      /\ UNCHANGED <<physical, local_held, os, remote, mode_vars>>
  BY Domains DEF Cancel, ReleaseMappings
<1>2. OneOwner'
  BY <1>1 DEF OwnershipInv, OneOwner
<1>3. \A key \in Codes : Keeps(key, captured \cup holding)
  BY <1>1 DEF OwnershipInv, OneOwner, Keeps, Captured
<1>4. captured \cup holding \in SUBSET Captured
  BY DEF Captured
<1>5. TakesAway
  BY <1>3, <1>4 DEF TakesAway
<1>6. QED
  BY <1>1, <1>2, <1>5 DEF OwnershipInv, NothingStuck, NothingWhileRecording, mode_vars

(***************************************************************************)
(* Edges.  EdgeStart says what both routes do first.                       *)
(***************************************************************************)
EdgeStart(code, down, unmatched) ==
  /\ unmatched \subseteq DOMAIN active
  /\ DOMAIN StillActive(code, down) = DOMAIN active \ unmatched
  /\ Suppressed(code, down) = suppressed_until_up \cup unmatched

LEMMA StartOfEdge ==
  ASSUME NEW code, NEW down
  PROVE  EdgeStart(code, down, Unmatched(After(code, down)))
BY Domains DEF EdgeStart, StillActive, Suppressed, Unmatched

\* An edge that goes to normal_input and that nobody else claims
LEMMA NormalOwnership ==
  ASSUME OwnershipInv, NEW code \in Codes, NEW down \in BOOLEAN, UNCHANGED mode_vars,
         Observe(code, down), NormalInput(code, down),
         code \notin Suppressed(code, down),
         code \notin DOMAIN StillActive(code, down),
         code \notin DOMAIN mapping_active,
         Changed(code, down) \/ ~passthrough
  PROVE  OwnershipInv' /\ FollowsEdge(code)
<1> DEFINE U == Unmatched(After(code, down))
<1>1. EdgeStart(code, down, U)
  BY StartOfEdge
<1>2. /\ physical' = IF down THEN physical \cup {code} ELSE physical \ {code}
      /\ DOMAIN active' = DOMAIN active \ U
      /\ suppressed_until_up' = suppressed_until_up \cup U
      /\ mapping_active' = mapping_active
      /\ UNCHANGED <<passthrough, recording>>
  BY <1>1 DEF EdgeStart, Observe, After, Toggled, NormalInput, mode_vars
<1> HIDE DEF U
<1>3. code \notin suppressed_until_up /\ code \notin DOMAIN active /\ code \notin U
  BY <1>1 DEF EdgeStart
<1>4. CASE passthrough
  <2>1. /\ remote' = IF down THEN remote \cup {code} ELSE remote \ {code}
        /\ UNCHANGED <<local_held, os>>
    BY <1>4 DEF NormalInput, Toggled
  <2>2. down => code \notin physical
    BY <1>4 DEF Changed
  <2>3. OneOwner'
    BY <1>1, <1>2, <1>3, <1>4, <2>1, <2>2
    DEF EdgeStart, OwnershipInv, OneOwner, NothingStuck
  <2>4. EdgeOf(code, U)
    BY <1>1, <1>2, <1>3, <1>4, <2>1, <2>2
    DEF EdgeStart, EdgeOf, Keeps, Turns, Captured, OwnershipInv, OneOwner
  <2>5. QED
    BY <1>1, <1>2, <1>4, <2>1, <2>3, <2>4
    DEF EdgeStart, OwnershipInv, NothingStuck, NothingWhileRecording, FollowsEdge
<1>5. CASE ~passthrough
  <2>1. /\ local_held' = IF down THEN local_held \cup {code} ELSE local_held \ {code}
        /\ os' = IF down THEN os \cup {code} ELSE os \ {code}
        /\ remote' = remote /\ remote = {}
    BY <1>5 DEF NormalInput, Toggled, OwnershipInv, NothingStuck
  <2>2. OneOwner'
    BY <1>1, <1>2, <1>3, <2>1 DEF EdgeStart, OwnershipInv, OneOwner
  <2>3. EdgeOf(code, U)
    BY <1>1, <1>2, <1>3, <1>5, <2>1
    DEF EdgeStart, EdgeOf, Keeps, Turns, Captured, OwnershipInv, OneOwner
  <2>4. QED
    BY <1>1, <1>2, <1>5, <2>1, <2>2, <2>3
    DEF EdgeStart, OwnershipInv, NothingStuck, NothingWhileRecording, FollowsEdge
<1>6. QED
  BY <1>4, <1>5

\* An unchanged edge that its owner, or passthrough, swallows
LEMMA RepeatOwnership ==
  ASSUME OwnershipInv, NEW code \in Codes, NEW down \in BOOLEAN, UNCHANGED mode_vars,
         Observe(code, down), ~Changed(code, down),
         UNCHANGED <<mapping_active, local_held, os, remote>>
  PROVE  OwnershipInv' /\ FollowsEdge(code)
<1> DEFINE U == Unmatched(After(code, down))
<1>1. EdgeStart(code, down, U)
  BY StartOfEdge
<1>2. /\ physical' = physical
      /\ DOMAIN active' = DOMAIN active \ U
      /\ suppressed_until_up' = suppressed_until_up \cup U
      /\ UNCHANGED <<passthrough, recording>>
  BY <1>1 DEF EdgeStart, Observe, After, Toggled, Changed, mode_vars
<1> HIDE DEF U
<1>3. OneOwner'
  BY <1>1, <1>2 DEF EdgeStart, OwnershipInv, OneOwner
<1>4. EdgeOf(code, U)
  BY <1>1, <1>2
  DEF EdgeStart, EdgeOf, Keeps, Turns, Captured, OwnershipInv, OneOwner
<1>5. QED
  BY <1>1, <1>2, <1>3, <1>4
  DEF FollowsEdge, EdgeStart, OwnershipInv, NothingStuck, NothingWhileRecording

LEMMA SuppressedOwnership ==
  ASSUME OwnershipInv, NEW code \in Codes, NEW down \in BOOLEAN, UNCHANGED mode_vars,
         Changed(code, down), code \in Suppressed(code, down),
         SuppressedEdge(code, down)
  PROVE  OwnershipInv' /\ FollowsEdge(code)
<1> DEFINE U == Unmatched(After(code, down))
<1>1. EdgeStart(code, down, U)
  BY StartOfEdge
<1>2. /\ physical' = IF down THEN physical \cup {code} ELSE physical \ {code}
      /\ DOMAIN active' = DOMAIN active \ U
      /\ suppressed_until_up' = IF down THEN suppressed_until_up \cup U
                                        ELSE (suppressed_until_up \cup U) \ {code}
      /\ UNCHANGED <<mapping_active, local_held, os, remote, passthrough, recording>>
  BY <1>1 DEF EdgeStart, SuppressedEdge, Consume, After, Toggled, mode_vars
<1> HIDE DEF U
<1>3. code \in suppressed_until_up \cup U
  BY <1>1 DEF EdgeStart
<1>4. OneOwner'
  BY <1>1, <1>2, <1>3 DEF EdgeStart, OwnershipInv, OneOwner
<1>5. EdgeOf(code, U)
  BY <1>1, <1>2, <1>3
  DEF EdgeStart, EdgeOf, Keeps, Turns, Captured, OwnershipInv, OneOwner
<1>6. QED
  BY <1>1, <1>2, <1>4, <1>5
  DEF FollowsEdge, EdgeStart, OwnershipInv, NothingStuck, NothingWhileRecording

LEMMA ActiveOwnership ==
  ASSUME OwnershipInv, NEW code \in Codes, NEW down \in BOOLEAN, UNCHANGED mode_vars,
         code \in DOMAIN StillActive(code, down), ActiveEdge(code, down)
  PROVE  OwnershipInv' /\ FollowsEdge(code)
<1> DEFINE U == Unmatched(After(code, down))
<1>1. EdgeStart(code, down, U)
  BY StartOfEdge
<1>2. /\ physical' = IF down THEN physical \cup {code} ELSE physical \ {code}
      /\ DOMAIN active' = IF down THEN DOMAIN active \ U
                                  ELSE (DOMAIN active \ U) \ {code}
      /\ suppressed_until_up' = suppressed_until_up \cup U
      /\ UNCHANGED <<mapping_active, local_held, os, remote, passthrough, recording>>
  <2>1. CASE down
    BY <1>1, <2>1 DEF EdgeStart, ActiveEdge, After, Toggled, mode_vars
  <2>2. CASE ~down
    <3>1. DOMAIN active' = DOMAIN StillActive(code, down) \ {code}
      BY <2>2 DEF ActiveEdge, Without, Restrict
    <3>2. QED
      BY <1>1, <2>2, <3>1 DEF EdgeStart, ActiveEdge, After, Toggled, mode_vars
  <2>3. QED
    BY <2>1, <2>2
<1> HIDE DEF U
<1>3. code \in DOMAIN active \ U
  BY <1>1 DEF EdgeStart
<1>4. OneOwner'
  BY <1>1, <1>2, <1>3 DEF EdgeStart, OwnershipInv, OneOwner
<1>5. EdgeOf(code, U)
  BY <1>1, <1>2, <1>3
  DEF EdgeStart, EdgeOf, Keeps, Turns, Captured, OwnershipInv, OneOwner
<1>6. QED
  BY <1>1, <1>2, <1>4, <1>5
  DEF FollowsEdge, EdgeStart, OwnershipInv, NothingStuck, NothingWhileRecording

\* A mapped edge; the cancelled repeats are `cancelled` in route_edge and none
\* in route_local_event.
LEMMA MappedOwnership ==
  ASSUME OwnershipInv, NEW code \in Codes, NEW down \in BOOLEAN, UNCHANGED mode_vars,
         code \in DOMAIN mapping_active, MappedEdge(code, down),
         physical' = After(code, down),
         NEW cancelled \in SUBSET DOMAIN active,
         DOMAIN active' = DOMAIN active \ cancelled,
         suppressed_until_up' = suppressed_until_up \cup cancelled
  PROVE  OwnershipInv' /\ FollowsEdge(code)
<1>1. /\ physical' = IF down THEN physical \cup {code} ELSE physical \ {code}
      /\ DOMAIN mapping_active' = IF down THEN DOMAIN mapping_active
                                          ELSE DOMAIN mapping_active \ {code}
      /\ UNCHANGED <<local_held, os, remote, passthrough, recording>>
  <2>1. CASE down
    BY <2>1 DEF MappedEdge, After, Toggled, mode_vars
  <2>2. CASE ~down
    <3>1. DOMAIN mapping_active' = DOMAIN mapping_active \ {code}
      BY <2>2 DEF MappedEdge, ReleaseMappings, Without, Restrict
    <3>2. QED
      BY <2>2, <3>1 DEF MappedEdge, After, Toggled, mode_vars
  <2>3. QED
    BY <2>1, <2>2
<1>2. OneOwner'
  BY <1>1 DEF OwnershipInv, OneOwner
<1>3. EdgeOf(code, cancelled)
  BY <1>1 DEF EdgeOf, Keeps, Turns, Captured, OwnershipInv, OneOwner
<1>4. QED
  BY <1>1, <1>2, <1>3 DEF FollowsEdge, OwnershipInv, NothingStuck, NothingWhileRecording

\* A press that a function or a mapping captures
LEMMA ActivateOwnership ==
  ASSUME OwnershipInv, NEW code \in Codes, UNCHANGED mode_vars, ~recording,
         Changed(code, TRUE), code \notin Suppressed(code, TRUE),
         \/ \E b : Activate(code, b)
         \/ \E m : ActivateMapping(code, m)
  PROVE  OwnershipInv' /\ FollowsEdge(code)
<1> DEFINE U == Unmatched(After(code, TRUE))
<1>1. EdgeStart(code, TRUE, U)
  BY StartOfEdge
<1>2. code \notin physical
  BY DEF Changed
<1>3. CASE \E b : Activate(code, b)
  <2>1. /\ physical' = physical \cup {code}
        /\ DOMAIN active' = (DOMAIN active \ U) \cup {code}
        /\ suppressed_until_up' = suppressed_until_up \cup U
        /\ UNCHANGED <<mapping_active, local_held, os, remote, passthrough, recording>>
    <3>1. PICK b : Activate(code, b)
      BY <1>3
    <3>2. DOMAIN active' = DOMAIN StillActive(code, TRUE) \cup {code}
      BY <3>1 DEF Activate, With
    <3>3. QED
      BY <1>1, <3>1, <3>2 DEF EdgeStart, Activate, After, Toggled, mode_vars
  <2> HIDE DEF U
  <2>2. OneOwner'
    BY <1>1, <1>2, <2>1 DEF EdgeStart, OwnershipInv, OneOwner
  <2>3. EdgeOf(code, U)
    BY <1>1, <1>2, <2>1
    DEF EdgeStart, EdgeOf, Keeps, Turns, Captured, OwnershipInv, OneOwner
  <2>4. QED
    BY <1>1, <2>1, <2>2, <2>3
    DEF FollowsEdge, EdgeStart, OwnershipInv, NothingStuck, NothingWhileRecording
<1>4. CASE \E m : ActivateMapping(code, m)
  <2>1. /\ physical' = physical \cup {code}
        /\ DOMAIN active' = DOMAIN active \ U
        /\ DOMAIN mapping_active' = DOMAIN mapping_active \cup {code}
        /\ suppressed_until_up' = suppressed_until_up \cup U
        /\ UNCHANGED <<local_held, os, remote, passthrough, recording>>
    <3>1. PICK m : ActivateMapping(code, m)
      BY <1>4
    <3>2. DOMAIN mapping_active' = DOMAIN mapping_active \cup {code}
      BY <3>1 DEF ActivateMapping, With
    <3>3. QED
      BY <1>1, <3>1, <3>2
      DEF EdgeStart, ActivateMapping, Observe, After, Toggled, mode_vars
  <2> HIDE DEF U
  <2>2. OneOwner'
    BY <1>1, <1>2, <2>1 DEF EdgeStart, OwnershipInv, OneOwner
  <2>3. EdgeOf(code, U)
    BY <1>1, <1>2, <2>1
    DEF EdgeStart, EdgeOf, Keeps, Turns, Captured, OwnershipInv, OneOwner
  <2>4. QED
    BY <1>1, <2>1, <2>2, <2>3
    DEF FollowsEdge, EdgeStart, OwnershipInv, NothingStuck, NothingWhileRecording
<1>5. QED
  BY <1>3, <1>4

\* The up of a press that the computer got
LEMMA ReleaseLocalOwnership ==
  ASSUME OwnershipInv, NEW code \in Codes, UNCHANGED mode_vars,
         Observe(code, FALSE), code \in local_held,
         local_held' = local_held \ {code}, os' = os \ {code},
         UNCHANGED <<mapping_active, remote>>
  PROVE  OwnershipInv' /\ FollowsEdge(code)
<1> DEFINE U == Unmatched(After(code, FALSE))
<1>1. EdgeStart(code, FALSE, U)
  BY StartOfEdge
<1>2. /\ physical' = physical \ {code}
      /\ DOMAIN active' = DOMAIN active \ U
      /\ suppressed_until_up' = suppressed_until_up \cup U
      /\ UNCHANGED <<mapping_active, passthrough, recording>>
  BY <1>1 DEF EdgeStart, Observe, After, Toggled, mode_vars
<1> HIDE DEF U
<1>3. OneOwner'
  BY <1>1, <1>2 DEF EdgeStart, OwnershipInv, OneOwner
<1>4. EdgeOf(code, U)
  BY <1>1, <1>2
  DEF EdgeStart, EdgeOf, Keeps, Turns, Captured, OwnershipInv, OneOwner
<1>5. QED
  BY <1>1, <1>2, <1>3, <1>4
  DEF FollowsEdge, EdgeStart, OwnershipInv, NothingStuck, NothingWhileRecording

LEMMA UnchangedOwnership ==
  ASSUME OwnershipInv, NEW code \in Codes, NEW down \in BOOLEAN, UNCHANGED mode_vars,
         ~Changed(code, down), UnchangedEdge(code, down)
  PROVE  OwnershipInv' /\ FollowsEdge(code)
<1> DEFINE claimed == \/ passthrough
                      \/ code \in DOMAIN mapping_active
                      \/ code \in DOMAIN StillActive(code, down)
                      \/ code \in Suppressed(code, down)
<1>1. CASE claimed
  <2>1. Observe(code, down) /\ Consume
    BY <1>1 DEF UnchangedEdge
  <2>2. QED
    BY <2>1, RepeatOwnership DEF Consume
<1>2. CASE ~claimed
  <2>1. Observe(code, down) /\ NormalInput(code, down)
    BY <1>2 DEF UnchangedEdge
  <2>2. QED
    BY <1>2, <2>1, NormalOwnership
<1>3. QED
  BY <1>1, <1>2

\* A fresh edge is claimed by nobody, because OneOwner leaves no fifth party.
LEMMA FreshOwnership ==
  ASSUME OwnershipInv, NEW code \in Codes, NEW down \in BOOLEAN, UNCHANGED mode_vars,
         Changed(code, down), ~recording,
         code \notin Suppressed(code, down),
         code \notin DOMAIN mapping_active,
         code \notin DOMAIN StillActive(code, down),
         FreshEdge(code, down)
  PROVE  OwnershipInv' /\ FollowsEdge(code)
<1>1. CASE Observe(code, down) /\ NormalInput(code, down)
  BY <1>1, NormalOwnership
<1>2. CASE down /\ \E b : Activate(code, b)
  BY <1>2, ActivateOwnership
<1>3. CASE down /\ \E m : ActivateMapping(code, m)
  BY <1>3, ActivateOwnership
<1>4. QED
  BY <1>1, <1>2, <1>3 DEF FreshEdge

LEMMA RouteEdgeOwnership ==
  ASSUME OwnershipInv, NEW code \in Codes, NEW down \in BOOLEAN, UNCHANGED mode_vars,
         RouteEdge(code, down)
  PROVE  OwnershipInv' /\ FollowsEdge(code)
<1> DEFINE U == Unmatched(After(code, down))
           owned == code \in DOMAIN mapping_active
           captured == code \in DOMAIN StillActive(code, down)
<1>1. EdgeStart(code, down, U)
  BY StartOfEdge
<1>2. CASE ~Changed(code, down) /\ UnchangedEdge(code, down)
  BY <1>2, UnchangedOwnership
<1>3. CASE /\ Changed(code, down)
           /\ code \in Suppressed(code, down) /\ SuppressedEdge(code, down)
  BY <1>3, SuppressedOwnership
<1>4. CASE /\ Changed(code, down) /\ code \notin Suppressed(code, down)
           /\ recording /\ Observe(code, down) /\ NormalInput(code, down)
  <2>1. ~owned /\ ~captured
    BY <1>1, <1>4 DEF EdgeStart, OwnershipInv, NothingWhileRecording
  <2>2. QED
    BY <1>4, <2>1, NormalOwnership
<1>5. CASE owned /\ Observe(code, down) /\ MappedEdge(code, down)
  <2>1. /\ physical' = After(code, down)
        /\ DOMAIN active' = DOMAIN active \ U
        /\ suppressed_until_up' = suppressed_until_up \cup U
        /\ U \in SUBSET DOMAIN active
    BY <1>1, <1>5 DEF EdgeStart, Observe
  <2> HIDE DEF U
  <2>2. QED
    BY <1>5, <2>1, MappedOwnership
<1>6. CASE captured /\ ActiveEdge(code, down)
  BY <1>6, ActiveOwnership
<1>7. CASE /\ ~down /\ code \in local_held
           /\ Observe(code, down)
           /\ local_held' = local_held \ {code} /\ os' = os \ {code}
           /\ UNCHANGED <<mapping_active, remote>>
  BY <1>7, ReleaseLocalOwnership
<1>8. CASE /\ Changed(code, down) /\ code \notin Suppressed(code, down)
           /\ ~recording /\ ~owned /\ ~captured /\ FreshEdge(code, down)
  BY <1>8, FreshOwnership
<1>9. QED
  BY <1>2, <1>3, <1>4, <1>5, <1>6, <1>7, <1>8 DEF RouteEdge

\* An unchanged edge on the local route: what reaches the computer again is
\* what it already knows.
LEMMA LocalRepeatOwnership ==
  ASSUME OwnershipInv, NEW code \in Codes, NEW down \in BOOLEAN, UNCHANGED mode_vars,
         ~passthrough, code \notin DOMAIN mapping_active,
         ~Changed(code, down), Observe(code, down),
         os' = IF code \in DOMAIN StillActive(code, down) \cup Suppressed(code, down)
                 THEN os ELSE Toggled(os, code, down),
         UNCHANGED <<mapping_active, local_held, remote>>
  PROVE  OwnershipInv' /\ FollowsEdge(code)
<1>1. EdgeStart(code, down, Unmatched(After(code, down)))
  BY StartOfEdge
<1>2. CASE code \in DOMAIN StillActive(code, down) \cup Suppressed(code, down)
  BY <1>2, RepeatOwnership
<1>3. CASE code \notin DOMAIN StillActive(code, down) \cup Suppressed(code, down)
  <2>1. code \notin DOMAIN active /\ code \notin suppressed_until_up
    BY <1>1, <1>3 DEF EdgeStart
  <2>2. down = (code \in local_held)
    BY <2>1 DEF Changed, OwnershipInv, OneOwner, NothingStuck
  <2>3. os' = os
    BY <1>3, <2>2 DEF Toggled, OwnershipInv, NothingStuck
  <2>4. QED
    BY <2>3, RepeatOwnership
<1>4. QED
  BY <1>2, <1>3

LEMMA LocalEdgeOwnership ==
  ASSUME OwnershipInv, NEW code \in Codes, NEW down \in BOOLEAN, UNCHANGED mode_vars,
         ~passthrough, LocalEdge(code, down)
  PROVE  OwnershipInv' /\ FollowsEdge(code)
<1> DEFINE owned == code \in DOMAIN mapping_active
           captured == code \in DOMAIN StillActive(code, down)
<1>1. CASE /\ owned
           /\ physical' = After(code, down)
           /\ MappedEdge(code, down)
           /\ UNCHANGED <<active, suppressed_until_up>>
  <2>1. /\ {} \in SUBSET DOMAIN active
        /\ DOMAIN active' = DOMAIN active \ {}
        /\ suppressed_until_up' = suppressed_until_up \cup {}
    BY <1>1
  <2>2. QED
    BY <1>1, <2>1, MappedOwnership
<1>2. CASE /\ ~owned /\ ~Changed(code, down) /\ Observe(code, down)
           /\ os' = IF code \in DOMAIN StillActive(code, down) \cup Suppressed(code, down)
                      THEN os ELSE Toggled(os, code, down)
           /\ UNCHANGED <<mapping_active, local_held, remote>>
  BY <1>2, LocalRepeatOwnership
<1>3. CASE captured /\ ActiveEdge(code, down)
  BY <1>3, ActiveOwnership
<1>4. CASE /\ Changed(code, down)
           /\ code \in Suppressed(code, down) /\ SuppressedEdge(code, down)
  BY <1>4, SuppressedOwnership
<1>5. CASE /\ ~owned /\ ~captured /\ Changed(code, down)
           /\ code \notin Suppressed(code, down)
           /\ Observe(code, down) /\ NormalInput(code, down)
  BY <1>5, NormalOwnership
<1>6. QED
  BY <1>1, <1>2, <1>3, <1>4, <1>5 DEF LocalEdge

LEMMA TickOwnership ==
  ASSUME OwnershipInv, NEW due \in SUBSET DOMAIN active, Tick(due)
  PROVE  OwnershipInv' /\ TakesAway
<1>1. DOMAIN active' = DOMAIN active
  BY DEF Tick
<1>2. \A key \in Codes : Keeps(key, {})
  BY <1>1 DEF Tick, Keeps, Captured
<1>3. TakesAway
  BY <1>2 DEF TakesAway
<1>4. QED
  BY <1>1, <1>3 DEF Tick, OwnershipInv, OneOwner, NothingStuck, NothingWhileRecording, mode_vars

LEMMA StutterOwnership ==
  ASSUME OwnershipInv, UNCHANGED <<owner_vars, os, remote, passthrough>>,
         recording' => recording
  PROVE  OwnershipInv' /\ TakesAway
<1>1. \A key \in Codes : Keeps(key, {})
  BY DEF owner_vars, Keeps, Captured
<1>2. TakesAway
  BY <1>1 DEF TakesAway
<1>3. QED
  BY <1>2 DEF OwnershipInv, OneOwner, NothingStuck, NothingWhileRecording, owner_vars

LEMMA ModeOwnership ==
  ASSUME OwnershipInv, Mode
  PROVE  OwnershipInv' /\ TakesAway
<1>1. ASSUME NEW value \in BOOLEAN, SetPassthrough(value) PROVE OwnershipInv' /\ TakesAway
  BY <1>1, SwitchOwnership DEF SetPassthrough
<1>2. ASSUME NEW value \in BOOLEAN, SetListening(value) PROVE OwnershipInv' /\ TakesAway
  <2>1. CASE value
    BY <1>2, <2>1, StutterOwnership DEF SetListening, owner_vars
  <2>2. CASE ~value
    BY <1>2, <2>2, TerminateOwnership DEF SetListening, TerminateInto
  <2>3. QED
    BY <2>1, <2>2
<1>3. ASSUME NEW value \in BOOLEAN, SetRecording(value) PROVE OwnershipInv' /\ TakesAway
  <2>1. CASE value
    BY <1>3, <2>1, TerminateOwnership DEF SetRecording, TerminateInto
  <2>2. CASE ~value
    BY <1>3, <2>2, StutterOwnership DEF SetRecording, owner_vars
  <2>3. QED
    BY <2>1, <2>2
<1>4. ASSUME Terminate PROVE OwnershipInv' /\ TakesAway
  BY <1>4, TerminateOwnership DEF Terminate, TerminateInto
<1>5. QED
  BY <1>1, <1>2, <1>3, <1>4 DEF Mode

LEMMA PublishOwnership ==
  ASSUME OwnershipInv, Publish
  PROVE  OwnershipInv' /\ TakesAway
<1>1. ASSUME NEW c \in Configs, NEW r \in 0..MaxRevision, UpdateConfig(c, r)
      PROVE  OwnershipInv' /\ TakesAway
  <2>1. Rebound(c) \subseteq DOMAIN active /\ {} \subseteq DOMAIN mapping_active
    BY DEF Rebound
  <2>2. SwitchPassthrough(FALSE) \/ Cancel(Rebound(c), {})
    BY <1>1 DEF UpdateConfig
  <2>3. QED
    BY <2>1, <2>2, SwitchOwnership, CancelOwnership
<1>2. ASSUME NEW l \in MappingLists, UpdateMappings(l) PROVE OwnershipInv' /\ TakesAway
  <2>1. {} \subseteq DOMAIN active /\ Remapped(l) \subseteq DOMAIN mapping_active
    BY DEF Remapped
  <2>2. QED
    BY <1>2, <2>1, CancelOwnership DEF UpdateMappings
<1>3. ASSUME NEW r, NEW app, CancelOutOfScope(r, app) PROVE OwnershipInv' /\ TakesAway
  BY <1>3, CancelOwnership DEF CancelOutOfScope
<1>4. QED
  BY <1>1, <1>2, <1>3 DEF Publish, SetForegroundAppRules, SetForeground

LEMMA NextOwnership ==
  ASSUME OwnershipInv, [Next]_vars
  PROVE  OwnershipInv' /\ ((\E code \in Codes : FollowsEdge(code)) \/ TakesAway)
<1>1. ASSUME NEW code \in Codes, NEW down \in BOOLEAN, RouteEvent(code, down)
      PROVE  OwnershipInv' /\ FollowsEdge(code)
  BY <1>1, RouteEdgeOwnership DEF RouteEvent
<1>2. ASSUME NEW code \in Codes, NEW down \in BOOLEAN, RouteLocalEvent(code, down)
      PROVE  OwnershipInv' /\ FollowsEdge(code)
  <2>1. UNCHANGED mode_vars
    BY <1>2 DEF RouteLocalEvent
  <2>2. CASE passthrough \/ RouteEdge(code, down)
    BY <1>2, <2>1, <2>2, RouteEdgeOwnership DEF RouteLocalEvent
  <2>3. CASE ~passthrough /\ LocalEdge(code, down)
    BY <2>1, <2>3, LocalEdgeOwnership
  <2>4. QED
    BY <1>2, <2>2, <2>3 DEF RouteLocalEvent
<1>3. CASE Mode
  BY <1>3, ModeOwnership
<1>4. CASE Publish
  BY <1>4, PublishOwnership
<1>5. CASE \E due \in SUBSET DOMAIN active : Tick(due)
  BY <1>5, TickOwnership
<1>6. CASE UNCHANGED vars
  BY <1>6, StutterOwnership DEF vars, mode_vars
<1>7. QED
  BY <1>1, <1>2, <1>3, <1>4, <1>5, <1>6 DEF Next, Edge

LEMMA InitOwnership == Init => OwnershipInv
BY Domains DEF Init, OwnershipInv, OneOwner, NothingStuck, NothingWhileRecording

LEMMA OwnershipInvariant == Spec => []OwnershipInv
<1>1. OwnershipInv /\ [Next]_vars => OwnershipInv'
  BY NextOwnership
<1>2. QED
  BY <1>1, InitOwnership, PTL DEF Spec

\* Every code that is down has exactly one owner, for every set of codes and
\* everything the user may save: no press is owned twice and none is lost,
\* whatever order edges, modes, edits and timers come in (route_edge).
THEOREM OwnerIsUnique == Spec => []OneOwner
<1>1. OwnershipInv => OneOwner
  BY DEF OwnershipInv
<1>2. QED
  BY <1>1, OwnershipInvariant, PTL

\* The computer never keeps a key down that the router will not release, and
\* passthrough is exclusive (normal_input, set_passthrough, terminate).
THEOREM NothingIsStuck == Spec => []NothingStuck
<1>1. OwnershipInv => NothingStuck
  BY DEF OwnershipInv
<1>2. QED
  BY <1>1, OwnershipInvariant, PTL

\* Routing implements KeyOwnership: the release of a press goes where the press went, whoever
\* was next in line when it came, and a press that was taken away stays silent until it is
\* released, at every interleaving of edges, modes, edits and timers (route_edge).
THEOREM ReleasesFollowPresses == Spec => FollowsPress
<1>1. Init => Ownership!Init
  BY Domains DEF Init, Ownership!Init, Owner
<1>2. OwnershipInv /\ OwnershipInv' /\ [Next]_vars => [Ownership!Next]_Owner
  <2> SUFFICES ASSUME OwnershipInv, [Next]_vars PROVE Ownership!Next
    OBVIOUS
  <2>1. /\ OneOwner /\ OneOwner'
        /\ (\E code \in Codes : FollowsEdge(code)) \/ TakesAway
    BY NextOwnership DEF OwnershipInv
  <2>2. QED
    BY <2>1, EdgeOwners, CancelledOwners
<1>3. QED
  BY <1>1, <1>2, OwnershipInvariant, PTL DEF Spec, FollowsPress, Ownership!Spec

(***************************************************************************)
(* Captures.  What is captured is still allowed, the computer's list of    *)
(* captures is what the receiver was told of, and a press that is sent is  *)
(* one that the modes allow.  The invariant says it for each press and for *)
(* each mapping, and adds what makes it inductive: an escalated hold has   *)
(* no deadline, so that it is counted once, and no mapping is held by a    *)
(* modifier, so that its edges leave the modifiers as they are.            *)
(***************************************************************************)
PressAllowed(function) ==
  /\ Allows(rules, function, foreground)
  /\ listening \/ passthrough \/ function \in AppFunctions

PressOK(c) ==
  /\ active[c] \in CapturedPress
  /\ active[c].hold_started => active[c].function \in HoldFunctions /\ ~active[c].deadline
  /\ PressAllowed(active[c].function) /\ ~recording
  /\ active[c].function \in RepeatFunctions =>
       active[c].modifiers = LogicalModifiers(physical)

MappingOK(c) ==
  /\ c \notin DOMAIN Logical
  /\ MappingAllows(rules, mapping_active[c], foreground)
  /\ listening /\ ~recording

Held ==
  /\ held_functions \in [HoldFunctions -> Nat]
  /\ pressed \in [HoldFunctions -> Nat]
  /\ HeldOutputs

CapturesOK ==
  /\ active = [c \in DOMAIN active |-> active[c]]
  /\ \A c \in DOMAIN active : PressOK(c)
  /\ \A c \in DOMAIN mapping_active : MappingOK(c)

ConfigType ==
  /\ index \in Configs /\ revision \in 0..MaxRevision
  /\ mappings \in MappingLists \cup {<< >>}
  /\ rules \in Rules /\ foreground \in Apps \cup {NoApp}
  /\ listening \in BOOLEAN /\ passthrough \in BOOLEAN /\ recording \in BOOLEAN

Captures == CapturesOK /\ Held /\ MappedOutputs

RouterInv ==
  /\ OwnershipInv /\ ConfigType /\ Captures
  /\ presses \subseteq FunctionIds

\* A step sends the presses of allowed functions, and none of a capture that it takes away
\* or that has been escalated.
Sends ==
  /\ \A f \in presses' : PressAllowed(f) /\ f \in FunctionIds
  /\ \A c \in DOMAIN active \ DOMAIN active' :
       (active[c].hold_started \/ c \in suppressed_until_up') => active[c].function \notin presses'

\* The values of the helpers on partial functions
LEMMA Values ==
  /\ \A f, S : Without(f, S) = [c \in DOMAIN f \ S |-> f[c]]
  /\ \A f, c, v : With(f, c, v) = [d \in DOMAIN f \cup {c} |-> IF d = c THEN v ELSE f[d]]
BY DEF Without, Restrict, With

\* A set of naturals has a least element, and First finds it.
LEMMA FirstIsMember ==
  ASSUME NEW S, S \subseteq Nat, S # {}
  PROVE  First(S) \in S
<1> DEFINE Less == {ss \in Nat \X Nat : ss[1] < ss[2]}
<1>1. IsWellFoundedOn(Less, Nat)
  BY NatLessThanWellFounded DEF OpToRel
<1>2. PICK i \in S : \A j \in S : <<j, i>> \notin Less
  BY <1>1, WFMin
<1>3. \A j \in S : i \in Nat /\ j \in Nat /\ ~(j < i)
  BY <1>2
<1> HIDE DEF Less
<1>4. \E x \in S : \A y \in S : x <= y
  BY <1>3
<1>5. QED
  BY <1>4 DEF First

(***************************************************************************)
(* Held outputs.  Escalated(f) are the presses that hold f down.           *)
(***************************************************************************)
Escalated(f) == {c \in DOMAIN active : active[c].function = f /\ active[c].hold_started}

LEMMA HoldingCounts ==
  ASSUME OwnershipInv, NEW codes, NEW f
  PROVE  /\ IsFiniteSet(Escalated(f)) /\ Cardinality(Escalated(f)) \in Nat
         /\ Holding(codes, f) = Cardinality(Escalated(f) \cap codes)
         /\ Holding(codes, f) \in Nat /\ Holding(codes, f) <= Cardinality(Escalated(f))
<1>1. Escalated(f) \in SUBSET Codes /\ IsFiniteSet(Codes)
  BY CodesAssumption DEF Escalated, OwnershipInv, OneOwner
<1>2. IsFiniteSet(Escalated(f))
  BY <1>1, FS_Subset
<1>3. {c \in codes \cap DOMAIN active : active[c].function = f /\ active[c].hold_started}
        = Escalated(f) \cap codes
  BY DEF Escalated
<1>4. Holding(codes, f) = Cardinality(Escalated(f) \cap codes)
  BY <1>3 DEF Holding
<1>5. /\ IsFiniteSet(Escalated(f) \cap codes)
      /\ Cardinality(Escalated(f) \cap codes) <= Cardinality(Escalated(f))
  BY <1>2, FS_Intersection
<1>6. QED
  BY <1>2, <1>4, <1>5, FS_CardinalityType

LEMMA HeldCounts ==
  ASSUME OwnershipInv, HeldOutputs, NEW f \in HoldFunctions
  PROVE  held_functions[f] = Cardinality(Escalated(f))
<1>1. Escalated(f) \cap DOMAIN active = Escalated(f)
  BY DEF Escalated
<1>2. QED
  BY <1>1, HoldingCounts DEF HeldOutputs

\* The same of the next state
LEMMA HeldNext ==
  ASSUME held_functions' \in [HoldFunctions -> Nat],
         \A f \in HoldFunctions :
           /\ held_functions'[f] = Cardinality(Escalated(f)')
           /\ pressed'[f] = IF held_functions'[f] > 0 THEN 1 ELSE 0,
         pressed' = [f \in HoldFunctions |-> pressed'[f]]
  PROVE  Held'
<1>1. \A f : {c \in DOMAIN active' \cap DOMAIN active' :
                active'[c].function = f /\ active'[c].hold_started} = Escalated(f)'
  BY DEF Escalated
<1>2. \A f \in HoldFunctions : Holding(DOMAIN active, f)' = Cardinality(Escalated(f)')
  BY <1>1 DEF Holding
<1>3. \A f \in HoldFunctions : pressed'[f] \in Nat
  OBVIOUS
<1>4. QED
  BY <1>2, <1>3 DEF Held, HeldOutputs

LEMMA SameHeld ==
  ASSUME OwnershipInv, Held, UNCHANGED hold_vars,
         \A f \in HoldFunctions : Escalated(f)' = Escalated(f)
  PROVE  Held'
<1>1. \A f \in HoldFunctions : held_functions[f] = Cardinality(Escalated(f))
  BY HeldCounts DEF Held
<1>2. QED
  BY <1>1, HeldNext DEF Held, HeldOutputs, hold_vars

\* release_hold, of all holds that go
LEMMA ReleasedHeld ==
  ASSUME OwnershipInv, Held, NEW codes, ReleaseHolds(codes),
         \A f \in HoldFunctions : Escalated(f)' = Escalated(f) \ codes
  PROVE  Held'
<1>1. ASSUME NEW f \in HoldFunctions
      PROVE  /\ held_functions'[f] \in Nat
             /\ held_functions'[f] = Cardinality(Escalated(f)')
             /\ pressed'[f] = IF held_functions'[f] > 0 THEN 1 ELSE 0
  <2>1. /\ held_functions[f] = Cardinality(Escalated(f)) /\ held_functions[f] \in Nat
        /\ pressed[f] = IF held_functions[f] > 0 THEN 1 ELSE 0
    BY HeldCounts DEF Held, HeldOutputs
  <2>2. /\ IsFiniteSet(Escalated(f)) /\ Holding(codes, f) \in Nat
        /\ Holding(codes, f) = Cardinality(Escalated(f) \cap codes)
        /\ Holding(codes, f) <= held_functions[f]
    BY <2>1, HoldingCounts
  <2>3. Cardinality(Escalated(f)') = held_functions[f] - Holding(codes, f)
    BY <2>1, <2>2, FS_Difference
  <2>4. Remaining(codes, f) = held_functions[f] - Holding(codes, f)
    BY <2>1, <2>2 DEF Remaining
  <2>5. /\ held_functions'[f] = Remaining(codes, f)
        /\ pressed'[f] = IF held_functions[f] > 0 /\ Remaining(codes, f) = 0 THEN 0 ELSE pressed[f]
    BY DEF ReleaseHolds
  <2>6. QED
    BY <2>1, <2>2, <2>3, <2>4, <2>5
<1>2. /\ held_functions' = [f \in HoldFunctions |-> held_functions'[f]]
      /\ pressed' = [f \in HoldFunctions |-> pressed'[f]]
  BY DEF ReleaseHolds
<1>3. QED
  BY <1>1, <1>2, HeldNext

(***************************************************************************)
(* What each kind of step does to the captures.                            *)
(***************************************************************************)
\* terminate and set_passthrough
LEMMA EndCaptures ==
  ASSUME OwnershipInv, Captures, NEW enabled, NEW isolate, End(enabled, isolate)
  PROVE  Captures' /\ Sends
<1>1. /\ active' = Empty /\ DOMAIN active' = {} /\ presses' = {}
      /\ mapping_active' = Without(mapping_active, DOMAIN mapping_active)
      /\ mapped' = {}
  <2>1. mapped' = mapped \ {<<c, mapping_active[c].output>> :
                              c \in DOMAIN mapping_active \cap DOMAIN mapping_active}
    BY DEF End, ReleaseMappings
  <2>2. QED
    BY <2>1, Domains DEF End, ReleaseMappings, Captures, MappedOutputs
<1>2. DOMAIN mapping_active' = {}
  BY <1>1, Domains
<1>3. active' = [c \in DOMAIN active' |-> active'[c]]
  BY <1>1 DEF Empty
<1>4. CapturesOK'
  BY <1>1, <1>2, <1>3 DEF CapturesOK
<1>5. Held'
  <2>1. /\ held_functions' = [f \in HoldFunctions |-> 0]
        /\ pressed' = [f \in HoldFunctions |->
                         IF Holding(DOMAIN active, f) > 0 THEN 0 ELSE pressed[f]]
    BY DEF End
  <2>2. \A f \in HoldFunctions : Escalated(f)' = {}
    BY <1>1 DEF Escalated
  <2>3. \A f \in HoldFunctions : pressed'[f] = 0
    BY <2>1 DEF Captures, Held, HeldOutputs
  <2>4. \A f \in HoldFunctions : Cardinality(Escalated(f)') = 0
    BY <2>2, FS_EmptySet
  <2>5. QED
    BY <2>1, <2>3, <2>4, HeldNext
<1>6. MappedOutputs'
  BY <1>1, <1>2 DEF MappedOutputs
<1>7. DOMAIN active \ DOMAIN active' = DOMAIN active /\ presses' = {}
  BY <1>1
<1>8. QED
  BY <1>4, <1>5, <1>6, <1>7 DEF Captures, Sends

\* Mappings that are released, under rules that still allow the others
LEMMA KeptMappings ==
  ASSUME MappedOutputs, NEW codes,
         ReleaseMappings(codes)
  PROVE  /\ DOMAIN mapping_active' = DOMAIN mapping_active \ codes
         /\ \A c \in DOMAIN mapping_active' : mapping_active'[c] = mapping_active[c]
         /\ MappedOutputs'
<1>1. /\ DOMAIN mapping_active' = DOMAIN mapping_active \ codes
      /\ \A c \in DOMAIN mapping_active' : mapping_active'[c] = mapping_active[c]
  BY Values, Domains DEF ReleaseMappings
<1>2. mapped' = mapped \ {<<c, mapping_active[c].output>> : c \in codes \cap DOMAIN mapping_active}
  BY DEF ReleaseMappings
<1>3. mapped' = {<<c, mapping_active[c].output>> : c \in DOMAIN mapping_active \ codes}
  BY <1>2 DEF MappedOutputs
<1>4. mapped' = {<<c, mapping_active'[c].output>> : c \in DOMAIN mapping_active'}
  BY <1>1, <1>3
<1>5. QED
  BY <1>1, <1>4 DEF MappedOutputs

LEMMA CancelCaptures ==
  ASSUME OwnershipInv, Captures, NEW captured, NEW holding,
         captured \subseteq DOMAIN active, Cancel(captured, holding),
         \A c \in DOMAIN active \ captured : Allows(rules', active[c].function, foreground'),
         \A c \in DOMAIN mapping_active \ holding :
           MappingAllows(rules', mapping_active[c], foreground')
  PROVE  Captures' /\ Sends
<1>1. /\ active' = [c \in DOMAIN active \ captured |-> active[c]]
      /\ ReleaseMappings(holding) /\ ReleaseHolds(captured)
      /\ presses' = {} /\ physical' = physical
      /\ UNCHANGED <<listening, passthrough, recording>>
  BY Values DEF Cancel, mode_vars
<1>2. \A c \in DOMAIN active' : PressOK(c)'
  <2> SUFFICES ASSUME NEW c \in DOMAIN active' PROVE PressOK(c)'
    OBVIOUS
  <2>1. active'[c] = active[c] /\ c \in DOMAIN active \ captured
    BY <1>1
  <2>2. PressOK(c)
    BY <2>1 DEF Captures, CapturesOK
  <2>3. LogicalModifiers(physical)' = LogicalModifiers(physical)
    BY <1>1 DEF LogicalModifiers
  <2>4. QED
    BY <1>1, <2>1, <2>2, <2>3 DEF PressOK, PressAllowed
<1>3. /\ DOMAIN mapping_active' = DOMAIN mapping_active \ holding
      /\ \A c \in DOMAIN mapping_active' : mapping_active'[c] = mapping_active[c]
      /\ MappedOutputs'
  BY <1>1, KeptMappings DEF Captures
<1>4. \A c \in DOMAIN mapping_active' : MappingOK(c)'
  BY <1>1, <1>3 DEF MappingOK, Captures, CapturesOK
<1>5. \A f \in HoldFunctions : Escalated(f)' = Escalated(f) \ captured
  BY <1>1 DEF Escalated
<1>6. Held'
  BY <1>1, <1>5, ReleasedHeld DEF Captures
<1>7. CapturesOK'
  <2>1. active' = [c \in DOMAIN active' |-> active'[c]]
    BY <1>1
  <2>2. QED
    BY <1>2, <1>4, <2>1 DEF CapturesOK
<1>8. QED
  BY <1>1, <1>3, <1>6, <1>7 DEF Captures, Sends

\* A step that only widens what is allowed
LEMMA SameCaptures ==
  ASSUME OwnershipInv, Captures,
         UNCHANGED <<active, mapping_active, hold_vars, mapped, physical, rules, foreground>>,
         passthrough' = passthrough, listening => listening', recording' => recording
  PROVE  Captures'
<1>1. \A c \in DOMAIN active : PressOK(c)'
  <2> SUFFICES ASSUME NEW c \in DOMAIN active PROVE PressOK(c)'
    OBVIOUS
  <2>1. PressOK(c)
    BY DEF Captures, CapturesOK
  <2>2. LogicalModifiers(physical)' = LogicalModifiers(physical)
    BY DEF LogicalModifiers
  <2>3. QED
    BY <2>1, <2>2 DEF PressOK, PressAllowed
<1>2. \A c \in DOMAIN mapping_active : MappingOK(c)'
  BY DEF MappingOK, Captures, CapturesOK
<1>3. \A f \in HoldFunctions : Escalated(f)' = Escalated(f)
  BY DEF Escalated
<1>4. Held'
  BY <1>3, SameHeld DEF Captures
<1>5. QED
  BY <1>1, <1>2, <1>4 DEF Captures, CapturesOK, MappedOutputs

\* The captures that the modifiers of the next state cancel
Drops(gone) ==
  /\ gone \subseteq DOMAIN active
  /\ \A c \in gone : active[c].function \in RepeatFunctions
  /\ active' = [c \in DOMAIN active \ gone |-> active[c]]
  /\ \A c \in DOMAIN active \ gone :
       active[c].function \in RepeatFunctions
         => active[c].modifiers = LogicalModifiers(physical)'

\* An edge that starts and ends no capture: repeats whose modifiers no longer match are
\* cancelled, and a mapping may be released.
LEMMA PassCaptures ==
  ASSUME OwnershipInv, Captures, UNCHANGED <<hold_vars, config_vars, mode_vars>>,
         presses' = {},
         \/ active' = Without(active, Unmatched(physical'))
         \/ active' = active /\ LogicalModifiers(physical)' = LogicalModifiers(physical),
         \/ UNCHANGED <<mapping_active, mapped>>
         \/ \E codes : ReleaseMappings(codes)
  PROVE  Captures' /\ Sends
<1>1. PICK gone : Drops(gone)
  <2>1. CASE active' = Without(active, Unmatched(physical'))
    <3>1. Drops(Unmatched(physical'))
      BY <2>1, Values DEF Drops, Unmatched, LogicalModifiers
    <3>2. QED
      BY <3>1
  <2>2. CASE active' = active /\ LogicalModifiers(physical)' = LogicalModifiers(physical)
    <3>1. active' = [c \in DOMAIN active \ {} |-> active[c]]
      BY <2>2 DEF Captures, CapturesOK
    <3>2. \A c \in DOMAIN active : active[c].function \in RepeatFunctions
            => active[c].modifiers = LogicalModifiers(physical)'
      BY <2>2 DEF Captures, CapturesOK, PressOK
    <3>3. Drops({})
      BY <3>1, <3>2 DEF Drops
    <3>4. QED
      BY <3>3
  <2>3. QED
    BY <2>1, <2>2
<1>2. /\ DOMAIN active' = DOMAIN active \ gone
      /\ \A c \in DOMAIN active' : active'[c] = active[c]
      /\ active' = [c \in DOMAIN active' |-> active'[c]]
  BY <1>1 DEF Drops
<1>3. UNCHANGED <<rules, foreground, listening, passthrough, recording>>
  BY DEF config_vars, mode_vars
<1>4. \A c \in DOMAIN active' : PressOK(c)'
  <2> SUFFICES ASSUME NEW c \in DOMAIN active' PROVE PressOK(c)'
    OBVIOUS
  <2>1. PressOK(c) /\ c \in DOMAIN active \ gone /\ active'[c] = active[c]
    BY <1>2 DEF Captures, CapturesOK
  <2>2. active[c].function \in RepeatFunctions => active[c].modifiers = LogicalModifiers(physical)'
    BY <1>1, <2>1 DEF Drops
  <2>3. QED
    BY <1>3, <2>1, <2>2 DEF PressOK, PressAllowed
<1>5. /\ DOMAIN mapping_active' \subseteq DOMAIN mapping_active
      /\ \A c \in DOMAIN mapping_active' : mapping_active'[c] = mapping_active[c]
      /\ MappedOutputs'
  <2>1. CASE UNCHANGED <<mapping_active, mapped>>
    BY <2>1 DEF Captures, MappedOutputs
  <2>2. CASE \E codes : ReleaseMappings(codes)
    BY <2>2, KeptMappings DEF Captures
  <2>3. QED
    BY <2>1, <2>2
<1>6. \A c \in DOMAIN mapping_active' : MappingOK(c)'
  BY <1>3, <1>5 DEF MappingOK, Captures, CapturesOK
<1>7. \A f \in HoldFunctions : Escalated(f)' = Escalated(f)
  <2>1. \A c \in gone : ~active[c].hold_started
    BY <1>1, FunctionsAssumption DEF Drops, Captures, CapturesOK, PressOK
  <2>2. QED
    BY <1>1, <1>2, <2>1 DEF Drops, Escalated
<1>8. Held'
  BY <1>7, SameHeld DEF Captures
<1>9. QED
  BY <1>2, <1>4, <1>5, <1>6, <1>8 DEF Captures, CapturesOK, Sends

\* The release of a captured press
LEMMA FinishCaptures ==
  ASSUME OwnershipInv, Captures, UNCHANGED <<config_vars, mode_vars, mapping_active, mapped>>,
         NEW code \in Codes, code \in DOMAIN StillActive(code, FALSE),
         physical' = After(code, FALSE),
         suppressed_until_up' = Suppressed(code, FALSE),
         active' = Without(StillActive(code, FALSE), {code}),
         presses' = Taps(code), ReleaseHolds({code})
  PROVE  Captures' /\ Sends
<1> DEFINE U == Unmatched(physical')
<1>1. /\ U \subseteq DOMAIN active
      /\ \A c \in U : active[c].function \in RepeatFunctions
      /\ \A c \in DOMAIN active \ U :
           active[c].function \in RepeatFunctions
             => active[c].modifiers = LogicalModifiers(physical)'
  BY DEF Unmatched, LogicalModifiers
<1>2. /\ active' = [c \in DOMAIN active \ (U \cup {code}) |-> active[c]]
      /\ code \in DOMAIN active
  BY Values, Domains DEF StillActive
<1> HIDE DEF U
<1>3. /\ DOMAIN active' = DOMAIN active \ (U \cup {code})
      /\ \A c \in DOMAIN active' : active'[c] = active[c]
      /\ active' = [c \in DOMAIN active' |-> active'[c]]
  BY <1>2
<1>4. UNCHANGED <<rules, foreground, listening, passthrough, recording>>
  BY DEF config_vars, mode_vars
<1>5. \A c \in DOMAIN active' : PressOK(c)'
  <2> SUFFICES ASSUME NEW c \in DOMAIN active' PROVE PressOK(c)'
    OBVIOUS
  <2>1. PressOK(c) /\ c \in DOMAIN active \ U /\ active'[c] = active[c]
    BY <1>3 DEF Captures, CapturesOK
  <2>2. active[c].function \in RepeatFunctions => active[c].modifiers = LogicalModifiers(physical)'
    BY <1>1, <2>1
  <2>3. QED
    BY <1>4, <2>1, <2>2 DEF PressOK, PressAllowed
<1>6. \A c \in DOMAIN mapping_active' : MappingOK(c)'
  BY <1>4 DEF MappingOK, Captures, CapturesOK
<1>7. \A f \in HoldFunctions : Escalated(f)' = Escalated(f) \ {code}
  <2>1. \A c \in U : ~active[c].hold_started
    BY <1>1, FunctionsAssumption DEF Captures, CapturesOK, PressOK
  <2>2. QED
    BY <1>3, <2>1 DEF Escalated
<1>8. Held'
  BY <1>7, ReleasedHeld DEF Captures
<1>9. Sends
  <2>1. PressOK(code)
    BY <1>2 DEF Captures, CapturesOK
  <2>2. /\ presses' \subseteq {active[code].function} \cap HoldFunctions
        /\ active[code].hold_started => presses' = {}
    BY DEF Taps
  <2>3. \A f \in presses' : PressAllowed(f) /\ f \in FunctionIds
    BY <2>1, <2>2, FunctionsAssumption DEF PressOK
  <2>4. code \notin suppressed_until_up'
    <3>1. EdgeStart(code, FALSE, Unmatched(After(code, FALSE)))
      BY StartOfEdge
    <3>2. QED
      BY <1>2, <3>1 DEF EdgeStart, OwnershipInv, OneOwner
  <2>5. \A c \in U : active[c].function \notin presses'
    BY <1>1, <2>2, FunctionsAssumption
  <2>6. DOMAIN active \ DOMAIN active' \subseteq U \cup {code}
    BY <1>3
  <2>7. QED
    BY <2>2, <2>3, <2>4, <2>5, <2>6 DEF Sends
<1>10. QED
  BY <1>3, <1>5, <1>6, <1>8, <1>9 DEF Captures, CapturesOK, MappedOutputs

\* A modifier-free code leaves the modifiers as they are.
LEMMA SameModifiers ==
  ASSUME NEW code, code \notin DOMAIN Logical, NEW down
  PROVE  LogicalModifiers(After(code, down)) = LogicalModifiers(physical)
BY DEF LogicalModifiers, After, Toggled

\* A press that starts a function
LEMMA StartCaptures ==
  ASSUME OwnershipInv, ConfigType, Captures,
         UNCHANGED <<config_vars, mode_vars>>,
         NEW code \in Codes, Changed(code, TRUE), ~recording,
         Startable(code, After(code, TRUE)) # {},
         Activate(code, index[First(Startable(code, After(code, TRUE)))])
  PROVE  Captures' /\ Sends
<1> DEFINE S == Startable(code, After(code, TRUE))
<1>1. First(S) \in S
  <2>1. S \subseteq Nat /\ S # {}
    BY SavedAssumption DEF ConfigType, Startable, Bound
  <2> HIDE DEF S
  <2>2. QED
    BY <2>1, FirstIsMember
<1>2. PICK b : /\ b = index[First(S)] /\ First(S) \in DOMAIN index /\ b.primary = code
               /\ b.modifiers = LogicalModifiers(After(code, TRUE))
               /\ PressAllowed(b.function)
  BY <1>1 DEF Startable, Bound, PressAllowed
<1>3. IsBinding(b)
  BY <1>2, SavedAssumption DEF ConfigType
<1>4. code \notin DOMAIN Logical
  BY <1>2, <1>3 DEF IsBinding
<1>5. LogicalModifiers(After(code, TRUE)) = LogicalModifiers(physical)
  BY <1>4, SameModifiers
<1>6. Activate(code, b)
  BY <1>2
<1> HIDE DEF S
<1>7. Unmatched(After(code, TRUE)) = {}
  BY <1>5 DEF Unmatched, Captures, CapturesOK, PressOK
<1> DEFINE press == [function |-> b.function, slot |-> b.slot,
                     modifiers |-> b.modifiers, hold_started |-> FALSE,
                     deadline |-> b.function \in HoldFunctions \cup RepeatFunctions]
<1>8. /\ active' = [c \in DOMAIN active \cup {code} |-> IF c = code THEN press ELSE active[c]]
      /\ presses' = {b.function} \ HoldFunctions
      /\ UNCHANGED <<held_functions, pressed, mapping_active, mapped>>
      /\ physical' = After(code, TRUE)
  BY <1>6, <1>7, Values DEF Activate, StillActive, hold_vars
<1>9. code \notin DOMAIN active
  BY DEF Changed, OwnershipInv, OneOwner
<1>10. UNCHANGED <<rules, foreground, listening, passthrough, recording>>
  BY DEF config_vars, mode_vars
<1>11. press \in CapturedPress
  BY <1>3 DEF IsBinding, CapturedPress
<1>12. /\ DOMAIN active' = DOMAIN active \cup {code}
       /\ active'[code] = press
       /\ \A c \in DOMAIN active : active'[c] = active[c]
       /\ active' = [c \in DOMAIN active' |-> active'[c]]
  BY <1>8, <1>9
<1>13. PressOK(code)'
  <2>1. /\ press.function = b.function /\ press.modifiers = b.modifiers
        /\ press.hold_started = FALSE
    OBVIOUS
  <2> HIDE DEF press
  <2>2. press.modifiers = LogicalModifiers(physical)'
    BY <1>2, <1>8, <2>1 DEF LogicalModifiers
  <2>3. PressAllowed(press.function)'
    BY <1>2, <1>10, <2>1 DEF PressAllowed
  <2>4. QED
    BY <1>10, <1>11, <1>12, <2>1, <2>2, <2>3 DEF PressOK
<1> HIDE DEF press
<1>14. \A c \in DOMAIN active : PressOK(c)'
  <2> SUFFICES ASSUME NEW c \in DOMAIN active PROVE PressOK(c)'
    OBVIOUS
  <2>1. PressOK(c) /\ active'[c] = active[c]
    BY <1>12 DEF Captures, CapturesOK
  <2>2. LogicalModifiers(physical)' = LogicalModifiers(physical)
    BY <1>5, <1>8 DEF LogicalModifiers
  <2>3. QED
    BY <1>10, <2>1, <2>2 DEF PressOK, PressAllowed
<1>15. \A c \in DOMAIN mapping_active' : MappingOK(c)'
  BY <1>8, <1>10 DEF MappingOK, Captures, CapturesOK
<1>16. \A f \in HoldFunctions : Escalated(f)' = Escalated(f)
  <2>1. ~active'[code].hold_started
    BY <1>12 DEF press
  <2>2. QED
    BY <1>12, <2>1 DEF Escalated
<1>17. Held'
  BY <1>8, <1>16, SameHeld DEF Captures, hold_vars
<1>18. Sends
  BY <1>2, <1>3, <1>8, <1>12 DEF Sends, IsBinding
<1>19. QED
  BY <1>8, <1>12, <1>13, <1>14, <1>15, <1>17, <1>18 DEF Captures, CapturesOK, MappedOutputs

\* A press that starts a mapping
LEMMA StartMappingCaptures ==
  ASSUME OwnershipInv, ConfigType, Captures,
         UNCHANGED <<config_vars, mode_vars>>,
         NEW code \in Codes, Changed(code, TRUE), ~recording,
         MappingMatches(code, After(code, TRUE)) # {},
         ActivateMapping(code, mappings[First(MappingMatches(code, After(code, TRUE)))])
  PROVE  Captures' /\ Sends
<1> DEFINE S == MappingMatches(code, After(code, TRUE))
<1>1. First(S) \in S
  <2>1. DOMAIN mappings \subseteq Nat
    <3>1. CASE mappings = << >>
      BY <3>1
    <3>2. CASE mappings \in MappingLists
      BY <3>2, SavedAssumption
    <3>3. QED
      BY <3>1, <3>2 DEF ConfigType
  <2>2. S \subseteq Nat /\ S # {}
    BY <2>1 DEF MappingMatches, Candidates
  <2> HIDE DEF S
  <2>3. QED
    BY <2>2, FirstIsMember
<1>2. PICK m : /\ m = mappings[First(S)] /\ First(S) \in DOMAIN mappings
               /\ listening /\ MappingAllows(rules, m, foreground)
               /\ \E s \in m.shortcuts : s.primary = code
  BY <1>1 DEF MappingMatches, Candidates
<1>3. code \notin DOMAIN Logical
  <2>1. mappings \in MappingLists
    <3>1. CASE mappings = << >>
      <4>1. DOMAIN mappings = {}
        BY <3>1
      <4>2. QED
        BY <1>2, <4>1
    <3>2. QED
      BY <3>1 DEF ConfigType
  <2>2. IsMapping(m)
    BY <1>2, <2>1, SavedAssumption
  <2>3. QED
    BY <1>2, <2>2 DEF IsMapping
<1>4. /\ Observe(code, TRUE) /\ presses' = {} /\ UNCHANGED hold_vars
      /\ mapping_active' = With(mapping_active, code, m)
      /\ mapped' = mapped \cup {<<code, m.output>>}
  BY <1>2 DEF ActivateMapping
<1> HIDE DEF S
<1>5. Drops(Unmatched(After(code, TRUE)))
  BY <1>4, Values DEF Observe, StillActive, Drops, Unmatched, LogicalModifiers
<1>6. PICK gone : Drops(gone)
  BY <1>5
<1>7. /\ DOMAIN active' = DOMAIN active \ gone
      /\ \A c \in DOMAIN active' : active'[c] = active[c]
      /\ active' = [c \in DOMAIN active' |-> active'[c]]
  BY <1>6 DEF Drops
<1>8. UNCHANGED <<rules, foreground, listening, passthrough, recording>>
  BY DEF config_vars, mode_vars
<1>9. \A c \in DOMAIN active' : PressOK(c)'
  <2> SUFFICES ASSUME NEW c \in DOMAIN active' PROVE PressOK(c)'
    OBVIOUS
  <2>1. PressOK(c) /\ c \in DOMAIN active \ gone /\ active'[c] = active[c]
    BY <1>7 DEF Captures, CapturesOK
  <2>2. active[c].function \in RepeatFunctions => active[c].modifiers = LogicalModifiers(physical)'
    BY <1>6, <2>1 DEF Drops
  <2>3. QED
    BY <1>8, <2>1, <2>2 DEF PressOK, PressAllowed
<1>10. code \notin DOMAIN mapping_active
  BY DEF Changed, OwnershipInv, OneOwner
<1>11. /\ DOMAIN mapping_active' = DOMAIN mapping_active \cup {code}
       /\ mapping_active'[code] = m
       /\ \A c \in DOMAIN mapping_active : mapping_active'[c] = mapping_active[c]
  BY <1>4, <1>10, Values, Domains
<1>12. \A c \in DOMAIN mapping_active' : MappingOK(c)'
  <2> SUFFICES ASSUME NEW c \in DOMAIN mapping_active' PROVE MappingOK(c)'
    OBVIOUS
  <2>1. CASE c = code
    BY <1>2, <1>3, <1>8, <1>11, <2>1 DEF MappingOK
  <2>2. CASE c # code
    BY <1>8, <1>11, <2>2 DEF MappingOK, Captures, CapturesOK
  <2>3. QED
    BY <2>1, <2>2
<1>13. MappedOutputs'
  <2>1. mapped' = {<<c, mapping_active'[c].output>> : c \in DOMAIN mapping_active \cup {code}}
    BY <1>4, <1>11 DEF Captures, MappedOutputs
  <2>2. QED
    BY <1>11, <2>1 DEF MappedOutputs
<1>14. \A f \in HoldFunctions : Escalated(f)' = Escalated(f)
  <2>1. \A c \in gone : ~active[c].hold_started
    BY <1>6, FunctionsAssumption DEF Drops, Captures, CapturesOK, PressOK
  <2>2. QED
    BY <1>6, <1>7, <2>1 DEF Drops, Escalated
<1>15. Held'
  BY <1>4, <1>14, SameHeld DEF Captures
<1>16. QED
  BY <1>4, <1>7, <1>9, <1>12, <1>13, <1>15 DEF Captures, CapturesOK, Sends

\* The timer: what escalates was not escalated before, so that it is counted once.
LEMMA TickCaptures ==
  ASSUME OwnershipInv, Captures, NEW due \in SUBSET DOMAIN active, Tick(due)
  PROVE  Captures' /\ Sends
<1> DEFINE escalating(f) == {c \in due : active[c].function = f}
<1>1. UNCHANGED <<rules, foreground, listening, passthrough, recording, physical,
                  mapping_active, mapped>>
  BY DEF Tick, config_vars, mode_vars
<1>2. /\ DOMAIN active' = DOMAIN active
      /\ active' = [c \in DOMAIN active' |-> active'[c]]
      /\ \A c \in DOMAIN active :
           active'[c] = IF c \in due /\ active[c].function \in HoldFunctions
                          THEN [active[c] EXCEPT !.hold_started = TRUE, !.deadline = FALSE]
                          ELSE active[c]
  BY DEF Tick
<1>3. \A c \in DOMAIN active :
        /\ active'[c] \in CapturedPress
        /\ active'[c].function = active[c].function
        /\ active'[c].modifiers = active[c].modifiers
        /\ active'[c].hold_started <=>
             active[c].hold_started \/ (c \in due /\ active[c].function \in HoldFunctions)
        /\ active'[c].hold_started => active[c].function \in HoldFunctions /\ ~active'[c].deadline
  <2> SUFFICES ASSUME NEW c \in DOMAIN active
               PROVE  /\ active'[c] \in CapturedPress
                      /\ active'[c].function = active[c].function
                      /\ active'[c].modifiers = active[c].modifiers
                      /\ active'[c].hold_started <=>
                           \/ active[c].hold_started
                           \/ c \in due /\ active[c].function \in HoldFunctions
                      /\ active'[c].hold_started =>
                           active[c].function \in HoldFunctions /\ ~active'[c].deadline
    OBVIOUS
  <2>1. PressOK(c)
    BY DEF Captures, CapturesOK
  <2>2. CASE c \in due /\ active[c].function \in HoldFunctions
    <3>1. PICK p \in CapturedPress : p = active[c]
      BY <2>1 DEF PressOK
    <3>2. PICK q : q = [p EXCEPT !.hold_started = TRUE]
      OBVIOUS
    <3>3. PICK r : r = [q EXCEPT !.deadline = FALSE]
      OBVIOUS
    <3>4. active'[c] = r
      BY <1>2, <2>2, <3>1, <3>2, <3>3
    <3>5. /\ q \in CapturedPress /\ q.function = p.function /\ q.modifiers = p.modifiers
          /\ q.hold_started = TRUE
      BY <3>2 DEF CapturedPress
    <3>6. /\ r \in CapturedPress /\ r.function = p.function /\ r.modifiers = p.modifiers
          /\ r.hold_started = TRUE /\ r.deadline = FALSE
      BY <3>3, <3>5 DEF CapturedPress
    <3>7. QED
      BY <2>2, <3>1, <3>4, <3>6
  <2>3. CASE ~(c \in due /\ active[c].function \in HoldFunctions)
    BY <1>2, <2>1, <2>3 DEF PressOK
  <2>4. QED
    BY <2>2, <2>3
<1>4. \A c \in DOMAIN active : PressOK(c)'
  <2> SUFFICES ASSUME NEW c \in DOMAIN active PROVE PressOK(c)'
    OBVIOUS
  <2>1. PressOK(c)
    BY DEF Captures, CapturesOK
  <2>2. LogicalModifiers(physical)' = LogicalModifiers(physical)
    BY <1>1 DEF LogicalModifiers
  <2>3. QED
    BY <1>1, <1>3, <2>1, <2>2 DEF PressOK, PressAllowed
<1>5. \A c \in DOMAIN mapping_active : MappingOK(c)'
  BY <1>1 DEF MappingOK, Captures, CapturesOK
<1>6. \A c \in due : PressOK(c) /\ active[c].deadline
  BY DEF Tick, Captures, CapturesOK
<1>7. ASSUME NEW f \in HoldFunctions
      PROVE  /\ held_functions'[f] \in Nat
             /\ held_functions'[f] = Cardinality(Escalated(f)')
             /\ pressed'[f] = IF held_functions'[f] > 0 THEN 1 ELSE 0
  <2>1. /\ held_functions[f] = Cardinality(Escalated(f)) /\ held_functions[f] \in Nat
        /\ pressed[f] = IF held_functions[f] > 0 THEN 1 ELSE 0
    BY HeldCounts DEF Captures, Held, HeldOutputs
  <2>2. Escalated(f)' = Escalated(f) \cup escalating(f)
    BY <1>2, <1>3 DEF Escalated
  <2>3. Escalated(f) \cap escalating(f) = {}
    BY <1>6 DEF Escalated, PressOK
  <2>4. IsFiniteSet(Escalated(f)) /\ IsFiniteSet(escalating(f))
    <3>1. escalating(f) \in SUBSET Codes /\ IsFiniteSet(Codes)
      BY CodesAssumption DEF OwnershipInv, OneOwner
    <3>2. QED
      BY <3>1, HoldingCounts, FS_Subset
  <2>5. /\ held_functions'[f] = held_functions[f] + Cardinality(escalating(f))
        /\ pressed'[f] = IF escalating(f) # {} /\ held_functions[f] = 0
                           THEN pressed[f] + 1 ELSE pressed[f]
    BY DEF Tick, FirstHold
  <2> HIDE DEF escalating
  <2>6. Cardinality(Escalated(f) \cup escalating(f)) =
          Cardinality(Escalated(f)) + Cardinality(escalating(f))
          - Cardinality(Escalated(f) \cap escalating(f))
    BY <2>4, FS_Union
  <2>7. /\ Cardinality(Escalated(f) \cap escalating(f)) = 0
        /\ Cardinality(escalating(f)) \in Nat
        /\ Cardinality(escalating(f)) = 0 <=> escalating(f) = {}
    BY <2>3, <2>4, FS_EmptySet, FS_CardinalityType
  <2>8. QED
    BY <2>1, <2>2, <2>5, <2>6, <2>7
<1>8. /\ held_functions' = [f \in HoldFunctions |-> held_functions'[f]]
      /\ pressed' = [f \in HoldFunctions |-> pressed'[f]]
  BY DEF Tick
<1>9. Held'
  BY <1>7, <1>8, HeldNext
<1>10. Sends
  <2>1. \A f \in presses' : \E c \in due : active[c].function = f
    BY DEF Tick
  <2>2. \A f \in presses' : PressAllowed(f) /\ f \in FunctionIds
    BY <1>6, <2>1 DEF PressOK, CapturedPress
  <2>3. QED
    BY <1>2, <2>2 DEF Sends
<1>11. QED
  BY <1>1, <1>2, <1>4, <1>5, <1>9, <1>10 DEF Captures, CapturesOK, MappedOutputs

(***************************************************************************)
(* The routes.                                                             *)
(***************************************************************************)
LEMMA ObserveCaptures ==
  ASSUME OwnershipInv, Captures, UNCHANGED <<config_vars, mode_vars>>,
         NEW code, NEW down, Observe(code, down),
         presses' = {}, UNCHANGED hold_vars,
         \/ UNCHANGED <<mapping_active, mapped>>
         \/ \E codes : ReleaseMappings(codes)
  PROVE  Captures' /\ Sends
<1>1. active' = Without(active, Unmatched(physical'))
  BY DEF Observe, StillActive
<1>2. QED
  BY <1>1, PassCaptures

LEMMA NormalCaptures ==
  ASSUME OwnershipInv, Captures, UNCHANGED <<config_vars, mode_vars>>,
         NEW code, NEW down, Observe(code, down), NormalInput(code, down) \/ Consume
  PROVE  Captures' /\ Sends
BY ObserveCaptures DEF NormalInput, Consume

LEMMA SuppressedCaptures ==
  ASSUME OwnershipInv, Captures, UNCHANGED <<config_vars, mode_vars>>,
         NEW code, NEW down, SuppressedEdge(code, down)
  PROVE  Captures' /\ Sends
<1>1. active' = Without(active, Unmatched(physical')) /\ Consume
  BY DEF SuppressedEdge, StillActive
<1>2. QED
  BY <1>1, PassCaptures DEF Consume

LEMMA ActiveCaptures ==
  ASSUME OwnershipInv, Captures, UNCHANGED <<config_vars, mode_vars>>,
         NEW code \in Codes, NEW down \in BOOLEAN, code \in DOMAIN StillActive(code, down),
         ActiveEdge(code, down)
  PROVE  Captures' /\ Sends
<1>1. CASE down
  <2>1. /\ active' = Without(active, Unmatched(physical')) /\ presses' = {}
        /\ UNCHANGED <<hold_vars, mapping_active, mapped>>
    BY <1>1 DEF ActiveEdge, StillActive
  <2>2. QED
    BY <2>1, PassCaptures
<1>2. CASE ~down
  <2>1. down = FALSE
    BY <1>2
  <2>2. /\ physical' = After(code, FALSE)
        /\ suppressed_until_up' = Suppressed(code, FALSE)
        /\ active' = Without(StillActive(code, FALSE), {code})
        /\ presses' = Taps(code) /\ ReleaseHolds({code})
        /\ UNCHANGED <<mapping_active, mapped>>
    BY <2>1 DEF ActiveEdge
  <2>3. QED
    BY <2>1, <2>2, FinishCaptures
<1>3. QED
  BY <1>1, <1>2

LEMMA MappedCaptures ==
  ASSUME OwnershipInv, Captures, UNCHANGED <<config_vars, mode_vars>>,
         NEW code \in Codes, NEW down \in BOOLEAN, code \in DOMAIN mapping_active,
         MappedEdge(code, down),
         \/ Observe(code, down)
         \/ physical' = After(code, down) /\ active' = active
  PROVE  Captures' /\ Sends
<1>1. /\ presses' = {} /\ UNCHANGED hold_vars
      /\ \/ UNCHANGED <<mapping_active, mapped>>
         \/ \E codes : ReleaseMappings(codes)
  BY DEF MappedEdge
<1>2. CASE Observe(code, down)
  BY <1>1, <1>2, ObserveCaptures
<1>3. CASE physical' = After(code, down) /\ active' = active
  <2>1. code \notin DOMAIN Logical
    BY DEF Captures, CapturesOK, MappingOK
  <2>2. LogicalModifiers(physical)' = LogicalModifiers(physical)
    BY <1>3, <2>1, SameModifiers DEF LogicalModifiers
  <2>3. QED
    BY <1>1, <1>3, <2>2, PassCaptures
<1>4. QED
  BY <1>2, <1>3

LEMMA FreshCaptures ==
  ASSUME OwnershipInv, ConfigType, Captures, UNCHANGED <<config_vars, mode_vars>>,
         NEW code \in Codes, NEW down \in BOOLEAN, Changed(code, down), ~recording,
         FreshEdge(code, down)
  PROVE  Captures' /\ Sends
<1> DEFINE functions == Startable(code, After(code, TRUE))
           matches == MappingMatches(code, After(code, TRUE))
<1>1. CASE Observe(code, down) /\ NormalInput(code, down)
  BY <1>1, NormalCaptures
<1>2. CASE /\ down = TRUE /\ functions # {}
           /\ Activate(code, index[First(functions)])
  BY <1>2, StartCaptures
<1>3. CASE /\ down = TRUE /\ matches # {}
           /\ ActivateMapping(code, mappings[First(matches)])
  BY <1>3, StartMappingCaptures
<1>4. down => down = TRUE
  OBVIOUS
<1>5. QED
  BY <1>1, <1>2, <1>3, <1>4 DEF FreshEdge

LEMMA RouteEdgeCaptures ==
  ASSUME OwnershipInv, ConfigType, Captures, UNCHANGED <<config_vars, mode_vars>>,
         NEW code \in Codes, NEW down \in BOOLEAN, RouteEdge(code, down)
  PROVE  Captures' /\ Sends
<1>1. CASE Observe(code, down) /\ (NormalInput(code, down) \/ Consume)
  BY <1>1, NormalCaptures
<1>2. CASE SuppressedEdge(code, down)
  BY <1>2, SuppressedCaptures
<1>3. CASE /\ code \in DOMAIN mapping_active
           /\ Observe(code, down) /\ MappedEdge(code, down)
  BY <1>3, MappedCaptures
<1>4. CASE code \in DOMAIN StillActive(code, down) /\ ActiveEdge(code, down)
  BY <1>4, ActiveCaptures
<1>5. CASE /\ Observe(code, down) /\ presses' = {}
           /\ UNCHANGED <<hold_vars, mapping_active, mapped>>
  BY <1>5, ObserveCaptures
<1>6. CASE Changed(code, down) /\ ~recording /\ FreshEdge(code, down)
  BY <1>6, FreshCaptures
<1>7. QED
  BY <1>1, <1>2, <1>3, <1>4, <1>5, <1>6 DEF RouteEdge, UnchangedEdge

LEMMA LocalEdgeCaptures ==
  ASSUME OwnershipInv, Captures, UNCHANGED <<config_vars, mode_vars>>,
         NEW code \in Codes, NEW down \in BOOLEAN, LocalEdge(code, down)
  PROVE  Captures' /\ Sends
<1>1. CASE /\ code \in DOMAIN mapping_active
           /\ physical' = After(code, down) /\ active' = active
           /\ MappedEdge(code, down)
  BY <1>1, MappedCaptures
<1>2. CASE /\ Observe(code, down) /\ presses' = {}
           /\ UNCHANGED <<hold_vars, mapping_active, mapped>>
  BY <1>2, ObserveCaptures
<1>3. CASE code \in DOMAIN StillActive(code, down) /\ ActiveEdge(code, down)
  BY <1>3, ActiveCaptures
<1>4. CASE SuppressedEdge(code, down)
  BY <1>4, SuppressedCaptures
<1>5. CASE Observe(code, down) /\ NormalInput(code, down)
  BY <1>5, NormalCaptures
<1>6. QED
  BY <1>1, <1>2, <1>3, <1>4, <1>5 DEF LocalEdge

LEMMA EdgeCaptures ==
  ASSUME OwnershipInv, ConfigType, Captures, Edge
  PROVE  Captures' /\ Sends
<1>1. ASSUME NEW code \in Codes, NEW down \in BOOLEAN, RouteEvent(code, down)
      PROVE  Captures' /\ Sends
  BY <1>1, RouteEdgeCaptures DEF RouteEvent
<1>2. ASSUME NEW code \in Codes, NEW down \in BOOLEAN, RouteLocalEvent(code, down)
      PROVE  Captures' /\ Sends
  <2>1. /\ UNCHANGED <<config_vars, mode_vars>>
        /\ RouteEdge(code, down) \/ LocalEdge(code, down)
    BY <1>2 DEF RouteLocalEvent
  <2>2. QED
    BY <2>1, RouteEdgeCaptures, LocalEdgeCaptures
<1>3. QED
  BY <1>1, <1>2 DEF Edge

LEMMA ModeCaptures ==
  ASSUME OwnershipInv, Captures, Mode
  PROVE  Captures' /\ Sends
<1>1. ASSUME presses' = {},
             UNCHANGED <<config_vars, passthrough, owner_vars, hold_vars, mapped>>,
             listening => listening', recording' => recording
      PROVE  Captures' /\ Sends
  <2>1. Captures'
    BY <1>1, SameCaptures DEF config_vars, owner_vars
  <2>2. Sends
    BY <1>1 DEF owner_vars, Sends
  <2>3. QED
    BY <2>1, <2>2
<1>2. ASSUME NEW value \in BOOLEAN, SetPassthrough(value) PROVE Captures' /\ Sends
  BY <1>2, EndCaptures DEF SetPassthrough, SwitchPassthrough
<1>3. ASSUME NEW value \in BOOLEAN, SetListening(value) PROVE Captures' /\ Sends
  <2>1. CASE value
    BY <1>1, <1>3, <2>1 DEF SetListening
  <2>2. CASE ~value
    <3>1. End(FALSE, IF passthrough THEN physical ELSE {})
      BY <1>3, <2>2 DEF SetListening, TerminateInto
    <3>2. QED
      BY <3>1, EndCaptures
  <2>3. QED
    BY <2>1, <2>2
<1>4. ASSUME NEW value \in BOOLEAN, SetRecording(value) PROVE Captures' /\ Sends
  <2>1. CASE value
    <3>1. End(FALSE, IF passthrough THEN physical ELSE {})
      BY <1>4, <2>1 DEF SetRecording, TerminateInto
    <3>2. QED
      BY <3>1, EndCaptures
  <2>2. CASE ~value
    BY <1>1, <1>4, <2>2 DEF SetRecording
  <2>3. QED
    BY <2>1, <2>2
<1>5. ASSUME Terminate PROVE Captures' /\ Sends
  <2>1. End(FALSE, IF passthrough THEN physical ELSE {})
    BY <1>5 DEF Terminate, TerminateInto
  <2>2. QED
    BY <2>1, EndCaptures
<1>6. QED
  BY <1>2, <1>3, <1>4, <1>5 DEF Mode

LEMMA PublishCaptures ==
  ASSUME OwnershipInv, Captures, Publish
  PROVE  Captures' /\ Sends
<1>1. /\ \A c \in DOMAIN active : Allows(rules, active[c].function, foreground)
      /\ \A c \in DOMAIN mapping_active : MappingAllows(rules, mapping_active[c], foreground)
  BY DEF Captures, CapturesOK, PressOK, PressAllowed, MappingOK
<1>2. ASSUME NEW c \in Configs, NEW r \in 0..MaxRevision, UpdateConfig(c, r)
      PROVE  Captures' /\ Sends
  <2>1. CASE SwitchPassthrough(FALSE)
    BY <2>1, EndCaptures DEF SwitchPassthrough
  <2>2. CASE Cancel(Rebound(c), {}) /\ UNCHANGED <<mappings, rules, foreground>>
    <3>1. Rebound(c) \subseteq DOMAIN active
      BY DEF Rebound
    <3>2. QED
      BY <1>1, <2>2, <3>1, CancelCaptures
  <2>3. QED
    BY <1>2, <2>1, <2>2 DEF UpdateConfig
<1>3. ASSUME NEW l \in MappingLists, UpdateMappings(l) PROVE Captures' /\ Sends
  <2>1. Cancel({}, Remapped(l)) /\ UNCHANGED <<rules, foreground>>
    BY <1>3 DEF UpdateMappings
  <2>2. QED
    BY <1>1, <2>1, CancelCaptures
<1>4. ASSUME NEW r, NEW app, CancelOutOfScope(r, app), rules' = r, foreground' = app
      PROVE  Captures' /\ Sends
  <2> DEFINE captured == {c \in DOMAIN active : ~Allows(r, active[c].function, app)}
             holding == {c \in DOMAIN mapping_active : ~MappingAllows(r, mapping_active[c], app)}
  <2>1. Cancel(captured, holding)
    BY <1>4 DEF CancelOutOfScope
  <2>2. /\ captured \subseteq DOMAIN active
        /\ \A c \in DOMAIN active \ captured : Allows(rules', active[c].function, foreground')
        /\ \A c \in DOMAIN mapping_active \ holding :
             MappingAllows(rules', mapping_active[c], foreground')
    BY <1>4
  <2> HIDE DEF captured, holding
  <2>3. QED
    BY <2>1, <2>2, CancelCaptures
<1>5. ASSUME NEW r \in Rules, SetForegroundAppRules(r) PROVE Captures' /\ Sends
  <2>1. PICK app : app = foreground
    OBVIOUS
  <2>2. CancelOutOfScope(r, app) /\ rules' = r /\ foreground' = app
    BY <1>5, <2>1 DEF SetForegroundAppRules
  <2>3. QED
    BY <1>4, <2>2
<1>6. ASSUME NEW app \in Apps \cup {NoApp}, SetForeground(app) PROVE Captures' /\ Sends
  <2>1. PICK r : r = rules
    OBVIOUS
  <2>2. CancelOutOfScope(r, app) /\ rules' = r /\ foreground' = app
    BY <1>6, <2>1 DEF SetForeground
  <2>3. QED
    BY <1>4, <2>2
<1>7. QED
  BY <1>2, <1>3, <1>5, <1>6 DEF Publish

LEMMA NextCaptures ==
  ASSUME RouterInv, Next
  PROVE  Captures' /\ Sends
BY EdgeCaptures, ModeCaptures, PublishCaptures, TickCaptures DEF RouterInv, Next

\* What is saved keeps its type: config_vars change only where a call publishes them.
LEMMA NextConfig ==
  ASSUME ConfigType, Next
  PROVE  ConfigType'
<1>1. CASE Edge \/ \E due \in SUBSET DOMAIN active : Tick(due)
  BY <1>1 DEF Edge, RouteEvent, RouteLocalEvent, Tick, ConfigType, config_vars, mode_vars
<1>2. ASSUME NEW enabled \in BOOLEAN, NEW isolate, End(enabled, isolate),
             UNCHANGED <<mappings>>, index' \in Configs, revision' \in 0..MaxRevision,
             listening' \in BOOLEAN, recording' \in BOOLEAN
      PROVE  ConfigType'
  BY <1>2 DEF End, ConfigType
<1>3. CASE Mode
  <2>1. ASSUME NEW value \in BOOLEAN, SetPassthrough(value) PROVE ConfigType'
    BY <1>2, <2>1 DEF SetPassthrough, SwitchPassthrough, ConfigType
  <2>2. ASSUME NEW value \in BOOLEAN, SetListening(value) PROVE ConfigType'
    <3>1. CASE value
      BY <2>2, <3>1 DEF SetListening, ConfigType, config_vars
    <3>2. CASE ~value
      BY <1>2, <2>2, <3>2 DEF SetListening, TerminateInto, ConfigType
    <3>3. QED
      BY <3>1, <3>2
  <2>3. ASSUME NEW value \in BOOLEAN, SetRecording(value) PROVE ConfigType'
    <3>1. CASE ~value
      BY <2>3, <3>1 DEF SetRecording, ConfigType, config_vars
    <3>2. CASE value
      BY <1>2, <2>3, <3>2 DEF SetRecording, TerminateInto, ConfigType
    <3>3. QED
      BY <3>1, <3>2
  <2>4. ASSUME Terminate PROVE ConfigType'
    BY <1>2, <2>4 DEF Terminate, TerminateInto, ConfigType
  <2>5. QED
    BY <1>3, <2>1, <2>2, <2>3, <2>4 DEF Mode
<1>4. CASE Publish
  <2>1. ASSUME NEW c \in Configs, NEW r \in 0..MaxRevision, UpdateConfig(c, r) PROVE ConfigType'
    <3>1. index' \in Configs /\ revision' \in 0..MaxRevision
      BY <2>1 DEF UpdateConfig
    <3>2. CASE /\ SwitchPassthrough(FALSE)
               /\ UNCHANGED <<mappings, listening, recording>>
      BY <1>2, <3>1, <3>2 DEF SwitchPassthrough, ConfigType
    <3>3. CASE Cancel(Rebound(c), {}) /\ UNCHANGED <<mappings, rules, foreground>>
      BY <3>1, <3>3 DEF Cancel, ConfigType, mode_vars
    <3>4. QED
      BY <2>1, <3>2, <3>3 DEF UpdateConfig
  <2>2. ASSUME NEW l \in MappingLists, UpdateMappings(l) PROVE ConfigType'
    BY <2>2 DEF UpdateMappings, Cancel, ConfigType, mode_vars
  <2>3. ASSUME NEW r \in Rules, SetForegroundAppRules(r) PROVE ConfigType'
    BY <2>3 DEF SetForegroundAppRules, CancelOutOfScope, Cancel, ConfigType, mode_vars
  <2>4. ASSUME NEW app \in Apps \cup {NoApp}, SetForeground(app) PROVE ConfigType'
    BY <2>4 DEF SetForeground, CancelOutOfScope, Cancel, ConfigType, mode_vars
  <2>5. QED
    BY <1>4, <2>1, <2>2, <2>3, <2>4 DEF Publish
<1>5. QED
  BY <1>1, <1>3, <1>4 DEF Next

LEMMA InitRouter == Init => RouterInv
<1> SUFFICES ASSUME Init PROVE RouterInv
  OBVIOUS
<1>1. ConfigType
  <2>1. revision \in 0..MaxRevision
    BY SavedAssumption DEF Init
  <2>2. rules \in Rules /\ mappings \in MappingLists \cup {<< >>}
    BY DEF Init
  <2>3. QED
    BY <2>1, <2>2 DEF Init, ConfigType
<1>2. DOMAIN active = {} /\ DOMAIN mapping_active = {}
  BY Domains DEF Init
<1>3. CapturesOK
  <2>1. active = [c \in DOMAIN active |-> active[c]]
    BY DEF Init, Empty
  <2>2. QED
    BY <1>2, <2>1 DEF CapturesOK
<1>4. Held
  <2>1. \A f \in HoldFunctions : Holding(DOMAIN active, f) = 0
    <3>1. \A f \in HoldFunctions :
            {c \in DOMAIN active \cap DOMAIN active :
               active[c].function = f /\ active[c].hold_started} = {}
      BY <1>2
    <3>2. QED
      BY <3>1, FS_EmptySet DEF Holding
  <2>2. QED
    BY <2>1 DEF Init, Held, HeldOutputs
<1>5. MappedOutputs /\ presses \subseteq FunctionIds
  BY <1>2 DEF Init, MappedOutputs
<1>6. QED
  BY <1>1, <1>3, <1>4, <1>5, InitOwnership DEF RouterInv, Captures

LEMMA NextRouter ==
  ASSUME RouterInv, [Next]_vars
  PROVE  RouterInv' /\ (Next => Sends)
<1>1. CASE Next
  <2>1. OwnershipInv'
    BY NextOwnership DEF RouterInv
  <2>2. ConfigType'
    BY <1>1, NextConfig DEF RouterInv
  <2>3. Captures' /\ Sends
    BY <1>1, NextCaptures
  <2>4. QED
    BY <2>1, <2>2, <2>3 DEF RouterInv, Sends
<1>2. CASE UNCHANGED vars
  <2>1. OwnershipInv' /\ ConfigType'
    BY <1>2, NextOwnership DEF RouterInv, ConfigType, vars, config_vars, mode_vars
  <2>2. Captures'
    BY <1>2, SameCaptures
    DEF RouterInv, ConfigType, vars, config_vars, mode_vars, owner_vars
  <2>3. presses' = presses
    BY <1>2 DEF vars
  <2>4. Next => Sends
    BY NextCaptures
  <2>5. QED
    BY <2>1, <2>2, <2>3, <2>4 DEF RouterInv
<1>3. QED
  BY <1>1, <1>2

LEMMA RouterInvariant == Spec => []RouterInv
<1>1. RouterInv /\ [Next]_vars => RouterInv'
  BY NextRouter
<1>2. QED
  BY <1>1, InitRouter, PTL DEF Spec

\* Every variable keeps its type; in particular no code and no press of an unknown function is
\* ever recorded, and the counts of the holds stay natural numbers (release_hold subtracts).
THEOREM RouterTypes == Spec => []TypeOK
<1>1. ASSUME RouterInv PROVE TypeOK
  <2>1. /\ physical \subseteq Codes /\ DOMAIN active \subseteq Codes
        /\ DOMAIN mapping_active \subseteq Codes /\ local_held \subseteq Codes
        /\ suppressed_until_up \subseteq Codes /\ os \subseteq Codes /\ remote \subseteq Codes
    BY <1>1 DEF RouterInv, OwnershipInv, OneOwner, NothingStuck
  <2>2. active \in [DOMAIN active -> CapturedPress]
    BY <1>1 DEF RouterInv, Captures, CapturesOK, PressOK
  <2>3. /\ held_functions \in [HoldFunctions -> Nat] /\ pressed \in [HoldFunctions -> Nat]
        /\ presses \subseteq FunctionIds
    BY <1>1 DEF RouterInv, Captures, Held
  <2>4. QED
    BY <1>1, <2>1, <2>2, <2>3 DEF RouterInv, ConfigType, TypeOK
<1>2. QED
  BY <1>1, RouterInvariant, PTL

\* What the receiver was told is down is what the router will take back, at every interleaving
\* of taps, holds, timers, edits and changes of mode (tick, release_hold, release_mapping).
THEOREM OutputsAreHeld == Spec => []OutputsHeld
<1>1. RouterInv => OutputsHeld
  BY DEF RouterInv, Captures, Held, OutputsHeld
<1>2. QED
  BY <1>1, RouterInvariant, PTL

\* No captured press or mapping outlives what allowed it, and no press is sent that the modes
\* and the application in front do not allow (cancel_out_of_scope, tick, activate).
THEOREM NothingUnauthorized == Spec => Authorized
<1>1. ASSUME RouterInv, RouterInv', [Next]_vars
      PROVE  [/\ CapturedAllowed'
              /\ \A f \in presses' :
                   /\ Allows(rules, f, foreground)
                   /\ listening \/ passthrough \/ f \in AppFunctions]_vars
  <2> SUFFICES ASSUME Next
               PROVE  /\ CapturedAllowed'
                      /\ \A f \in presses' :
                           /\ Allows(rules, f, foreground)
                           /\ listening \/ passthrough \/ f \in AppFunctions
    BY <1>1
  <2>1. Sends
    BY <1>1, NextRouter
  <2>2. \A f \in presses' :
          /\ Allows(rules, f, foreground)
          /\ listening \/ passthrough \/ f \in AppFunctions
    BY <2>1 DEF Sends, PressAllowed
  <2>3. CapturesOK'
    BY <1>1 DEF RouterInv, Captures
  <2>4. CapturedInScope' /\ CapturedWhileOn' /\ RepeatsExact'
    BY <2>3 DEF CapturesOK, PressOK, PressAllowed, MappingOK,
                CapturedInScope, CapturedWhileOn, RepeatsExact
  <2>5. QED
    BY <2>2, <2>4 DEF CapturedAllowed
<1>2. QED
  BY <1>1, RouterInvariant, PTL DEF Spec, Authorized

\* A hold that was escalated, or is taken away before its release, ends without a tap,
\* whatever step ends it (finish, cancel_unmatched_repeats, cancel_out_of_scope).
THEOREM GesturesAreSingle == Spec => OneGesture
<1>1. ASSUME RouterInv, [Next]_vars
      PROVE  [\A c \in DOMAIN active \ DOMAIN active' :
                (active[c].hold_started \/ c \in suppressed_until_up')
                  => active[c].function \notin presses']_vars
  <2> SUFFICES ASSUME Next
               PROVE  \A c \in DOMAIN active \ DOMAIN active' :
                        (active[c].hold_started \/ c \in suppressed_until_up')
                          => active[c].function \notin presses'
    BY <1>1
  <2>1. Sends
    BY <1>1, NextRouter
  <2>2. QED
    BY <2>1 DEF Sends
<1>2. QED
  BY <1>1, RouterInvariant, PTL DEF Spec, OneGesture
=============================================================================
