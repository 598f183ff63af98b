--------------------------- MODULE MCInputRouter ---------------------------
(***************************************************************************)
(* Small instances of InputRouter and of Bindings for TLC.  A behaviour    *)
(* moves one of the two (part), the other stays in its first state: the    *)
(* router has a fixed set of valid configurations, and which ones the user *)
(* can make of them is what Bindings is about.                             *)
(***************************************************************************)
EXTENDS InputRouter, Bindings

VARIABLE part

Bind(f, s, m, p) == [function |-> f, slot |-> s, modifiers |-> m, primary |-> p]
Mapping(i, e, o, s, g) ==
  [id |-> i, enabled |-> e, output |-> o, shortcuts |-> s, groups |-> g]
Key(m, p) == [modifiers |-> m, primary |-> p]

MCLogical == [c \in {"lctrl"} |-> "ctrl"]
MCFunctionIds == {"previous", "volume", "mute", "toggle_passthrough"}

\* Two shortcuts of one hold function, a repeating function behind a
\* modifier, and the passthrough toggle, which the second config unbinds.
MCConfigs ==
  { << Bind("previous", 0, {}, "a"), Bind("previous", 1, {}, "b"),
       Bind("volume", 0, {"ctrl"}, "a"),
       Bind("toggle_passthrough", 0, {"ctrl"}, "b") >>,
    << Bind("previous", 0, {}, "a"), Bind("previous", 1, {"ctrl"}, "b"),
       Bind("volume", 0, {"ctrl"}, "a") >> }

MCMappingLists ==
  { << >>,
    << Mapping(1, TRUE, "x", {Key({}, "c")}, {"g"}) >>,
    << Mapping(1, TRUE, "y", {Key({}, "c"), Key({"ctrl"}, "c")}, {"g"}) >> }

NoAssignment == [f \in {} |-> {}]
MCRules ==
  { [assigned |-> NoAssignment, groups |-> [g \in {"g"} |-> {"app"}]],
    [assigned |-> [f \in {"previous"} |-> {"app"}],
     groups |-> [g \in {"g"} |-> {"app"}]],
    [assigned |-> NoAssignment, groups |-> [g \in {"g"} |-> {}]] }

-----------------------------------------------------------------------------
(* Two functions with scopes and one without, two mappings, two groups that *)
(* may share an application.                                                *)

Nothing == [x \in {} |-> x]
GroupSet(g, h, a) ==
  [groups |-> [x \in {"g", "h"} |-> IF x = "g" THEN g ELSE h], assignments |-> a]
Muted == [f \in {"mute"} |-> {"g"}]

MCRuleSets ==
  { GroupSet({"p"}, {"q"}, Nothing), GroupSet({"p"}, {"p", "q"}, Nothing),
    GroupSet({"p"}, {}, Muted), GroupSet({"p"}, {"p"}, Muted),
    [groups |-> [x \in {"h"} |-> {"q"}], assignments |-> Nothing] }

For(shortcuts, groups) == [shortcuts |-> shortcuts, groups |-> groups]
One(m) == [id \in {"m1"} |-> m]

MCDrafts ==
  { Nothing, One(For(<<"s">>, {})), One(For(<<"s">>, {"g"})), One(For(<<"s", "t">>, {"h"})),
    [id \in {"m1", "m2"} |-> For(<<"s">>, IF id = "m1" THEN {"g"} ELSE {"h"})] }

\* The first state of the router, for the behaviours of Bindings
AtRest == index = (CHOOSE c \in Configs : TRUE) /\ rules.groups["g"] # {}

PartsInit ==
  /\ Init /\ BindingsInit
  /\ \/ part = "router"
     \/ part = "bindings" /\ AtRest

Routes == part = "router" /\ UNCHANGED <<part, settings>>
Edits  == part = "bindings" /\ UNCHANGED <<part, vars>>

PartsNext ==
  \/ Routes /\ Edge
  \/ Routes /\ Mode
  \/ Routes /\ Publish
  \/ Routes /\ \E due \in SUBSET DOMAIN active : Tick(due)
  \/ Edits /\ BeginCapture
  \/ Edits /\ BeginCustomCapture
  \/ Edits /\ CancelCapture
  \/ Edits /\ DeleteShortcut
  \/ Edits /\ SetFunctionEnabled
  \/ Edits /\ SubmitFunction
  \/ Edits /\ SubmitDraft
  \/ Edits /\ SaveScope
  \/ Edits /\ SaveRules
  \/ Edits /\ SaveMappings

PartsSpec == PartsInit /\ [][PartsNext]_<<vars, part, settings>>
=============================================================================
