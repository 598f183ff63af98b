----------------------------- MODULE GroupEditor -----------------------------
(***************************************************************************)
(* The editor of application groups:                                       *)
(* taprelay-app/src/gui/controller/groups.rs and groups/draft.rs, with the *)
(* pages, the dialog and the file prompt that issue their commands.        *)
(*                                                                         *)
(* A save or a deletion hands the whole new rules to the worker and waits  *)
(* for the answer (wait) until nothing is pending any more; the user may   *)
(* turn the page, switch functions or change a scope before that.  A       *)
(* button is enabled by what the last sync saw (busy, saving), its command *)
(* checks again after a poll.  The second poll, of enqueue, is in          *)
(* Settings.                                                               *)
(*                                                                         *)
(* Identifiers and names are numbers, as the code draws them; 0 is the     *)
(* identifier of a new group and the empty name.  The rules are limited to *)
(* one function with a scope; whether its shortcuts are in conflict is in  *)
(* Bindings.  Messages and the list of running applications are left out.  *)
(***************************************************************************)
EXTENDS Naturals, SequencesExt, FiniteSetsExt

CONSTANTS
  App,       \* applications
  Plans      \* a set of [orders |-> commands of the user, failures |-> of saves]

VARIABLES
  gui,       \* Controller and Presentation.groups, with the RuntimeHandle
  answers,   \* on their way to the GUI
  worker,    \* the live rules
  seen       \* observers and bounds

vars == <<gui, answers, worker, seen>>

Absent == [kind |-> "none"]

Free(used) == CHOOSE n \in 1..Cardinality(used) + 1 : n \notin used /\ 1..n - 1 \subseteq used

Names(rules) == {rules.groups[id].name : id \in DOMAIN rules.groups}

\* ForegroundAppRules::valid
Valid(rules) ==
  /\ Cardinality(Names(rules)) = Cardinality(DOMAIN rules.groups)
  /\ 0 \notin Names(rules) /\ rules.scope \subseteq DOMAIN rules.groups

-----------------------------------------------------------------------------
(* The draft.                                                               *)

NewDraft(rules) == [id |-> 0, group |-> [name |-> Free(Names(rules)), apps |-> {}]]

Draft(rules, id) == IF id = 0 THEN NewDraft(rules) ELSE [id |-> id, group |-> rules.groups[id]]

\* The group of the draft d in rules
Target(d, rules) == IF d.id = 0 THEN Free(DOMAIN rules.groups) ELSE d.id

Candidate(d, rules) ==
  [rules EXCEPT !.groups = [id \in DOMAIN @ \union {Target(d, rules)} |->
                              IF id = Target(d, rules) THEN d.group ELSE @[id]]]

\* remove_group
Without(rules, id) ==
  [groups |-> [i \in DOMAIN rules.groups \ {id} |-> rules.groups[i]], scope |-> rules.scope \ {id}]

-----------------------------------------------------------------------------
(* The handle of the runtime, as far as the editor sees it.                 *)

EditsBlocked(g) == \E i \in DOMAIN g.pending : g.pending[i].kind \notin {"poll", "scope", "toggle"}
Busy(g)         == \E i \in DOMAIN g.pending : g.pending[i].kind # "poll"

\* Poll and CancelCapture are pending at most once; rules are not saved twice at a time.
Refused(g, kind) ==
  \/ kind \in {"poll", "cancel"} /\ \E i \in DOMAIN g.pending : g.pending[i].kind = kind
  \/ kind \in {"rules", "scope", "toggle"} /\ EditsBlocked(g)
  \/ kind \in {"rules", "scope"} /\ \E i \in DOMAIN g.pending : g.pending[i].kind \in {"rules", "scope"}
  \/ kind = "toggle" /\ \E i \in DOMAIN g.pending : g.pending[i].kind = kind

Sent(g, request) ==
  IF Refused(g, request.kind) THEN g ELSE [g EXCEPT !.pending = Append(@, request)]

\* The request of an answer is the oldest one.
Answered(g, answer) ==
  [g EXCEPT !.pending = Tail(@), !.rules = answer.rules,
            !.saved = IF Head(g.pending).kind \in {"rules", "scope"} THEN answer.ok ELSE @]

Polled == FoldLeft(Answered, gui, answers)

-----------------------------------------------------------------------------
(* The controller.                                                          *)

\* close_group_view
Closed(g) == [g EXCEPT !.view = "list", !.draft = Absent, !.saving = FALSE]

\* open_group_view, for the editor
Opened(g, id) ==
  [g EXCEPT !.view = "editor", !.draft = Draft(g.rules, id), !.saving = FALSE, !.opened = @ + 1]

\* save_foreground_app_rules: validated here, and again by the worker.
Saved(g, rules, id) ==
  IF ~Valid(rules) \/ Refused(g, "rules") THEN g
  ELSE [Sent(g, [kind |-> "rules", rules |-> rules, on |-> id])
          EXCEPT !.saved = "none", !.wait = rules, !.saving = TRUE]

\* sync_group_operation
Settle(g) ==
  IF Busy(g) \/ g.wait = Absent THEN g
  ELSE LET taken == [g EXCEPT !.wait = Absent, !.saved = "none"]
       IN IF g.saved = "yes" /\ g.rules = g.wait THEN Closed(taken)
          ELSE [taken EXCEPT !.saving = FALSE]

Sync(g) == LET s == Settle(g) IN [s EXCEPT !.busy = EditsBlocked(s)]

-----------------------------------------------------------------------------
(* What the user does: a command polls, changes the controller and syncs.   *)

May(order) == order \in DOMAIN seen.plan.orders /\ seen.orders[order] < seen.plan.orders[order]

Dispatch(order, g) ==
  /\ May(order)
  /\ gui' = Sync(g) /\ answers' = <<>>
  /\ seen' = [seen EXCEPT !.orders[order] = @ + 1, !.last = order]
  /\ UNCHANGED worker

On(page, view) == gui.page = page /\ gui.view = view

\* group_command: after the poll, edits must not be blocked.
Command(order, g) == Dispatch(order, IF EditsBlocked(Polled) THEN Polled ELSE g)

\* create and edit
Open ==
  \E id \in DOMAIN gui.rules.groups \union {0} :
    /\ On("groups", "list") /\ ~gui.busy
    /\ Command("open", IF id \in DOMAIN Polled.rules.groups \union {0} THEN Opened(Polled, id) ELSE Polled)

Editing == On("groups", "editor") /\ ~gui.busy /\ ~gui.saving

Rename ==
  \E name \in {0} \union Names(gui.rules) :
    /\ Editing
    /\ Dispatch("rename", [Polled EXCEPT !.draft.group.name = name])

Add ==
  \E app \in App :
    /\ Editing
    /\ Command("add", [Polled EXCEPT !.draft.group.apps = @ \union {app}])

RemoveApp ==
  /\ Editing
  /\ \E app \in gui.draft.group.apps :
       Command("remove", [Polled EXCEPT !.draft.group.apps = @ \ {app}])

\* browse_group_app opens a prompt of the system and returns.
Browse ==
  /\ Editing /\ gui.prompt = 0
  /\ Dispatch("browse", [Polled EXCEPT !.prompt = gui.opened])

\* The prompt is answered: for another editor than the one that opened it, in vain.
Picked ==
  \E app \in App :
    /\ gui.prompt # 0
    /\ LET p == [Polled EXCEPT !.prompt = 0] IN
       Dispatch("picked", IF gui.view # "editor" \/ gui.prompt # gui.opened \/ EditsBlocked(p) THEN p
                          ELSE [p EXCEPT !.draft.group.apps = @ \union {app}])

\* save, which may be refused for a conflict of shortcuts; Enter in the name does not
\* wait for what the button waits for.
Save ==
  LET d == Polled.draft IN
  /\ On("groups", "editor") /\ ~gui.saving
  /\ \/ Command("save", Saved(Polled, Candidate(d, Polled.rules), Target(d, Polled.rules)))
     \/ Command("save", Polled)

\* cancel: the button and Escape in the editor, or the dialog
Cancel ==
  /\ \/ On("groups", "editor")
     \/ gui.view = "delete"
  /\ ~gui.saving
  /\ Dispatch("cancel", IF Polled.wait = Absent THEN Closed(Polled) ELSE Polled)

\* Whether a mapping uses the group is not known here: the dialog may come for any.
RequestDelete ==
  \E id \in DOMAIN gui.rules.groups :
    /\ On("groups", "list") /\ ~gui.busy
    /\ \/ Command("delete", [Polled EXCEPT !.view = "delete", !.target = id, !.draft = Absent, !.saving = FALSE])
       \/ /\ id \notin Polled.rules.scope
          /\ Command("delete", Saved(Polled, Without(Polled.rules, id), id))

Delete ==
  /\ gui.view = "delete" /\ ~gui.saving
  /\ Command("confirm", Saved(Polled, Without(Polled.rules, gui.target), gui.target))

\* Another page: the dialog closes, the editor stays.
Navigate ==
  LET p == Sent(Polled, [kind |-> "cancel"]) IN
  /\ gui.view # "delete"
  /\ Dispatch("navigate", [p EXCEPT !.page = IF @ = "groups" THEN "bindings" ELSE "groups"])

\* save_function_scope, and the switch of a function
SaveScope ==
  \E scope \in SUBSET DOMAIN gui.rules.groups :
    /\ gui.page = "bindings" /\ ~gui.busy /\ scope # gui.rules.scope
    /\ Dispatch("scope",
         IF Refused(Polled, "scope") \/ ~scope \subseteq DOMAIN Polled.rules.groups THEN Polled
         ELSE [Sent(Polled, [kind |-> "scope", scope |-> scope]) EXCEPT !.saved = "none"])

Toggle ==
  /\ gui.page = "bindings" /\ ~gui.busy
  /\ Dispatch("toggle", Sent(Polled, [kind |-> "toggle"]))

GuiTick ==
  /\ gui' = Sync(Sent(Polled, [kind |-> "poll"])) /\ answers' = <<>>
  /\ seen' = [seen EXCEPT !.last = "tick"]
  /\ UNCHANGED worker

-----------------------------------------------------------------------------
(* The worker.                                                              *)

Asked == gui.pending[Len(answers) + 1]

Changed(request) ==
  CASE request.kind = "rules" -> request.rules
    [] request.kind = "scope" -> [worker EXCEPT !.scope = request.scope]
    [] OTHER                  -> worker

Serve ==
  /\ Len(answers) < Len(gui.pending)
  /\ \/ /\ worker' = Changed(Asked)
        /\ answers' = Append(answers, [rules |-> worker', ok |-> "yes"])
        /\ UNCHANGED seen
     \/ /\ Asked.kind \in {"rules", "scope"} /\ seen.failures < seen.plan.failures
        /\ answers' = Append(answers, [rules |-> worker, ok |-> "no"])
        /\ seen' = [seen EXCEPT !.failures = @ + 1]
        /\ UNCHANGED worker
  /\ UNCHANGED gui

-----------------------------------------------------------------------------
\* One group that a function is limited to
FirstRules == [groups |-> [id \in {1} |-> [name |-> 1, apps |-> {}]], scope |-> {1}]

Init ==
  /\ worker = FirstRules /\ answers = <<>>
  /\ gui = [page |-> "groups", view |-> "list", draft |-> Absent, target |-> 0, wait |-> Absent,
            saving |-> FALSE, busy |-> FALSE, opened |-> 0, prompt |-> 0, rules |-> FirstRules,
            saved |-> "none", pending |-> <<>>]
  /\ seen \in {[plan |-> plan, orders |-> [o \in DOMAIN plan.orders |-> 0], failures |-> 0,
                last |-> "tick"] : plan \in Plans}

User == \/ Open \/ Rename \/ Add \/ RemoveApp \/ Browse \/ Picked \/ Save \/ Cancel
        \/ RequestDelete \/ Delete \/ Navigate \/ SaveScope \/ Toggle

Next == User \/ GuiTick \/ Serve

Spec == Init /\ [][Next]_vars

-----------------------------------------------------------------------------
(* Properties.                                                              *)

TypeOK ==
  /\ gui.view \in {"list", "editor", "delete"} /\ (gui.view = "editor" <=> gui.draft # Absent)
  /\ gui.saving => gui.wait # Absent
  /\ Len(answers) <= Len(gui.pending)

\* A draft goes when the user cancels it, or when the rules that the worker saved have
\* it as it was last shown: neither the answer to another save nor one that failed
\* closes an editor.
Closes ==
  gui.draft # Absent /\ (gui'.draft = Absent \/ gui'.opened # gui.opened) =>
    \/ seen'.last = "cancel"
    \/ \E id \in DOMAIN gui'.rules.groups :
         gui'.rules.groups[id] = gui.draft.group /\ (gui.draft.id # 0 => id = gui.draft.id)

\* A save changes the group it is about and no other, and takes a scope away only
\* with its group.
Touches ==
  worker' # worker /\ Asked.kind = "rules" =>
    /\ \A id \in (DOMAIN worker.groups \union DOMAIN worker'.groups) \ {Asked.on} :
         /\ id \in DOMAIN worker.groups \intersect DOMAIN worker'.groups
         /\ worker'.groups[id] = worker.groups[id]
    /\ worker'.scope = worker.scope \intersect DOMAIN worker'.groups

\* What a dialog confirms or an editor saves is what the user saw, whatever else was
\* changed, refused or left in between.
Meant == Closes /\ Touches
=============================================================================
