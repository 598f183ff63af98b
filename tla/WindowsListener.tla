-------------------------- MODULE WindowsListener --------------------------
(***************************************************************************)
(* The input listener of Windows: taprelay-windows/src/input.rs and        *)
(* input/raw.rs.  One thread pumps messages; the low-level hooks, the raw  *)
(* input window and the policy commands of the runtime all run on it, and  *)
(* other threads change the InputLink between two of its steps.            *)
(*                                                                         *)
(* Every physical edge comes twice: the hook sees it, unless another hook  *)
(* or a time-out took it away, and a raw copy is posted to the window.     *)
(* For a key the first copy is routed and the second one recognised; for   *)
(* a button the hook routes outside a capture and the raw copy inside one. *)
(*                                                                         *)
(* The router is reduced to who owns each key (module KeyOwnership, which  *)
(* InputRouter implements): the toggle key is the shortcut of passthrough, *)
(* the mapping key that of a custom mapping.  Left out: motion and wheel,  *)
(* the reconciliation of modifiers, the time-outs of the policy timer (an  *)
(* escalation changes no owner) and a link that replaces another.          *)
(***************************************************************************)
EXTENDS CaptureLink, Naturals, Sequences

CONSTANTS
  Button,     \* the key that is a mouse button
  ToggleKey,
  MappingKey,
  Plans       \* what a behaviour keeps to: its keys, the policy commands of the
              \* runtime, whether mapping sessions open, whether the listener
              \* stops, and how many edges may have copies on their way at
              \* once (flight)

VARIABLES
  plan,
  down,               \* what is physically down
  edges,              \* edges with a copy on its way, oldest first
  runtime,            \* the runtime thread: idle, waiting for an answer, joining
  thread,             \* none, running or gone
  failed, quit,       \* InputHandle.failed; WM_QUIT is on its way
  request,            \* the policy command in the channel, or none
  attached,           \* PASSTHROUGH holds the link
  callback,           \* what sync_passthrough ran for, or idle
  pass, owner,        \* the router
  mouse,              \* the raw registration of the mouse
  doubted             \* observer: keys with copies that crossed (see Settled)

policy  == <<attached, callback, pass, owner, mouse>>
handle  == <<runtime, thread, failed, quit, request>>
keyboard == <<plan, down>>
keys     == plan.keys
listener_vars == <<link, held, keyboard, edges, handle, policy, doubted>>

Due(copy)   == {i \in DOMAIN edges : edges[i][copy] = "due"}
Other(copy) == IF copy = "hook" THEN "raw" ELSE "hook"

\* An edge with no copy on its way is forgotten.
Pending(es) == SelectSeq(es, LAMBDA e : e.hook = "due" \/ e.raw = "due")

-----------------------------------------------------------------------------
\* The router, as far as ownership goes; o is the owner of each key.

Isolated(o) == [k \in keys |-> IF o[k] = "up" THEN "up" ELSE "suppressed"]

\* terminate
Terminated(o) ==
  IF pass THEN Isolated(o)
  ELSE [k \in keys |-> IF o[k] \in {"captured", "mapped"} THEN "suppressed" ELSE o[k]]

\* Outputs of the mapping when the owners change from o to o2: a release is
\* queued while the session is admitted, and refused while it is not.
HeldAfter(o, o2) ==
  LET mapped(p) == \E k \in keys : p[k] = "mapped"
  IN IF mapped(o) /\ ~mapped(o2) /\ held = "yes" THEN Released(pass)
     ELSE IF ~mapped(o) /\ mapped(o2) /\ attached /\ Admits THEN "yes"
     ELSE held

-----------------------------------------------------------------------------
\* The capture.

\* Faulty variant of EndPassthrough: admission is closed before the releases
EndBeforeReleases(o) ==
  /\ owner' = IF pass THEN Isolated(o) ELSE o
  /\ held' = held
  /\ pass' = FALSE
  /\ mouse' = (mouse /\ ~pass)
  /\ IF attached THEN End ELSE LinkKept

\* end_passthrough: the releases of the mappings are queued, then the link
\* is ended, whether or not a capture was on.
EndPassthrough(o) ==
  /\ owner' = IF pass THEN Isolated(o) ELSE o
  /\ held' = IF pass THEN HeldAfter(o, Isolated(o)) ELSE held
  /\ pass' = FALSE
  /\ mouse' = (mouse /\ ~pass)
  /\ IF attached THEN End ELSE LinkKept

\* What start_passthrough does to es: no copy is recognised any more, but the
\* one of edge i, which is observed only after it was routed; the raw copies
\* of buttons that are on their way are older than STARTED.
Forgotten(es, i) ==
  [j \in DOMAIN es |->
     [es[j] EXCEPT !.fate = IF @ = "noted" /\ j # i THEN "routed" ELSE @,
                   !.old = TRUE]]

Crossed(es, i) == {es[j].key : j \in {n \in DOMAIN es : es[n].fate = "noted" /\ n # i}}

\* start_passthrough with o as owners and es as edges, of which i is being
\* routed: a fresh hook, raw input, begin, and what was observed is forgotten.
StartPassthrough(o, es, i) ==
  \/ /\ End                          \* not ready, or no hook, or no raw input
     /\ owner' = o /\ edges' = es
     /\ UNCHANGED <<held, pass, mouse, doubted>>
  \/ /\ BeginFails                   \* raw input is disabled again
     /\ owner' = o /\ edges' = es
     /\ UNCHANGED <<pass, mouse, doubted>>
  \/ /\ Ready
     /\ Begin
     /\ edges' = Forgotten(es, i)
     /\ doubted' = doubted \cup Crossed(es, i)
     /\ owner' = Isolated(o)
     /\ held' = HeldAfter(o, Isolated(o))
     /\ pass' = TRUE /\ mouse' = TRUE

\* toggle_passthrough
Toggle(o, es, i) ==
  \/ /\ pass
     /\ EndPassthrough(o)
     /\ edges' = es /\ UNCHANGED doubted
  \/ /\ ~pass /\ attached /\ ~requested
     /\ StartPassthrough(o, es, i)   \* the profile is not available
  \/ /\ ~pass
     /\ owner' = o /\ edges' = es
     /\ UNCHANGED <<held, pass, mouse, doubted>>
     /\ \/ ~attached /\ LinkKept
        \/ attached /\ requested /\ End
        \/ attached /\ ~requested /\ RequestProfile

\* sync_passthrough, first thing in every hook, raw input and health timer
SyncPassthrough(what) ==
  /\ thread = "running" /\ callback = "idle"
  /\ callback' = what
  /\ \/ /\ pass
        /\ ~(attached /\ Capturing)
        /\ EndPassthrough(owner)
        /\ UNCHANGED <<edges, doubted>>
     \/ /\ ~pass
        /\ attached /\ requested /\ Ready
        /\ StartPassthrough(owner, edges, 0)
     \/ /\ IF pass THEN attached /\ Capturing ELSE ~(attached /\ requested /\ Ready)
        /\ UNCHANGED <<link, held, pass, owner, mouse, edges, doubted>>
  /\ UNCHANGED <<keyboard, handle, attached>>

-----------------------------------------------------------------------------
\* Edges.

\* Who owns key k after an edge that the router takes
OwnerAfter(k, isDown) ==
  IF ~isDown THEN "up"
  ELSE IF owner[k] # "up" THEN owner[k]
  ELSE IF k = MappingKey /\ mapping THEN "mapped"
  ELSE IF pass THEN "remote" ELSE "local"

\* route_edge and prepare_hook_result for edge e; es are the edges after it.
Route(e, es, i) ==
  \/ /\ e.key = ToggleKey /\ e.down /\ owner[e.key] = "up"
     /\ Toggle([owner EXCEPT ![e.key] = "captured"], es, i)
  \/ /\ ~(e.key = ToggleKey /\ e.down /\ owner[e.key] = "up")
     /\ owner' = [owner EXCEPT ![e.key] = OwnerAfter(e.key, e.down)]
     /\ held' = HeldAfter(owner, owner')
     /\ edges' = es
     /\ UNCHANGED <<link, pass, mouse, doubted>>

NotRouted(es) ==
  /\ edges' = Pending(es)
  /\ UNCHANGED <<link, held, pass, owner, mouse>>

\* Edge i after one of its copies was taken
Taken(i, copy, fate) == [edges EXCEPT ![i][copy] = "taken", ![i].fate = fate]

RouteCopy(i, copy, fate) ==
  IF edges[i][Other(copy)] = "due"
    THEN Route(edges[i], Taken(i, copy, fate), i)
    ELSE Route(edges[i], Pending(Taken(i, copy, fate)), 0)

\* Faulty variant of ObservedKeyboard: the raw copies count in a capture only
ObservedInCapture(i, copy) ==
  IF edges[i].fate = "noted" \/ (copy = "raw" /\ ~pass)
    THEN NotRouted(Taken(i, copy, "routed")) /\ UNCHANGED doubted
    ELSE RouteCopy(i, copy, "noted")

\* observed_keyboard: a copy is not routed when it is recognised as the second
\* copy of an edge that was.
ObservedKeyboard(i, copy) ==
  IF edges[i].fate = "noted"
    THEN NotRouted(Taken(i, copy, "routed")) /\ UNCHANGED doubted
    ELSE RouteCopy(i, copy, "noted")

\* mouse_proc: in a capture the hook swallows the button, outside it routes it.
\* procedure: in a capture the raw copy is routed, unless it is too old.
ObservedButton(i, copy) ==
  LET fate   == edges[i].fate
      last   == edges[i][Other(copy)] # "due"
      routes == IF copy = "hook" THEN ~pass ELSE pass /\ ~edges[i].old
  IN IF routes
       THEN RouteCopy(i, copy, "routed")
       ELSE /\ NotRouted(Taken(i, copy, fate))
            /\ doubted' = IF last /\ fate = "none"
                            THEN doubted \cup {edges[i].key} ELSE doubted

\* The raw copy of an earlier edge of the key that the hook did not see is on
\* its way.
Overtakes(i) ==
  \E j \in DOMAIN edges : /\ j < i /\ edges[j].key = edges[i].key
                          /\ edges[j].hook = "lost" /\ edges[j].raw = "due"

\* keyboard_proc, mouse_proc, procedure: the next copy.  Left out: a hook copy
\* that overtakes a raw one.
Observed(copy) ==
  /\ callback = copy
  /\ callback' = "idle"
  /\ \E i \in Due(copy) :
       /\ \A j \in Due(copy) : i <= j
       /\ copy = "hook" => ~Overtakes(i)
       /\ IF edges[i].key = Button THEN ObservedButton(i, copy) ELSE ObservedKeyboard(i, copy)
  /\ UNCHANGED <<keyboard, handle, attached>>

\* Raw input that cannot be read or is absolute, a panic, or a health timer
\* that finds another desktop; anything else leaves the capture alone.
CallbackEnds ==
  /\ callback # "idle"
  /\ callback' = "idle"
  /\ \/ /\ callback # "hook"
        /\ EndPassthrough(owner)
     \/ UNCHANGED <<link, held, pass, owner, mouse>>
  /\ UNCHANGED <<keyboard, edges, handle, attached, doubted>>

\* A locked session, a removed device
SessionLost ==
  /\ thread = "running" /\ callback = "idle"
  /\ EndPassthrough(owner)
  /\ UNCHANGED <<keyboard, edges, handle, attached, callback, doubted>>

-----------------------------------------------------------------------------
\* The policy commands.

\* Ends of the capture among the outputs of a command
Ended(o) ==
  /\ owner' = o
  /\ held' = HeldAfter(owner, o)
  /\ pass' = FALSE
  /\ mouse' = (mouse /\ ~pass)

AttachPassthrough ==
  /\ attached' = TRUE
  /\ Ended(IF pass THEN Isolated(owner) ELSE owner)
  /\ IF attached \/ pass THEN End ELSE LinkKept

\* configure: a capture that is only asked for is called off; the new settings
\* may end the capture, or what is captured.
Configure ==
  /\ UNCHANGED attached
  /\ \/ /\ UNCHANGED <<held, pass, owner, mouse>>
        /\ IF attached /\ requested /\ ~mapping /\ ~Capturing THEN End ELSE LinkKept
     \/ /\ Ended(Terminated(owner))
        /\ IF attached /\ (pass \/ (requested /\ ~mapping /\ ~Capturing)) THEN End ELSE LinkKept

Terminate ==
  /\ UNCHANGED attached
  /\ Ended(Terminated(owner))
  /\ IF attached /\ (pass \/ ~mapping \/ requested) THEN End ELSE LinkKept

\* POLICY_MESSAGE: the command that is in the channel runs, however late.
PolicyMessage ==
  /\ thread = "running" /\ callback = "idle"
  /\ request # "none"
  /\ \/ request = "attach" /\ AttachPassthrough
     \/ request = "configure" /\ Configure
     \/ request = "terminate" /\ Terminate
  /\ request' = "none"
  /\ runtime' = IF runtime = "waiting" THEN "idle" ELSE runtime
  /\ UNCHANGED <<keyboard, edges, thread, failed, quit, callback, doubted>>

-----------------------------------------------------------------------------
\* The life of the listener.

\* ensure_input: the keys that are down belong to the computer.
Start ==
  /\ runtime = "idle" /\ thread = "none"
  /\ thread' = "running"
  /\ failed' = FALSE /\ quit' = FALSE /\ request' = "none"
  /\ attached' = FALSE /\ callback' = "idle" /\ pass' = FALSE /\ mouse' = FALSE
  /\ owner' = [k \in keys |-> IF k \in down THEN "local" ELSE "up"]
  /\ edges' = << >> /\ doubted' = {}
  /\ UNCHANGED <<link, held, keyboard, runtime>>

\* request; the caller of terminate ends the link itself where no mapping
\* session is open.
Request(command) ==
  /\ runtime = "idle" /\ thread # "none" /\ ~failed /\ thread # "gone"
  /\ (command = "attach") = ~attached
  /\ request' = command
  /\ runtime' = "waiting"
  /\ IF command = "terminate" /\ ~mapping
       THEN End /\ held' = held ELSE UNCHANGED <<link, held>>
  /\ UNCHANGED <<keyboard, edges, thread, failed, quit, policy, doubted>>

\* No answer within a second, or the thread is gone with the command
RequestFails ==
  /\ plan.stops
  /\ runtime = "waiting"
  /\ runtime' = "idle"
  /\ failed' = TRUE
  /\ quit' = TRUE
  /\ UNCHANGED <<link, held, keyboard, edges, thread, request, policy, doubted>>

\* stop: a queue is full or closed, a callback panicked, a replay failed
StopItself ==
  /\ plan.stops
  /\ thread = "running" /\ ~quit
  /\ quit' = TRUE
  /\ UNCHANGED <<link, held, keyboard, edges, runtime, thread, failed, request, policy, doubted>>

\* Drop for InputHandle: WM_QUIT, then join
DropHandle ==
  /\ plan.stops
  /\ runtime = "idle" /\ thread # "none"
  /\ runtime' = "joining"
  /\ quit' = TRUE
  /\ UNCHANGED <<link, held, keyboard, edges, thread, failed, request, policy, doubted>>

\* The state of the thread goes with it.
Gone ==
  /\ thread' = "gone" /\ request' = "none"
  /\ attached' = FALSE /\ pass' = FALSE /\ mouse' = FALSE
  /\ owner' = [k \in keys |-> "up"]
  /\ edges' = << >> /\ doubted' = {}

\* The loop ends: the capture is ended by the cleanup, after the hooks.
Exit ==
  /\ thread = "running" /\ callback = "idle"
  /\ quit
  /\ Gone
  /\ held' = HeldAfter(owner, Terminated(owner))
  /\ IF attached /\ pass THEN End ELSE LinkKept
  /\ UNCHANGED <<keyboard, runtime, failed, quit, callback>>

Joined ==
  /\ runtime = "joining" /\ thread = "gone"
  /\ runtime' = "idle" /\ thread' = "none"
  /\ UNCHANGED <<link, held, keyboard, edges, failed, quit, request, policy, doubted>>

-----------------------------------------------------------------------------
\* The keyboard and the other threads.

Edge(k) ==
  /\ Len(edges) < plan.flight
  /\ down' = IF k \in down THEN down \ {k} ELSE down \cup {k}
  /\ edges' = IF thread # "running" THEN edges
              ELSE Append(edges, [key |-> k, down |-> k \notin down, hook |-> "due",
                                  raw |-> "due", fate |-> "none", old |-> FALSE])
  /\ UNCHANGED <<link, held, plan, handle, policy, doubted>>

\* The hook took too long, or another hook consumed the edge; the raw copy of
\* a button counts in a capture only.
HookLost ==
  /\ callback = "idle"
  /\ \E i \in Due("hook") :
       /\ \A j \in Due("hook") : i <= j
       /\ edges[i].raw = "due"
       /\ edges' = [edges EXCEPT ![i].hook = "lost"]
       /\ doubted' = doubted \cup ({edges[i].key} \cap {Button})
  /\ UNCHANGED <<link, held, keyboard, handle, policy>>

OtherThreads ==
  /\ Others
  /\ mapping' => plan.sessions
  /\ UNCHANGED <<keyboard, edges, handle, policy, doubted>>

Init ==
  /\ LinkInit
  /\ plan \in Plans /\ down = {} /\ edges = << >>
  /\ runtime = "idle" /\ thread = "none" /\ failed = FALSE /\ quit = FALSE
  /\ request = "none"
  /\ attached = FALSE /\ callback = "idle" /\ pass = FALSE /\ mouse = FALSE
  /\ owner = [k \in keys |-> "up"]
  /\ doubted = {}

Next ==
  \/ \E what \in {"hook", "raw", "timer"} : SyncPassthrough(what)
  \/ \E copy \in {"hook", "raw"} : Observed(copy)
  \/ CallbackEnds \/ SessionLost \/ PolicyMessage
  \/ Start \/ (\E command \in plan.commands : Request(command))
  \/ RequestFails \/ StopItself \/ DropHandle \/ Exit \/ Joined
  \/ (\E k \in keys : Edge(k)) \/ HookLost \/ OtherThreads

Spec == Init /\ [][Next]_listener_vars

-----------------------------------------------------------------------------
\* Properties.

TypeOK ==
  /\ LinkTypeOK
  /\ owner \in [keys -> {"up", "local", "remote", "captured", "mapped", "suppressed"}]
  /\ runtime \in {"idle", "waiting", "joining"} /\ thread \in {"none", "running", "gone"}
  /\ request \in {"none"} \cup plan.commands
  /\ callback \in {"idle", "hook", "raw", "timer"}
  /\ down \subseteq keys /\ doubted \subseteq keys

\* What the receiver was given has an owner in a listener that runs: a live
\* capture the router in passthrough, with the raw mouse; the output of a
\* mapping the key that was pressed for it, except where the release was
\* refused outside a capture, with admission closed by a link.end.
Owned ==
  /\ Capturing => thread = "running" /\ attached /\ pass /\ mouse
  /\ held = "yes" => thread = "running" /\ \E k \in keys : owner[k] = "mapped"
  /\ mouse => pass

\* Once all the copies of its edges were taken, a key is up for the router
\* exactly when it is up, whichever copies were lost and whatever happened in
\* between.  Except keys of which one copy was taken when a capture began,
\* and buttons whose capture ended between the hook and the raw copy.
Settled ==
  thread = "running" =>
    \A k \in keys \ doubted :
      (\A i \in DOMAIN edges : edges[i].key # k) => (owner[k] = "up" <=> k \notin down)

=============================================================================
