------------------------ MODULE BluetoothSupervisor ------------------------
(***************************************************************************)
(* The supervisor of the Bluetooth worker process, the process it owns and *)
(* the threads that talk to it: platform/bluetooth_worker.rs, and child.rs *)
(* next to it.                                                             *)
(*                                                                         *)
(* The supervisor repeats `step`: the commands and the profile (phase      *)
(* "control"), what the worker wrote ("messages", "granting"), the rest.   *)
(* Every command and message is one action, and the runtime, the input     *)
(* thread and the worker act between any two of them.  Calls of InputLink  *)
(* are atomic here (InputLink.tla takes them apart), except for the two    *)
(* reads of `revision` around a grant.                                     *)
(*                                                                         *)
(* Time: a deadline may pass whenever it is armed.  Left out: inventories  *)
(* and names (of Refresh and Pair, only what becomes of the request), the  *)
(* mouse settings, NativeProgress (only the stall it fails to prevent),    *)
(* texts of errors.  A command sent to a process that has exited is lost,  *)
(* and the exit is noticed later in the same step.                         *)
(* Changes, losses and failures share one budget; what the program does    *)
(* about them is bounded only by the processes.  A behaviour keeps to one  *)
(* of Plans: what the environment does in it, and how often.               *)
(***************************************************************************)
EXTENDS Naturals, Sequences, FiniteSets, SequencesExt

CONSTANTS
  Targets,            \* receivers
  None,
  Remembered,         \* what the program may start with
  ControlCapacity, InputCapacity, WorkerCapacity, PendingLimit,    \* of the queues
  Sends,              \* a bound on media commands
  Plans               \* what the environment does:
                      \*   live          live_profile_switch: not on Windows, but on macOS
                      \*   changes       the calls of the runtime besides media commands
                      \*   inputs        the events that the input thread produces
                      \*   disturbances  a bound on changes and failures
                      \*   requests      a bound on requests of a profile
                      \*   sends         a bound on media commands
                      \*   processes     a bound on workers

ASSUME BoundsAssumption ==
  /\ None \notin Targets /\ Remembered \subseteq Targets \cup {None}
  /\ ControlCapacity \in Nat \ {0} /\ InputCapacity \in Nat \ {0}
  /\ WorkerCapacity \in Nat \ {0} /\ PendingLimit \in Nat
  /\ Sends \in Nat
  /\ \A p \in Plans :
       /\ p.live \in BOOLEAN /\ p.disturbances \in Nat /\ p.requests \in Nat
       /\ p.changes \subseteq {"select", "restart", "invalidate", "pair", "refresh", "drop"}
       /\ p.inputs \subseteq {"capture", "mapping"} /\ p.sends \in 0..Sends
       /\ p.processes \in Nat \ {0}

VARIABLES
  \* ------- shared between the threads
  link,              \* InputLink
  revision,
  control,           \* commands of the runtime
  stopping,
  \* ------- the runtime thread
  calling,           \* the command of a `change` that has bumped revision
  \* ------- the supervisor
  phase, live, profile, publish, selected, remembered, native, blocked,
  arm, armed, capture_request, switching, pairing, pending, next_id, snapshot,
  \* ------- the worker process and its pipes
  pid, child, commands, messages,
  \* ------- observers
  answers, executed, \* of the media commands
  budget             \* the plan, and the disturbances left

intent   == <<live, profile, publish, selected, remembered>>
session  == <<native, blocked, arm, armed, capture_request, switching>>
receipts == <<pending, next_id, answers>>
worker   == <<pid, child, commands, messages>>
shared   == <<link, revision, control, stopping, calling>>
vars == <<shared, phase, intent, session, pairing, receipts, snapshot, worker,
          executed, budget>>

Plan == budget.plan

Spend == budget.left > 0 /\ budget' = [budget EXCEPT !.left = @ - 1]

-----------------------------------------------------------------------------
\* InputLink, one call at a time.

\* profile_request: a mapping session hides the request of a capture
Request(l) ==
  CASE l.mapping # 0         -> <<"mapping", l.mapping>>
    [] l.mapping = 0 /\ l.requested % 2 = 1 -> <<"capture", l.requested>>
    [] OTHER                 -> <<"none", 0>>

Requested(l) == Request(l) # <<"none", 0>>

Ready(l)  == l.mode = "ready"  /\ l.granted = revision
Active(l) == l.mode = "active" /\ l.granted = revision

\* What was captured before a stop has an epoch that never returns.
Revoked(l) ==
  [l EXCEPT !.mode = "revoked",
            !.packets = [i \in DOMAIN @ |-> [@[i] EXCEPT !.over = TRUE]]]

Unmapped(l) == [l EXCEPT !.mapping = 0]

Unrequested(l) == [l EXCEPT !.requested = IF @ % 2 = 1 THEN @ + 1 ELSE @]

Packet(mapping) ==
  [mapping |-> mapping, generation |-> revision, over |-> FALSE, session |-> <<pid, native>>]

Ended(l) ==
  LET release == Packet(l.mapping)
      left == IF ~Active(l) \/ l.mapping = 0 THEN l
              ELSE IF Len(l.packets) < InputCapacity
                THEN [l EXCEPT !.packets = Append(@, release)]
                ELSE Unmapped(l)
  IN Revoked(Unrequested(left))

Accepts(l, p) ==
  /\ p.generation = revision
  /\ \/ p.mapping # 0 /\ p.mapping = l.mapping /\ l.mode # "revoked"
     \/ p.mapping = 0 /\ ~p.over /\ Active(l)

\* set_ready with the revision as it is now
Granted(l) == IF l.mode = "revoked" THEN [l EXCEPT !.mode = "ready", !.granted = revision] ELSE l

-----------------------------------------------------------------------------
\* The input thread.

BeginCapture ==
  /\ Ready(link)
  /\ link' = [link EXCEPT !.mode = "active"]
  /\ UNCHANGED budget

EndCapture ==
  /\ Active(link) \/ link.requested % 2 = 1
  /\ link' = Ended(link)
  /\ UNCHANGED budget

RequestProfile ==
  /\ link.available /\ link.requested % 2 = 0 /\ link.requested < 2 * Plan.requests
  /\ link' = [link EXCEPT !.requested = @ + 1]
  /\ UNCHANGED budget

\* submit, and submit_mapping_event
SubmitCapture ==
  /\ Active(link)
  /\ link' = IF Len(link.packets) < InputCapacity
               THEN [link EXCEPT !.packets = Append(@, Packet(0))] ELSE Ended(link)
  /\ UNCHANGED budget

SubmitMapping ==
  /\ link.mapping # 0 /\ link.mode # "revoked" /\ link.granted = revision
  /\ link' = IF Len(link.packets) < InputCapacity
               THEN [link EXCEPT !.packets = Append(@, Packet(link.mapping))]
               ELSE Ended(Unmapped(link))
  /\ UNCHANGED budget

Input ==
  /\ ~stopping
  /\ \/ BeginCapture \/ EndCapture \/ RequestProfile
     \/ "capture" \in Plan.inputs /\ SubmitCapture
     \/ "mapping" \in Plan.inputs /\ SubmitMapping
  /\ UNCHANGED <<revision, control, stopping, calling, phase, intent, session, pairing,
                 receipts, snapshot, worker, executed>>

\* The runtime follows the custom mappings (configure_input).
SetMappingProfile ==
  /\ ~stopping /\ "mapping" \in Plan.inputs
  /\ \/ link.mapping # 0 /\ link' = Unmapped(link)
     \/ /\ link.mapping = 0 /\ link.sessions < Plan.requests
        /\ link' = [link EXCEPT !.mapping = link.sessions + 1, !.sessions = @ + 1]
  /\ UNCHANGED <<budget, revision, control, stopping, calling, phase, intent, session, pairing,
                 receipts, snapshot, worker, executed>>

-----------------------------------------------------------------------------
\* The runtime: the calls of Handle.

\* generation and call are of media commands
NoCall == [kind |-> "none", target |-> None, generation |-> 0, call |-> 0]

Commands ==
  {[NoCall EXCEPT !.kind = "select", !.target = t] : t \in Targets \cup {None}}
    \cup {[NoCall EXCEPT !.kind = k] : k \in {"restart", "invalidate"}}

\* change: end and a new generation, then the request, and the supervisor may
\* act in between.
Change(cmd) ==
  /\ calling = NoCall /\ cmd.kind \in Plan.changes
  /\ Spend
  /\ link' = Ended(link)
  /\ revision' = revision + 1
  /\ calling' = cmd
  /\ UNCHANGED control

\* A full queue refuses the request; the generation has changed all the same.
Enqueue ==
  /\ calling # NoCall
  /\ IF Len(control) < ControlCapacity /\ phase # "finished"
       THEN control' = Append(control, calling) /\ UNCHANGED link
       ELSE /\ link' = IF calling.kind = "invalidate" THEN Ended(link) ELSE link
            /\ UNCHANGED control
  /\ calling' = NoCall
  /\ UNCHANGED <<revision, budget>>

\* refresh and pair: the receivers are looked for again, or one is paired
Ask(kind) ==
  /\ calling = NoCall /\ kind \in Plan.changes
  /\ Len(control) < ControlCapacity
  /\ Spend
  /\ control' = Append(control, [NoCall EXCEPT !.kind = kind])
  /\ UNCHANGED <<link, revision, calling>>

Calls == 1..Sends

\* The command names the receiver and the generation of the last snapshot.
Send(c) ==
  /\ calling = NoCall /\ c <= Plan.sends /\ answers[c] = "unsent"
  /\ \A d \in Calls : d < c => answers[d] # "unsent"
  /\ snapshot.ready /\ Len(control) < ControlCapacity
  /\ control' = Append(control, [kind |-> "send", target |-> snapshot.selected,
                                 generation |-> snapshot.generation, call |-> c])
  /\ answers' = [answers EXCEPT ![c] = "waiting"]
  /\ UNCHANGED <<link, revision, calling, budget>>

\* Drop of the handle
Drop ==
  /\ calling = NoCall /\ "drop" \in Plan.changes
  /\ Spend
  /\ stopping' = TRUE
  /\ link' = Ended(link)
  /\ UNCHANGED <<revision, control, calling>>

Runtime ==
  /\ ~stopping
  /\ \/ (\E cmd \in Commands : Change(cmd)) /\ UNCHANGED <<stopping, answers>>
     \/ (Enqueue \/ Ask("pair") \/ Ask("refresh")) /\ UNCHANGED <<stopping, answers>>
     \/ \E c \in Calls : Send(c) /\ UNCHANGED stopping
     \/ Drop /\ UNCHANGED answers
  /\ UNCHANGED <<phase, intent, session, pairing, pending, next_id, snapshot, worker,
                 executed>>

-----------------------------------------------------------------------------
\* The supervisor: replacing the worker.

NoArm == <<0, 0>>
NotArmed == 0
IsArmed == armed # NotArmed
NoRequest == <<"none", 0>>
NoStatus == [kind |-> "none"]

NoChild ==
  [present |-> FALSE, alive |-> FALSE, profile |-> "media", publish |-> FALSE, target |-> None,
   generation |-> 0, shown |-> 0, ready |-> FALSE, admitted |-> FALSE, mapping |-> FALSE,
   sending |-> {}, stalled |-> FALSE, reported |-> NoStatus]

\* The process that initial_command starts: it restores the selected receiver,
\* or the one that is remembered.
Fresh(p, pub, target) ==
  [NoChild EXCEPT !.present = TRUE, !.alive = TRUE, !.profile = p, !.publish = pub,
                  !.target = target, !.generation = 1, !.shown = 1]

\* Every receipt that is pending gets the answer `result`.
Retired(result) ==
  [c \in Calls |-> IF \E id \in DOMAIN pending : pending[id].call = c THEN result ELSE answers[c]]

NoPending == [id \in {} |-> 0]

\* publish_snapshot
Available(pub, sel, ready, switched) == pub /\ sel # None /\ ready /\ ~switched

Announced(l, ready) == [l EXCEPT !.available = Available(publish, selected, ready, switching)]

NextStep == IF stopping THEN "finishing" ELSE "control"

\* A variant with a fault: the queue of the worker has no limit.
CanAlwaysSend == child.present

\* A command for the worker after those in cs; without a worker, or with a full
\* queue, the step fails.
Fits(cs) == child.present /\ Len(cs) < WorkerCapacity

CanSend == Fits(commands)

\* The old process is stopped before a new one starts, so that there is one
\* service owner; either may fail, and the error goes where `failed` says.
Exchange(p, pub, target, next, failed) ==
  \/ /\ ~stopping
     /\ pid' = pid + 1
     /\ child' = Fresh(p, pub, target) /\ commands' = << >> /\ messages' = << >>
     /\ phase' = next
     /\ UNCHANGED budget
  \/ /\ stopping
     /\ child' = NoChild /\ commands' = << >> /\ messages' = << >>
     /\ phase' = next
     /\ UNCHANGED <<pid, budget>>
  \/ /\ ~stopping /\ Spend                    \* no new process
     /\ child' = NoChild /\ commands' = << >> /\ messages' = << >>
     /\ phase' = failed
     /\ UNCHANGED pid
  \/ /\ child.present /\ Spend                \* the old one does not stop
     /\ phase' = failed
     /\ UNCHANGED <<pid, child, commands, messages>>

\* replace_worker, after the caller has made of the link what `l` says
Replace(l, p, pub, sel, rem, next, failed) ==
  /\ pid < Plan.processes
  /\ link' = [Revoked(l) EXCEPT !.available = FALSE]
  /\ revision' = revision + 1
  /\ profile' = p /\ publish' = pub /\ selected' = sel /\ remembered' = rem
  /\ native' = 0 /\ blocked' = 0 /\ arm' = NoArm /\ armed' = NotArmed
  /\ capture_request' = IF p = "full" THEN Request(l) ELSE NoRequest
  /\ switching' = (child.present /\ pub)
  /\ answers' = Retired("stale") /\ pending' = NoPending
  /\ snapshot' = [generation |-> revision + 1, ready |-> FALSE, selected |-> sel]
  /\ Exchange(p, pub, IF sel # None THEN sel ELSE rem, next, failed)
  /\ UNCHANGED <<live, stopping, calling, next_id, executed>>

-----------------------------------------------------------------------------
\* Phase "control": the commands of the runtime.

Command(kind) == phase = "control" /\ control # << >> /\ Head(control).kind = kind

Select ==
  /\ Command("select")
  /\ control' = Tail(control)
  /\ pairing' = FALSE
  /\ LET target == Head(control).target
     IN Replace(Ended(link), "media", target # None, target, None, "control", "failed")

Restart ==
  /\ Command("restart")
  /\ control' = Tail(control)
  /\ pairing' = FALSE
  /\ Replace(Ended(link), "media", TRUE, None, None, "control", "failed")

\* What the worker says of the present native generation no longer counts.
Invalidate ==
  /\ Command("invalidate")
  /\ control' = Tail(control)
  /\ blocked' = native
  /\ IF CanSend
       THEN /\ link' = Announced(Ended(link), FALSE)
            /\ snapshot' = [snapshot EXCEPT !.ready = FALSE, !.generation = revision]
            /\ commands' = Append(commands, [kind |-> "invalidate"])
            /\ UNCHANGED phase
       ELSE /\ link' = Ended(link)
            /\ snapshot' = [snapshot EXCEPT !.ready = FALSE]
            /\ phase' = "failed"
            /\ UNCHANGED commands
  /\ UNCHANGED <<revision, stopping, calling, intent, native, arm, armed, capture_request,
                 switching, pairing, receipts, pid, child, messages, executed, budget>>

\* Refresh and Pair, as they go to the worker
NativeRequest == [kind |-> "request"]

Requests ==
  IF CanSend THEN commands' = Append(commands, NativeRequest) /\ UNCHANGED phase
             ELSE phase' = "failed" /\ UNCHANGED commands

RefreshTargets ==
  /\ Command("refresh")
  /\ control' = Tail(control)
  /\ Requests
  /\ UNCHANGED <<link, revision, stopping, calling, intent, session, pairing, receipts, snapshot,
                 pid, child, messages, executed, budget>>

\* The worker is asked to pair at once if it has reported, and later otherwise.
PairTarget ==
  /\ Command("pair")
  /\ control' = Tail(control)
  /\ IF native = 0 THEN pairing' = TRUE /\ UNCHANGED <<commands, phase>>
                   ELSE Requests /\ UNCHANGED pairing
  /\ UNCHANGED <<link, revision, stopping, calling, intent, session, receipts, snapshot,
                 pid, child, messages, executed, budget>>

Stale(cmd) ==
  \/ cmd.generation # revision \/ ~snapshot.ready \/ switching
  \/ selected # cmd.target \/ Cardinality(DOMAIN pending) >= PendingLimit

\* A variant with a fault: the number of a receipt is used again.
ReusedId == Cardinality(DOMAIN pending) + 1

NextId == next_id + 1

SendMedia ==
  /\ Command("send")
  /\ control' = Tail(control)
  /\ LET cmd == Head(control)
     IN \/ /\ Stale(cmd)
           /\ answers' = [answers EXCEPT ![cmd.call] = "stale"]
           /\ UNCHANGED <<pending, next_id, commands, phase>>
        \/ /\ ~Stale(cmd) /\ CanSend
           /\ next_id' = NextId
           /\ pending' = [id \in DOMAIN pending \cup {NextId} |->
                            IF id = NextId THEN [call |-> cmd.call, generation |-> revision]
                                           ELSE pending[id]]
           /\ commands' = Append(commands, [kind |-> "media", id |-> NextId, call |-> cmd.call,
                                            generation |-> native])
           /\ UNCHANGED <<answers, phase>>
        \/ /\ ~Stale(cmd) /\ ~CanSend
           /\ next_id' = NextId
           /\ answers' = [answers EXCEPT ![cmd.call] = "unavailable"]
           /\ phase' = "failed"
           /\ UNCHANGED <<pending, commands>>
  /\ UNCHANGED <<link, revision, stopping, calling, intent, session, pairing, snapshot, pid, child,
                 messages, executed, budget>>

-----------------------------------------------------------------------------
\* With no command left, the profile follows what is asked for.

Desired == IF publish /\ selected # None /\ Requested(link) THEN "full" ELSE "media"

Switch == Desired # profile \/ (Desired = "full" /\ capture_request # Request(link))

\* The worker of macOS keeps its service, and only routing changes.
SwitchInPlace ==
  /\ phase = "control" /\ control = << >> /\ Switch /\ live /\ native # 0
  /\ link' = [Revoked(link) EXCEPT !.available = FALSE]
  /\ revision' = revision + 1
  /\ blocked' = native
  /\ profile' = Desired
  /\ capture_request' = IF Desired = "full" THEN Request(link) ELSE NoRequest
  /\ arm' = NoArm /\ armed' = NotArmed
  /\ switching' = TRUE
  /\ answers' = Retired("stale") /\ pending' = NoPending
  /\ IF CanSend
       THEN /\ snapshot' = [snapshot EXCEPT !.ready = FALSE, !.generation = revision + 1]
            /\ commands' = Append(commands, [kind |-> "set_profile", profile |-> Desired])
            /\ phase' = "messages"
       ELSE /\ snapshot' = [snapshot EXCEPT !.ready = FALSE]
            /\ phase' = "failed"
            /\ UNCHANGED commands
  /\ UNCHANGED <<control, stopping, calling, live, publish, selected, remembered, native, pairing,
                 next_id, pid, child, messages, executed, budget>>

SwitchWorker ==
  /\ phase = "control" /\ control = << >> /\ Switch /\ ~(live /\ native # 0)
  /\ Replace(link, Desired, publish, selected, remembered, "messages", "failed")
  /\ UNCHANGED <<control, pairing>>

KeepProfile ==
  /\ phase = "control" /\ control = << >> /\ ~Switch
  /\ phase' = "messages"
  /\ UNCHANGED <<shared, intent, session, pairing, receipts, snapshot, worker, executed,
                 budget>>

-----------------------------------------------------------------------------
\* Phase "messages": what the worker has written.

Message(kind) == phase = "messages" /\ messages # << >> /\ Head(messages).kind = kind

\* On macOS a status of the routing mode before the present one; and a status
\* of a generation that has been left.
Obsolete(m) == (live /\ m.profile # profile) \/ m.generation < native

StatusIgnored ==
  /\ Message("status") /\ Obsolete(Head(messages))
  /\ messages' = Tail(messages)
  /\ UNCHANGED <<shared, phase, intent, session, pairing, receipts, snapshot, pid, child, commands,
                 executed, budget>>

\* A new native generation ends what was granted for the one before it, and so
\* does the loss of input.
Regenerates(m) == m.generation # native
Lost(m) == IsArmed /\ ~Regenerates(m) /\ ~m.input

\* A variant with a fault: only a new generation takes the arm away.
StillArmedAtLoss(m) == IsArmed /\ ~Regenerates(m)

StillArmed(m) == IsArmed /\ ~Regenerates(m) /\ ~Lost(m)

\* A variant with a fault: the loss of input leaves the admission open.
AfterGeneration(m) ==
  IF ~Regenerates(m) THEN link ELSE IF Active(link) THEN Ended(link) ELSE Revoked(link)

AfterStatus(m) ==
  IF Lost(m) \/ (Regenerates(m) /\ Active(link)) THEN Ended(link)
  ELSE IF Regenerates(m) THEN Revoked(link) ELSE link

\* A variant with a fault: a new native generation is not a new revision.
CurrentUnchanged(m) == revision

Current(m) == IF Regenerates(m) THEN revision + 1 ELSE revision

Unblocked(m) == m.ready /\ blocked # m.generation

\* The worker is armed once it serves input, if what the switch was made for is
\* still what is asked for.
ArmDue(m) ==
  /\ profile = "full" /\ Unblocked(m) /\ m.input
  /\ Requested(AfterStatus(m)) /\ capture_request = Request(AfterStatus(m))
  /\ Regenerates(m) \/ (~IsArmed /\ arm = NoArm)

Chosen(m) == IF selected = None /\ remembered # None THEN m.target ELSE selected

Shown(m) == IF Chosen(m) = None THEN m.target ELSE Chosen(m)

Published(m, switched) ==
  /\ switching' = switched
  /\ link' = [AfterStatus(m) EXCEPT !.available =
                Available(publish, Chosen(m), Unblocked(m), switched)]
  /\ snapshot' = [generation |-> Current(m), ready |-> Unblocked(m), selected |-> Shown(m)]
  /\ phase' = "messages"

\* What a status changes, after the commands in cs
Reported(m, cs) ==
  /\ native' = m.generation /\ revision' = Current(m)
  /\ blocked' = IF blocked = m.generation THEN blocked ELSE 0
  /\ armed' = IF StillArmed(m) THEN armed ELSE NotArmed
  /\ selected' = Chosen(m)
  /\ IF ArmDue(m)
       THEN IF Fits(cs)
              THEN /\ commands' = Append(cs, [kind |-> "arm", generation |-> m.generation])
                   /\ arm' = <<m.generation, Current(m)>>
                   /\ Published(m, switching)
              ELSE /\ arm' = NoArm /\ link' = AfterStatus(m) /\ phase' = "failed"
                   /\ commands' = cs
                   /\ UNCHANGED <<switching, snapshot>>
       ELSE /\ arm' = IF Regenerates(m) THEN NoArm ELSE arm
            /\ commands' = cs
            /\ \/ Published(m, switching /\ ~(profile = "media" /\ Unblocked(m)))
               \/ profile = "media" /\ Chosen(m) = None /\ Published(m, FALSE)

\* The receiver of `pairing` is in the inventory, and the worker is asked first.
PairingFound(m) ==
  /\ pairing
  /\ IF CanSend
       THEN pairing' = FALSE /\ Reported(m, Append(commands, NativeRequest))
       ELSE /\ phase' = "failed"
            /\ UNCHANGED <<link, revision, selected, native, blocked, arm, armed, switching,
                           pairing, snapshot, commands>>

\* Whether the receiver of `pairing` is in the inventory, and whether a worker
\* without a receiver is advertising, is left open.
Status ==
  /\ Message("status") /\ ~Obsolete(Head(messages))
  /\ messages' = Tail(messages)
  /\ LET m == Head(messages)
     IN PairingFound(m) \/ (Reported(m, commands) /\ UNCHANGED pairing)
  /\ UNCHANGED <<control, stopping, calling, live, profile, publish, remembered, capture_request,
                 receipts, pid, child, executed, budget>>

\* The answer counts if it is for the last Arm and no change came since; then
\* set_ready reads the revision a second time.
Armed ==
  /\ Message("armed")
  /\ messages' = Tail(messages)
  /\ LET m == Head(messages)
         matching == arm = <<m.generation, revision>>
     IN /\ arm' = IF matching THEN NoArm ELSE arm
        /\ IF matching /\ m.accepted /\ Requested(link) /\ capture_request = Request(link)
             THEN /\ armed' = revision
                  /\ phase' = "granting"
             ELSE UNCHANGED <<armed, phase>>
  /\ UNCHANGED <<shared, intent, native, blocked, capture_request, switching, pairing, receipts,
                 snapshot, pid, child, commands, executed, budget>>

Granting ==
  /\ phase = "granting"
  /\ switching' = FALSE
  /\ link' = [Granted(link) EXCEPT !.available =
                Available(publish, selected, snapshot.ready, FALSE)]
  /\ snapshot' = [snapshot EXCEPT !.generation = revision]
  /\ phase' = "messages"
  /\ UNCHANGED <<revision, control, stopping, calling, intent, native, blocked, arm, armed,
                 capture_request, pairing, receipts, worker, executed, budget>>

Without(f, x) == [y \in DOMAIN f \ {x} |-> f[y]]

Reply ==
  /\ Message("reply")
  /\ messages' = Tail(messages)
  /\ LET m == Head(messages)
     IN IF m.id \in DOMAIN pending
          THEN /\ pending' = Without(pending, m.id)
               /\ answers' = [answers EXCEPT ![pending[m.id].call] =
                                IF m.ok /\ pending[m.id].generation = revision THEN "ok" ELSE "stale"]
          ELSE UNCHANGED <<pending, answers>>
  /\ UNCHANGED <<shared, phase, intent, session, pairing, next_id, snapshot, pid, child, commands,
                 executed, budget>>

Failure ==
  /\ Message("failure")
  /\ messages' = Tail(messages)
  /\ link' = Ended(link)
  /\ UNCHANGED <<revision, control, stopping, calling, phase, intent, session, pairing, receipts,
                 snapshot, pid, child, commands, executed, budget>>

\* The exit of the worker may be seen before its last messages are.
Exited ==
  /\ phase = "messages" /\ ~child.alive
  /\ phase' = "failed"
  /\ UNCHANGED <<shared, intent, session, pairing, receipts, snapshot, worker, executed, budget>>

\* Mappings keep the arm when a capture ends: the admission is opened again.
MessagesDone ==
  /\ phase = "messages" /\ child.alive /\ messages = << >>
  /\ link' = IF IsArmed /\ link.mapping # 0 THEN Granted(link) ELSE link
  /\ phase' = "rest"
  /\ UNCHANGED <<revision, control, stopping, calling, intent, session, pairing, receipts, snapshot,
                 worker, executed, budget>>

-----------------------------------------------------------------------------
\* The rest of a step: deadlines, then input, then receipts.  They do not depend
\* on one another, and their order is left open.

PairingExpires ==
  /\ phase = "rest" /\ pairing
  /\ pairing' = FALSE
  /\ link' = Ended(link)
  /\ UNCHANGED <<revision, control, stopping, calling, phase, intent, session, receipts, snapshot,
                 worker, executed, budget>>

\* A variant with a fault: the deadline is the same for both profiles.
SwitchExpiresQuietly ==
  /\ phase = "rest" /\ switching
  /\ switching' = FALSE
  /\ UNCHANGED <<shared, phase, intent, native, blocked, arm, armed, capture_request, pairing,
                 receipts, snapshot, worker, executed, budget>>

\* A receiver that did not subscribe costs the full profile, and nothing more.
SwitchExpires ==
  /\ phase = "rest" /\ switching
  /\ IF profile = "full"
       THEN phase' = "failed" /\ UNCHANGED <<switching, link, snapshot>>
       ELSE /\ switching' = FALSE
            /\ link' = [link EXCEPT !.available =
                          Available(publish, selected, snapshot.ready, FALSE)]
            /\ snapshot' = [snapshot EXCEPT !.generation = revision]
            /\ UNCHANGED phase
  /\ UNCHANGED <<revision, control, stopping, calling, intent, native, blocked, arm, armed,
                 capture_request, pairing, receipts, worker, executed, budget>>

\* The native control loop of the worker has made no progress for 30 seconds.
Stalls ==
  /\ phase = "rest" /\ child.stalled
  /\ Replace(Ended(link), "media", publish, selected, remembered, NextStep, "failed")
  /\ UNCHANGED <<control, pairing>>

\* Input for a worker that is not armed, or of an admission that has ended, is
\* dropped.
Forward ==
  /\ phase = "rest" /\ link.packets # << >>
  /\ link' = [link EXCEPT !.packets = Tail(@)]
  /\ LET p == Head(link.packets)
     IN IF ~(Accepts(link, p) /\ IsArmed) THEN UNCHANGED <<commands, phase>>
        ELSE IF CanSend /\ native # 0
          THEN /\ commands' = Append(commands, [kind |-> "input", generation |-> native,
                                               session |-> p.session])
               /\ UNCHANGED phase
          ELSE phase' = "failed" /\ UNCHANGED commands
  /\ UNCHANGED <<revision, control, stopping, calling, intent, session, pairing, receipts, snapshot,
                 pid, child, messages, executed, budget>>

\* Input that waited for more than MAX_INPUT_AGE ends the full profile.
TooOld ==
  /\ phase = "rest" /\ link.packets # << >>
  /\ Accepts(link, Head(link.packets)) /\ IsArmed
  /\ Spend
  /\ link' = [link EXCEPT !.packets = Tail(@)]
  /\ phase' = "failed"
  /\ UNCHANGED <<revision, control, stopping, calling, intent, session, pairing, receipts, snapshot,
                 worker, executed>>

\* A variant with a fault: only the receipts of the present generation expire.
ExpireCurrent ==
  /\ phase = "rest"
  /\ \E id \in DOMAIN pending :
       /\ pending[id].generation = revision
       /\ pending' = Without(pending, id)
       /\ answers' = [answers EXCEPT ![pending[id].call] = "timeout"]
  /\ UNCHANGED <<shared, phase, intent, session, pairing, next_id, snapshot, worker, executed, budget>>

Expire ==
  /\ phase = "rest"
  /\ \E id \in DOMAIN pending :
       /\ pending' = Without(pending, id)
       /\ answers' = [answers EXCEPT ![pending[id].call] = "timeout"]
  /\ UNCHANGED <<shared, phase, intent, session, pairing, next_id, snapshot, worker, executed, budget>>

StepDone ==
  /\ phase = "rest" /\ link.packets = << >>
  /\ phase' = NextStep
  /\ UNCHANGED <<shared, intent, session, pairing, receipts, snapshot, worker, executed,
                 budget>>

-----------------------------------------------------------------------------
\* A step has failed: the full profile falls back, the media profile gives up.

FallBack ==
  /\ phase = "failed" /\ ~stopping /\ profile = "full"
  /\ Replace(Ended(link), "media", publish, selected, remembered, NextStep, "finishing")
  /\ UNCHANGED <<control, pairing>>

GiveUp ==
  /\ phase = "failed" /\ (stopping \/ profile = "media")
  /\ phase' = "finishing"
  /\ UNCHANGED <<shared, intent, session, pairing, receipts, snapshot, worker, executed,
                 budget>>

Queued == {control[i].call : i \in {j \in DOMAIN control : control[j].kind = "send"}}

Finish ==
  /\ phase = "finishing"
  /\ link' = [Ended(link) EXCEPT !.available = FALSE]
  /\ answers' = [c \in Calls |-> IF c \in Queued THEN "stale" ELSE Retired("stale")[c]]
  /\ pending' = NoPending /\ control' = << >>
  /\ switching' = FALSE
  /\ snapshot' = [snapshot EXCEPT !.ready = FALSE, !.generation = revision]
  /\ child' = NoChild /\ commands' = << >> /\ messages' = << >>
  /\ phase' = "finished"
  /\ UNCHANGED <<revision, stopping, calling, intent, native, blocked, arm, armed,
                 capture_request, pairing, next_id, pid, executed, budget>>

Supervisor ==
  \/ Select \/ Restart \/ Invalidate \/ RefreshTargets \/ PairTarget \/ SendMedia
  \/ SwitchInPlace \/ SwitchWorker \/ KeepProfile
  \/ StatusIgnored \/ Status \/ Armed \/ Granting \/ Reply \/ Failure \/ Exited \/ MessagesDone
  \/ PairingExpires \/ SwitchExpires \/ Stalls \/ Forward \/ TooOld \/ Expire \/ StepDone
  \/ FallBack \/ GiveUp \/ Finish

-----------------------------------------------------------------------------
\* The worker process: an iteration handles a command, and then writes a status
\* if it has changed.

StatusOf(c) ==
  [kind |-> "status", profile |-> c.profile, generation |-> c.shown,
   ready |-> c.ready /\ c.shown = c.generation, input |-> c.admitted, target |-> c.target]

Revoke(c) == [c EXCEPT !.generation = @ + 1, !.admitted = FALSE]

Iterated(c, out) ==
  /\ child' = [c EXCEPT !.reported = StatusOf(c)]
  /\ messages' = messages \o out \o (IF c.reported = StatusOf(c) THEN << >> ELSE <<StatusOf(c)>>)
  /\ UNCHANGED <<pid, budget>>

Received(kind) == commands # << >> /\ Head(commands).kind = kind /\ commands' = Tail(commands)

\* macOS: the new generation is shown at once.
SetProfile ==
  /\ Received("set_profile")
  /\ Iterated([Revoke(child) EXCEPT !.profile = Head(commands).profile, !.ready = FALSE,
                                    !.mapping = FALSE, !.shown = child.generation + 1], << >>)
  /\ UNCHANGED executed

InvalidateCommands ==
  /\ Received("invalidate")
  /\ Iterated([Revoke(child) EXCEPT !.mapping = FALSE], << >>)
  /\ UNCHANGED executed

Arm ==
  /\ Received("arm")
  /\ LET g == Head(commands).generation
         accepted == g = child.generation /\ child.admitted
     IN Iterated([child EXCEPT !.mapping = @ \/ accepted],
                 <<[kind |-> "armed", generation |-> g, accepted |-> accepted]>>)
  /\ UNCHANGED executed

\* Refresh and Pair, for the native side
HandleRequest ==
  /\ Received("request")
  /\ Iterated(child, << >>)
  /\ UNCHANGED executed

\* submit_forwarded, unless the input is of another generation
HandleInput ==
  /\ Received("input")
  /\ Iterated(child, << >>)
  /\ UNCHANGED executed

OldInput ==
  /\ Received("input") /\ Head(commands).generation = child.generation /\ child.mapping
  /\ Spend
  /\ LET c == [child EXCEPT !.admitted = FALSE]
     IN /\ child' = [c EXCEPT !.reported = StatusOf(c)]
        /\ messages' = messages \o (IF c.reported = StatusOf(c) THEN << >> ELSE <<StatusOf(c)>>)
                                 \o <<[kind |-> "failure"]>>
  /\ UNCHANGED <<pid, executed>>

\* A command of another generation is refused; so is one that is too old, one too
\* many, or one that the native side does not take.
Media ==
  /\ Received("media")
  /\ LET cmd == Head(commands)
     IN \/ /\ cmd.generation = child.generation
           /\ Iterated([child EXCEPT !.sending = @ \cup {[id |-> cmd.id, call |-> cmd.call,
                                                          generation |-> cmd.generation]}], << >>)
        \/ Iterated(child, <<[kind |-> "reply", id |-> cmd.id, ok |-> FALSE]>>)
  /\ UNCHANGED executed

\* What was accepted may fail, and does if the generation has changed.
Sent ==
  /\ \E s \in child.sending, ok \in BOOLEAN :
       /\ ok => s.generation = child.generation
       /\ Iterated([child EXCEPT !.sending = @ \ {s}],
                   <<[kind |-> "reply", id |-> s.id, ok |-> ok]>>)
       /\ executed' = IF ok THEN executed \cup {s.call} ELSE executed
  /\ UNCHANGED commands

Report ==
  /\ child.reported # StatusOf(child)
  /\ Iterated(child, << >>)
  /\ UNCHANGED <<commands, executed>>

\* The native side: it shows a new generation, then admits input and is ready.
NativeShows ==
  /\ child.shown # child.generation
  /\ child' = [child EXCEPT !.shown = child.generation, !.ready = FALSE]
  /\ UNCHANGED budget

NativeReady ==
  /\ child.publish /\ child.target # None
  /\ \/ child.shown = child.generation /\ ~child.ready /\ child' = [child EXCEPT !.ready = TRUE]
     \/ child.profile = "full" /\ ~child.admitted /\ child' = [child EXCEPT !.admitted = TRUE]
  /\ UNCHANGED budget

NativeLoss ==
  /\ Spend
  /\ child' = [Revoke(child) EXCEPT !.mapping = @ /\ ~live]

NativeStall == ~child.stalled /\ Spend /\ child' = [child EXCEPT !.stalled = TRUE]

Crash == Spend /\ child' = [child EXCEPT !.alive = FALSE, !.sending = {}]

Worker ==
  /\ child.alive
  /\ \/ SetProfile \/ InvalidateCommands \/ Arm \/ HandleRequest \/ HandleInput \/ OldInput
     \/ Media \/ Sent \/ Report
     \/ (NativeShows \/ NativeReady \/ NativeLoss \/ NativeStall \/ Crash)
          /\ UNCHANGED <<pid, commands, messages, executed>>
  /\ UNCHANGED <<shared, phase, intent, session, pairing, receipts, snapshot>>

-----------------------------------------------------------------------------
\* start_with, and the first replace_worker of run_loop
Init ==
  /\ budget \in {[plan |-> p, left |-> p.disturbances] : p \in Plans}
  /\ link = [mode |-> "revoked", granted |-> 0, mapping |-> 0, sessions |-> 0, requested |-> 0,
             available |-> FALSE, packets |-> << >>]
  /\ revision = 2 /\ control = << >> /\ stopping = FALSE /\ calling = NoCall
  /\ phase = "control" /\ live = Plan.live
  /\ profile = "media" /\ publish = TRUE /\ selected = None
  /\ remembered \in Remembered
  /\ native = 0 /\ blocked = 0 /\ arm = NoArm /\ armed = NotArmed /\ capture_request = NoRequest
  /\ switching = FALSE /\ pairing = FALSE
  /\ pending = NoPending /\ next_id = 0 /\ answers = [c \in Calls |-> "unsent"]
  /\ snapshot = [generation |-> 2, ready |-> FALSE, selected |-> None]
  /\ pid = 1 /\ child = Fresh("media", TRUE, remembered) /\ commands = << >> /\ messages = << >>
  /\ executed = {}

Next == Input \/ SetMappingProfile \/ Runtime \/ Supervisor \/ Worker

Spec == Init /\ [][Next]_vars

\* The supervisor keeps running, the deadlines come, and nothing is assumed of
\* the worker, the receiver or the runtime.
FairSpec ==
  /\ Spec
  /\ WF_vars(Supervisor)
  /\ SF_vars(SwitchExpires) /\ SF_vars(Expire)

-----------------------------------------------------------------------------
\* Properties

Answers == {"unsent", "waiting", "ok", "stale", "timeout", "unavailable"}

Phases == {"control", "messages", "granting", "rest", "failed", "finishing",
           "finished"}

\* The values of the variables, and the capacities of the queues and of the
\* receipts (bluetooth_worker.rs 54, 597; process.rs 72).
TypeOK ==
  /\ link.mode \in {"revoked", "ready", "active"} /\ link.mapping \in 0..link.sessions
  /\ Len(link.packets) <= InputCapacity /\ Len(control) <= ControlCapacity
  /\ Len(commands) <= WorkerCapacity /\ Cardinality(DOMAIN pending) <= PendingLimit
  /\ phase \in Phases /\ profile \in {"media", "full"} /\ selected \in Targets \cup {None}
  /\ {publish, switching, pairing, stopping} \subseteq BOOLEAN
  /\ answers \in [Calls -> Answers] /\ executed \subseteq Calls

\* The input thread may capture or forward only while the supervisor holds the
\* worker armed: every way to lose the arm closes the admission with it.
AdmissionIsArmed == (Ready(link) \/ Active(link)) => IsArmed

\* An input event that the worker would act on was produced for that worker
\* process and that generation of its connection: events that outlive a
\* reconnection or a replacement never reach the next one.
DeliveredToItsSession ==
  \A i \in DOMAIN commands :
    (commands[i].kind = "input" /\ commands[i].generation = child.generation /\ child.mapping)
      => commands[i].session = <<pid, child.generation>>

\* A step has failed, and the supervisor goes on without this worker or not at all.
Over == {"failed", "finishing", "finished"}

\* Once everything that was written has been read, a supervisor that is armed
\* agrees with its worker: same generation, input admitted, mappings on.
Settled ==
  /\ child.alive /\ phase \notin Over /\ commands = << >> /\ messages = << >>
  /\ child.reported = StatusOf(child) /\ child.shown = child.generation

SettledAgreement ==
  (Settled /\ IsArmed) => (native = child.generation /\ child.mapping /\ child.admitted)

\* A media command is reported as done only if it was done: no answer of another
\* command, worker or generation is taken for its own.
OkMeansExecuted == \A c \in Calls : answers[c] = "ok" => c \in executed

\* Every media command is answered, whatever the worker does.
Answered == \A c \in Calls : answers[c] = "waiting" ~> answers[c] # "waiting"

\* A switch to the full profile ends armed, or back in the media profile.
FallsBack ==
  (switching /\ profile = "full") ~> (IsArmed \/ profile = "media" \/ phase = "finished")

\* Only the Arm of the present generation authorizes capture (the test
\* only_matching_arm_authorizes_capture_and_losing_input_returns_to_media).
OnlyMatchingArm == Ready(link) => armed = revision
=============================================================================
