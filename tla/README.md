# TapRelay: specifications and proofs

TapRelay turns a computer into a Bluetooth HID keyboard, mouse and media remote.
Keys that are pressed at the computer are routed either to the computer itself or
to a receiver (a phone, a tablet), and shortcuts and custom mappings send media
commands and single keys while the computer stays in use.

What is hard about it is not any single function. One key press crosses the native
input thread, a lock-free link, a supervisor thread, a pipe, a worker process and the
native Bluetooth stack, and each of them may change its mind in between: the
user stops the capture, the application in front changes, the receiver unsubscribes,
the worker crashes. A wrong step leaves a key down at the computer or at the
receiver, or sends a key to the wrong one of them. These modules are about that.

## 1. Inventory

| Component | Source (below `src/crates`) | State | Operations | Hard behaviour | What makes it correct |
|---|---|---|---|---|---|
| Input router | `taprelay-core/src/input_router.rs` | binding index, mappings, rules, modes, captured presses, held functions, owner of each key that is down | `route_event`, `route_local_event`, `tick`, `set_*`, `update_*`, `terminate` | mode changes while keys are down; timers against releases | one owner per key; a release follows its press; holds and mappings are released exactly once |
| Physical input state | `taprelay-core/src/input.rs` | keys and modifiers that are down, recorder | `apply`, `record` | releases without a press | agrees with what the router remembers |
| InputLink | `taprelay-core/src/passthrough.rs` | mode token, granted generation, mapping session, capture request, bounded queue | `set_ready`, `begin`, `end`, `suspend`, `disconnect`, `submit*`, `set_mapping_profile` | lock-free: three threads, several atomics | a stop is final; nothing captured before a change is accepted after it |
| Supervisor | `taprelay-app/src/platform/bluetooth_worker.rs` | profile, revision, native generation, arm, receipts, snapshot | control commands, worker messages, deadlines, replacement, fallback | races of revision, late answers, crashes, full queues | admission only while armed; commands answered once and truly; switches end |
| Worker process | `bluetooth_worker/child.rs`, `process.rs`, `protocol.rs` | queues, pipes, owner of the native service | spawn, send, stop, kill | hanging native calls, end of the application | one owner at a time, told what was sent |
| HID session, output owners | `taprelay-core/src/hid/`, `mapping.rs` | reports, owners of outputs, volume pulses, remainders | events to reports | partial failure between two reports; exchanged tables | reports equal what is owned, and mean what was pressed |
| Report schedule | `taprelay-core/src/passthrough/flow.rs` | queue of pending input, cadence | push, take | coalescing, 250 ms drop | edges in order, motion adds up |
| Windows sender, authorization | `taprelay-windows/src/bluetooth/` | endpoints, epoch, subscription evidence | reconcile, run, callbacks | WinRT callbacks against the sender thread | no report for a generation that was revoked |
| Windows Bluetooth control loop | `taprelay-windows/src/bluetooth.rs`, `publication.rs`, `restore.rs`, `maintenance.rs`, `discovery.rs` | service, radio, receivers | publish, restore, maintain, pair | everything may go away at any time | the receiver that is meant is kept and, if it stays, served |
| macOS peripheral | `taprelay-macos/src/bluetooth.rs` | peers, notification queue | subscribe, flush, revoke | back-pressure of the queue | neutral reports precede readiness |
| Input listeners | `taprelay-windows/src/input.rs`, `taprelay-macos/src/input*` | hook policy, passthrough toggle | dispatch, request, terminate | two copies of an edge, late answers of the policy | what the receiver was given is taken back |
| Runtime | `taprelay-app/src/runtime*.rs` | listener, transport, required generation, media receipts | tick, configure, invalidate | re-entrancy, snapshots of old generations | releases are not lost; no command to the old receiver |
| Runtime handle | `runtime/worker.rs` | edits in flight | enqueue, poll, stop | saves against applies | edits apply in order or not at all |
| Receiver coordinator | `taprelay-core/src/devices.rs` | wanted and current receiver | pair, connect, reconcile | reconciliation with stale snapshots | converges to what the user chose |
| Shortcuts, scopes, conflicts | `mapping.rs`, `function.rs`, `foreground_app.rs`, `runtime/` | bindings, groups, mappings | edits and saves | three tests for one condition | no shortcut starts two rules |
| Configuration | `taprelay-app/src/config*` | saved document | load, validate, save | two writers | what is saved is what was shown |
| GUI controller | `taprelay-app/src/gui/controller*` | drafts, saves in flight | edit, record, save, tick | replies out of order | no draft lost silently |
| GUI views, overlay, desktop integration, foreground applications, logging, i18n, vendored renderer, scripts | | | | | not modelled: presentation, operating system calls, third-party code |

Interaction: the listener owns an `InputRouter` and calls it for every edge; its results
become local input, media commands (runtime -> `Handle::send` -> supervisor -> worker) or
packets on the `InputLink` (-> supervisor -> worker -> the HID session of the sender). The
runtime changes the transport with `Handle::change`; state comes back as snapshots. The
generations (`revision` in the program, another one in the worker) are what everything
is checked against. The GUI gives the worker of the runtime requests and reads its answers later.

## 2. Modules

| Model | Instance for TLC | Proofs |
|---|---|---|
| `InputRouter`, with `KeyOwnership` as its abstract specification | `MCInputRouter` | `InputRouterProofs` |
| `Bindings` | `MCInputRouter` | `BindingsProofs` |
| `InputLink` | `MCInputLink` (part `link`) | `InputLinkProofs` |
| `CaptureLink`, `WindowsListener`, `MacListener`, `PointerSchedule` | `MCInputLink` (`windows`, `macos`, `pointer`) | |
| `BluetoothSupervisor` | `MCBluetoothSupervisor`, `MCSupervisorLive` | `SupervisorProofs`, `SupervisorAgreementProofs` |
| `WorkerProcess` | `MCSupervisorLive` (`process`) | |
| `HidSession`, `HidSender` | `MCHidSender` (`windows`) | `HidSenderProofs` |
| `MacPeripheral`, `WindowsService`, `GattSessions`, `HidReports` with `KeyTables` | `MCHidSender` (`macos`, `service`, `sessions`, `reports`) | |
| `Runtime` | `MCRuntime` (part `runtime`) | `RuntimeProofs`, `RuntimeReleaseProofs` |
| `Settings`, `MappingEditor`, `GroupEditor` | `MCRuntime` (`settings`, `editor`, `groups`) | |

An MC module checks several models in one run: a behaviour moves one of them (`part`), and what belongs to
another part stays as it is. The parts do not interact; where two models meet, one of them contains
the other one's side reduced to what it can see of it (below).

Definitions whose comment begins with "Mutant" or speaks of a variant with a fault are no part of
any specification. Each one is a plausible mistake in the definition that follows it, kept to
show that the property it is meant for notices.

### InputRouter and KeyOwnership

One variable per field of `InputRouter` that routing depends on, one action per public
call. `RouteEdge` is `route_edge` with its branches in the order of the code (suppressed,
unchanged, mapped, active, fresh); `Tick` is the timer; the setters run the cancellations
that the code runs. The last five variables (`os`, `remote`, `mapped`, `pressed`, `presses`) are not
fields: they add up the outputs of all calls the way the computer and the receiver see
them, so that properties can speak about what is down *there*.

Abstracted: codes, functions and applications are model values; tokens, revisions and times
on outputs are dropped; an instant is "a deadline is armed", and `Tick` finds any non-empty
set of armed deadlines due; motion and wheel do not change the router.

`KeyOwnership` says what routing promises about one press without saying how it decides.
`FollowsPress` is the refinement: InputRouter implements KeyOwnership under the mapping `Owner`.

### Bindings

Every edit of shortcuts, groups and mappings with the check that its code makes. Three parts of the code
decide whether two rules conflict, each in its own way; `ChecksAgree` compares them and `Unambiguous` says what
they are for.

### InputLink

Every call is a program of atomic accesses, one action each; `pc[t]` is what thread `t` has
left to run and `reg[t]` what it has read. Three threads: the input thread, the runtime, the
supervisor. `StepMapping` and `Take` are the two places where the supervisor's `step` uses the
link. The observers `granted`, `stopped` and `gaps` remember for which generation a token was
granted, which tokens a stop took away, and who lost a packet. Atomics are sequentially
consistent here; the code uses acquire and release on each of them.

### CaptureLink, WindowsListener, MacListener

`CaptureLink` is the link again with each call as one step, as a native listener sees it. `WindowsListener` is the
hook thread: every edge comes twice (the hook's callback and a posted raw copy), captures start in two
steps, policy commands of the runtime are answered late. `MacListener` is the loop of the event tap with
its callbacks, devices and queue of motion. The router is reduced in both to who owns a key: the toggle of
passthrough, the key of a mapping, another key, a button. A start may find that the link was ready and is not any
more (`BeginFails`): raw input is disabled again, and what was asked for stays asked for. `Owned` speaks about the receiver:
what it was given has an owner in a listener that runs, or is about to be taken back. Excepted is an output whose release
was refused outside a capture (`held` is "refused"): a `link.end()` had closed the admission; see Observations.

`WindowsListener` excludes two things, both named in it: a hook copy that overtakes an earlier raw copy of another edge
(`Overtakes`), and the end of a capture over an edge of a button that only the hook saw (`doubted`); see Observations.

### PointerSchedule

Motion, wheel and clicks between the link's queue and the reports: `push` merges, `take` scales by
the percentage, keeps the fraction and gives whole notches. `Faithful` adds up what was captured and what was
sent for each session: they differ by less than one count for each change of the percentage and less than one notch.

### BluetoothSupervisor

`link` is an InputLink whose calls are atomic, so that the supervisor, the worker process and the
two pipes fit in one model. A step of the supervisor is the phases `control` (commands,
then the profile), `messages` (and `granting`, between the two reads of `revision` in the handler of
Armed), `rest` (deadlines, input, receipts); `failed` and `finishing` are the error paths of
`run_loop`. The worker is one action per command and per status; the native stack behind it
is an environment that publishes generations, admits input, loses it, stalls or crashes.
`live` chooses the platform: macOS switches profiles in place, Windows replaces the worker.
`calling` is the command of a `Handle::change` that has changed `revision` and not yet
queued its request.

Refresh and Pair take a place in the worker's queue (`NativeRequest`) or fail the step where there is none; whether
the inventory of a status has the receiver to pair is a choice; if it has, the worker is asked to pair it before it gets the Arm of that status. A media command is
refused by the worker for its age, for the number under way or by the native side, and may fail after it was accepted.

Left out: inventories and names, mouse settings, texts. The limits of one step (16 commands, 128 messages, 256 packets)
are above the capacities used here. `armed` is a Boolean in the code and here the revision at which the
Arm was answered, 0 for false.

### WorkerProcess

What BluetoothSupervisor takes as given: the queue of commands, the writer thread, the pipe, the reader and the loop of the
process, the pipe back and its reader. A call into the system may hang; a stop asks, drains, and kills after
400 ms; the application may end at any time. A command is its place in the order of sending.

### HidSender and HidSession

Delivery in the worker process on Windows: four threads that share a generation. `child` and the
actions up to `InputTooLate` are the command loop; `Transport` is a callback of WinRT, which withdraws the
evidence in `selected`; `server` is the control thread, one step per stretch between two points where
another thread matters (refresh: `Refresh`, then `Outdated` or `Current`, then `Synchronize` and one
`Neutralize`/`Neutralized` per report, then `Finish`; the teardown: `Drop`, `Release`, `Detach`); `sender` and `job` are the
sender thread, `sender.at` its place in `run` (`top`, `generation` and `renew` inside `reconcile`, `select` at the queues) and
`job` the reports it has still to send. A report is `pacing` (waiting for its slot), `submitted` (waiting for its
completion) and then `Completed`, `Failed`, `Cancelled` or `Retired`; `Late` is the 250 ms. `answer` is the reply channel of the
request the control thread waits for. `HidSession` has the pure transitions of `hid/session.rs`: who owns which output.

Two observers are not in the program: `shown`, what each report told the receiver last, and `clean`, the
reports that were made neutral in the present generation.

Abstracted: a call of the link is one step, as InputLink has its accesses; this process never captures a
whole device, so the active epoch is 0; one receiver, whose session, radio and power are in the set of reports that
it takes (`native`); the refresh in `send` is the one that ran before it; only the reply's second
is a time-out of the control thread, and it passes only while the sender waits for something too; motion, wheel, advertising,
maintenance instants and snapshots are left out, and so is the stop of the sender with its process.

### GattSessions

Where the evidence of HidSender comes from: by which native session the selected receiver subscribes to which report,
which sessions are watched, and which callbacks are still to run. A subscription can move to another session or
receiver between the sampling and the registration of a handler.

### WindowsService

The control loop above one service: discovery, selection, pairing, publication, restore, maintenance and
advertising, one function of the record `svc` per step of the loop. The coordinator (`devices.rs`) is part of it.
The instants that the code compares with the present are a choice each time. A refresh may stop after its samples, when a
callback has revoked them (`Outdated`). Of the three reports the consumer's decides whether the receiver is synchronized and ready
(`synced`); that another one has to be made neutral as well is a choice, so a refresh may synchronize, or fail to, although `synced` is set.

### MacPeripheral

The main thread of the worker on macOS: everything happens on one thread, so a handler is a function of the record `mac`.
`Known`, `OpenIsClean`, `NothingInherited` and `EndpointAtHand` say of it what the properties of the same names say of HidSender.

### HidReports and KeyTables

From a key of a US board (both systems' codes for it, 104 keys) to the usage, to the bytes of the report, and back through the
report descriptor, which is interpreted item by item. `Understood`: the receiver, which knows the descriptor only,
understands what is held and moved. The tables are copied as numbers; that is the one place where data is not abstracted.

### Runtime

A tick is one step: it reads the snapshot, the listener's events and the receipts, and runs every call it makes, in the
order of the code. A call changes the runtime, the router of the listener and the transport's handle, so the
operators take and return the world <<app, hook, tr, seen>>. The router is reduced to one held shortcut and the
listening toggle, the supervisor to its channel, its profile and its answers. Instants are the flag "not before `epoch`",
generations the flag "of the present revision".

### Settings, MappingEditor, GroupEditor

`Settings` is about who writes the file: the worker (rules, mappings, receiver) and the GUI (options), with a queue of
requests, answers that are read at the next poll, the exit and a crash. A value is the set of edits that led to it, so
one is older than another when it lacks some of them. `MappingEditor` is the editor of a mapping with its dialogs, the recording
of a chord by the worker, and the saves of both; `GroupEditor` the same for application groups, with the file
prompt. A button's `enabled` is a guard (what the last sync saw), and its command polls and checks again.

## 3. Runs

| Run | Configuration | Question and result |
|---|---|---|
| `router_keys` | `InputRouter_keys.cfg` | Does every key have one owner, and do releases, holds, mappings and taps come out right, whatever modes change in between? Can the user make settings in which a shortcut is ambiguous? Holds; 160,000 states. |
| `link_threads` | `InputLink_threads.cfg` | Are stops final, authorizations current and sessions without gaps at every interleaving of accesses? Is everything the listeners gave taken back, unless its release was refused outside a capture? Is motion kept? Holds; 4.2 million states. |
| `link_cleanup` | `InputLink_cleanup.cfg` | Is the release that ends a capture delivered to a live mapping session? No, see below. |
| `supervisor_threads` | `BluetoothSupervisor_threads.cfg` | Is input admitted only while armed and delivered only to its session, do supervisor and worker agree in the end, is a media command reported done only if it was? Holds; 5.0 million states. |
| `supervisor_live` | `BluetoothSupervisor_live.cfg` | Is every command answered, does every switch to the full profile end, is there one worker at a time and does it end? Holds under the fairness below; 410,000 states. |
| `supervisor_arm` | `BluetoothSupervisor_arm.cfg` | Does only a matching Arm authorize capture? No, see below. |
| `sender_reports` | `HidSender_reports.cfg` | Does the receiver show what the sender owes it, is input admitted only after neutral reports, does a generation inherit nothing, is the receiver that is meant the one that is served? Holds; 6.4 million states. |
| `sender_taps` | `HidSender_taps.cfg` | Is every tap released, is a receiver that stays served, does a report mean what was pressed? Holds under the fairness below; 119,000 states. |
| `sender_rebuild` | `HidSender_rebuild.cfg` | Does the service that replaces a failed one get served? No, see below. |
| `runtime_session` | `Runtime_session.cfg` | Which presses and releases reach the receiver, whose state is shown, is what is saved what the user saw? Holds; 2.0 million states. |
| `runtime_release` | `Runtime_release.cfg` | Is a key that the receiver holds released when it is released at the keyboard? No, see below. |
| `settings_lost` | `Settings_lost.cfg` | Does a save of rules keep the scopes that were saved before it? No, see below. |

### What the properties say

- Router: `OneOwner` and `NothingStuck` (owner of each key; what the computer holds is what the router remembers),
  `OutputsHeld` (what the receiver holds of mappings is what is still captured), `Authorized` (a press is captured only if mode,
  rules and application allow it), `OneGesture` (a press is one gesture of a function), `FollowsPress` (refinement of KeyOwnership).
- Link: `StopIsFinal` (no start or grant that was under way when `suspend` ran brings its token back), `OfThisGeneration` (what is active
  or accepted is of the present revision), `LossIsOver` (the epoch that `disconnect` leaves as evidence is over when it
  returns), `NoGap` (no thread has an event accepted of a session it lost one of).
- Supervisor: `AdmissionIsArmed`, `DeliveredToItsSession` (a packet reaches only the native session it was captured for),
  `SettledAgreement` (when nothing is under way and no step has failed, an armed supervisor and its worker agree), `OkMeansExecuted`; `Answered`,
  `FallsBack` (liveness); `OneOwnerRetires` (of WorkerProcess).
- Sender: `KnownToBoth` (what the receiver shows is what the sender counts as held; on macOS also that a generation starts clean and that what waits has
  its subscription), `StartsClean` (on Windows: input is admitted only after every report was made neutral, and a generation inherits nothing),
  `EndpointAtHand` (on Windows: a report that waits to be sent has its endpoint),
  `MeantReceiver` (the receiver that was asked for last is served, its subscriptions are watched and it reads its own input only), `Understood`, `EveryTapEnds`, `Serves`.
- Runtime: `HeldUnlessDiscarded` (a key at the receiver is held at the keyboard, or its release or the end of its session is under way, or a release was discarded by name), `PressIsCurrent`
  (a press that reaches the receiver is of the present session), `ShownIsChosen` (a snapshot that is shown is of the chosen receiver),
  `TestOwed` (a test that runs has an answer or a deadline to come), `InStep`, `NothingLost`, `AsMeant`.


### Bounds

- Router: a modifier, three other keys; a hold function with two shortcuts, a repeating
  function behind the modifier, the passthrough toggle, a mapping with two shortcuts; two configurations, three
  mapping lists, three rule sets, one application; one published revision. That is the smallest instance in
  which a key can be a shortcut, a mapping's key and a passthrough key, and two presses can share an output.
  The number of edges is unbounded. Bindings: three functions, two mappings, two groups, two applications, one shortcut
  (conflicts are between rules that share one).
- Link: capacity 1 makes every second submission meet a full queue; two generations are enough
  for "captured before, accepted after". `MaxEpoch` and `MaxRequest` bound counters that only grow and that the
  code compares for equality or parity. `LinkUsages` are two ways to share the calls among three threads (captures, mappings).
- Listeners: the board of the toggle, the key of a mapping and another key, of which at most two edges are under way at once on Windows,
  and boards with a button, with one. A board with two edges under way has no end of the capture by another thread.
- Pointer: a queue of two, three inputs, two sessions, two generations, displacements of up to 4, two notches.
- Supervisor: queues of one (so that a second command of one step, such as an Arm after a request to pair, meets a full queue;
  the proofs hold for any capacity), a limit of one receipt, one receiver, one request of each kind, one *disturbance*: a
  call that changes the transport, a loss, a stall, a crash, a failed start or stop, an input that
  is too old. What the program does in answer is not bounded, except by the plan's `processes` (three for mappings on Windows, two
  on macOS). Two media commands are needed for an answer to be taken for another one's. Two receivers add nothing: a
  selection replaces the worker in any case. Process: queues and pipe of one, two owners, two commands, three messages.
- Sender: two of the three reports (consumer, keyboard), or the consumer report alone for taps; one key, one volume usage, one
  mapping; a control queue of 2 (16 in the program), an input queue of 1, one tap down at once, four generations: the service, its
  receiver, a loss or failure, and the one after it, so that everything stale can meet everything current. Service: two changes
  from outside, one in the fair run. Sessions: one receiver with four revisions and two surprises, or two receivers with five revisions.
  Reports: every key alone and every pair of keys on a few desks (`MCDesks`).
- Runtime: two receivers (symmetric), a channel of two, one hold, and plans with a few calls of each kind (`MCBounds`).
  Settings, editors and groups have plans of their own (`AllPlans`): edits, exit, the key; leaving, typing, a late answer,
  saving; a draft, a deletion, with one application.

`CHECK_DEADLOCK FALSE` is set for the sender because the bound on generations stops it, and for the supervisor because it does stop, when
its handle is dropped or when the media profile cannot be kept.

### Fairness

- Supervisor: it takes its next action (WF): a thread in a loop without blocking calls apart from the bounded wait.
  `SwitchExpires` and `Expire` are strongly fair: the step that looks at a deadline runs
  again and again, and the clock passes the deadline. Nothing is assumed of the worker, the receiver, the runtime or the input thread.
- Worker process: the system runs the threads, a stop's wait goes on (WF of `Work`), and the 400 ms expire when nothing but a call
  that hangs could move.
- Windows sender: each thread takes its next action (WF); the system completes a notification or fails it
  sooner or later (part of that), the service is created again (WF), and a pulse that gets its turn again and again is due at some
  time (SF): 40 ms pass.
- macOS: the loop goes on (WF); Core Bluetooth tells when its queue has room (SF `Writable`); a report that is offered again and again is accepted or
  becomes too old (SF `Moves`); a tap falls due (SF).
- Windows service: the loop goes on (WF); its instants pass and the adapter is looked at (SF of `Tick`, `Publish`,
  `Refresh`); advertising starts at some time (SF `AdvertStarts`: slower than 3 + 3 s each time, it would be rebuilt for ever); a
  pairing result comes (WF).

### What the violated runs show

`link_cleanup`. `end` queues ReleasePhysical for the mapping session that stays, and only then does `suspend` set
the mode to 0. The supervisor may in between have called `set_ready` (no effect, the mode was not 0 yet) and may
after it reach the packet: `accepts` wants `mode != 0` for mapping packets too, and the packet is dropped. The next
step admits the session again, and what the capture held down at the receiver stays down.

`supervisor_arm`. The handler of Armed compares with one load of `revision` and grants with a second one, and
`Handle::change` may run in between; the admission at the end of the message loop has the same form. The
link is then ready for a generation that was just invalidated, until the queued command is handled.

`sender_rebuild`. `Sender::detach` sets `detaching` and then queues the command that clears it. If the queue is full the
command is lost and the flag stays. The sender is shared by the next service: it ignores its configurations and answers
its reports as stale, which counts as an ordinary cancellation, so nothing fails and nothing is rebuilt. A
notification that hangs for about two seconds before the service is rebuilt is enough to fill the queue of 16, since every refresh
queues a configuration.

`runtime_release`. A seek that the receiver holds is released; the listener has ended the hold and sent the release. Before the tick
that takes it the user pauses listening: the router holds nothing any more, the epoch becomes now, and the tick drops the release with its
edge. Nothing else ends the seek.

`settings_lost`. A new group is computed from the GUI's copy of the rules while the save of a scope is pending. Its answer arrives between
the copy and the poll of the request; the request is then accepted and writes the old assignments.

### A check that is never needed

`send_report` refuses a report without an endpoint. `EndpointAtHand`, proved for every instance, says that this does not happen, so the model has no step for it.
Likewise the condition in `configure_sender` that every report is synchronized never decides: within a
generation either all of the receiver's reports are neutral or none counts.

### Observations

What the modelling showed beside the findings; no document of the program says otherwise, or the case was kept out of a model.

Supervisor and runtime
- `Invalidate` leaves `arm` set, so an Arm sent after `change` and before the Invalidate is handled can still match and open the
  admission for a moment. The input then belongs to a dead generation and is dropped; the next status closes it.
- Pausing or capturing while a seek is held makes its ordered release stale ("Input expired") and invalidates the transport; so
  does a press older than 250 ms. A full control queue makes `change` count the revision up without a command. More than 32 pending
  replies make a release Stale (`bluetooth_worker.rs`:597). `discard_events` of EnsureInput applies a Control press and drops an Edge release.
- Errors that `try_send` meets when the incoming queue is full are lost (`process.rs`:103–126); `check` notices the exit. After a crash of
  the application nothing keeps the worker of a new instance from overlapping the orphan until that one sees the end of its pipe.

Listeners
- With two edges under way a hook copy can overtake a raw copy, or a start of a capture (which clears KEYBOARD_SEEN,
  windows `input.rs`:967) comes between the copies, and the late raw copy is routed again. A button edge that the hook swallowed in a
  capture and whose raw copy comes after its end is never routed.
- `end_passthrough` outside a capture, a toggle that takes back a mere request, and failed starts call `link.end()` while a mapping is
  held: its release before the next `set_ready` is refused, against the comment "Queue held mapping releases before EndPassthrough closes admission".
- macOS: the result of `set_foreground` is handled after the synchronization that may have closed the admission; the exit calls
  `end_capture` only, so a mapping held outside a capture is left to the runtime's invalidation. A request that survives the
  restart of a listener starts a capture by itself. A replay queue that overflows (256) stops the capture before the releases.

Reports
- On Windows two physical keys with one virtual key (Home, and 7 of the number pad without Num Lock) share a code in the router: pressed
  together in a capture, the release of one sends its own usage's release and the other's usage stays down until the capture ends; Shift
  with Num Lock does the same between a press and its release. `HidReports` excludes two held keys of one code.
- The descriptor's wheel range is -127..127 and `i8` allows -128; a wheel event whose horizontal part fails has already
  updated the vertical remainder (the session fails in any case). Fractions of motion are dropped at each change of
  session, generation or percentage, and the percentage of the latest input scales whatever still waits.

Windows service, macOS peripheral
- A pairing that arrives while a rebuild has moved the selection into the pending restore cancels the restore: the worker
  forgets the selected receiver (`bluetooth.rs`:387–412), which `Kept` excepts. With nothing selected the loop's `disconnect`
  drops the pairing and its hand-over waits until a selection or rebuild. `Server::create` leaves the adapter Unknown until the first refresh, which
  interrupts the session of a receiver that was selected before.
- macOS: `fail` revokes without synchronizing; a request to pair ends the worker (`child.rs`:61); a media action beyond the capacity of the report
  fails but stays held; a partial unsubscription sends no neutral report for what is still subscribed; `blocked` survives a power-off
  until a subscription.

Editors
- Leaving before a queued BeginCustomCapture becomes visible leaves a recording without an editor (`mappings.rs`:46–64). The leave
  dialog's Save is disabled by `saving` only, so a result that arrives in the poll of that Save is applied after the hand-over and lost.
- A file prompt answered in the poll that completes the save of the same draft adds its application to a draft that is closed then.
- SaveScope accepted in the poll that completes a SaveRules resets `rules_saved`, and `sync_group_operation` reports "save failed" for a save that succeeded.

## 4. Proofs

A theorem holds for every value of the constants that the assumptions in the modules allow; TLC evaluates the assumptions on its
instances. Each section: the theorems, the invariant they come from, and why it is needed.

### InputRouterProofs

`OwnerIsUnique` (OneOwner), `NothingIsStuck` (NothingStuck), `ReleasesFollowPresses` (FollowsPress), `RouterTypes` (TypeOK),
`OutputsAreHeld` (OutputsHeld), `NothingUnauthorized` (Authorized), `GesturesAreSingle` (OneGesture): everything that `router_keys` asks
of the router, from `CodesAssumption`, `FunctionsAssumption` and `SavedAssumption` (what can be saved is well formed).

- `OwnershipInv` is OneOwner and NothingStuck with `NothingWhileRecording`, which is needed because recording lets a press
  through to the computer that would otherwise be captured. One lemma `...Ownership` per action.
- The refinement comes from the same lemmas. Each also shows that its step is an edge of KeyOwnership (`FollowsEdge`: the code is turned, and every
  other key keeps its owner unless a repeat is cancelled) or takes captured presses away (`TakesAway`). `OwnerNow`, `OwnerNext` and `KeptOwner` translate
  the sets into `Owner`, and `EdgeOwners` and `CancelledOwners` find the action of KeyOwnership.
- `RouterInv` adds `Captures`: what is captured is allowed (for each press, `PressOK`, and for each mapping, `MappingOK`), and the
  counts of holds are those of the escalated presses. Inductive because an escalated hold has no deadline (it is counted once), a repeat is never
  escalated (its cancellation changes no count) and no mapping is held by a modifier (its edges cancel no repeat, on
  the local route). `Sends` says of a step what Authorized and OneGesture say. That `First` finds a member (a least element) uses the
  well-foundedness of the naturals.

### BindingsProofs

`NeverAmbiguous` (Unambiguous), `ChecksAlwaysAgree` (ChecksAgree), `AlwaysSavable`. The invariant is `Shape /\ Savable /\ CaptureFits`: the live settings pass
the check of a save, also after the edits that the code makes without one, and what a recording may bind is free.

### InputLinkProofs

`StopsAreFinal` (StopIsFinal), `CapturesAreCurrent` (OfThisGeneration), `LossesAreOver` (LossIsOver), `NoGaps` (NoGap), for any finite number of
threads, any capacity and any bounds below 64 epochs. `UsageAssumption` says of the callers: only the supervisor authorizes, and one thread begins captures
and submits to them. The
proof annotates every access in the manner of Owicki and Gries: what thread t knows at each place of its program must survive the accesses of
the others.

- `PathInv`: what a thread has left to run is a suffix of its calls, and it plans one token at most.
- `AdmissionInv`: the token that the supervisor is about to grant is odd, new and known to nobody else, and what is active was granted for
  the generation in `ready`, which only changes while nothing is granted. `Room` counts the tokens that are still planned, so that the bound
  on epochs never decides.
- `CaptureInv`: a captured event, queued or about to be, is of an epoch that has begun, and was captured under a generation
  not older than the grant of that epoch.
- `MappingInv`: sessions of mappings are issued once, and no two threads are about to store the same one.
- `EvidenceInv`: the epoch left as evidence has begun, and is stopped or about to be ended by the thread that left it.
- `GapInv`: a thread that lost an event of a session still has to end it, or the session is over.

### Supervisor proofs

`SupervisorProofs`: `TypesAndCapacities` (TypeOK) from `TypeInv`: records keep their shape and queues their capacity;
`InputReachesItsSession` (DeliveredToItsSession) from `SessionInv`, which ties every packet and command that
is under way to the process and to the native generation that it was captured in; `AnswersAreTrue` (OkMeansExecuted) from `ReceiptInv`: a number in use is
smaller than the next, belongs to one command, and an answer under way to a number in use was given by the process that executed it.

`SupervisorAgreementProofs`: `SupervisorAgreesWithWorker` (SettledAgreement) from `PipeInv`. `Follows`: the last status under way, or else what the supervisor has
read, is what the worker reported last. `Fenced`: a switch of the profile that is under way on macOS is read before any Arm that
could still be accepted. `Settled` excludes the phases after a failed step: a status whose request to pair meets a full queue fails the
step half way, with `armed` as it was, until the worker is replaced. The same module proves `CapturesOnlyWhileArmed` (AdmissionIsArmed) from `AdmissionInv`: an admission is never of a later
revision than the present one, or the next change would open it, and a grant is under way only while the worker is armed. A step closes
the admission (`ClosedAdmission`) or keeps it with its arm (`KeptAdmission`); only three actions grant.

### HidSenderProofs

`GenerationsStartClean` (StartsClean), from `SenderAssumption`, for any keys, sources, usages and subscriptions, queues of any capacity and any number of
generations. StartsClean is not inductive. That a report is neutral is known to the sender first; its answer tells the control thread, which
counts the report as synchronized and, when all are, queues the command that opens the link; packets and media commands follow. Callbacks may
start another generation between any two of these, and everything under way is then outdated. `HInv` says of each
station that what it says *of the present generation* is so:

- `Prepared`: the reports that the control thread counts as synchronized are clean, and `Told`: so is the one whose answer it is about to read.
- `OneAsks`, `JobAsks`: at most one command or job will answer, and while the control thread waits for a neutral report it is that report's. Without
  them an answer to an earlier request could be taken for it; a caller that stops waiting withdraws its request (`Abandoned`).
- `Timely`: a queued command that opens the link, or holds a media key, follows clean reports; `Named`: a queued notify command names its report;
  `Admitted`: a packet of the present generation followed them too.
- `Empty`: in its generation the sender holds nothing that goes into a report that is not clean. A revocation clears six fields, and this is where one that is
  forgotten shows.
- `Times`: nothing is of a generation to come. Without it an old command could come true when the revision reaches it.

Most actions change one side only. `Moved` is what a step of the control side has to show (which stations it changes, and that it leaves the sender alone), with
`QuietStep`, `AskStep`, `AbandonStep` and `LoopStep` for the usual cases; `SenderMoved` and `TakeStep` are the same for the sender thread.

`ReportsHaveEndpoints` (EndpointAtHand), from the same assumption and with `HInv`, by `EInv`. A configure command replaces all endpoints of the sender while a tap
of the same generation is down, and a media command brings its own endpoint, which the next configure command replaces again. What keeps the report of
the release sendable is said in three places, and needs them all:

- `Evident`: the evidence of a generation does not change in it. What the control thread counts as synchronized, or is about to, is among what the receiver takes
  (`selected`): a change of the subscriptions advances the revision in the same critical section.
- `Tapped`: once a tap was asked for in this generation (in the queue, at the sender or down), the receiver takes the consumer report, the control thread
  still serves it (`Served`), and every configure command of the generation behind it has the consumer endpoint.
- `Fitted` and `Listed`: with authority, or while the link is open, the sender has all endpoints; with a tap, the consumer one; and every report left
  in a job that is not neutral has its own. `Unused`: without sessions there is no input.

`ControlStep` and `OutsideStep` are the step lemmas of the control side, `SenderMoves` that of the sender thread; a step into another generation needs no
more than `NewGeneration`, because nothing that is under way is of it. `SenderAssumption` says here that a kind of input comes with its report: without the mouse
report there are no buttons. With it, the reports of an event are never none (`SentKinds`), which is why a job that waits has one to send.

### RuntimeProofs

`OnlyTheChosen` (ShownIsChosen), `NoOldPress` (PressIsCurrent), `TestsEnd` (TestOwed), `RuntimeTypes` (Runtime's TypeOK, which TypesOK of `runtime_session` contains),
all from `RuntimeInvariant`, for any receivers, any capacity of the channel and any plan of bounds (`RuntimeAssumption`). The operators of Runtime take
a world and return one, so the invariant is stated of worlds: `Good(b, w)` says that any call may start in `w` (b are the bounds of the behaviour), each
operator has a lemma that it ends in a Good world, and an action is a composition of calls that `Becomes` the next state.

- `HookGood` and `Timely`: what is held, and every event that may still be sent as a press, was captured in the session at hand. A change of the session
  sets the epoch (nothing is fresh) before it lets the events become outdated; `Still` is what holds in between.
- `Prompt`: a press in the channel that has the present revision is of the session at hand; `Stale` is a channel after the revision has moved. `Sound` is Good
  without `Prompt`, which fails between the two halves of a change.
- `ChoiceGood`: the runtime shows, restores and remembers nobody but the device chosen last. That a stopped supervisor left a snapshot of nobody
  (`ChannelGood`) is needed because a tick reads it without a comparison.
- `Owed`: a pending test is in the channel or at the worker; replacing the worker and `finish` answer what is pending, and `Unanswered` is the world in which the answer is
  on its way.
- discard_events, the batch of a tick and the receipts are folds. `FoldExists` and `FoldStays` say that the function a fold is defined by exists and keeps what each
  step keeps; they are stated of functions (the step is a function of value and position), by induction over the number of positions (`Induction`, from the
  well-foundedness of the naturals). `DiscardUnfolds`, `HandleUnfolds` and `SettleUnfolds` connect them with `FoldLeft`.

### RuntimeReleaseProofs

`ReleasesCome` (HeldUnlessDiscarded), under the assumptions of `RuntimeProofs`, which it extends: what a call does to types, bounds and the session is taken from
there, and each call has a second lemma here. The invariant is `HInv == IInv /\ Tied(world) /\ Recorder(world)`. HeldUnlessDiscarded alone is not inductive: a
release may be anywhere between the keyboard and the worker, and it is dropped when it reaches another session than the one of its press. So `Tied` says two things.

- The session: `Linked` ties the commands that may still be accepted to the receiver that is selected, `Seen` says that what the runtime shows as present is what
  the supervisor has, and `InSession` that the runtime shows a session in which the receiver holds a key, or will. `Lasting` is a generation
  that stays ready or is replaced before it is ready again.
- The release: `Holding` (the router holds nothing while it does not listen, or records), `Queued` and `Batched` (a press that may still be sent has its release
  behind it, in the listener's events and in the batch of the tick), `Closing` (so has a press in the channel, and a key at the receiver).
- `Excused`: a release was discarded by name (`lost`), or a command that ends the session is in the channel. Then only `Base`, which holds in any case, is left
  to be kept. A call that ends the session needs no more than `Base` (`OverTied`, `ReplaceTied`, `StartTied`).
- `Recorder`: while a shortcut is recorded no fresh release of a seek is on its way that the listener sent as an ordinary event: the recording would
  drop it.

The batch of a tick lives inside one action; `Tied` holds of every world between two calls of the tick, and `EmptyStays` shows that the batch is empty at its end.

### Only model-checked

- Liveness and everything about ENABLED: `Answered`, `FallsBack`, `EveryTapEnds`, `Serves`, `OneOwnerRetires`.
- `Owned`, `Faithful`: two models at once, with histories that add up.
- The sender, its variants on macOS and Windows, and the reports: `KnownToBoth` and `MeantReceiver` are about several models whose
  handlers are functions of one record; `Understood` is about finite tables, all of which TLC visits.
- The settings and the editors (`InStep`, `NothingLost`, `AsMeant`): the last joins two editors; the polls fold over the queues of requests and
  answers, and what a fold keeps has not been proved yet.
- `TypesOK` of the MC modules: the conjunction of the types of the parts of a run. For InputLink the bounds of `requested` and `revision` depend on
  how many threads request.

Not modelled: presentation, overlay, desktop integration and foreground detection (calls of the operating system), logging,
texts, the vendored renderer and the scripts.

## 5. Plan

1. `HidSender`: `Known`, with the reports under way between the sender and the receiver added to the invariant of `HidSenderProofs`.
2. `MacPeripheral`: a subscription is at hand whenever a report is sent, as on Windows; `GattSessions`: what is counted is watched.
3. `WindowsService`: the receiver that is meant is kept through rebuilds.
4. `WorkerProcess`: one owner at a time, as a theorem for any number of owners.
