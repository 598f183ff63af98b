----------------------------- MODULE HidSender -----------------------------
(***************************************************************************)
(* Delivery on Windows, inside the worker process: the HID sender thread   *)
(* (bluetooth/sender.rs), the Bluetooth control thread that serves the     *)
(* receiver (bluetooth.rs, Server), the callbacks that withdraw what they  *)
(* were told (bluetooth/authorization.rs) and the loop that takes the      *)
(* supervisor's commands (bluetooth_worker/child.rs).                      *)
(*                                                                         *)
(* A step is what a thread does between two points where another thread    *)
(* matters.  A call of the link is one step: InputLink has its accesses.   *)
(* Nothing captures in this process, so the active epoch is 0 and the      *)
(* code for another epoch is left out.  So are the instants (a wait ends   *)
(* when it ends, a timeout may come at any time), what a snapshot shows,   *)
(* advertising, and the identity of the one receiver; `native` has the     *)
(* reports that it subscribes to in an active session with the radio on.   *)
(***************************************************************************)
EXTENDS HidSession

CONSTANTS
  Forwarded,        \* media usages among the keys of the supervisor's input
  Subscriptions,    \* the sets of reports that the receiver subscribes to
  All,              \* ReportKind::ALL, or its first kinds
  CommandCapacity,  \* of the control queue (16)
  PacketCapacity,   \* QUEUE_CAPACITY
  MaxRevision,      \* bounds on the counters
  MaxSession,
  MaxPulses         \* taps that are down at once

Kinds == {All[i] : i \in DOMAIN All}

ASSUME SenderAssumption ==
  /\ Forwarded \subseteq Usages /\ Subscriptions \subseteq SUBSET Kinds
  /\ All \in {<<"consumer">>, <<"consumer", "keyboard">>, <<"consumer", "keyboard", "mouse">>}
  /\ CommandCapacity \in Nat \ {0} /\ PacketCapacity \in Nat \ {0}
  /\ MaxRevision \in Nat \ {0} /\ MaxSession \in Nat /\ MaxPulses \in Nat
  \* input has its reports
  /\ MaxSession > 0 => "keyboard" \in Kinds /\ (Buttons # {} => "mouse" \in Kinds)

VARIABLES
  child,       \* where the command loop is
  revision,    \* the transport generation
  link,        \* open: mode # 0; ready; mapping: mapping_epoch
  session,     \* the last mapping_epoch
  packets,     \* on their way to the sender thread
  commands,    \* the control queue
  detaching,
  native,      \* what the operating system has
  selected,    \* Authorization: the evidence that it last took
  server,      \* the control thread
  answer,      \* what the control thread waits for, and the reply
  sender,      \* the sender thread
  job,         \* the reports it is sending
  shown,       \* what the receiver last got
  clean        \* the reports that were made neutral in this generation

vars == <<child, revision, link, session, packets, commands, detaching, native, selected,
          server, answer, sender, job, shown, clean>>

\* The kinds of a set, in the order of ALL
Only(kind, kinds) == IF kind \in kinds \cap Kinds THEN <<kind>> ELSE <<>>
Of(kinds) == Only("consumer", kinds) \o Only("keyboard", kinds) \o Only("mouse", kinds)

\* InputLink.  What was granted is only read while it is open.
End(l) == [l EXCEPT !.open = FALSE, !.ready = 0]
Open(l, generation) ==      \* set_ready
  IF generation = revision /\ ~l.open THEN [l EXCEPT !.open = TRUE, !.ready = generation] ELSE l
Ready(l) == l.open /\ l.ready = revision

\* Whoever withdraws something counts the generation up.
Advance(steps) ==
  /\ revision + steps <= MaxRevision
  /\ revision' = revision + steps
  /\ clean' = IF steps = 0 THEN clean ELSE {}
SameGeneration == UNCHANGED <<revision, clean>>

NoMedia == [usage |-> "none", down |-> FALSE]
NoJob == [task |-> "none", stage |-> "none", left |-> <<>>, neutral |-> FALSE, begun |-> 0,
          late |-> FALSE, error |-> "ok", reply |-> FALSE, media |-> NoMedia]

\* notify() starts with the generation that it finds, and not at all (0) while
\* the service goes.
Started(j) == [j EXCEPT !.stage = "pacing", !.begun = IF detaching THEN 0 ELSE revision]
Job(task, kinds) == Started([NoJob EXCEPT !.task = task, !.left = kinds])

\* No service
Gone == [at |-> "none", generation |-> 0, ready |-> FALSE, synced |-> {}, clients |-> {},
         observed |-> 0, since |-> 0, left |-> <<>>]

Init ==
  /\ child = "idle" /\ revision = 1 /\ session = 0
  /\ link = [open |-> FALSE, ready |-> 0, mapping |-> 0]
  /\ packets = <<>> /\ commands = <<>> /\ detaching = FALSE
  /\ native = {} /\ selected = {}
  /\ server = Gone
  /\ answer = "none"
  /\ sender = [at |-> "top", generation |-> 0, authorized |-> FALSE, mapping |-> 0,
               endpoints |-> {}, hid |-> Blank]
  /\ job = NoJob
  /\ shown = [kind \in Kinds |-> {}] /\ clean = {}

-----------------------------------------------------------------------------
\* The worker's command loop.

Arm ==
  /\ child = "idle"
  /\ Ready(link) /\ link.mapping = 0 /\ session < MaxSession
  /\ session' = session + 1
  /\ link' = [link EXCEPT !.mapping = session + 1]
  /\ UNCHANGED <<child, revision, packets, commands, detaching, native, selected, server, answer,
                 sender, job, shown, clean>>

\* Command::Invalidate: the revision goes first
InvalidateCommands ==
  /\ child = "idle" /\ child' = "ending"
  /\ Advance(1)
  /\ UNCHANGED <<link, session, packets, commands, detaching, native, selected, server,
                 answer, sender, job, shown>>

InvalidateLink ==
  /\ child = "ending" /\ child' = "idle"
  /\ link' = [End(link) EXCEPT !.mapping = 0]
  /\ UNCHANGED <<revision, session, packets, commands, detaching, native, selected, server,
                 answer, sender, job, shown, clean>>

Events ==
       [type : {"output"}, source : Physical \cup Mapped, down : BOOLEAN]
  \cup [type : {"consumer"}, source : Forwarded, down : BOOLEAN]
  \cup [type : {"release"}]

\* submit_forwarded; a full queue also ends the mapping session.
Input(event) ==
  /\ child = "idle"
  /\ link.mapping # 0 /\ Ready(link)
  /\ IF Len(packets) < PacketCapacity
     THEN /\ packets' = Append(packets, [epoch |-> link.mapping, generation |-> revision,
                                         event |-> event])
          /\ UNCHANGED link
     ELSE link' = [End(link) EXCEPT !.mapping = 0] /\ UNCHANGED packets
  /\ UNCHANGED <<child, revision, session, commands, detaching, native, selected, server, answer,
                 sender, job, shown, clean>>

\* Input that took more than 250 ms to get here
InputTooLate ==
  /\ child = "idle"
  /\ link.mapping # 0 /\ link.open
  /\ link' = End(link)
  /\ UNCHANGED <<child, revision, session, packets, commands, detaching, native, selected, server,
                 answer, sender, job, shown, clean>>

-----------------------------------------------------------------------------
\* The callbacks.

\* Authorization::reconcile: evidence that changed revokes the generation.
Reconcile(evidence) ==
  /\ selected' = evidence
  /\ IF evidence = selected THEN SameGeneration /\ UNCHANGED link
     ELSE Advance(1) /\ link' = End(link)

\* A subscription, a session, the radio or the power state changed.
Transport(reports) ==
  /\ reports # native
  /\ native' = reports
  /\ Reconcile(selected \cap reports)
  /\ UNCHANGED <<child, session, packets, commands, detaching, server, answer, sender, job, shown>>

-----------------------------------------------------------------------------
\* The control thread.

serverRest == <<child, session, packets, native, sender, job, shown>>

\* Faulty variant of Room: an unbounded queue
AlwaysRoom == TRUE

\* Sender::submit: an entry that does not fit is an error.
Room == Len(commands) < CommandCapacity
Command(type) == [type |-> type, generation |-> revision, kind |-> "none", reply |-> TRUE,
                  endpoints |-> {}, ready |-> FALSE, media |-> NoMedia]

\* configure_sender; `l` is the link before it, `queue` the commands
Configure(s, l, queue) ==
  IF Len(queue) < CommandCapacity
  THEN /\ commands' = Append(queue,
            [Command("configure") EXCEPT !.generation = s.generation, !.reply = FALSE,
                                         !.endpoints = s.clients,
                                         !.ready = s.ready /\ s.synced = Kinds])
       /\ link' = l
  ELSE commands' = queue /\ link' = End(l)      \* link.fail

\* adopt_generation
Adopted(s) ==
  IF s.generation = revision THEN s
  ELSE [s EXCEPT !.generation = revision, !.synced = {}, !.ready = FALSE]
AdoptedLink(s) == IF s.generation = revision THEN link ELSE End(link)

\* Between two requests
Idle(s) == [s EXCEPT !.at = "idle", !.left = <<>>, !.observed = 0, !.since = 0]

\* The link is up, and the receiver takes the consumer report.
Available(s) == "consumer" \in s.clients

\* publication.due: the service is built and its receiver selected.
Create ==
  /\ server.at = "none"
  /\ Advance(1)
  /\ selected' = {}
  /\ link' = End(link)
  /\ server' = [server EXCEPT !.at = "idle", !.generation = revision, !.ready = FALSE,
                              !.synced = {}, !.clients = {}]
  /\ UNCHANGED <<commands, detaching, answer, serverRest>>

\* select(): `synced` forgets the consumer report only when the generation is adopted.
Select ==
  /\ server.at = "idle"
  /\ Advance(IF selected = {} THEN 1 ELSE 2)
  /\ selected' = {}
  /\ link' = End(link)
  /\ server' = [server EXCEPT !.clients = {}, !.ready = FALSE]
  /\ UNCHANGED <<commands, detaching, answer, serverRest>>

\* refresh_native: adopts the generation, then takes the evidence anew.
Observe(evidence) ==
  /\ server.at = "idle"
  /\ selected' = evidence
  /\ Advance(IF evidence = selected THEN 0 ELSE 1)
  /\ link' = IF evidence = selected THEN AdoptedLink(server) ELSE End(link)
  /\ UNCHANGED <<commands, detaching, answer, serverRest>>

Refresh ==
  /\ Observe(native)
  /\ server' = [Adopted(server) EXCEPT !.at = "observed", !.observed = revision']

\* A refresh that fails, before, in and after the observation: the service is
\* built anew, unless it was for a request.
RefreshFails ==
  /\ \/ server.at = "idle" /\ (Observe(selected) \/ Observe({}))
     \/ /\ server.at = "observed"
        /\ SameGeneration
        /\ UNCHANGED <<link, selected, commands, detaching, answer, serverRest>>
  /\ \E at \in {"drop", "fail"} : server' = [Adopted(server) EXCEPT !.at = at, !.observed = 0]

\* A callback came after the observation: its handles are not of this generation.
Outdated ==
  /\ server.at = "observed" /\ revision # server.observed
  /\ LET s == [Adopted(server) EXCEPT !.clients = {}]
     IN Configure(s, AdoptedLink(server), commands) /\ server' = Idle(s)
  /\ SameGeneration /\ UNCHANGED <<detaching, selected, answer, serverRest>>

\* Nothing was withdrawn since, so `selected` is what was observed.
Current ==
  /\ server.at = "observed" /\ revision = server.observed
  /\ LET s == [Adopted(server) EXCEPT !.clients = selected]
         synced == IF Available(s) THEN s.synced \cap s.clients ELSE {}
     IN server' = [s EXCEPT !.synced = synced, !.at = "schedule", !.observed = 0,
                            !.ready = Available(s) /\ "consumer" \in synced]
  /\ link' = AdoptedLink(server)
  /\ SameGeneration /\ UNCHANGED <<commands, detaching, selected, answer, serverRest>>

\* Reports that the receiver takes and that are not neutral yet, unless backing off
Synchronize ==
  /\ server.at = "schedule" /\ Available(server) /\ ~(server.clients \subseteq server.synced)
  /\ server' = [server EXCEPT !.at = "sync", !.since = revision,
                              !.left = Of(server.clients \ server.synced)]
  /\ SameGeneration /\ UNCHANGED <<link, commands, detaching, selected, answer, serverRest>>

Finish ==
  /\ \/ server.at = "schedule"
     \/ server.at = "sync" /\ server.left = <<>>
  /\ LET s == [server EXCEPT !.ready = /\ Available(server) /\ "consumer" \in server.synced
                                       /\ server.generation = revision]
     IN Configure(s, link, commands) /\ server' = Idle(s)
  /\ SameGeneration /\ UNCHANGED <<detaching, selected, answer, serverRest>>

\* Sender::notify of the next kind in `left`, at `from`; the reply is awaited at `to`
Notify(from, to) ==
  /\ server.at = from /\ server.left # <<>> /\ Room
  /\ commands' = Append(commands, [Command("notify") EXCEPT !.kind = Head(server.left)])
  /\ answer' = "waiting"
  /\ server' = [server EXCEPT !.at = to]
  /\ SameGeneration /\ UNCHANGED <<link, detaching, selected, serverRest>>

Neutralize == Notify("sync", "syncing")

Neutralized ==
  /\ server.at = "syncing" /\ answer = "ok" /\ answer' = "none"
  /\ server' = [server EXCEPT !.at = "sync", !.left = Tail(@),
       !.synced = IF server.since = revision THEN @ \cup {Head(server.left)} ELSE @]
  /\ SameGeneration /\ UNCHANGED <<link, commands, detaching, selected, serverRest>>

\* Where the control thread goes on after a failure
Onward(s) == IF s.at \in {"sync", "syncing"} THEN [s EXCEPT !.at = "sync", !.left = <<>>]
             ELSE Idle(s)
Awaiting == server.at \in {"syncing", "sending"}

\* Server::fail: Stale, TimedOut, anything else.  Only the last revokes.
Superfluous ==
  /\ LET s == Onward(Adopted(server)) IN server' = s /\ Configure(s, AdoptedLink(server), commands)
  /\ SameGeneration /\ UNCHANGED selected

TimedOut(queue) ==
  /\ LET s == [Onward(Adopted(server)) EXCEPT !.synced = {}, !.ready = FALSE]
     IN server' = s /\ Configure(s, AdoptedLink(server), queue)
  /\ SameGeneration /\ UNCHANGED selected

Withdrawn ==
  /\ Advance(IF selected = {} THEN 0 ELSE 1)
  /\ selected' = {}
  /\ link' = End(link)
  /\ server' = [Onward(server) EXCEPT !.generation = revision', !.synced = {}, !.ready = FALSE]
  /\ UNCHANGED commands

SyncFails ==
  /\ server.at = "syncing" /\ answer \in {"stale", "failed"} /\ answer' = "none"
  /\ IF answer = "stale" THEN Superfluous ELSE Withdrawn
  /\ UNCHANGED <<detaching, serverRest>>

MediaFails ==
  /\ server.at = "sending" /\ answer = "failed" /\ answer' = "none"
  /\ Withdrawn
  /\ UNCHANGED <<detaching, serverRest>>

\* send(): after a refresh, if one is due, Sender::media.  A command that is not
\* of this generation, or expired, changes nothing; whoever sends it knows of no
\* generation but the adopted one.  Only what is held is released.
Sendable == server.at = "idle" /\ server.ready /\ server.generation = revision

SendMedia(usage, down) ==
  /\ Sendable /\ Available(server) /\ Room
  /\ commands' = Append(commands,
       [Command("media") EXCEPT !.media = [usage |-> usage, down |-> down]])
  /\ answer' = "waiting"
  /\ server' = [server EXCEPT !.at = "sending"]
  /\ SameGeneration /\ UNCHANGED <<link, detaching, selected, serverRest>>

MediaSent ==
  /\ server.at = "sending" /\ answer \in {"ok", "stale"} /\ answer' = "none"
  /\ server' = Idle(server)
  /\ SameGeneration /\ UNCHANGED <<link, commands, detaching, selected, serverRest>>

\* What could not be submitted
Unsent ==
  /\ \/ server.at = "fail"
     \/ server.at = "sync" /\ server.left # <<>> /\ ~Room
     \/ Usages # {} /\ Sendable /\ (~Available(server) \/ ~Room)
  /\ Withdrawn
  /\ UNCHANGED <<detaching, answer, serverRest>>

\* The reply takes a second, which only passes while the sender waits as well:
\* nobody waits for it any more.
Abandoned == [i \in DOMAIN commands |-> [commands[i] EXCEPT !.reply = FALSE]]
Abandon ==
  /\ answer = "waiting" /\ answer' = "none"
  /\ job.stage \in {"pacing", "submitted"}
  /\ job' = [job EXCEPT !.reply = FALSE]
  /\ UNCHANGED <<child, session, packets, native, sender, shown>>

ReplyTimesOut ==
  /\ Awaiting
  /\ Abandon /\ TimedOut(Abandoned)
  /\ UNCHANGED detaching

\* Drop for Server: the radio came back, or a refresh failed.
AdapterChanged ==
  /\ server.at = "idle"
  /\ Advance(1)
  /\ server' = [server EXCEPT !.at = "drop"]
  /\ UNCHANGED <<link, commands, detaching, selected, answer, serverRest>>

Drop ==
  /\ server.at = "drop"
  /\ link' = End(link)
  /\ server' = [Idle(server) EXCEPT !.at = "release", !.left = Of(server.clients)]
  /\ SameGeneration /\ UNCHANGED <<commands, detaching, selected, answer, serverRest>>

Release == Notify("release", "releasing")

\* What became of a release does not matter.
ReleasedNext == server' = [server EXCEPT !.at = "release", !.left = Tail(@)]

Released ==
  /\ \/ server.at = "releasing" /\ answer \in {"ok", "stale", "failed"}
     \/ server.at = "release" /\ server.left # <<>> /\ ~Room
  /\ answer' = "none"
  /\ ReleasedNext
  /\ SameGeneration /\ UNCHANGED <<link, commands, detaching, selected, serverRest>>

ReleaseTimesOut ==
  /\ server.at = "releasing"
  /\ Abandon /\ commands' = Abandoned
  /\ ReleasedNext
  /\ SameGeneration /\ UNCHANGED <<link, detaching, selected>>

\* Sender::detach: the sender is told before the command is queued.
Detach ==
  /\ server.at = "release" /\ server.left = <<>>
  /\ detaching' = TRUE
  /\ link' = End(link)
  /\ IF Room
     THEN /\ commands' = Append(commands, [Command("detach") EXCEPT !.generation = 0])
          /\ answer' = "waiting"
          /\ server' = [server EXCEPT !.at = "detaching"]
     ELSE /\ server' = Gone
          /\ UNCHANGED <<commands, answer>>
  /\ SameGeneration /\ UNCHANGED <<selected, serverRest>>

Detached ==
  /\ server.at = "detaching" /\ answer = "ok" /\ answer' = "none"
  /\ server' = Gone
  /\ SameGeneration /\ UNCHANGED <<link, commands, detaching, selected, serverRest>>

DetachTimesOut ==
  /\ server.at = "detaching"
  /\ Abandon /\ commands' = Abandoned
  /\ server' = Gone
  /\ SameGeneration /\ UNCHANGED <<link, detaching, selected>>

-----------------------------------------------------------------------------
\* The sender thread.

senderRest == <<child, session, native, selected, server>>

\* fail(): a stale report revokes nothing.
Judged(s, result) == IF result = "failed" THEN [s EXCEPT !.authorized = FALSE] ELSE s

\* Faulty variant of Revoke: closes the input, and keeps the generation
RevokeInput(result) ==
  /\ link' = IF result = "failed" THEN End(link) ELSE link
  /\ SameGeneration

Revoke(result) ==
  IF result = "failed"
  THEN Advance(1) /\ link' = End(link)
  ELSE SameGeneration /\ UNCHANGED link

Reply(reply, result) == answer' = IF reply THEN result ELSE answer

\* reconcile(), the rest: a new generation ends what the old one began, and
\* while the service goes the sender only stays closed.
Renewal == sender.generation # revision

\* Faulty variant of Renewed: what is held lives on
RenewedHeld == [sender EXCEPT !.at = "select", !.authorized = FALSE, !.generation = revision,
                              !.endpoints = {}]

Renewed == [sender EXCEPT !.at = "select", !.authorized = FALSE, !.hid = Blank,
                          !.generation = revision, !.endpoints = {}]

Generation ==
  /\ CASE detaching -> /\ sender' = [sender EXCEPT !.at = "select", !.authorized = FALSE]
                       /\ link' = End(link) /\ UNCHANGED job
       [] ~detaching /\ ~Renewal ->
            sender' = [sender EXCEPT !.at = "select"] /\ UNCHANGED <<link, job>>
       [] ~detaching /\ Renewal /\ sender.hid.consumer = {} ->
            sender' = Renewed /\ link' = End(link) /\ UNCHANGED job
       [] ~detaching /\ Renewal /\ sender.hid.consumer # {} ->      \* reset
            /\ sender' = [sender EXCEPT !.at = "renew", !.hid = Blank]
            /\ link' = End(link)
            /\ job' = IF sender.endpoints = {} THEN NoJob
                      ELSE [Job("reset", Of(sender.endpoints)) EXCEPT !.neutral = TRUE]

\* reconcile(), the mapping session.  The reports follow only with authority.
Unmapped ==
  LET kept == [sender.hid EXCEPT !.owners = @ \ Mapped]
  IN /\ sender' = [sender EXCEPT !.at = "generation", !.mapping = link.mapping,
          !.hid = IF sender.authorized THEN Owned(kept, kept.owners) ELSE kept]
     /\ job' = IF sender.authorized THEN Job("mapping", Of({"keyboard", "mouse"})) ELSE NoJob
     /\ UNCHANGED link

ReconcileSender ==
  /\ job = NoJob
  /\ \/ sender.at = "top" /\ sender.mapping # link.mapping /\ Unmapped
     \/ sender.at = "top" /\ sender.mapping = link.mapping /\ Generation
     \/ sender.at = "generation" /\ Generation
     \/ sender.at = "renew" /\ sender' = Renewed /\ link' = End(link) /\ UNCHANGED job
  /\ SameGeneration /\ UNCHANGED <<packets, commands, detaching, answer, shown, senderRest>>

\* Nothing to do: park, then once more from the top.
Park ==
  /\ sender.at = "select" /\ commands = <<>>
  /\ Renewal \/ sender.mapping # link.mapping \/ (detaching /\ (sender.authorized \/ link.open))
  /\ sender' = [sender EXCEPT !.at = "top"]
  /\ SameGeneration /\ UNCHANGED <<link, packets, commands, detaching, answer, job, shown, senderRest>>

\* The reports of this job are sent one after the other; then from the top.
Begin(s, j) ==
  /\ job' = j
  /\ sender' = [s EXCEPT !.at = "top"]

\* A handler that sends nothing
Nothing(s, result) ==
  /\ sender' = [Judged(s, result) EXCEPT !.at = "top"]
  /\ Revoke(result)
  /\ UNCHANGED job

Take ==      \* the next command, if the sender gets to it
  /\ sender.at = "select" /\ job = NoJob /\ commands # <<>>
  /\ commands' = Tail(commands)
  /\ UNCHANGED <<packets, shown, senderRest>>

command == Head(commands)
IsCurrent == command.generation = revision

\* Faulty variant of Emptied: the taps that are down stay down
EmptiedHeld == [sender EXCEPT !.at = "top", !.authorized = FALSE, !.endpoints = {}]

Emptied == [sender EXCEPT !.at = "top", !.authorized = FALSE, !.endpoints = {}, !.hid = Blank]

TakeDetach ==
  /\ Take /\ command.type = "detach"
  /\ sender' = Emptied
  /\ link' = End(link)
  /\ detaching' = FALSE
  /\ Reply(command.reply, "ok")
  /\ SameGeneration /\ UNCHANGED <<job>>

TakeConfigure ==
  /\ Take /\ command.type = "configure"
  /\ IF detaching \/ ~IsCurrent
     THEN sender' = [sender EXCEPT !.at = "top"] /\ UNCHANGED link
     ELSE LET authorized == command.ready /\ command.endpoints = Kinds
              renewed == command.generation # sender.generation
              closed == IF renewed THEN End(link) ELSE link
          IN /\ sender' = [sender EXCEPT !.at = "top", !.generation = command.generation,
                  !.endpoints = command.endpoints, !.authorized = authorized,
                  !.hid = IF renewed THEN Blank ELSE @]
             /\ link' = IF authorized THEN Open(closed, command.generation) ELSE End(link)
  /\ SameGeneration /\ UNCHANGED <<detaching, answer, job>>

\* A neutral report forgets the consumer usages, not the keys.
TakeNotify ==
  /\ Take /\ command.type = "notify"
  /\ IF IsCurrent
     THEN /\ Begin([sender EXCEPT !.hid = IF command.kind = "consumer"
                       THEN [@ EXCEPT !.consumer = {}, !.pulses = {}] ELSE @],
                   [Job("notify", <<command.kind>>) EXCEPT !.neutral = TRUE,
                                                          !.reply = command.reply])
          /\ UNCHANGED answer
     ELSE /\ sender' = [sender EXCEPT !.at = "top"]
          /\ Reply(command.reply, "stale")
          /\ UNCHANGED job
  /\ SameGeneration /\ UNCHANGED <<link, detaching>>

\* prepare_media: a volume step that is still down is released first.
TakeMedia ==
  /\ Take /\ command.type = "media"
  /\ IF IsCurrent
     THEN LET media == command.media
              superseded == IF media.down THEN Superseded(sender.hid, media.usage) ELSE {}
          IN /\ Begin([sender EXCEPT !.endpoints = @ \cup {"consumer"},
                                     !.hid = Ended(@, superseded)],
                      [Job("media", IF superseded = {} THEN <<>> ELSE <<"consumer">>) EXCEPT
                         !.stage = IF superseded = {} THEN "press" ELSE @,
                         !.media = media, !.reply = command.reply])
             /\ UNCHANGED answer
     ELSE /\ sender' = [sender EXCEPT !.at = "top"]
          /\ Reply(command.reply, "stale")
          /\ UNCHANGED job
  /\ SameGeneration /\ UNCHANGED <<link, detaching>>

\* A pulse is due.
Pulse ==
  /\ sender.at = "select" /\ job = NoJob /\ commands = <<>>
  /\ \E pulse \in sender.hid.pulses :
       Begin([sender EXCEPT !.hid = Ended(@, {pulse})], Job("pulse", <<"consumer">>))
  /\ SameGeneration /\ UNCHANGED <<link, packets, commands, detaching, answer, shown, senderRest>>

\* InputLink::accepts
Accepts(packet) ==
  packet.epoch = link.mapping /\ packet.generation = revision /\ link.open

\* Worker::event, the reports that it sends one after the other, of those that there are
Sent(event) ==
  LET kinds == Reported(event)
  IN IF event.type = "release"
     THEN Only(kinds[1], Kinds) \o Only(kinds[2], Kinds) \o Only(kinds[3], Kinds)
     ELSE Only(kinds[1], Kinds)

TakePacket ==
  /\ sender.at = "select" /\ job = NoJob /\ commands = <<>> /\ packets # <<>>
  /\ packets' = Tail(packets)
  /\ LET event == Head(packets).event
         next == [sender EXCEPT !.hid = Handled(@, event)]
     IN IF ~Accepts(Head(packets)) THEN Nothing(sender, "stale")
        ELSE IF Fails(sender.hid, event) THEN Nothing(next, "failed")
        ELSE /\ Begin(next, Job("event", Sent(event)))
             /\ SameGeneration /\ UNCHANGED link
  /\ UNCHANGED <<commands, detaching, answer, shown, senderRest>>

\* ReportSchedule::take gives up on input that waited for more than 250 ms.
PacketTooLate ==
  /\ sender.at = "select" /\ job = NoJob /\ commands = <<>> /\ packets # <<>>
  /\ Accepts(Head(packets))
  /\ packets' = Tail(packets)
  /\ Nothing(sender, "failed")
  /\ UNCHANGED <<commands, detaching, answer, shown, senderRest>>

-----------------------------------------------------------------------------
\* notify(): one report of the job.

deliveryRest == <<packets, commands, detaching, senderRest>>

\* A job ends with `result`: it fails, and answers whoever waits.
Conclude(result) ==
  /\ job' = NoJob
  /\ sender' = Judged(sender, result)
  /\ IF result = "ok" /\ job.task = "notify"
     THEN clean' = clean \cup {Head(job.left)} /\ UNCHANGED <<revision, link>>
     ELSE Revoke(result)
  /\ Reply(job.reply, result)

\* What the result of one report leads to.  A reset goes on after an error and
\* keeps the first; the other jobs end there.
Proceed(result) ==
  LET left == Tail(job.left)
      error == IF job.error = "ok" THEN result ELSE job.error
      next == Started([job EXCEPT !.left = left, !.late = FALSE])
  IN IF job.task = "reset"
     THEN IF left = <<>> THEN Conclude(error)
          ELSE job' = [next EXCEPT !.error = error] /\ SameGeneration /\ UNCHANGED <<link, answer, sender>>
     ELSE IF result = "ok" /\ left # <<>>
     THEN job' = next /\ SameGeneration /\ UNCHANGED <<link, answer, sender>>
     ELSE IF result = "ok" /\ job.task = "media" /\ job.media # NoMedia
     THEN job' = [next EXCEPT !.stage = "press"] /\ SameGeneration /\ UNCHANGED <<link, answer, sender>>
     ELSE Conclude(result)

\* Session::media
Fresh == CHOOSE n \in 1..MaxPulses : \A pulse \in sender.hid.pulses : pulse[2] # n

Press ==
  /\ job.stage = "press"
  /\ Cardinality(sender.hid.pulses) < MaxPulses
  /\ LET hid == Media(sender.hid, job.media.usage, job.media.down, Fresh)
     IN IF ExceedsCapacity(hid)
        THEN /\ Revoke("failed") /\ job' = NoJob
             /\ sender' = [Judged(sender, "failed") EXCEPT !.hid = hid]
             /\ Reply(job.reply, "failed")
        ELSE /\ sender' = [sender EXCEPT !.hid = hid]
             /\ job' = Started([job EXCEPT !.left = <<"consumer">>, !.media = NoMedia])
             /\ SameGeneration /\ UNCHANGED <<link, answer>>
  /\ UNCHANGED <<shown, deliveryRest>>

\* send_report refuses what it has no endpoint for; notify and reset name theirs.
\* No step says what would follow: EndpointAtHand shows that it does not happen.
HasEndpoint == job.neutral \/ Head(job.left) \in sender.endpoints

\* While it waits for its slot, a report of the past is dropped.
Retired ==
  /\ job.stage = "pacing" /\ HasEndpoint
  /\ detaching \/ job.begun # revision
  /\ Proceed("stale")
  /\ UNCHANGED <<shown, deliveryRest>>

Submit ==
  /\ job.stage = "pacing" /\ HasEndpoint /\ job.begun # 0
  /\ job' = [job EXCEPT !.stage = "submitted", !.begun = 0]
  /\ SameGeneration /\ UNCHANGED <<link, answer, sender, shown, deliveryRest>>

Report == IF job.neutral THEN {} ELSE Down(sender.hid, Head(job.left))

Delivered(delivered) ==
  shown' = IF delivered THEN [shown EXCEPT ![Head(job.left)] = Report] ELSE shown

\* Timeout already retired the input: a late completion is stale.
Completed ==
  /\ job.stage = "submitted"
  /\ Proceed(IF job.late THEN "stale" ELSE "ok")
  /\ Delivered(TRUE)
  /\ UNCHANGED deliveryRest

Failed ==
  /\ \/ job.stage = "submitted"
     \/ job.stage = "pacing" /\ HasEndpoint /\ job.begun # 0
  /\ Proceed("failed")
  /\ \E delivered \in {FALSE, job.stage = "submitted"} : Delivered(delivered)
  /\ UNCHANGED deliveryRest

\* The service goes: the operation is cancelled, in time or not.
Cancelled ==
  /\ job.stage = "submitted" /\ detaching
  /\ Proceed("stale")
  /\ \E delivered \in BOOLEAN : Delivered(delivered)
  /\ UNCHANGED deliveryRest

\* 250 ms, once; the sender goes on waiting for the completion.
Late ==
  /\ job.stage = "submitted" /\ ~job.late
  /\ Revoke("failed")
  /\ sender' = Judged(sender, "failed")
  /\ job' = [job EXCEPT !.late = TRUE]
  /\ UNCHANGED <<answer, shown, deliveryRest>>

-----------------------------------------------------------------------------
Child == \/ Arm \/ InvalidateCommands \/ InvalidateLink \/ InputTooLate
         \/ \E event \in Events : Input(event)

\* What the control thread does without being asked
ServerWork ==
  \/ Refresh \/ RefreshFails \/ Outdated \/ Current \/ Synchronize \/ Finish
  \/ Neutralize \/ Neutralized \/ SyncFails \/ MediaFails \/ Unsent
  \/ MediaSent \/ ReplyTimesOut
  \/ Drop \/ Release \/ Released \/ ReleaseTimesOut \/ Detach \/ Detached \/ DetachTimesOut

ServerNext ==
  \/ Create \/ Select \/ AdapterChanged \/ ServerWork
  \/ \E usage \in Usages : SendMedia(usage, TRUE)
  \/ \E usage \in Seeks : SendMedia(usage, FALSE)

Reconciling == ReconcileSender \/ Park
Taking == TakeDetach \/ TakeConfigure \/ TakeNotify \/ TakeMedia \/ Pulse \/ TakePacket \/ PacketTooLate
Delivering == Press \/ Retired \/ Submit \/ Completed \/ Failed \/ Cancelled \/ Late

SenderNext == Reconciling \/ Taking \/ Delivering

Next == Child \/ ServerNext \/ SenderNext \/ \E reports \in Subscriptions : Transport(reports)

Spec == Init /\ [][Next]_vars

-----------------------------------------------------------------------------
\* The shape of the state
TypeOK ==
  /\ child \in {"idle", "ending"} /\ revision \in 1..MaxRevision /\ session \in 0..MaxSession
  /\ link \in [open : BOOLEAN, ready : 0..MaxRevision, mapping : 0..MaxSession]
  /\ Len(packets) <= PacketCapacity /\ Len(commands) <= CommandCapacity
  /\ detaching \in BOOLEAN /\ native \subseteq Kinds /\ selected \subseteq Kinds
  /\ answer \in {"none", "waiting", "ok", "stale", "failed"}
  /\ server.synced \subseteq Kinds /\ server.clients \subseteq Kinds
  /\ sender.endpoints \subseteq Kinds /\ sender.authorized \in BOOLEAN
  /\ job.stage \in {"none", "pacing", "submitted", "press"}
  /\ shown \in [Kinds -> SUBSET (Keys \cup Buttons \cup Usages)]
  /\ clean \subseteq Kinds

\* Between two reports of a generation that the service still holds, the receiver
\* shows exactly the usages that the sender counts as down, and no key or button
\* that the sender does not: every report that may have got lost revokes.
Known ==
  job = NoJob /\ server.generation = revision /\ sender.generation = revision
     /\ ~detaching /\ server.at # "detaching"
  => \A kind \in server.synced :
       IF kind = "consumer" THEN shown[kind] = Down(sender.hid, kind)
       ELSE shown[kind] \subseteq Down(sender.hid, kind)

\* Input is admitted only in a generation in which every report was made neutral
\* first ("The sender authorizes the new generation only after neutral reports succeed").
OpenIsClean == Ready(link) => clean = Kinds

\* A generation starts from nothing: until a report was made neutral in it, its
\* receiver is owed no key, button or usage, and no source counts as down before
\* all were.
NothingInherited ==
  sender.generation = revision
  => /\ \A kind \in Kinds \ clean : Down(sender.hid, kind) = {}
     /\ clean # Kinds => sender.hid.owners = {}

\* Both: input is admitted in clean generations only, and a generation starts clean.
StartsClean == OpenIsClean /\ NothingInherited

\* What the sender sends has an endpoint: whatever takes the endpoints away also
\* ends the usages, keys and sources whose reports are still to come.
EndpointAtHand == job.stage = "pacing" => HasEndpoint

-----------------------------------------------------------------------------
\* Every thread goes on; the system completes a notification sooner or later; a
\* pulse whose turn comes again and again is due at some time.
Fairness == WF_vars(SenderNext) /\ WF_vars(ServerWork) /\ WF_vars(Create) /\ SF_vars(Pulse)

FairSpec == Spec /\ Fairness

\* Commands go first, and come at most every 100 ms: the sender gets through them.
Paced == []<>(sender.at = "select" /\ job = NoJob /\ commands = <<>>)

\* A tap is released: the receiver does not keep showing its usage, unless the
\* generation or the service ends.
Ends(usage, generation) ==
  (revision = generation /\ "consumer" \in clean /\ usage \in shown["consumer"])
  ~> (revision # generation \/ server.at = "none" \/ usage \notin shown["consumer"])

\* (the last generation of the model cannot be revoked)
TapsEnd ==
  Paced => \A usage \in Usages \ Seeks, generation \in 1..(MaxRevision - 1) : Ends(usage, generation)

\* The service that replaces a failed one is served ("Do not turn that into a
\* permanent startup error; rebuild the service instead"): as long as it stays,
\* the sender does not refuse its reports for good.
Leaving == server.at \in {"none", "drop", "release", "releasing", "detaching"}
RebuiltServes == (server.at = "idle" /\ detaching) ~> (~detaching \/ Leaving)
=============================================================================
