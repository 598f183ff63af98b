---------------------------- MODULE MacPeripheral ----------------------------
(***************************************************************************)
(* Delivery on macOS, inside the worker process (taprelay-macos            *)
(* bluetooth.rs): the main thread runs the loop of bluetooth_worker/       *)
(* child.rs, which lets Core Bluetooth call back once, ticks, looks at the *)
(* inventory of paired devices and then takes commands.                    *)
(*                                                                         *)
(* Everything happens on one thread, so a handler is a function of the     *)
(* record `mac`: Data with the input link of the process, and what the     *)
(* receivers were given.  The generation and the epochs are only compared  *)
(* for equality, so the record says what is still current instead: nothing *)
(* but revoke() counts the generation up, and it empties the queue.        *)
(* A report that Core Bluetooth accepts counts as shown to its central.    *)
(* Left out: names, advertising, the rows of receivers that a snapshot     *)
(* shows, and instants (a wait ends when it ends; a report may be late).   *)
(***************************************************************************)
EXTENDS HidSession, SequencesExt

CONSTANTS
  Forwarded,            \* media usages among the keys of the supervisor's input
  All,                  \* ReportKind::ALL, or its first kinds
  PacketCapacity,       \* QUEUE_CAPACITY
  MaxPulses,            \* taps that are down at once
  Centrals,             \* identifiers that Core Bluetooth has for receivers
  Phone, Address,       \* one of them, and the address of the same device
  None,
  Wishes,               \* the commands Init of the supervisor, and bounds: which reports
                        \* each central may subscribe to, what the inventory may say
  PendingLimit,         \* commands without an answer (32)
  QueueLimit            \* of the notifications (1024)

\* What the module that instantiates this one assumes of them
MacAssumption ==
  /\ Phone \in Centrals /\ Address \notin Centrals /\ None \notin Centrals \cup {Address}
  /\ Wishes \subseteq [selected : Centrals \cup {Address, None}, publish : BOOLEAN,
                       profile : {"media", "full"}, remembered : {"none", "address", "central"},
                       comes : [Centrals -> SUBSET {All[i] : i \in DOMAIN All}],
                       lists : SUBSET {"none", "plain", "bridged"}]
  /\ PendingLimit \in Nat \ {0} /\ QueueLimit \in Nat /\ PacketCapacity \in Nat

VARIABLES at,      \* where the loop is
          mac      \* Data, the input link, and what was accepted for the centrals

vars == <<at, mac>>

Kinds == {All[i] : i \in DOMAIN All}
Of(kinds) == SelectSeq(All, LAMBDA kind : kind \in kinds)
Reports(profile) == IF profile = "full" THEN Kinds ELSE {"consumer"}
Released == [kind \in Kinds |-> {}]
NoReplies == [id \in 1..PendingLimit |-> "none"]

\* Data::new
New(wish, shown) ==
  [wish |-> wish, publish |-> wish.publish, profile |-> wish.profile, selected |-> None,
   remembered |-> wish.remembered,
   built |-> FALSE, on |-> FALSE,                 \* the characteristics, the radio
   peers |-> <<>>,                                \* what the known centrals subscribe to
   known |-> "none", query |-> "none",
   suspended |-> FALSE, ready |-> FALSE, syncing |-> FALSE, blocked |-> FALSE,
   hid |-> Blank, queue |-> <<>>, readable |-> Released,
   seen |-> "none",                               \* the mapping epoch that tick() last saw
   open |-> FALSE, mapping |-> FALSE, packets |-> <<>>,
   told |-> FALSE, fresh |-> TRUE,                \* the snapshot that was emitted
   replies |-> NoReplies, closing |-> FALSE,
   clean |-> {}, shown |-> shown]                 \* reports made neutral in this generation

-----------------------------------------------------------------------------
(* The parts of the handlers.                                               *)

Emit(d) == [d EXCEPT !.told = d.ready, !.fresh = TRUE]

\* Packets of an epoch that is over are never accepted.
Dead == [type |-> "dead"]
Disarm(d) ==
  [d EXCEPT !.mapping = FALSE, !.seen = IF @ = "current" THEN "old" ELSE @,
            !.packets = [i \in DOMAIN @ |-> Dead]]

Revoke(d) ==
  LET waiting == {d.queue[i].reply : i \in DOMAIN d.queue}
  IN [Disarm(d) EXCEPT !.ready = FALSE, !.open = FALSE, !.hid = Blank, !.readable = Released,
        !.queue = <<>>, !.syncing = FALSE, !.clean = {}, !.fresh = FALSE,
        !.replies = [id \in DOMAIN @ |-> IF id \in waiting THEN "stale" ELSE @[id]]]

\* Nobody synchronizes after a failure: that is left to the supervisor's next command.
Fail(d) == Revoke(d)

Peer(d) == IF d.selected \in DOMAIN d.peers THEN d.peers[d.selected] ELSE {}

\* Faulty variant of Subscribed: any of the reports will do
SubscribedToAny(d) == Reports(d.profile) \cap Peer(d) # {} /\ ~d.suspended

Subscribed(d) == Reports(d.profile) \subseteq Peer(d) /\ ~d.suspended

Enqueue(d, kind, value, reply) ==
  IF Len(d.queue) >= QueueLimit THEN Fail(d)
  ELSE [d EXCEPT !.queue = Append(@, [kind |-> kind, value |-> value, reply |-> reply])]

EnqueueAll(d, kinds, hid) ==
  FoldLeft(LAMBDA e, kind : Enqueue(e, kind, Down(hid, kind), 0), d, kinds)

\* Neutral reports, whatever the profile
Synchronize(d) ==
  IF Subscribed(d) THEN EnqueueAll([d EXCEPT !.syncing = TRUE], Of(Peer(d)), Blank) ELSE d

\* The inventory has the address and the identifier of the device in one entry.
Bridged(d) == d.known = "bridged"

\* Target::matches_id and same_device
Matches(d, central) ==
  IF d.selected # None
  THEN \/ central = d.selected
       \/ central = Phone /\ d.selected = Address /\ Bridged(d)
  ELSE /\ central = Phone
       /\ \/ d.remembered = "central"
          \/ d.remembered = "address" /\ Bridged(d)

\* The rows that a selection may resolve to
Subscribers(d) == {c \in DOMAIN d.peers : d.peers[c] # {}}

\* reconcile_selection: pin the central that the selection means.
ReconcileSelection(d, changed) ==
  LET resolved == {c \in Subscribers(d) : Matches(d, c)}
      restored == resolved # {} /\ d.selected \notin resolved
      pinned == IF restored THEN [d EXCEPT !.selected = CHOOSE c \in resolved : TRUE] ELSE d
  IN IF restored \/ (changed # None /\ changed = pinned.selected)
     THEN Synchronize(Revoke([pinned EXCEPT !.blocked = FALSE]))
     ELSE pinned

-----------------------------------------------------------------------------
(* tick(), in its order.                                                    *)

BackpressureTimesOut(d, late) == IF d.blocked /\ d.queue # <<>> /\ late THEN Fail(d) ELSE d

\* A mapping session began or ended: whatever is held goes.
ReleaseAtEpoch(d) ==
  LET now == IF d.mapping THEN "current" ELSE "none"
      hid == [d.hid EXCEPT !.owners = @ \ Mapped]
      physical == ReleasePhysical(hid)
  IN IF d.seen = now THEN d
     ELSE IF ~d.ready THEN [d EXCEPT !.seen = now, !.hid = hid]
     ELSE IF ~KeysFit(physical) THEN Fail([d EXCEPT !.seen = now])
     ELSE EnqueueAll([d EXCEPT !.seen = now, !.hid = physical],
                     Of({"keyboard", "mouse", "consumer"} \cap Reports(d.profile)), physical)

EndPulses(d, due) ==
  FoldLeft(LAMBDA e, pulse : LET hid == Ended(e.hid, {pulse} \cap e.hid.pulses)
                             IN Enqueue([e EXCEPT !.hid = hid], "consumer", Down(hid, "consumer"), 0),
           d, SetToSeq(due))

\* ReportSchedule::take drops what is not accepted; the rest waits for its slot.
TakeInput(d, when) ==
  LET lives == {i \in DOMAIN d.packets : d.packets[i] # Dead /\ d.open}
      first == CHOOSE i \in lives : \A j \in lives : i <= j
      event == d.packets[first]
      next == Handled(d.hid, event)
      rest == SubSeq(d.packets, first + 1, Len(d.packets))
  IN IF d.blocked \/ d.queue # <<>> \/ ~d.ready THEN d
     ELSE IF lives = {} THEN [d EXCEPT !.packets = <<>>]
     ELSE IF when = "wait" THEN [d EXCEPT !.packets = <<event>> \o rest]
     ELSE IF when = "late" \/ Fails(d.hid, event) THEN Fail([d EXCEPT !.packets = rest])
     ELSE EnqueueAll([d EXCEPT !.packets = rest, !.hid = next],
                     SelectSeq(Reported(event), LAMBDA kind : kind \in Kinds), next)

Accepted(d) ==
  LET n == Head(d.queue)
  IN [d EXCEPT !.queue = Tail(@), !.readable[n.kind] = n.value, !.shown[d.selected][n.kind] = n.value,
               !.clean = IF n.value = {} THEN @ \cup {n.kind} ELSE @,
               !.replies = [id \in DOMAIN @ |-> IF id = n.reply THEN "ok" ELSE @[id]]]

\* The last neutral report was accepted.
Synchronized(d) ==
  IF d.queue = <<>> /\ d.syncing
  THEN [d EXCEPT !.syncing = FALSE, !.ready = TRUE, !.open = d.profile = "full"] ELSE d

\* flush: the pace lets at most one report through; Core Bluetooth may refuse it.
Flush(d, outcome) ==
  IF d.blocked \/ ~Subscribed(d) THEN d
  ELSE IF d.queue = <<>> THEN Synchronized(d)
  ELSE CASE outcome = "wait"     -> d
         [] outcome = "late"     -> Fail(d)
         [] outcome = "refused"  -> [d EXCEPT !.blocked = TRUE]
         [] outcome = "accepted" -> Synchronized(Accepted(d))

Tick(late, due, when, outcome) ==
  /\ at = "tick" /\ at' = "inventory"
  /\ due \subseteq mac.hid.pulses
  /\ LET epoch == ReleaseAtEpoch(BackpressureTimesOut(mac, late))
     IN mac' = Emit(Flush(TakeInput(EndPulses(epoch, due \cap epoch.hid.pulses), when), outcome))

-----------------------------------------------------------------------------
(* What Core Bluetooth calls, at most one at a time.                        *)

Callback(d) == at = "native" /\ at' = "tick" /\ mac' = Emit(d)

NoCallback == at = "native" /\ at' = "tick" /\ UNCHANGED mac

\* peripheralManagerDidUpdateState
Changed(on) ==
  Callback([Revoke(mac) EXCEPT !.peers = <<>>, !.on = on, !.built = on /\ mac.publish])

\* The service is not added or not advertised, or a callback panics.
CallbackFails == mac.on /\ Callback(Fail(mac))

\* A central subscribes to a report, or leaves it.
Subscription(central, kind, subscribed) ==
  LET before == IF central \in DOMAIN mac.peers THEN mac.peers[central] ELSE {}
      after == IF subscribed THEN before \cup {kind} ELSE before \ {kind}
  IN /\ mac.built /\ before # after /\ kind \in mac.wish.comes[central]
     /\ Callback(ReconcileSelection(
          [mac EXCEPT !.peers = [c \in DOMAIN @ \cup {central} |->
                                   IF c = central THEN after ELSE @[c]]], central))

Writable == mac.blocked /\ Callback([mac EXCEPT !.blocked = FALSE])

\* The control point, written by the selected receiver.
Suspend(suspended) ==
  /\ mac.selected \in DOMAIN mac.peers
  /\ LET d == [Revoke(mac) EXCEPT !.suspended = suspended]
     IN Callback(IF suspended THEN d ELSE Synchronize(d))

\* Discovery::poll: one query at a time, and a late answer is still taken.
PollInventory(known) ==
  /\ at = "inventory" /\ at' = "commands"
  /\ CASE mac.query = "answered" ->
            mac' = Emit(ReconcileSelection(
                     [mac EXCEPT !.query = "none", !.known = known], None))
       [] mac.query = "asked" -> UNCHANGED mac
       [] mac.query = "none" ->
            \E due \in {FALSE, mac.on /\ mac.wish.lists # {}} :
              mac' = [mac EXCEPT !.query = IF due THEN "asked" ELSE @]

\* The thread of the inventory
Enumerated ==
  /\ mac.query = "asked" /\ at \in {"native", "commands"}
  /\ mac' = [mac EXCEPT !.query = "answered"] /\ UNCHANGED at

-----------------------------------------------------------------------------
(* The supervisor's commands, those of the current generation.              *)

Command(d) == at = "commands" /\ ~mac.closing /\ mac' = d /\ UNCHANGED at

SetProfile(profile) == Command(Emit(Synchronize([Revoke(mac) EXCEPT !.profile = profile])))

\* invalidate_commands emits nothing
Invalidate == Command(Synchronize(Revoke(mac)))

Arm == mac.open /\ ~mac.mapping /\ Command([mac EXCEPT !.mapping = TRUE])

Events ==
       [type : {"output"}, source : Physical \cup Mapped, down : BOOLEAN]
  \cup [type : {"consumer"}, source : Forwarded, down : BOOLEAN]
  \cup [type : {"release"}]

\* submit_forwarded; a full queue also ends the mapping session.
Input(event) ==
  /\ mac.mapping /\ mac.open
  /\ Command(IF Len(mac.packets) < PacketCapacity
             THEN [mac EXCEPT !.packets = Append(@, event)]
             ELSE [Disarm(mac) EXCEPT !.open = FALSE])

InputTooLate == mac.mapping /\ mac.open /\ Command([mac EXCEPT !.open = FALSE])

Free == {id \in DOMAIN mac.replies : mac.replies[id] = "none"}
Answered(d, id, result) == [d EXCEPT !.replies[id] = result]

\* Request::Send: the reply goes with the last report in the queue.
Sent(d, hid, id) ==
  LET queued == Enqueue([d EXCEPT !.hid = hid], "consumer", Down(hid, "consumer"), 0)
  IN IF queued.queue = <<>> THEN Answered(queued, id, "stale")
     ELSE Answered([queued EXCEPT !.queue[Len(queued.queue)].reply = id], id, "waiting")

FreshPulse(hid) == CHOOSE n \in 1..MaxPulses : \A pulse \in hid.pulses : pulse[2] # n

\* An action that does not fit the report fails, and stays held.
SendMedia(usage, down) ==
  LET superseded == IF down THEN Superseded(mac.hid, usage) ELSE {}
      prepared == [mac EXCEPT !.hid = Ended(@, superseded)]
      d == IF superseded = {} THEN prepared
           ELSE Enqueue(prepared, "consumer", Down(prepared.hid, "consumer"), 0)
      hid == Media(d.hid, usage, down, FreshPulse(d.hid))
      id == CHOOSE n \in Free : \A other \in Free : n <= other
  IN /\ mac.ready /\ Free # {}
     /\ Cardinality(d.hid.pulses) < MaxPulses
     /\ Command(IF ExceedsCapacity(hid) THEN [d EXCEPT !.hid = hid] ELSE Emit(Sent(d, hid, id)))

\* The end of a round: the answers that are known are written, and the status.
Report ==
  /\ at = "commands" /\ ~mac.closing /\ at' = "native"
  /\ mac' = [mac EXCEPT !.replies =
       [id \in DOMAIN @ |-> IF @[id] = "waiting" THEN "waiting" ELSE "none"]]

\* A snapshot that is older than the link's generation is not ready.
StatusReady(d) == d.told /\ d.fresh

\* Drop for BleHandle: at the end of the input, on Shutdown, and after an error,
\* such as the one that Pair always gets here.
End ==
  /\ at = "commands" /\ ~mac.closing
  /\ mac' = [Synchronize(Revoke(mac)) EXCEPT !.closing = TRUE, !.replies = NoReplies]
  /\ UNCHANGED at

\* Paced releases, for as long as 250 ms
Closing ==
  /\ at = "commands" /\ mac.closing
  /\ at' \in IF mac.queue = <<>> THEN {"gone"} ELSE {"native", "gone"}
  /\ UNCHANGED mac

\* child::run: BleHandle::start, and a selection that is made before any callback
Started(wish, shown) ==
  LET d == New(wish, shown)
      chosen == [d EXCEPT !.remembered = "none", !.selected = wish.selected]
  IN IF wish.selected = None THEN d
     ELSE Revoke(Emit(ReconcileSelection(chosen, wish.selected)))

\* What the receiver shows may be left from a worker that did not end as it should.
Init ==
  /\ at = "native"
  /\ \E wish \in Wishes, left \in {Blank, [Blank EXCEPT !.held = Keys]} :
       mac = Started(wish, [central \in Centrals |-> [kind \in Kinds |-> Down(left, kind)]])

-----------------------------------------------------------------------------
Called ==
  \/ NoCallback \/ CallbackFails \/ Writable
  \/ \E on \in BOOLEAN : Changed(on) \/ Suspend(on)
  \/ \E central \in Centrals, subscribed \in BOOLEAN :
       \E kind \in mac.wish.comes[central] : Subscription(central, kind, subscribed)

Ticks ==
  \E late \in BOOLEAN, due \in SUBSET mac.hid.pulses, when \in {"wait", "late", "take"},
     outcome \in {"wait", "late", "refused", "accepted"} : Tick(late, due, when, outcome)

Inventory == \E known \in mac.wish.lists \cup {mac.known} : PollInventory(known)

Commanded ==
  \/ Invalidate \/ Arm \/ InputTooLate \/ End
  \/ \E profile \in {"media", "full"} : SetProfile(profile)
  \/ \E event \in Events : Input(event)
  \/ \E usage \in Usages : SendMedia(usage, TRUE)
  \/ \E usage \in Seeks : SendMedia(usage, FALSE)

Next ==
  Called \/ Ticks \/ Inventory \/ Enumerated \/ Commanded \/ Report \/ Closing

Spec == Init /\ [][Next]_vars

-----------------------------------------------------------------------------
\* The shape of the state; the notifications never reach their limit, because what
\* waits for an answer is limited.
TypeOK ==
  /\ at \in {"native", "tick", "inventory", "commands", "gone"}
  /\ mac.selected \in Centrals \cup {Address, None}
  /\ mac.remembered \in {"none", "address", "central"} /\ mac.known \in {"none", "plain", "bridged"}
  /\ DOMAIN mac.peers \subseteq Centrals
  /\ Len(mac.packets) <= PacketCapacity /\ Len(mac.queue) < QueueLimit
  /\ mac.seen \in {"none", "current", "old"}
  /\ mac.shown \in [Centrals -> [Kinds -> SUBSET (Keys \cup Buttons \cup Usages)]]

\* What the selected receiver will show once the queue is through
Coming(d, kind) ==
  LET of == {i \in DOMAIN d.queue : d.queue[i].kind = kind}
  IN IF of = {} THEN d.shown[d.selected][kind]
     ELSE d.queue[CHOOSE i \in of : \A j \in of : j <= i].value

\* As long as a session is ready, its receiver shows what is held here or is about to
\* be told, and reads what it was last told ("Read requests must not synthesize a
\* release while a key is held").
Known ==
  mac.ready => \A kind \in Peer(mac) :
    /\ Coming(mac, kind) = Down(mac.hid, kind) \/ ExceedsCapacity(mac.hid)
    /\ mac.readable[kind] = mac.shown[mac.selected][kind]

\* Media and input are admitted, and a status says ready, only in a generation in which
\* every report of the receiver was accepted neutral first.
OpenIsClean ==
  /\ (mac.ready \/ mac.open) => Peer(mac) \subseteq mac.clean /\ Reports(mac.profile) \subseteq mac.clean
  /\ at = "commands" /\ StatusReady(mac) => mac.ready

\* A generation starts from nothing, and a worker that ends as it should leaves nothing
\* held: the receiver it served shows no key, button or usage.
NothingInherited ==
  /\ ~mac.ready => mac.hid = Blank /\ \A i \in DOMAIN mac.queue : mac.queue[i].value = {}
  /\ at = "gone" /\ mac.ready => \A kind \in Peer(mac) : mac.shown[mac.selected][kind] = {}

\* What waits to be sent can be sent: the selected receiver subscribes to all of the
\* profile, whatever it, the radio or the supervisor did since.  Each answer that is
\* owed comes with exactly one report of the queue.
EndpointAtHand ==
  /\ mac.queue # <<>> => Reports(mac.profile) \subseteq Peer(mac) /\ ~mac.suspended
  /\ \A id \in DOMAIN mac.replies :
       Cardinality({i \in DOMAIN mac.queue : mac.queue[i].reply = id})
         = IF mac.replies[id] = "waiting" THEN 1 ELSE 0

\* The receiver that the user means is recognized whichever of its subscription and its
\* inventory entry comes first, and no other one is taken for it.
Recognized ==
  /\ \A c \in Subscribers(mac) : Matches(mac, c) => mac.selected = c
  /\ mac.remembered # "none" => mac.selected \in {None, Phone}

-----------------------------------------------------------------------------
\* The loop goes on, Core Bluetooth tells when it has room, a report is accepted before
\* it is too old or else it is too old, and a tap that is down is due at some time.
Loop == NoCallback \/ Ticks \/ Inventory \/ Report \/ Closing
Moves == ~mac.blocked /\ \E late \in BOOLEAN, due \in SUBSET mac.hid.pulses, when \in {"late", "take"},
            outcome \in {"late", "accepted"} : Tick(late, due, when, outcome)
Due == \E late \in BOOLEAN, when \in {"wait", "late", "take"},
          outcome \in {"wait", "late", "refused", "accepted"} : Tick(late, mac.hid.pulses, when, outcome)
TapDue == mac.hid.pulses # {} /\ Due

Fairness == WF_vars(Loop) /\ SF_vars(Moves) /\ SF_vars(TapDue) /\ SF_vars(Writable)

FairSpec == Spec /\ Fairness

\* Every command gets its answer, whatever becomes of the receiver.
EveryAnswer == \A id \in 1..PendingLimit : mac.replies[id] = "waiting" ~> mac.replies[id] # "waiting"

\* A tap is released, or the session ends.
TapsEnd ==
  \A usage \in Usages \ Seeks :
    LET down == mac.ready /\ usage \in mac.shown[mac.selected]["consumer"]
    IN down ~> ~down
=============================================================================
