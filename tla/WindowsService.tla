--------------------------- MODULE WindowsService ---------------------------
(***************************************************************************)
(* The control thread of the worker process on Windows (taprelay-windows   *)
(* bluetooth.rs, BleHandle::start): which adapter carries the service, who *)
(* is the receiver, and how both survive what happens to them.             *)
(*                                                                         *)
(* One iteration of the loop is four steps: the tick of discovery, the     *)
(* publication of the service, the refresh of its state, and one request.  *)
(* Adapters, receivers, advertising and time move between the steps.       *)
(*                                                                         *)
(* A step is a function of the record `svc`.  Whether an instant that the  *)
(* code compares with the present is past (`due`) is a choice; a deadline  *)
(* of the coordinator is an action.  The generation is only compared with  *)
(* the revision, so the record says whether it is current.                 *)
(* What the sender does with reports is in HidSender; here, making them    *)
(* neutral succeeds, or fails as stale or with an error.  The consumer's   *)
(* report decides who is synchronized and ready (`synced`); whether one of *)
(* the other two has to be made neutral as well is left open.  The texts   *)
(* and errors that are shown, and what a row shows, are left out.          *)
(***************************************************************************)
EXTENDS Naturals, FiniteSets

CONSTANTS
  Devices,              \* physical receivers
  None,
  Starts,               \* what Command::Init may bring, and the receivers that are there
  MaxChanges            \* changes of the surroundings and failures of native calls

\* A receiver has two endpoints: the one that the watcher of paired devices reports,
\* and the one that subscribes.  The empty tuple stands for no identifier.
Ends == {"known", "live"}
Ids == Devices \X Ends
NoId == <<>>

ServiceAssumption ==
  /\ None \notin Devices /\ MaxChanges \in Nat
  /\ Starts \subseteq [remembered : Devices \cup {None}, selected : Ids \cup {NoId},
                       publish : BOOLEAN, there : SUBSET Devices,
                       paired : SUBSET Devices, pairs : 0..1]

VARIABLES at,      \* the next step of the loop
          svc      \* the thread's state, and its surroundings

vars == <<at, svc>>

\* The instants that a refresh looks at
Instants == {"restore", "maintenance", "retry"}

\* A row of the target list: the endpoints it is known by (id and aliases), whether it
\* has identity keys, and whether it is an active_subscriber that is not suspended.
Row(device, ends, identified, active) ==
  [of |-> device, ends |-> ends, identified |-> identified, active |-> active]

\* Target::same_device; keys of different devices differ.
Same(row, other) ==
  /\ row.of = other.of
  /\ row.ends \cap other.ends # {} \/ (row.identified /\ other.identified)

\* Snapshot::selected_target, for any identifier
Resolve(rows, id) == {row \in rows : id # NoId /\ row.of = id[1] /\ id[2] \in row.ends}

\* upsert_target, of two rows of one device
Merged(row, other) ==
  Row(row.of, row.ends \cup other.ends, row.identified \/ other.identified, row.active \/ other.active)

\* BleHandle::start: the state before the first iteration
Started(start) ==
  [\* surroundings
   adapter |-> "one", on |-> TRUE, advert |-> "stuck", left |-> MaxChanges,
   live |-> [device \in Devices |-> IF device \in start.there THEN "active" ELSE "no"],
   \* Discovery: the adapter, and the paired devices; no adapter when its radio is not open
   seen |-> "unknown", id |-> "none", known |-> {},
   \* Publication
   enabled |-> start.publish, restart |-> start.publish, waits |-> NoId,
   \* Restore
   target |-> {Row(device, {"live"}, TRUE, FALSE) : device \in {start.remembered} \ {None}},
   phase |-> "waiting",
   \* Coordinator
   session |-> "idle", pairing |-> {},
   \* Server, or the snapshot that is shown when there is none
   up |-> FALSE, base |-> "none", selected |-> NoId, rows |-> {}, synced |-> FALSE,
   ready |-> FALSE, current |-> TRUE, retried |-> FALSE, failing |-> FALSE, handoff |-> "idle",
   \* requests, and the receiver that was last asked for
   asks |-> start.selected, paired |-> start.paired, pairs |-> start.pairs, wanted |-> start.remembered]

-----------------------------------------------------------------------------
(* Restore, Coordinator and Publication.                                    *)

Pending(s) == s.target # {} /\ s.phase \notin {"complete", "cancelled"}
RestoreDue(s, due) == ~Pending(s) \/ s.phase # "backoff" \/ "restore" \in due

\* Restore::cancel
Cancelled(s) == IF Pending(s) THEN [s EXCEPT !.phase = "cancelled"] ELSE s

\* Restore::failure, or Maintenance::failure
Postponed(s) ==
  IF Pending(s) THEN [s EXCEPT !.phase = "backoff"] ELSE [s EXCEPT !.failing = TRUE]

\* Faulty variant of Recreated: the restore stays in the phase that it had reached
RecreatedAsItWas(s) ==
  LET resolved == Resolve(s.rows, s.selected)
  IN IF resolved = {} THEN [s EXCEPT !.waits = s.selected]
     ELSE [s EXCEPT !.target = resolved, !.waits = NoId]

\* Restore::service_recreated
Recreated(s) ==
  LET resolved == Resolve(s.rows, s.selected)
  IN IF resolved = {} THEN [s EXCEPT !.waits = s.selected]
     ELSE [s EXCEPT !.target = resolved, !.phase = "waiting", !.waits = NoId]

\* Restore::observe
Observed(s) ==
  IF /\ Pending(s) /\ s.ready /\ s.current
     /\ \E row \in Resolve(s.rows, s.selected), wanted \in s.target : Same(row, wanted)
  THEN [s EXCEPT !.phase = "complete"] ELSE s

\* Coordinator::disconnect and connect
Disconnected(s) == [s EXCEPT !.session = "idle", !.pairing = {}]
Connecting(s) == [s EXCEPT !.session = "connecting", !.pairing = {}]
Refused(s, id) ==
  s.selected = id /\ (s.ready \/ s.session \in {"connecting", "connected"} \/ s.pairing # {})

The(set) == CHOOSE element \in set : TRUE

\* What Coordinator::reconcile makes of the session
SessionOf(s) ==
  LET interrupted == s.seen # "available" /\ s.session # "idle"
      session == IF s.selected = NoId THEN "idle" ELSE IF interrupted THEN "interrupted" ELSE s.session
      ready == s.ready /\ s.seen = "available" /\ session # "idle"
  IN [s EXCEPT !.ready = ready,
               !.session = IF ready THEN "connected"
                           ELSE IF session = "connected" THEN "interrupted" ELSE session]

\* ... and of the pairing.  The watcher lists paired devices only; a subscription says what
\* was looked up before the pairing.
Watching(s) == {row \in s.rows : \E wanted \in s.pairing : Same(row, wanted)}
HandedOff(s) ==
  LET confirmed == \E row \in Watching(s) : row.of \in s.known /\ "known" \in row.ends
  IN IF s.pairing = {} THEN s
     ELSE IF confirmed
     THEN [s EXCEPT !.pairing = {}, !.handoff = "confirmed", !.session = "connecting"]
     ELSE [s EXCEPT !.handoff = "waiting"]
Reconciled(s) == The({HandedOff(t) : t \in {SessionOf(u) : u \in {s}}})

PublicationDue(s, due) == s.enabled /\ s.seen = "available" /\ (s.restart \/ (~s.up /\ due))

-----------------------------------------------------------------------------
(* The parts of Server.                                                     *)

Adopted(s) == IF s.current THEN s ELSE [s EXCEPT !.current = TRUE, !.synced = FALSE, !.ready = FALSE]

\* Server::fail
Stale(s) == Reconciled(Adopted(s))
Failed(s) == Reconciled([Postponed(Adopted(s)) EXCEPT !.synced = FALSE, !.ready = FALSE])

\* Server::select: the revision is counted up; removing the old handlers may fail.
Selecting(s, id) == [s EXCEPT !.current = FALSE, !.selected = id, !.ready = FALSE]
Selected(s, id) ==
  Reconciled([Selecting(s, id) EXCEPT !.failing = FALSE, !.synced = FALSE])

\* One more failure or change, if there may be one
Faulty(s) == IF s.left > 0 THEN {[s EXCEPT !.left = @ - 1]} ELSE {}

\* Drop for Server
Dropped(s) ==
  [Disconnected(Recreated(s)) EXCEPT !.up = FALSE, !.base = "none", !.selected = NoId,
     !.synced = FALSE, !.ready = FALSE, !.retried = FALSE, !.failing = FALSE, !.current = TRUE]

\* Server::build: the services are there, and advertising is asked for.
Built(s) == [s EXCEPT !.base = s.adapter, !.advert = "starting"]

\* Server::create, and the selection that waited for a service: before the first refresh
\* the adapter's state counts as unknown, which interrupts the session.
Created(s) ==
  LET new == [Built(s) EXCEPT !.up = TRUE, !.selected = s.waits,
                              !.session = IF s.waits = NoId THEN "idle" ELSE "interrupted"]
  IN IF s.waits = NoId THEN {new}
     ELSE {Selected(new, s.waits)} \cup {Failed(Selecting(t, s.waits)) : t \in Faulty(new)}

\* advertisement_recovery: Rebuild, or what becomes of the state
Stuck(s, due) == s.advert # "started" /\ s.on /\ "retry" \in due /\ s.retried
Advertised(s, due) ==
  IF s.advert = "started" THEN [s EXCEPT !.retried = FALSE]
  ELSE IF s.on /\ "retry" \in due THEN [s EXCEPT !.advert = "starting", !.retried = TRUE]
  ELSE s

\* The rows of the inventory, with what was learnt of the same devices before
Listed(s, device) ==
  LET row == Row(device, {"known"}, TRUE, FALSE)
  IN [row EXCEPT !.ends = @ \cup UNION {old.ends : old \in {o \in s.rows : s.up /\ Same(o, row)}}]

\* The rows of the consumer report's subscribers; a lookup that fails finds no identity.
Subscriber(s, device, unread) ==
  LET row == Row(device, {"live"}, device \notin unread, s.live[device] = "active")
  IN [row EXCEPT !.ends = @ \cup UNION {old.ends : old \in {o \in s.rows : Same(o, row)}}]

Subscribers(s, unread) == {Subscriber(s, device, unread) : device \in {d \in Devices : s.live[d] # "no"}}

Together(listed, live) ==
  {row \in listed : \A other \in live : ~Same(row, other)}
  \cup {row \in live : \A other \in listed : ~Same(row, other)}
  \cup UNION {{Merged(row, other) : other \in {o \in live : Same(row, o)}} : row \in listed}

\* selected_subscriber_index
Peer(s, rows, live) ==
  {row \in live : \/ row \in Resolve(live, s.selected)
                  \/ \E chosen \in Resolve(rows, s.selected) : Same(chosen, row)}

\* A selected receiver stays in the list although nothing reports it.
WithSelected(s, rows) ==
  IF s.selected = NoId \/ Resolve(rows, s.selected) # {} THEN rows
  ELSE rows \cup
       LET previous == Resolve(s.rows, s.selected)
       IN IF previous = {} THEN {Row(s.selected[1], {s.selected[2]}, FALSE, FALSE)}
          ELSE {[row EXCEPT !.active = FALSE] : row \in previous}

\* refresh_native, up to the synchronization: who is there, and whether it can be served
Sampled(s, unread) ==
  LET With(live, rows) ==
        LET available == s.on /\ \E row \in Peer(s, rows, live) : row.active
        IN [available |-> available,
            state |-> Reconciled([s EXCEPT !.rows = WithSelected(s, rows), !.synced = @ /\ available,
                                           !.ready = available /\ s.synced])]
  IN The({With(live, Together({Listed(s, device) : device \in s.known}, live)) :
            live \in {Subscribers(s, unread)}})

\* ... or it stops there: a callback revoked what was sampled, and the rows stay as they were.
Outdated(s) == Reconciled(Adopted([s EXCEPT !.current = FALSE]))

SynchronizationDue(s, due) ==
  IF Pending(s) THEN RestoreDue(s, due) ELSE (s.failing => "maintenance" \in due) /\ "retry" \in due

\* ... the synchronization: all reports are made neutral, or it is cancelled, or fails.
Synchronized(s) ==
  LET t == IF Pending(s) THEN [s EXCEPT !.phase = "synchronizing"] ELSE s
      done == [t EXCEPT !.synced = TRUE, !.failing = FALSE, !.ready = TRUE]
      revoked == {Reconciled([u EXCEPT !.current = FALSE, !.ready = FALSE]) : u \in Faulty(t)}
  IN {Reconciled(done)} \cup revoked \cup {Stale(u) : u \in revoked} \cup {Failed(u) : u \in Faulty(t)}

\* What refresh_native may leave; the empty set for "rebuild the service"
RefreshedNative(s, due) ==
  LET After(found) ==
        LET begins == found.available /\ SynchronizationDue(found.state, due)
        IN (IF begins THEN Synchronized(found.state) ELSE {})
           \cup (IF begins /\ ~found.state.synced THEN {} ELSE {found.state})
      begun == {Advertised(Adopted(s), due)}
      samples == {Sampled(t, {}) : t \in begun}
        \cup {Sampled(t, {device}) : t \in UNION {Faulty(u) : u \in begun},
                                     device \in {d \in Devices : s.live[d] # "no"}}
  IN IF s.base # s.adapter \/ Stuck(s, due) THEN {}
     ELSE UNION {After(found) : found \in samples}
          \cup {Outdated(u) : u \in UNION {Faulty(t) : t \in begun}}

\* Server::refresh
Refreshed(s, due) ==
  IF ~Pending(s) /\ s.failing /\ "maintenance" \notin due THEN {s} ELSE RefreshedNative(s, due)

\* startup_restore_candidate, Restore::candidate
Candidates(s, due) ==
  {row \in s.rows : /\ Pending(s) /\ RestoreDue(s, due) /\ s.selected = NoId /\ row.active
                    /\ \E wanted \in s.target : Same(row, wanted)}

\* try_startup_restore
Restored(s, due) ==
  IF Candidates(s, due) = {} THEN {s}
  ELSE LET id == <<(CHOOSE row \in Candidates(s, due) : TRUE).of, "live">>
           chosen == [Connecting(s) EXCEPT !.phase = "synchronizing"]
       IN {Selected(chosen, id)}
          \cup {Failed(Disconnected([Selecting(t, id) EXCEPT !.selected = NoId])) : t \in Faulty(chosen)}

-----------------------------------------------------------------------------
(* The loop.                                                                *)

\* The look at the adapter, in Discovery::tick; its radio may not open.
Checked(s) ==
  LET found == IF s.id = s.adapter THEN s ELSE [s EXCEPT !.known = {}, !.id = s.adapter]
  IN IF s.adapter = "gone" THEN {[s EXCEPT !.id = "none", !.seen = "unavailable"]}
     ELSE {[found EXCEPT !.seen = IF s.on THEN "available" ELSE "disabled"]}
          \cup {[t EXCEPT !.id = "none", !.seen = "unavailable"] : t \in Faulty(found)}

\* The watcher of paired devices: it reports one more, or one less, or it failed, or was
\* restarted, and reports nothing for a while (Discovery::fail, Request::Refresh).
Watched(s) ==
  IF s.seen # "available" THEN {s}
  ELSE {s} \cup {[s EXCEPT !.known = @ \cup {device}] : device \in s.paired}
       \cup {[t EXCEPT !.known = @ \ {device}] : t \in Faulty(s), device \in s.known}

\* Publication::adapter_changed
Noticed(s) ==
  IF s.seen = "available" /\ (svc.seen # "available" \/ svc.id # s.id)
  THEN [s EXCEPT !.current = ~s.up, !.restart = s.enabled] ELSE s

\* Discovery::tick; the adapter is looked at every five seconds, or when its radio says so.
Tick(check) ==
  /\ at = "tick" /\ at' = "publish"
  /\ \E found \in IF check THEN Checked(svc) ELSE {svc} :
       \E s \in Watched(found) : svc' = Noticed(s)

\* A service is published on the adapter that is there now; an inspection (doctor) or a
\* native call may refuse.
Publish(due) ==
  /\ at = "publish" /\ at' = "refresh"
  /\ IF ~PublicationDue(svc, due) THEN UNCHANGED svc
     ELSE LET old == IF svc.up THEN Dropped(svc) ELSE Disconnected(svc)
              shown == [old EXCEPT !.rows = {}, !.handoff = "idle", !.restart = FALSE]
          IN \E s \in (IF svc.adapter # "gone" /\ svc.on THEN Created(shown) ELSE {shown})
                       \cup Faulty(shown) : svc' = s

\* The refresh of a service; it may be called for by a callback.
RefreshServer(s, called, due) ==
  LET Shown(t) == Reconciled(IF t.selected = NoId THEN Disconnected(t) ELSE t)
      good == UNION {Restored(t, due) : t \in Refreshed(s, due)}
  IN IF ~called /\ ~(s.seen = "available" /\ RestoreDue(s, due))
     THEN {Shown(IF s.seen = "available" THEN s ELSE [s EXCEPT !.ready = FALSE])}
     ELSE {Shown(Observed(t)) : t \in good}
          \cup IF good = {} THEN {Dropped(Shown(s))} ELSE {Dropped(Shown(t)) : t \in Faulty(s)}

Refresh(called, due) ==
  /\ at = "refresh" /\ at' = "request"
  /\ IF svc.up THEN \E s \in RefreshServer(svc, called, due) : svc' = s
     ELSE svc' = Reconciled([svc EXCEPT !.rows = {Listed(svc, device) : device \in svc.known}])

\* A request wakes the thread before the next refresh is due.
NoRefresh == at = "refresh" /\ svc.asks # NoId /\ at' = "request" /\ UNCHANGED svc

\* Request::Select; a worker is started with at most one.
Select ==
  /\ at = "request" /\ svc.asks # NoId /\ at' = "tick"
  /\ LET id == svc.asks
         s == [Cancelled(svc) EXCEPT !.asks = NoId, !.wanted = id[1]]
         chosen == [Connecting(s) EXCEPT !.handoff = "idle"]
     IN IF ~s.up THEN svc' = [s EXCEPT !.restart = s.enabled, !.waits = id]
        ELSE IF Refused(s, id) THEN svc' = s
        ELSE \E t \in {Selected(chosen, id)} \cup {Failed(Selecting(u, id)) : u \in Faulty(chosen)} : svc' = t

\* Who is served, or will be
Holder(s) ==
  IF s.up /\ s.selected # NoId THEN s.selected[1]
  ELSE IF ~s.up /\ s.waits # NoId THEN s.waits[1]
  ELSE IF Pending(s) THEN (CHOOSE row \in s.target : TRUE).of ELSE None

\* Request::Pair, which follows the selection of the same receiver; the settings of the
\* system may not open.  It cancels a restore even when the restore holds that selection:
\* then nobody is wanted any more.
Pair(id) ==
  /\ at = "request" /\ svc.asks = NoId /\ svc.pairs > 0 /\ id[1] = svc.wanted /\ at' = "tick"
  /\ LET t == [Cancelled(svc) EXCEPT !.pairs = @ - 1]
         s == [t EXCEPT !.wanted = Holder(t)]
         found == Resolve(s.rows, id)
         pairing == [s EXCEPT !.session = "interrupted", !.pairing = found]
     IN IF found = {} \/ \E row \in found, other \in s.pairing : Same(row, other) THEN svc' = s
        ELSE \/ svc' = IF s.up THEN [pairing EXCEPT !.handoff = "waiting"] ELSE pairing
             \/ \E u \in Faulty(pairing) :
                  svc' = IF u.up THEN [u EXCEPT !.pairing = {}, !.handoff = "idle"]
                         ELSE [u EXCEPT !.pairing = {}]

\* Request::Send: the service is refreshed before a media command is sent; a stale command
\* changes nothing, and any error, also "rebuild the service", only counts as a failure.
Send(due) ==
  /\ at = "request" /\ svc.asks = NoId /\ svc.up /\ at' = "tick"
  /\ LET good == Refreshed(svc, due)
         sent == {[s EXCEPT !.failing = FALSE] : s \in {t \in good : t.ready}}
         failed == UNION {Faulty(s) : s \in good} \cup {s \in {svc} : good = {}}
     IN \E s \in good \cup sent \cup {Failed(t) : t \in failed} : svc' = s

NoRequest == at = "request" /\ svc.asks = NoId /\ at' = "tick" /\ UNCHANGED svc

-----------------------------------------------------------------------------
(* The surroundings.                                                        *)

\* The adapter is exchanged or taken away, or its radio switched; what was authorized is
\* revoked by a callback.
Move(adapter, on) ==
  /\ <<adapter, on>> # <<svc.adapter, svc.on>>
  /\ \E s \in Faulty(svc) :
       svc' = [s EXCEPT !.adapter = adapter, !.on = on, !.advert = "stuck", !.current = ~s.up]
  /\ UNCHANGED at

\* A receiver subscribes, falls asleep or leaves.
Come(device, live) ==
  /\ svc.live[device] # live
  /\ \E s \in Faulty(svc) :
       svc' = [s EXCEPT !.live[device] = live,
                        !.current = @ /\ ~(s.selected # NoId /\ s.selected[1] = device)]
  /\ UNCHANGED at

AdvertStarts ==
  /\ svc.advert = "starting" /\ svc.on /\ svc.base = svc.adapter
  /\ svc' = [svc EXCEPT !.advert = "started"] /\ UNCHANGED at

AdvertStops ==
  /\ svc.advert # "stuck" /\ UNCHANGED at
  /\ \E s \in Faulty(svc) : svc' = [s EXCEPT !.advert = "stuck"]

\* The deadlines of the coordinator, 30 and 120 seconds, with the next reconcile
ConnectLate ==
  /\ svc.session = "connecting" /\ ~svc.ready
  /\ svc' = [svc EXCEPT !.session = "interrupted"] /\ UNCHANGED at

PairLate ==
  /\ svc.pairing # {} /\ UNCHANGED at
  /\ svc' = [svc EXCEPT !.pairing = {}, !.handoff = IF Watching(svc) = {} THEN "missing" ELSE "unpaired"]

-----------------------------------------------------------------------------
Init == at = "tick" /\ \E start \in Starts : svc = Started(start)

Steps ==
  \/ \E check \in BOOLEAN : Tick(check)
  \/ \E due \in BOOLEAN : Publish(due)
  \/ \E called \in BOOLEAN, due \in SUBSET Instants : Refresh(called, due)
  \/ \E due \in SUBSET Instants : Send(due)
  \/ NoRefresh \/ Select \/ NoRequest \/ \E id \in Ids : Pair(id)

Surroundings ==
  \/ \E adapter \in {"gone", "one", "two"}, on \in BOOLEAN : Move(adapter, on)
  \/ \E device \in Devices, live \in {"no", "asleep", "active"} : Come(device, live)
  \/ AdvertStarts \/ AdvertStops \/ ConnectLate \/ PairLate

Next == Steps \/ Surroundings

Spec == Init /\ [][Next]_vars

\* The thread goes on, the adapter is looked at and instants are past some time, advertising
\* starts on a radio that stays on, and a pairing is late some time.
Loop ==
  (\E check \in BOOLEAN : Tick(check)) \/ (\E due \in BOOLEAN : Publish(due))
    \/ (\E called \in BOOLEAN, due \in SUBSET Instants : Refresh(called, due)) \/ Select \/ NoRequest

Fairness ==
  /\ WF_vars(Loop) /\ SF_vars(Tick(TRUE)) /\ SF_vars(Publish(TRUE)) /\ SF_vars(Refresh(FALSE, Instants))
  /\ SF_vars(AdvertStarts) /\ WF_vars(PairLate)

FairSpec == Spec /\ Fairness

-----------------------------------------------------------------------------
TypeOK ==
  /\ at \in {"tick", "publish", "refresh", "request"}
  /\ svc.known \subseteq Devices /\ svc.left \in 0..MaxChanges
  /\ Cardinality(svc.target) <= 1 /\ Cardinality(svc.pairing) <= 1
  /\ svc.selected \in Ids \cup {NoId} /\ svc.waits \in Ids \cup {NoId}
  /\ \A row, other \in svc.rows : row # other => ~Same(row, other)

\* The receiver that was last asked for, or is remembered, is the one that is served or
\* will be, and no other one, whatever adapters, receivers and services went away since.
Kept == Holder(svc) = svc.wanted

\* In the end a wanted receiver that stays, and that discovery has listed, is ready; and a
\* pairing for a receiver comes to an end.
Serves ==
  /\ <>[](\/ ~svc.enabled \/ svc.adapter = "gone" \/ ~svc.on
          \/ svc.wanted = None \/ svc.live[svc.wanted] # "active" \/ svc.wanted \in svc.paired \ svc.known
          \/ svc.ready /\ svc.selected # NoId)
  /\ []<>(svc.handoff # "waiting" \/ svc.selected = NoId)
=============================================================================
