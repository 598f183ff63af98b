---------------------------- MODULE GattSessions ----------------------------
(***************************************************************************)
(* The evidence on which the Windows service delivers (taprelay-windows    *)
(* bluetooth.rs, refresh_native with reconcile_sessions, the handlers of a *)
(* report characteristic, bluetooth/authorization.rs and report.rs).       *)
(*                                                                         *)
(* The control thread samples by which session the selected receiver       *)
(* subscribes to each report and whether it is active, and then watches    *)
(* these sessions.  Sessions and subscriptions change at any time; a       *)
(* change is told by a callback that runs later, on a thread of its own,   *)
(* and only if there was a handler.  HidSender has what a loss does to the *)
(* reports; there a receiver has one state, and a change is told at once.  *)
(*                                                                         *)
(* Radio and power come with the same lock and the same signal, and are    *)
(* left out.  A refresh that fails ends the service (WindowsService).      *)
(***************************************************************************)
EXTENDS Naturals

CONSTANTS
  Receivers,
  ReportKinds,                     \* kinds of report, "consumer" among them
  SessionCount,                \* native sessions of a receiver
  Plans                        \* the receivers there are, with bounds on generations and on
                               \* the changes and failures around the service

SessionsAssumption ==
  /\ "consumer" \in ReportKinds
  /\ SessionCount \in Nat
  /\ Plans \subseteq [receivers : SUBSET Receivers, revisions : Nat, surprises : Nat]

VARIABLES
  native,     \* what the system has: subscriptions, active sessions, handlers
  evidence,   \* Authorization: selected, revision, and Refresh
  events,     \* callbacks that have not run yet
  server,     \* the control thread
  cache       \* ReportState of a report, and the read that is being answered

vars == <<native, evidence, events, server, cache>>

Session == Receivers \X (1 .. SessionCount)
NoSession == <<>>
NoPeer == [session |-> NoSession, active |-> FALSE]
NoPeers == [kind \in ReportKinds |-> NoPeer]

Revision == evidence.revision

Surprise == native.left > 0

Here == native.plan.receivers

-----------------------------------------------------------------------------
(* Authorization.                                                           *)

\* reconcile: new evidence revokes what was granted on the old one.
Reconciled(e, peers) ==
  [e EXCEPT !.peers = peers, !.revision = IF peers = e.peers THEN @ ELSE @ + 1]

\* subscribed_peer; a subscriber that cannot be read is passed over.
Subscribed(receiver, kind) ==
  LET session == native.subs[receiver][kind]
  IN IF session = NoSession THEN NoPeer
     ELSE [session |-> session, active |-> session \in native.active]

\* session_changed
WithStatus(e, session, active) ==
  Reconciled(e, [kind \in ReportKinds |-> IF e.peers[kind].session # session THEN e.peers[kind]
                                      ELSE [session |-> session, active |-> active]])

\* subscription_changed: the receiver that was selected, whatever its session is now
WithSubscription(e, kind) ==
  IF e.peers[kind] = NoPeer THEN e
  ELSE Reconciled(e, [e.peers EXCEPT ![kind] = Subscribed(e.peers[kind].session[1], kind)])

Within(e) == e.revision <= native.plan.revisions

\* A callback, which asks for a refresh in any case
Callback ==
  \E event \in events :
    /\ evidence' = [CASE event.kind = "session" -> WithStatus(evidence, event.of, event.active)
                      [] event.kind = "subscription" -> WithSubscription(evidence, event.of)
                    EXCEPT !.refresh = TRUE]
    /\ Within(evidence')
    /\ events' = events \ {event}
    /\ UNCHANGED <<native, server, cache>>

-----------------------------------------------------------------------------
(* What happens in the system.                                              *)

Watched(session) == \E handler \in native.handlers : handler[1] = session

Transition ==
  /\ Surprise
  /\ \E session \in Here \X (1 .. SessionCount) :
       LET active == session \notin native.active IN
       /\ native' = [native EXCEPT !.left = @ - 1,
                       !.active = IF active THEN @ \cup {session} ELSE @ \ {session}]
       /\ events' = events \cup (IF Watched(session)
                                 THEN {[kind |-> "session", of |-> session, active |-> active]} ELSE {})
  /\ UNCHANGED <<evidence, server, cache>>

Subscribe ==
  /\ Surprise
  /\ \E receiver \in Here, kind \in ReportKinds :
       \E session \in ({receiver} \X (1 .. SessionCount)) \cup {NoSession} :
         /\ session # native.subs[receiver][kind]
         /\ native' = [native EXCEPT !.subs[receiver][kind] = session, !.left = @ - 1]
  /\ events' = events \cup {[kind |-> "subscription", of |-> k] :
                              k \in {k \in ReportKinds : \E r \in Receivers :
                                       native.subs[r][k] # native'.subs[r][k]}}
  /\ UNCHANGED <<evidence, server, cache>>

-----------------------------------------------------------------------------
(* The control thread.                                                      *)

\* A ReportState that holds nothing
NewCache ==
  [owner |-> NoSession, generation |-> 0, flight |-> <<>>,
   read |-> [at |-> "none", reader |-> "none", generation |-> 0, payload |-> <<>>]]

Consumer == server.peers["consumer"].session

\* The sessions of the other reports, without the consumer's
Additional == {server.peers[kind].session : kind \in ReportKinds} \ {Consumer, NoSession}

\* Adopt, and the evidence under its lock; reading a subscriber may fail.
Sample ==
  /\ server.at = "idle" /\ server.selected # "none"
  /\ \E unread \in SUBSET ReportKinds :
       LET peers == [kind \in ReportKinds |-> IF kind \in unread THEN NoPeer
                                          ELSE Subscribed(server.selected, kind)]
       IN /\ unread # {} => Surprise
          /\ evidence' = [Reconciled(evidence, peers) EXCEPT !.refresh = FALSE]
          /\ Within(evidence')
          /\ native' = [native EXCEPT !.left = IF unread = {} THEN @ ELSE @ - 1]
          /\ server' = [server EXCEPT !.at = "main", !.peers = peers, !.observed = evidence'.revision,
                                   !.generation = Revision]
          /\ cache' = IF server.generation = Revision THEN cache ELSE [cache EXCEPT !.owner = NoSession]
  /\ UNCHANGED events

\* Mutant of Registered: a session is watched from now on, whatever it was until now.
RegisteredUnseen(session, role) ==
  /\ native' = [native EXCEPT !.handlers = @ \cup {<<session, role>>}] /\ evidence' = evidence

\* watch_session: a handler, and a look at what was missed before it
Registered(session, role) ==
  /\ native' = [native EXCEPT !.handlers = @ \cup {<<session, role>>}]
  /\ evidence' = [WithStatus(evidence, session, session \in native.active) EXCEPT !.refresh = TRUE]

\* reconcile_sessions, for the consumer report: the old session is let go, ...
ReleaseMain ==
  /\ server.at = "main" /\ server.session # Consumer
  /\ server' = [server EXCEPT !.session = NoSession, !.maintained = NoSession,
                              !.at = IF Consumer = NoSession THEN "additional" ELSE "open"]
  /\ native' = [native EXCEPT !.handlers = @ \ {<<server.session, "main">>}]
  /\ UNCHANGED <<evidence, events, cache>>

\* ... the link is looked up, its maintenance is asked for and may be refused, and it is watched.
WatchMain ==
  /\ server.at = "open"
  /\ Registered(Consumer, "main") /\ Within(evidence')
  /\ \E maintained \in {Consumer, NoSession} :
       server' = [server EXCEPT !.session = Consumer, !.maintained = maintained, !.at = "additional"]
  /\ UNCHANGED <<events, cache>>

SameMain ==
  /\ server.at = "main" /\ server.session = Consumer
  /\ server' = [server EXCEPT !.at = "additional"] /\ UNCHANGED <<native, evidence, events, cache>>

\* The sessions of the other reports: those that are gone are let go, new ones are watched.
RetireAdditional ==
  /\ server.at = "additional" /\ ~ server.reports \subseteq Additional
  /\ server' = [server EXCEPT !.reports = @ \cap Additional]
  /\ native' = [native EXCEPT !.handlers = {h \in @ : h[2] = "extra" => h[1] \in Additional}]
  /\ UNCHANGED <<evidence, events, cache>>

WatchAdditional ==
  /\ server.at = "additional" /\ server.reports \subseteq Additional
  /\ \E session \in Additional \ server.reports :
       /\ Registered(session, "extra") /\ Within(evidence')
       /\ server' = [server EXCEPT !.reports = @ \cup {session}]
  /\ UNCHANGED <<events, cache>>

\* The rest of refresh_native: the clients are taken unless something was revoked meanwhile.
Adopt ==
  /\ server.at = "additional" /\ server.reports = Additional
  /\ LET same == Revision = server.observed IN
     /\ server' = [server EXCEPT !.at = "idle", !.generation = Revision,
                     !.clients = IF same THEN server.peers ELSE NoPeers]
     /\ evidence' = IF same THEN evidence ELSE [evidence EXCEPT !.refresh = TRUE]
     /\ cache' = IF server.generation = Revision THEN cache ELSE [cache EXCEPT !.owner = NoSession]
  /\ UNCHANGED <<native, events>>

\* Nothing is watched and nobody is served.
Unbound == [session |-> NoSession, reports |-> {}, maintained |-> NoSession, clients |-> NoPeers,
            peers |-> NoPeers]

Bound(s) == [field \in DOMAIN s |-> IF field \in DOMAIN Unbound THEN Unbound[field] ELSE s[field]]

\* select: the revision is counted up, and again when there was evidence.
Select ==
  /\ server.at = "idle"
  /\ \E receiver \in Here \ {server.selected} :
       server' = [Bound(server) EXCEPT !.selected = receiver]
  /\ evidence' = Reconciled([evidence EXCEPT !.revision = @ + 1], NoPeers) /\ Within(evidence')
  /\ native' = [native EXCEPT !.handlers = {}] /\ cache' = [cache EXCEPT !.owner = NoSession]
  /\ UNCHANGED events

\* A call into the system fails on the way: the service is dropped and built anew, with
\* callbacks and evidence of its own.
Rebuild ==
  /\ Surprise
  /\ server' = [Bound(server) EXCEPT !.at = "idle"]
  /\ evidence' = [Reconciled([evidence EXCEPT !.revision = @ + 1], NoPeers) EXCEPT !.refresh = TRUE]
  /\ Within(evidence')
  /\ native' = [native EXCEPT !.handlers = {}, !.left = @ - 1]
  /\ events' = {} /\ cache' = NewCache

-----------------------------------------------------------------------------
(* A report, the consumer's for one: what was last sent, and who may read it. *)

\* What admits a report, which the sender then holds until it has a slot for it
Serving ==
  /\ server.at = "idle" /\ server.generation = Revision
  /\ server.clients["consumer"].active

Offered ==
  /\ Serving /\ cache.flight = <<>>
  /\ cache' = [cache EXCEPT !.flight = <<server.clients["consumer"].session, Revision>>]
  /\ UNCHANGED <<native, evidence, events, server>>

\* ReportState::update; a report of a generation that is over changes nothing.
Update ==
  /\ cache.flight # <<>>
  /\ cache' = [cache EXCEPT !.flight = <<>>,
                            !.owner = IF cache.flight[2] = Revision THEN cache.flight[1] ELSE @,
                            !.generation = IF cache.flight[2] = Revision THEN Revision ELSE @]
  /\ UNCHANGED <<native, evidence, events, server>>

NoRead == [at |-> "none", reader |-> "none", generation |-> 0, payload |-> <<>>]

\* The handler of a read: a live session asks (any other one is answered with a neutral
\* report); the generation is read, ...
ReadBegins ==
  /\ cache.read.at = "none"
  /\ \E session \in native.active :
       cache' = [cache EXCEPT !.read = [NoRead EXCEPT !.at = "value", !.reader = session[1],
                                                      !.generation = Revision]]
  /\ UNCHANGED <<native, evidence, events, server>>

\* ... then the value, if it is the reader's own and of that generation, ...
ReadValue ==
  /\ cache.read.at = "value"
  /\ LET mine == /\ cache.owner # NoSession /\ cache.owner[1] = cache.read.reader
                 /\ cache.generation = cache.read.generation
     IN cache' = [cache EXCEPT !.read.at = "check",
                               !.read.payload = IF mine THEN <<cache.owner[1], cache.generation>> ELSE <<>>]
  /\ UNCHANGED <<native, evidence, events, server>>

\* ... and the answer is neutral if the generation changed meanwhile.
ReadEnds ==
  /\ cache.read.at = "check"
  /\ cache' = [cache EXCEPT !.read = [@ EXCEPT !.at = "answered",
                 !.payload = IF cache.read.generation = Revision THEN @ ELSE <<>>]]
  /\ UNCHANGED <<native, evidence, events, server>>

Read == \/ ReadBegins \/ ReadValue \/ ReadEnds
        \/ /\ cache.read.at = "answered" /\ cache' = [cache EXCEPT !.read = NoRead]
           /\ UNCHANGED <<native, evidence, events, server>>

-----------------------------------------------------------------------------
\* A new service, in a system where receivers may have subscribed by some of their sessions
Init ==
  /\ \E plan \in Plans : \E subscribed \in SUBSET (plan.receivers \X ReportKinds) :
       native = [subs |-> [r \in Receivers |-> [kind \in ReportKinds |->
                             IF <<r, kind>> \in subscribed THEN <<r, 1>> ELSE NoSession]],
                 active |-> plan.receivers \X {1},
                 handlers |-> {}, left |-> plan.surprises, plan |-> plan]
  /\ evidence = [peers |-> NoPeers, revision |-> 1, refresh |-> FALSE]
  /\ events = {}
  /\ server = [at |-> "idle", selected |-> "none", peers |-> NoPeers, clients |-> NoPeers, observed |-> 0,
               generation |-> 1, session |-> NoSession, reports |-> {}, maintained |-> NoSession]
  /\ cache = NewCache

Control == Sample \/ ReleaseMain \/ SameMain \/ WatchMain \/ RetireAdditional \/ WatchAdditional
           \/ Adopt \/ Select \/ Rebuild

Surroundings == Transition \/ Subscribe \/ Callback

Delivery == Offered \/ Update \/ Read

Next == Control \/ Surroundings \/ Delivery

Spec == Init /\ [][Next]_vars

-----------------------------------------------------------------------------
TypeOK ==
  /\ evidence.revision \in Nat /\ evidence.refresh \in BOOLEAN
  /\ native.handlers \subseteq Session \X {"main", "extra"}
  /\ native.active \subseteq Session
  /\ \A kind \in ReportKinds :
       {evidence.peers[kind].session, server.clients[kind].session} \subseteq Session \cup {NoSession}
  /\ server.session \in Session \cup {NoSession} /\ server.reports \subseteq Session

\* The system's view of the receiver that is served differs from the one it is served on.
Differs(kind) ==
  LET client == server.clients[kind]
  IN /\ client # NoPeer
     /\ \/ native.subs[client.session[1]][kind] # client.session
        \/ (client.session \in native.active) # client.active

\* Nothing is delivered on evidence that is over for longer than it takes to hear of it: while
\* the control thread rests and the generation is its own, a session or subscription that
\* changed under a client has a callback to come
\* (bluetooth.rs 1461, the window between the sample and the handler).
LossIsKnown ==
  server.at = "idle" /\ server.generation = Revision =>
    \A kind \in ReportKinds :
      Differs(kind) =>
        \/ [kind |-> "subscription", of |-> kind] \in events
        \/ \E event \in events : event.kind = "session" /\ event.of = server.clients[kind].session

\* Handlers stay for the sessions that are served, once for each, and for no others; only
\* such a session's link is maintained.
HandlersMatch ==
  server.at = "idle" =>
    /\ native.handlers = ({server.session} \ {NoSession}) \X {"main"} \cup server.reports \X {"extra"}
    /\ server.session \notin server.reports
    /\ \A kind \in ReportKinds :
         server.clients[kind] # NoPeer =>
           server.clients[kind].session \in {server.session} \cup server.reports
    /\ server.maintained \in {NoSession, server.session}

\* A read shows a receiver what was sent to it, in a generation that was not over when the
\* read began, and nothing else (report.rs 35, bluetooth.rs 951).
ReadOwn ==
  cache.read.payload # <<>> =>
    cache.read.payload[1] = cache.read.reader /\ cache.read.payload[2] = cache.read.generation
=============================================================================
