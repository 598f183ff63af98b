---------------------------- MODULE MCHidSender ----------------------------
(***************************************************************************)
(* What a worker process consists of: on Windows the sender with the loop  *)
(* of the worker, the control thread, and the sessions it serves; on macOS *)
(* the peripheral; on both the way of a key into a report.                 *)
(* Each is a set of behaviours of its own; part says whose behaviour it    *)
(* is, and the others do not move.                                         *)
(***************************************************************************)
EXTENDS HidSender, Integers

CONSTANTS Parts,        \* of {"windows", "macos", "service", "sessions", "reports"}
          Wishes,       \* of the macos part
          Starts,       \* of the service part, and the changes around it
          MaxChanges

VARIABLES part, mac_at, mac_data, svc_at, svc_data,
          rep_desk, rep_wire, rep_shown,
          ses_native, ses_evidence, ses_events, ses_server, ses_cache

Mac == INSTANCE MacPeripheral
         WITH at <- mac_at, mac <- mac_data,
              Centrals <- {"phone", "pad"}, Phone <- "phone",
              Address <- "address", None <- "none",
              PendingLimit <- 1, QueueLimit <- 9

Service == INSTANCE WindowsService
             WITH at <- svc_at, svc <- svc_data, Devices <- {"tablet", "phone"}, None <- "none"

Tables == INSTANCE KeyTables

\* A plan of the way of keys into reports, for a platform
Desk(platform, keys, order, most) ==
  [platform |-> platform, profile |-> "full", keys |-> keys, first |-> order, most |-> most, picks |-> {},
   buttons |-> {}, commands |-> {}, moves |-> {}, wheels |-> {}, events |-> 0]

K(scan, extended) == CHOOSE k \in Tables!Board : k.scan = scan /\ k.extended = extended

Shared == {k \in Tables!Board : k.native # Tables!Absent}

Letters == [i \in 1 .. 19 |-> K((IF i <= 11 THEN 15 ELSE 18) + i, FALSE)]

Picks(keys, modifiers) == {[key |-> k, modifiers |-> modifiers] : k \in keys}

\* Every key alone, on both platforms, and the two that ISO keyboards of Apple exchange;
\* chords of keys that share a code or a table, with an output and controls; more keys and
\* more controls than a report holds; every key as an output; and pointer events at the
\* limits of their fields.
MCDesks ==
  {Desk("windows", Tables!Board \cup {Tables!Home7}, <<>>, 1), Desk("mac", Shared, <<>>, 1),
   Desk("mac iso", {K(\h29, FALSE), K(\h56, FALSE)}, <<>>, 2),
   Desk("windows", {Letters[i] : i \in 1 .. 19} \cup {K(\h2A, FALSE)}, Letters, 20),
   [Desk("windows", {K(\h2A, FALSE), K(\h1D, TRUE), K(\h1C, TRUE), K(\h1C, FALSE), Tables!Home7, K(\h30, TRUE)},
         <<>>, 3)
      EXCEPT !.commands = {"VolumeUp", "Rewind"}, !.picks = Picks({K(\h1E, FALSE)}, {"shift", "win"})],
   [Desk("windows", {K(\h30, TRUE)}, <<>>, 7) EXCEPT !.commands = DOMAIN Tables!MediaUsage],
   [Desk("windows", {}, <<>>, 8) EXCEPT !.profile = "media", !.commands = {"VolumeUp", "Next", "FastForward"}],
   [Desk("windows", {K(\h1D, FALSE)}, <<>>, 1)
      EXCEPT !.picks = Picks({k \in Shared : Tables!KeyboardCode(k.vk, k.scan, k.extended) \in DOMAIN Tables!OutputKeys},
                             {})],
   [Desk("windows", {}, <<>>, 1)
      EXCEPT !.buttons = 0 .. 4, !.events = 2,
             !.moves = {<<0, 0>>, <<3, -2>>, <<-32768, 32767>>, <<40000, 0>>},
             !.wheels = {<<0, 0>>, <<60, -60>>, <<-15240, 0>>, <<0, 15240>>, <<0, 15360>>}]}

Reports == INSTANCE HidReports
             WITH desk <- rep_desk, wire <- rep_wire, shown <- rep_shown, Plans <- MCDesks

\* One receiver with two sessions and two surprises, or two receivers and none
MCSessionPlans ==
  {[receivers |-> {"tablet"}, revisions |-> 4, surprises |-> 2],
   [receivers |-> {"tablet", "phone"}, revisions |-> 5, surprises |-> 0]}

Sessions == INSTANCE GattSessions
              WITH native <- ses_native, evidence <- ses_evidence, events <- ses_events,
                   server <- ses_server, cache <- ses_cache,
                   Receivers <- {"tablet", "phone"}, ReportKinds <- {"consumer", "keyboard"},
                   SessionCount <- 2, Plans <- MCSessionPlans

ASSUME Sessions!SessionsAssumption
ASSUME Mac!MacAssumption /\ Service!ServiceAssumption

MCOutput == [source \in Physical \cup Mapped |-> "a"]

\* Two of the three kinds, and the one that taps need
MCTwo == <<"consumer", "keyboard">>
MCTwoSubscriptions == {{}, {"consumer", "keyboard"}}
MCOne == <<"consumer">>
MCOneSubscriptions == {{"consumer"}}

Wish(chosen, profile, remembered, phone, pad, lists) ==
  [selected |-> chosen, publish |-> TRUE, profile |-> profile, remembered |-> remembered,
   comes |-> [central \in {"phone", "pad"} |-> IF central = "phone" THEN phone ELSE pad],
   lists |-> lists]

\* The address of the receiver is remembered from an earlier run; the receiver is
\* selected by its identifier; by its address.  Another one may subscribe meanwhile.
MCWishes ==
  {Wish("none", "media", "address", {"consumer"}, {"consumer"}, {"none", "bridged"}),
   Wish("phone", "media", "none", Kinds, {"consumer"}, {}),
   Wish("address", "full", "none", Kinds, {}, {"plain", "bridged"})}

Setting(remembered, chosen, there, paired, pairs) ==
  [remembered |-> remembered, selected |-> chosen, publish |-> TRUE,
   there |-> there, paired |-> paired, pairs |-> pairs]

\* A receiver is remembered, and another one is there too, or is asked for.
MCStarts ==
  {Setting("tablet", <<>>, {"tablet", "phone"}, {}, 0),
   Setting("tablet", <<"phone", "known">>, {"tablet"}, {"phone"}, 0)}

\* Only the restore, or only the pairing
MCServeStarts ==
  {Setting("tablet", <<>>, {"tablet"}, {"tablet"}, 0),
   Setting("none", <<"phone", "live">>, {"phone"}, {}, 1)}

MCTapWishes == {Wish("phone", "media", "none", {"consumer"}, {}, {})}

-----------------------------------------------------------------------------
macs == <<mac_at, mac_data>>
services == <<svc_at, svc_data>>
wires == <<rep_desk, rep_wire, rep_shown>>
served == <<ses_native, ses_evidence, ses_events, ses_server, ses_cache>>
all == <<vars, part, macs, services, wires, served>>

PartsInit ==
  /\ Init
  /\ part \in Parts
  /\ IF part = "macos" THEN Mac!Init
     ELSE /\ mac_at = "gone"
          /\ mac_data = [ready |-> FALSE, replies |-> <<"none">>]
  /\ IF part = "service" THEN Service!Init
     ELSE /\ svc_at = "none"
          /\ svc_data = [enabled |-> FALSE, handoff |-> "idle"]
  /\ IF part = "reports" THEN Reports!Init
     ELSE rep_desk = 0 /\ rep_wire = 0 /\ rep_shown = 0
  /\ IF part = "sessions" THEN Sessions!Init
     ELSE ses_native = 0 /\ ses_evidence = 0 /\ ses_events = 0 /\ ses_server = 0 /\ ses_cache = 0

InWin == part = "windows" /\ UNCHANGED <<part, macs, services, wires, served>>
InMac == part = "macos" /\ UNCHANGED <<part, vars, services, wires, served>>
InService == part = "service" /\ UNCHANGED <<part, vars, macs, wires, served>>
InReports == part = "reports" /\ UNCHANGED <<part, vars, macs, services, served>>
InSessions == part = "sessions" /\ UNCHANGED <<part, vars, macs, services, wires>>

PartsNext ==
  \/ InWin /\ Child
  \/ InWin /\ ServerNext
  \/ InWin /\ SenderNext
  \/ InWin /\ \E reports \in Subscriptions : Transport(reports)
  \/ InMac /\ Mac!Called
  \/ InMac /\ Mac!Ticks
  \/ InMac /\ Mac!Inventory
  \/ InMac /\ Mac!Enumerated
  \/ InMac /\ Mac!Commanded
  \/ InMac /\ Mac!Report
  \/ InMac /\ Mac!Closing
  \/ InService /\ Service!Steps
  \/ InService /\ Service!Surroundings
  \/ InSessions /\ Sessions!Control
  \/ InSessions /\ Sessions!Surroundings
  \/ InSessions /\ Sessions!Delivery
  \/ InReports /\ Reports!Edges
  \/ InReports /\ Reports!Others

PartsSpec == PartsInit /\ [][PartsNext]_all

\* Fairness, Mac!Fairness and Service!Fairness: a behaviour has one part, so that what is
\* fair for a disjunction is fair for the disjunct of that part.
One(win, macos, service) == (InWin /\ win) \/ (InMac /\ macos) \/ (InService /\ service)

PartsFairness ==
  /\ WF_all(One(SenderNext, Mac!Loop, Service!Loop))
  /\ WF_all(One(ServerWork, FALSE, Service!PairLate)) /\ WF_all(InWin /\ Create)
  /\ SF_all(One(Pulse, Mac!Moves, Service!AdvertStarts))
  /\ SF_all(One(FALSE, Mac!TapDue, Service!Tick(TRUE)))
  /\ SF_all(One(FALSE, Mac!Writable, Service!Publish(TRUE)))
  /\ SF_all(InService /\ Service!Refresh(FALSE, Service!Instants))

PartsFairSpec == PartsSpec /\ PartsFairness

-----------------------------------------------------------------------------
\* The shapes of both states
TypesOK ==
  /\ TypeOK /\ (part = "macos" => Mac!TypeOK)
  /\ (part = "service" => Service!TypeOK)
  /\ (part = "reports" => Reports!TypeOK) /\ (part = "sessions" => Sessions!TypeOK)

\* Known on both platforms: what the receiver shows is what the sender counts as held.  On
\* macOS also OpenIsClean, NothingInherited and EndpointAtHand: no generation admits input
\* before its receiver was told that all is up, or owes it what an earlier one held, and
\* what waits to be sent has its subscription.
KnownToBoth ==
  /\ Known
  /\ part = "macos" => Mac!Known /\ Mac!OpenIsClean /\ Mac!NothingInherited /\ Mac!EndpointAtHand

\* Kept, of the service, and Recognized, on macOS: the receiver that was last asked for is the
\* one that is served or will be, whatever adapters, receivers and services went away since;
\* it is found by its identifier, by its address or as the remembered one, in any order.
\* LossIsKnown, HandlersMatch and ReadOwn of the sessions: a subscription is counted only while
\* it is that receiver's, or a callback that says otherwise is to come, and a read shows a
\* receiver its own input only.
MeantReceiver ==
  /\ part = "service" => Service!Kept
  /\ part = "macos" => Mac!Recognized
  /\ part = "sessions" => Sessions!LossIsKnown /\ Sessions!HandlersMatch /\ Sessions!ReadOwn

\* Understood, of the reports: the receiver, which knows the descriptor only, understands
\* what is held and moved on the computer, whichever table a key comes from.
Understood == part = "reports" => Reports!Understood

\* Serves, of the service: a receiver that stays gets ready, and a pairing ends.
Serves == Service!Serves

\* TapsEnd on both platforms, and on macOS every media command gets its answer.
EveryTapEnds == TapsEnd /\ Mac!TapsEnd /\ Mac!EveryAnswer
=============================================================================
