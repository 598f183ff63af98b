----------------------------- MODULE HidSession -----------------------------
(***************************************************************************)
(* The transitions of the HID session that the native senders share        *)
(* (hid/session.rs), with the owners of outputs (mapping.rs), the keyboard *)
(* and mouse state (hid/input.rs) and the consumer state (hid.rs).         *)
(*                                                                         *)
(* A source is a physical key or button, or one press of a custom mapping  *)
(* (its token); it has one output.  A session is a record:                 *)
(*   owners    the sources that are down                                   *)
(*   held      InputReports: the keys and buttons of the next reports      *)
(*   consumer  the owners of consumer usages, <<usage, kind, number>>      *)
(*   pulses    the taps that are still down, <<usage, number>>             *)
(* Left out: how a report is laid out in bytes, motion and wheel deltas.   *)
(***************************************************************************)
EXTENDS Naturals, Sequences, FiniteSets

CONSTANTS
  Keys, Buttons,            \* outputs
  Physical, Mapped,         \* sources
  Output,                   \* of a source
  Usages, Volume, Seeks,    \* media usages; those of the volume, and those that are held
  KeySlots, ConsumerSlots   \* of the reports

ASSUME OutputsAssumption ==
  /\ Keys \cap Buttons = {} /\ Physical \cap Mapped = {}
  /\ Output \in [Physical \cup Mapped -> Keys \cup Buttons]
  /\ Volume \subseteq Usages /\ Seeks \subseteq Usages /\ Volume \cap Seeks = {}
  /\ KeySlots \in Nat /\ ConsumerSlots \in Nat

Blank == [owners |-> {}, held |-> {}, consumer |-> {}, pulses |-> {}]

\* What the report of a kind says is down.
Down(h, kind) ==
  CASE kind = "keyboard" -> h.held \cap Keys
    [] kind = "mouse"    -> h.held \cap Buttons
    [] kind = "consumer" -> {c[1] : c \in h.consumer}

OutputsOf(sources) == {Output[s] : s \in sources}

KeysFit(h) == Cardinality(h.held \cap Keys) <= KeySlots

ExceedsCapacity(h) == Cardinality(Down(h, "consumer")) > ConsumerSlots

\* OutputOwners, and owned_keyboard with the outputs that are left
Owned(h, sources) == [h EXCEPT !.owners = sources, !.held = OutputsOf(sources)]

Update(h, source, down) == Owned(h, IF down THEN h.owners \cup {source} ELSE h.owners \ {source})

ReleasePhysical(h) ==
  LET kept == Owned(h, h.owners \cap Mapped)
  IN IF KeysFit(kept) THEN [kept EXCEPT !.consumer = {}, !.pulses = {}] ELSE kept

ConsumerKey(h, usage, down) ==
  LET owner == <<usage, "key", 0>>
  IN [h EXCEPT !.consumer = IF down THEN @ \cup {owner} ELSE @ \ {owner}]

\* Session::event: the next session, the reports it makes, whether it fails
Handled(h, e) ==
  CASE e.type = "output"   -> Update(h, e.source, e.down)
    [] e.type = "release"  -> ReleasePhysical(h)
    [] e.type = "consumer" -> ConsumerKey(h, e.source, e.down)
    [] e.type = "motion"   -> h

Reported(e) ==
  CASE e.type = "output"   -> IF Output[e.source] \in Keys THEN <<"keyboard">> ELSE <<"mouse">>
    [] e.type = "release"  -> <<"keyboard", "mouse", "consumer">>
    [] e.type = "consumer" -> <<"consumer">>
    [] e.type = "motion"   -> <<"mouse">>

Fails(h, e) ==
  \/ e.type \in {"output", "release"} /\ ~KeysFit(Handled(h, e))
  \/ e.type = "consumer" /\ ExceedsCapacity(Handled(h, e))

\* release_volume_pulses: a new volume step ends the ones that are still down.
Superseded(h, usage) == IF usage \in Volume THEN {p \in h.pulses : p[1] \in Volume} ELSE {}

\* Faulty variant of Ended: the usages stay down
EndedQuietly(h, pulses) == [h EXCEPT !.pulses = @ \ pulses]

Ended(h, pulses) ==
  [h EXCEPT !.pulses = @ \ pulses, !.consumer = @ \ {<<p[1], "pulse", p[2]>> : p \in pulses}]

\* Session::media; `number` is next_owner of a new pulse
Media(h, usage, down, number) ==
  CASE ~down -> [h EXCEPT !.consumer = @ \ {<<usage, "seek", 0>>}]
    [] down /\ usage \in Seeks -> [h EXCEPT !.consumer = @ \cup {<<usage, "seek", 0>>}]
    [] OTHER -> [h EXCEPT !.consumer = @ \cup {<<usage, "pulse", number>>},
                          !.pulses = @ \cup {<<usage, number>>}]
=============================================================================
