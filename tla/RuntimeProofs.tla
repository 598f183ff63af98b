--------------------------- MODULE RuntimeProofs ---------------------------
(***************************************************************************)
(* Proofs about Runtime, for every number of receivers, every capacity of  *)
(* the channel and every plan of bounds.                                   *)
(*                                                                         *)
(* The operators of Runtime take a world and return the world after a      *)
(* call, so the invariant is stated of worlds and not of states: a world   *)
(* is Good when every call may start in it.  One lemma per operator says   *)
(* that the call ends in a Good world again, and the theorems follow the   *)
(* actions, which are compositions of calls.                               *)
(***************************************************************************)
EXTENDS Runtime, FiniteSetTheorems, WellFoundedInduction, TLAPS

-----------------------------------------------------------------------------
(* The types of a world, for the bounds b of its behaviour.                 *)

Receivers == Device \union {None}

Events == [ordered : BOOLEAN, kind : {"press", "tap", "release", "toggle", "key"},
           fresh : BOOLEAN, current : BOOLEAN, ui : BOOLEAN]

Commands == [kind : {"press", "tap", "release", "toggle", "key", "Select", "Restart", "Invalidate"},
             dev : Receivers, now : BOOLEAN, id : Nat, current : BOOLEAN]

Receipts == [answer : {"none", "waiting", "done", "refused"}, fresh : BOOLEAN]

Apps(b) ==
  [listening : BOOLEAN, capture : {"none", "waiting", "recording"}, input : BOOLEAN,
   ready : BOOLEAN, selected : Receivers, now : BOOLEAN, switching : BOOLEAN,
   lastReady : BOOLEAN, restore : Receivers, remembered : Receivers,
   test : Nat, tests : Nat, receipt : [1 .. b.tests -> Receipts]]

Hooks == [alive : {"none", "up", "down"}, listening : BOOLEAN, recording : BOOLEAN,
          hold : {"none", "down", "held"}, fresh : BOOLEAN, current : BOOLEAN,
          events : Seq(Events)]

Snapshots == [now : BOOLEAN, early : BOOLEAN, selected : Receivers,
              ready : BOOLEAN, switching : BOOLEAN]

Transports ==
  [life : {"none", "up", "stopped"}, control : Seq(Commands), snapshot : Snapshots,
   unread : BOOLEAN, selected : Receivers, ready : BOOLEAN, switching : BOOLEAN,
   full : BOOLEAN, native : {"none", "blocked", "open"}, remembered : Receivers,
   held : BOOLEAN, pending : SUBSET Nat]

Observers(b) == [chosen : Receivers, forgotten : BOOLEAN, lost : BOOLEAN,
                 changes : Nat, bound : {b}]

Worlds(b) == [app : Apps(b), hook : Hooks, tr : Transports, seen : Observers(b),
              batch : Seq(Events)]

-----------------------------------------------------------------------------
(* The parts of the invariant.                                              *)

\* What may still be sent as a press was made in the session at hand.
Timely(events) == \A i \in DOMAIN events : IsPress(events[i]) /\ events[i].fresh => events[i].current

\* The listener: nothing is held without a router, and what it will send is timely.
HookGood(hk) ==
  /\ hk.hold # "none" => hk.alive = "up" /\ hk.current
  /\ Timely(hk.events)

\* The channel: within its capacity, empty without a transport, and only a
\* press has a receipt.
ChannelGood(t) ==
  /\ Len(t.control) <= ControlCapacity
  /\ t.life = "none" => t.control = <<>>
  /\ \A i \in DOMAIN t.control : t.control[i].kind \in {"Select", "Restart", "Invalidate"} => t.control[i].id = 0
  /\ t.life = "stopped" => t.snapshot.selected = None

\* The tests that were started; a session is of a receiver, and a receiver of a transport.
AppGood(b, a, t) ==
  /\ a.test <= a.tests /\ a.tests <= b.tests
  /\ a.ready => a.selected # None
  /\ a.selected # None => t.life # "none"

\* Nobody but the device that was chosen last.
ChoiceGood(a, s) ==
  /\ a.selected \in {None, s.chosen}
  /\ a.restore \in {None, s.chosen}
  /\ s.forgotten => s.chosen = None /\ a.remembered = None

\* A pending test has its answer, or somebody owes it.
Owed(a, t) ==
  a.test # 0 =>
    \/ a.receipt[a.test].answer \in {"done", "refused"}
    \/ /\ a.receipt[a.test].answer = "waiting"
       /\ t.life = "up"
       /\ a.test \in t.pending \union {t.control[i].id : i \in DOMAIN t.control}

Core(b, w) ==
  /\ w \in Worlds(b)
  /\ HookGood(w.hook)
  /\ Timely(w.batch)
  /\ ChannelGood(w.tr)
  /\ AppGood(b, w.app, w.tr)
  /\ Owed(w.app, w.tr)

Sound(b, w) == Core(b, w) /\ ChoiceGood(w.app, w.seen)

\* A press that may still be accepted was made in the session at hand.
Prompt(control) == \A i \in DOMAIN control : IsPress(control[i]) /\ control[i].now => control[i].current

Good(b, w) == Sound(b, w) /\ Prompt(w.tr.control)

\* The inductive invariant: a state is a Good world between two calls.
IInv == seen.bound \in Bounds /\ Good(seen.bound, world)

-----------------------------------------------------------------------------
(* Sequences that are changed element by element.                           *)

\* The bounds of a behaviour are natural numbers.
LEMMA BoundsTyped ==
  ASSUME NEW b \in Bounds
  PROVE  b.events \in Nat /\ b.changes \in Nat /\ b.tests \in Nat
BY RuntimeAssumption

\* A function on the positions of a sequence is a sequence of the same length.
LEMMA MapTyped ==
  ASSUME NEW S, NEW T, NEW s \in Seq(S), NEW m, DOMAIN m = DOMAIN s,
         \A i \in DOMAIN s : m[i] \in T, m = [i \in DOMAIN m |-> m[i]]
  PROVE  m \in Seq(T) /\ Len(m) = Len(s)
<1>1. DOMAIN m = 1 .. Len(s) /\ Len(s) \in Nat
  OBVIOUS
<1>2. m \in [1 .. Len(s) -> T]
  BY <1>1
<1>3. QED
  BY <1>1, <1>2

\* Aged keeps everything but the instants, and leaves no event fresh.
LEMMA AgedEvents ==
  ASSUME NEW s \in Seq(Events)
  PROVE  /\ Aged(s) \in Seq(Events)
         /\ Len(Aged(s)) = Len(s)
         /\ \A i \in DOMAIN Aged(s) : ~Aged(s)[i].fresh
<1> DEFINE m == Aged(s)
<1>1. DOMAIN m = DOMAIN s /\ m = [i \in DOMAIN m |-> m[i]]
  BY DEF Aged
<1>2. ASSUME NEW i \in DOMAIN s
      PROVE  m[i] \in Events /\ ~m[i].fresh
  <2>1. s[i] \in Events /\ m[i] = [s[i] EXCEPT !.fresh = FALSE]
    BY DEF Aged
  <2>2. QED
    BY <2>1 DEF Events
<1> HIDE DEF m
<1>3. m \in Seq(Events) /\ Len(m) = Len(s)
  BY <1>1, <1>2, MapTyped
<1>4. QED
  BY <1>1, <1>2, <1>3 DEF m

\* Outdated keeps the types, and what is no press stays current.
LEMMA OutdatedEvents ==
  ASSUME NEW s \in Seq(Events)
  PROVE  /\ Outdated(s) \in Seq(Events)
         /\ Len(Outdated(s)) = Len(s)
         /\ \A i \in DOMAIN Outdated(s) : i \in DOMAIN s /\ Outdated(s)[i].fresh = s[i].fresh
<1> DEFINE m == Outdated(s)
<1>1. DOMAIN m = DOMAIN s /\ m = [i \in DOMAIN m |-> m[i]]
  BY DEF Outdated
<1>2. ASSUME NEW i \in DOMAIN s
      PROVE  m[i] \in Events /\ m[i].fresh = s[i].fresh
  <2>1. s[i] \in Events /\ m[i] = [s[i] EXCEPT !.current = ~IsPress(s[i])]
    BY DEF Outdated
  <2>2. IsPress(s[i]) \in BOOLEAN
    BY DEF IsPress
  <2>3. QED
    BY <2>1, <2>2 DEF Events
<1> HIDE DEF m
<1>3. m \in Seq(Events) /\ Len(m) = Len(s)
  BY <1>1, <1>2, MapTyped
<1>4. QED
  BY <1>1, <1>2, <1>3 DEF m

\* The same of the commands in the channel.
LEMMA OutdatedCommands ==
  ASSUME NEW s \in Seq(Commands)
  PROVE  /\ Outdated(s) \in Seq(Commands)
         /\ Len(Outdated(s)) = Len(s)
         /\ DOMAIN Outdated(s) = DOMAIN s
         /\ \A i \in DOMAIN s : /\ Outdated(s)[i].kind = s[i].kind
                                /\ Outdated(s)[i].now = s[i].now
                                /\ Outdated(s)[i].id = s[i].id
<1> DEFINE m == Outdated(s)
<1>1. DOMAIN m = DOMAIN s /\ m = [i \in DOMAIN m |-> m[i]]
  BY DEF Outdated
<1>2. ASSUME NEW i \in DOMAIN s
      PROVE  m[i] \in Commands /\ m[i].kind = s[i].kind /\ m[i].now = s[i].now /\ m[i].id = s[i].id
  <2>1. s[i] \in Commands /\ m[i] = [s[i] EXCEPT !.current = ~IsPress(s[i])]
    BY DEF Outdated
  <2>2. IsPress(s[i]) \in BOOLEAN
    BY DEF IsPress
  <2>3. QED
    BY <2>1, <2>2 DEF Commands
<1> HIDE DEF m
<1>3. m \in Seq(Commands) /\ Len(m) = Len(s)
  BY <1>1, <1>2, MapTyped
<1>4. QED
  BY <1>1, <1>2, <1>3 DEF m

-----------------------------------------------------------------------------
(* The small changes of a world that the calls are made of.                 *)

\* Nothing that was captured is fresh, and nothing is held.
Still(w) == w.hook.hold = "none" /\ \A i \in DOMAIN w.hook.events : ~w.hook.events[i].fresh

\* No press in the channel can still be accepted.
Stale(w) == \A i \in DOMAIN w.tr.control : IsPress(w.tr.control[i]) => ~w.tr.control[i].now

\* The events that wait for a tick to apply them are as many as before.
SameBatch(w, v) == Len(v.batch) = Len(w.batch)

\* The choice and what is shown of it are as before.
SameChoice(w, v) ==
  /\ v.app.selected = w.app.selected /\ v.app.restore = w.app.restore
  /\ v.app.remembered = w.app.remembered
  /\ v.seen.chosen = w.seen.chosen /\ v.seen.forgotten = w.seen.forgotten

\* Then the choice is as good as before.
LEMMA SameChoiceSound ==
  ASSUME NEW b, NEW w, NEW v, Sound(b, w), Core(b, v), SameChoice(w, v)
  PROVE  Sound(b, v)
BY DEF Sound, ChoiceGood, SameChoice

\* NewEpoch leaves the transport and the choices alone, and nothing is fresh.
LEMMA NewEpochShape ==
  ASSUME NEW b \in Bounds, NEW w \in Worlds(b)
  PROVE  LET v == NewEpoch(w) IN
         /\ v \in Worlds(b)
         /\ v.tr = w.tr /\ v.seen = w.seen
         /\ Len(v.batch) = Len(w.batch) /\ Len(v.hook.events) = Len(w.hook.events)
         /\ \A i \in DOMAIN v.batch : ~v.batch[i].fresh
         /\ \A i \in DOMAIN v.hook.events : ~v.hook.events[i].fresh
         /\ v.hook.hold = w.hook.hold /\ v.hook.alive = w.hook.alive /\ v.hook.current = w.hook.current
         /\ \A t \in 1 .. b.tests : v.app.receipt[t].answer = w.app.receipt[t].answer
         /\ v.app.test = w.app.test /\ v.app.tests = w.app.tests
         /\ v.app.ready = w.app.ready /\ v.app.selected = w.app.selected
         /\ v.app.restore = w.app.restore /\ v.app.remembered = w.app.remembered
         /\ v.app.capture = w.app.capture
<1>1. w.hook.events \in Seq(Events) /\ w.batch \in Seq(Events)
  BY DEF Worlds, Hooks
<1>x. PICK x : x = Aged(w.hook.events)
  OBVIOUS
<1>y. PICK y : y = Aged(w.batch)
  OBVIOUS
<1>r. PICK r : r = [t \in DOMAIN w.app.receipt |-> [w.app.receipt[t] EXCEPT !.fresh = FALSE]]
  OBVIOUS
<1>v. PICK v : v = NewEpoch(w)
  OBVIOUS
<1>2. x \in Seq(Events) /\ y \in Seq(Events)
      /\ Len(x) = Len(w.hook.events) /\ Len(y) = Len(w.batch)
      /\ (\A i \in DOMAIN x : ~x[i].fresh) /\ (\A i \in DOMAIN y : ~y[i].fresh)
  BY <1>1, <1>x, <1>y, AgedEvents
<1>3. r \in [1 .. b.tests -> Receipts] /\ \A t \in 1 .. b.tests : r[t].answer = w.app.receipt[t].answer
  <2>1. w.app.receipt \in [1 .. b.tests -> Receipts]
    BY DEF Worlds, Apps
  <2>2. \A t \in 1 .. b.tests : /\ [w.app.receipt[t] EXCEPT !.fresh = FALSE] \in Receipts
                                /\ [w.app.receipt[t] EXCEPT !.fresh = FALSE].answer = w.app.receipt[t].answer
    BY <2>1 DEF Receipts
  <2>3. QED
    BY <2>1, <2>2, <1>r
<1>4. v = [w EXCEPT !.hook.events = x, !.hook.fresh = FALSE, !.batch = y, !.app.receipt = r]
  BY <1>x, <1>y, <1>r, <1>v DEF NewEpoch
<1>5. /\ v \in Worlds(b)
      /\ v.app.receipt = r /\ v.hook.events = x /\ v.batch = y
      /\ v.tr = w.tr /\ v.seen = w.seen
      /\ v.hook.hold = w.hook.hold /\ v.hook.alive = w.hook.alive /\ v.hook.current = w.hook.current
      /\ v.app.test = w.app.test /\ v.app.tests = w.app.tests
      /\ v.app.ready = w.app.ready /\ v.app.selected = w.app.selected
      /\ v.app.restore = w.app.restore /\ v.app.remembered = w.app.remembered
      /\ v.app.capture = w.app.capture
  BY <1>2, <1>3, <1>4 DEF Worlds, Apps, Hooks
<1>6. QED
  BY <1>2, <1>3, <1>5, <1>v

\* A new epoch keeps the invariant.
LEMMA NewEpochSound ==
  ASSUME NEW b \in Bounds, NEW w, Sound(b, w)
  PROVE  Sound(b, NewEpoch(w))
<1>1. w \in Worlds(b)
  BY DEF Sound, Core
<1>v. PICK v : v = NewEpoch(w)
  OBVIOUS
<1>2. /\ v \in Worlds(b)
      /\ v.tr = w.tr /\ v.seen = w.seen
      /\ \A i \in DOMAIN v.batch : ~v.batch[i].fresh
      /\ \A i \in DOMAIN v.hook.events : ~v.hook.events[i].fresh
      /\ v.hook.hold = w.hook.hold /\ v.hook.alive = w.hook.alive /\ v.hook.current = w.hook.current
      /\ \A t \in 1 .. b.tests : v.app.receipt[t].answer = w.app.receipt[t].answer
      /\ v.app.test = w.app.test /\ v.app.tests = w.app.tests
      /\ v.app.ready = w.app.ready /\ v.app.selected = w.app.selected
      /\ v.app.restore = w.app.restore /\ v.app.remembered = w.app.remembered
  BY <1>1, <1>v, NewEpochShape
<1>3. HookGood(v.hook) /\ Timely(v.batch)
  BY <1>2 DEF Sound, Core, HookGood, Timely
<1>4. ChannelGood(v.tr)
  BY <1>2 DEF Sound, Core
<1>5. AppGood(b, v.app, v.tr)
  BY <1>2 DEF Sound, Core, AppGood
<1>6. ChoiceGood(v.app, v.seen)
  BY <1>2 DEF Sound, Core, ChoiceGood
<1>7. Owed(v.app, v.tr)
  <2>1. w.app.test \in Nat /\ w.app.tests \in Nat /\ b.tests \in Nat
    BY <1>1, BoundsTyped DEF Worlds, Apps
  <2>2. w.app.test <= w.app.tests /\ w.app.tests <= b.tests
    BY DEF Sound, Core, AppGood
  <2>3. w.app.test # 0 => v.app.receipt[w.app.test].answer = w.app.receipt[w.app.test].answer
    BY <1>2, <2>1, <2>2
  <2>4. QED
    BY <1>2, <2>3 DEF Sound, Core, Owed
<1>8. QED
  BY <1>2, <1>3, <1>4, <1>5, <1>6, <1>7, <1>v DEF Sound, Core

\* The commands that a new revision keeps valid are no presses.
LEMMA RevisedCommands ==
  ASSUME NEW s \in Seq(Commands)
  PROVE  /\ Revised(s) \in Seq(Commands)
         /\ Len(Revised(s)) = Len(s)
         /\ DOMAIN Revised(s) = DOMAIN s
         /\ \A i \in DOMAIN s : /\ Revised(s)[i].kind = s[i].kind
                                /\ Revised(s)[i].id = s[i].id
                                /\ IsPress(s[i]) => ~Revised(s)[i].now
<1> DEFINE m == Revised(s)
<1>1. DOMAIN m = DOMAIN s /\ m = [i \in DOMAIN m |-> m[i]]
  BY DEF Revised
<1>2. ASSUME NEW i \in DOMAIN s
      PROVE  m[i] \in Commands /\ m[i].kind = s[i].kind /\ m[i].id = s[i].id /\ (IsPress(s[i]) => ~m[i].now)
  <2>1. s[i] \in Commands
    OBVIOUS
  <2>2. PICK x \in BOOLEAN : x = (s[i].now /\ ~IsSend(s[i]))
    BY <2>1 DEF Commands, IsSend, IsPress
  <2>3. m[i] = [s[i] EXCEPT !.now = x]
    BY <2>2 DEF Revised
  <2>4. m[i] \in Commands /\ m[i].kind = s[i].kind /\ m[i].id = s[i].id /\ m[i].now = x
    BY <2>1, <2>2, <2>3 DEF Commands
  <2>5. IsPress(s[i]) => ~x
    BY <2>2 DEF IsSend
  <2>6. QED
    BY <2>4, <2>5
<1> HIDE DEF m
<1>3. m \in Seq(Commands) /\ Len(m) = Len(s)
  BY <1>1, <1>2, MapTyped
<1>4. QED
  BY <1>1, <1>2, <1>3 DEF m

\* A new revision makes every press that is on its way stale.
LEMMA NextRevisionCore ==
  ASSUME NEW b \in Bounds, NEW w, Core(b, w)
  PROVE  LET v == NextRevision(w) IN
         /\ Core(b, v) /\ Stale(v)
         /\ v.hook = w.hook /\ v.batch = w.batch /\ v.seen = w.seen
         /\ v.tr.life = w.tr.life /\ Len(v.tr.control) = Len(w.tr.control)
         /\ v.app.test = w.app.test /\ v.app.ready = w.app.ready /\ v.app.selected = w.app.selected
         /\ v.app.restore = w.app.restore /\ v.app.receipt = w.app.receipt
         /\ v.tr.pending = w.tr.pending /\ SameChoice(w, v)
<1>1. w \in Worlds(b) /\ w.tr.control \in Seq(Commands)
  BY DEF Core, Worlds, Transports
<1>v. PICK v : v = NextRevision(w)
  OBVIOUS
<1>m. PICK m : m = Revised(w.tr.control)
  OBVIOUS
<1>2. /\ m \in Seq(Commands) /\ Len(m) = Len(w.tr.control)
      /\ DOMAIN m = DOMAIN w.tr.control
      /\ \A i \in DOMAIN m : /\ m[i].kind = w.tr.control[i].kind
                             /\ m[i].id = w.tr.control[i].id
                             /\ IsPress(w.tr.control[i]) => ~m[i].now
  BY <1>1, <1>m, RevisedCommands
<1>3. v = [w EXCEPT !.app.now = FALSE, !.tr.snapshot.now = FALSE, !.tr.control = m]
  BY <1>v, <1>m DEF NextRevision
<1>4. /\ v \in Worlds(b)
      /\ v.tr.control = m /\ v.tr.life = w.tr.life /\ v.tr.pending = w.tr.pending
      /\ v.tr.snapshot.selected = w.tr.snapshot.selected
      /\ v.hook = w.hook /\ v.batch = w.batch /\ v.seen = w.seen
      /\ v.app.test = w.app.test /\ v.app.tests = w.app.tests /\ v.app.receipt = w.app.receipt
      /\ v.app.ready = w.app.ready /\ v.app.selected = w.app.selected
      /\ v.app.restore = w.app.restore /\ v.app.remembered = w.app.remembered
  BY <1>1, <1>2, <1>3 DEF Worlds, Apps, Transports, Snapshots
<1>5. HookGood(v.hook) /\ Timely(v.batch)
  BY <1>4 DEF Core
<1>6. ChannelGood(v.tr)
  BY <1>1, <1>2, <1>4 DEF Core, ChannelGood
<1>7. AppGood(b, v.app, v.tr) /\ SameChoice(w, v)
  BY <1>4 DEF Core, AppGood, SameChoice
<1>8. Owed(v.app, v.tr)
  <2>1. {m[i].id : i \in DOMAIN m} = {w.tr.control[i].id : i \in DOMAIN w.tr.control}
    BY <1>2
  <2>2. QED
    BY <1>4, <2>1 DEF Core, Owed
<1>9. Stale(v)
  BY <1>2, <1>4 DEF Stale, IsPress
<1>10. QED
  BY <1>2, <1>4, <1>5, <1>6, <1>7, <1>8, <1>9, <1>v DEF Core

\* With no press that can be accepted, none is out of date.
LEMMA StalePrompt ==
  ASSUME NEW w, Stale(w)
  PROVE  Prompt(w.tr.control)
BY DEF Stale, Prompt

\* A command that finds room in the channel of a transport.
LEMMA AppendCore ==
  ASSUME NEW b \in Bounds, NEW w, Core(b, w), NEW c \in Commands,
         Len(w.tr.control) < ControlCapacity, w.tr.life # "none",
         c.kind \in {"Select", "Restart", "Invalidate"} => c.id = 0
  PROVE  LET v == [w EXCEPT !.tr.control = Append(@, c)] IN
         /\ Core(b, v)
         /\ v.hook = w.hook /\ v.batch = w.batch /\ v.app = w.app /\ v.seen = w.seen
         /\ v.tr.life = w.tr.life
         /\ c.id \in {v.tr.control[i].id : i \in DOMAIN v.tr.control}
         /\ Stale(w) /\ (IsPress(c) => ~c.now) => Stale(v)
         /\ Prompt(w.tr.control) /\ (IsPress(c) /\ c.now => c.current) => Prompt(v.tr.control)
<1>1. w \in Worlds(b) /\ w.tr.control \in Seq(Commands)
  BY DEF Core, Worlds, Transports
<1>s. PICK s : s = Append(w.tr.control, c)
  OBVIOUS
<1>v. PICK v : v = [w EXCEPT !.tr.control = s]
  OBVIOUS
<1>2. /\ s \in Seq(Commands) /\ Len(s) = Len(w.tr.control) + 1
      /\ DOMAIN s = 1 .. Len(w.tr.control) + 1 /\ DOMAIN w.tr.control = 1 .. Len(w.tr.control)
      /\ Len(w.tr.control) \in Nat
      /\ s[Len(w.tr.control) + 1] = c
      /\ \A i \in DOMAIN w.tr.control : s[i] = w.tr.control[i]
  BY <1>1, <1>s
<1>3. /\ v \in Worlds(b)
      /\ v.hook = w.hook /\ v.batch = w.batch /\ v.app = w.app /\ v.seen = w.seen
      /\ v.tr.control = s /\ v.tr.life = w.tr.life /\ v.tr.pending = w.tr.pending
      /\ v.tr.snapshot = w.tr.snapshot
  BY <1>1, <1>2, <1>v DEF Worlds, Transports
<1>4. \A i \in DOMAIN s : (i \in DOMAIN w.tr.control /\ s[i] = w.tr.control[i]) \/ s[i] = c
  BY <1>2
<1>5. HookGood(v.hook) /\ Timely(v.batch)
  BY <1>3 DEF Core
<1>6. ChannelGood(v.tr)
  <2>1. Len(s) <= ControlCapacity
    BY <1>2, RuntimeAssumption
  <2>2. QED
    BY <1>3, <1>4, <2>1 DEF Core, ChannelGood
<1>7. AppGood(b, v.app, v.tr)
  BY <1>3 DEF Core, AppGood
<1>8. {w.tr.control[i].id : i \in DOMAIN w.tr.control} \subseteq {s[i].id : i \in DOMAIN s}
  BY <1>2
<1>9. Owed(v.app, v.tr)
  BY <1>3, <1>8 DEF Core, Owed
<1>10. c.id \in {s[i].id : i \in DOMAIN s}
  BY <1>2
<1>11. Stale(w) /\ (IsPress(c) => ~c.now) => Stale(v)
  BY <1>3, <1>4 DEF Stale
<1>12. Prompt(w.tr.control) /\ (IsPress(c) /\ c.now => c.current) => Prompt(v.tr.control)
  BY <1>3, <1>4 DEF Prompt
<1>13. QED
  BY <1>3, <1>5, <1>6, <1>7, <1>9, <1>10, <1>11, <1>12, <1>s, <1>v DEF Core

\* A dropped command leaves a mark of the observers and nothing else.
LEMMA LostCore ==
  ASSUME NEW b \in Bounds, NEW w, Core(b, w), NEW x \in BOOLEAN
  PROVE  LET v == [w EXCEPT !.seen.lost = x] IN
         /\ Core(b, v)
         /\ v.hook = w.hook /\ v.batch = w.batch /\ v.app = w.app /\ v.tr = w.tr
         /\ SameChoice(w, v)
<1>1. w \in Worlds(b)
  BY DEF Core
<1>v. PICK v : v = [w EXCEPT !.seen.lost = x]
  OBVIOUS
<1>2. /\ v \in Worlds(b)
      /\ v.hook = w.hook /\ v.batch = w.batch /\ v.app = w.app /\ v.tr = w.tr
      /\ v.seen.chosen = w.seen.chosen /\ v.seen.forgotten = w.seen.forgotten
  BY <1>1, <1>v DEF Worlds, Observers
<1>3. SameChoice(w, v)
  BY <1>2 DEF SameChoice
<1>4. QED
  BY <1>2, <1>3, <1>v DEF Core

\* A change of the session makes every press on its way stale, whether or not its
\* command finds room.
LEMMA ChangeCore ==
  ASSUME NEW b \in Bounds, NEW w, Core(b, w), w.tr.life # "none",
         NEW kind \in {"Select", "Restart", "Invalidate"}, NEW dev \in Receivers
  PROVE  LET v == Change(w, kind, dev) IN
         /\ Core(b, v) /\ Stale(v)
         /\ v.hook = w.hook /\ v.batch = w.batch /\ v.tr.life = w.tr.life
         /\ v.app.test = w.app.test /\ SameChoice(w, v)
<1>n. PICK n : n = NextRevision(w)
  OBVIOUS
<1>1. /\ Core(b, n) /\ Stale(n)
      /\ n.hook = w.hook /\ n.batch = w.batch /\ n.tr.life = w.tr.life
      /\ Len(n.tr.control) = Len(w.tr.control)
      /\ n.app.test = w.app.test /\ SameChoice(w, n)
  BY <1>n, NextRevisionCore
<1>c. PICK c : c = Command(kind, dev, TRUE, 0, TRUE)
  OBVIOUS
<1>2. c \in Commands /\ ~IsPress(c) /\ c.id = 0
  BY <1>c DEF Command, Commands, IsPress
<1>3. CASE CanRequest(w)
  <2>1. Change(w, kind, dev) = [n EXCEPT !.tr.control = Append(@, c)]
    BY <1>3, <1>n, <1>c DEF Change
  <2>2. Len(n.tr.control) < ControlCapacity /\ n.tr.life # "none"
    BY <1>1, <1>3 DEF CanRequest
  <2>v. PICK v : v = [n EXCEPT !.tr.control = Append(@, c)]
    OBVIOUS
  <2>3. /\ Core(b, v) /\ v.hook = n.hook /\ v.batch = n.batch /\ v.app = n.app
        /\ v.tr.life = n.tr.life /\ v.seen = n.seen
        /\ Stale(v)
    BY <1>1, <1>2, <2>2, <2>v, AppendCore
  <2>4. QED
    BY <1>1, <2>1, <2>3, <2>v DEF SameChoice
<1>4. CASE ~CanRequest(w)
  <2>1. Change(w, kind, dev) = [n EXCEPT !.seen.lost = TRUE]
    BY <1>4, <1>n DEF Change
  <2>v. PICK v : v = Change(w, kind, dev)
    OBVIOUS
  <2>2. /\ Core(b, v) /\ v.hook = n.hook /\ v.batch = n.batch /\ v.app = n.app /\ v.tr = n.tr
        /\ SameChoice(n, v)
    BY <1>1, <2>1, <2>v, LostCore
  <2>3. Stale(v)
    BY <1>1, <2>2 DEF Stale
  <2>4. QED
    BY <1>1, <2>2, <2>3, <2>v DEF SameChoice
<1>5. QED
  BY <1>3, <1>4

\* Where the choice was good before, it still is.
LEMMA LostSound ==
  ASSUME NEW b \in Bounds, NEW w, Sound(b, w), NEW x \in BOOLEAN
  PROVE  LET v == [w EXCEPT !.seen.lost = x] IN
         /\ Sound(b, v)
         /\ v.hook = w.hook /\ v.batch = w.batch /\ v.app = w.app /\ v.tr = w.tr
<1>v. PICK v : v = [w EXCEPT !.seen.lost = x]
  OBVIOUS
<1>1. /\ Core(b, v) /\ SameChoice(w, v)
      /\ v.hook = w.hook /\ v.batch = w.batch /\ v.app = w.app /\ v.tr = w.tr
  BY <1>v, LostCore DEF Sound
<1>2. QED
  BY <1>1, <1>v, SameChoiceSound

\* The same of a Sound world: the choice is not touched.
LEMMA ChangeSound ==
  ASSUME NEW b \in Bounds, NEW w, Sound(b, w), w.tr.life # "none",
         NEW kind \in {"Select", "Restart", "Invalidate"}, NEW dev \in Receivers
  PROVE  LET v == Change(w, kind, dev) IN
         /\ Sound(b, v) /\ Stale(v)
         /\ v.hook = w.hook /\ v.batch = w.batch /\ v.tr.life = w.tr.life
         /\ v.app.test = w.app.test /\ SameChoice(w, v)
<1>v. PICK v : v = Change(w, kind, dev)
  OBVIOUS
<1>1. /\ Core(b, v) /\ Stale(v) /\ SameChoice(w, v)
      /\ v.hook = w.hook /\ v.batch = w.batch /\ v.tr.life = w.tr.life /\ v.app.test = w.app.test
  BY <1>v, ChangeCore DEF Sound
<1>2. QED
  BY <1>1, <1>v, SameChoiceSound

\* Once everything is stale and nothing is captured, the marks of the observers
\* for an earlier session break nothing.
LEMMA SessionOverSound ==
  ASSUME NEW b \in Bounds, NEW w, Sound(b, w), Still(w)
  PROVE  LET v == SessionOver(w) IN
         /\ Sound(b, v)
         /\ v.app = w.app /\ v.seen = w.seen /\ v.batch = w.batch
         /\ v.tr.life = w.tr.life /\ v.hook.alive = w.hook.alive
         /\ Still(v)
         /\ Stale(w) => Stale(v)
         /\ Len(v.tr.control) = Len(w.tr.control)
<1>1. w \in Worlds(b) /\ w.tr.control \in Seq(Commands) /\ w.hook.events \in Seq(Events)
  BY DEF Sound, Core, Worlds, Transports, Hooks
<1>e. PICK e : e = Outdated(w.hook.events)
  OBVIOUS
<1>c. PICK c : c = Outdated(w.tr.control)
  OBVIOUS
<1>v. PICK v : v = SessionOver(w)
  OBVIOUS
<1>2. e \in Seq(Events) /\ \A i \in DOMAIN e : i \in DOMAIN w.hook.events /\ e[i].fresh = w.hook.events[i].fresh
  BY <1>1, <1>e, OutdatedEvents
<1>3. /\ c \in Seq(Commands) /\ Len(c) = Len(w.tr.control) /\ DOMAIN c = DOMAIN w.tr.control
      /\ \A i \in DOMAIN c : /\ c[i].kind = w.tr.control[i].kind
                             /\ c[i].now = w.tr.control[i].now
                             /\ c[i].id = w.tr.control[i].id
  BY <1>1, <1>c, OutdatedCommands
<1>4. v = [w EXCEPT !.hook.events = e, !.hook.current = FALSE, !.tr.control = c]
  BY <1>e, <1>c, <1>v DEF SessionOver
<1>5. /\ v \in Worlds(b)
      /\ v.app = w.app /\ v.seen = w.seen /\ v.batch = w.batch
      /\ v.hook.events = e /\ v.hook.hold = w.hook.hold /\ v.hook.alive = w.hook.alive
      /\ v.tr.control = c /\ v.tr.life = w.tr.life /\ v.tr.pending = w.tr.pending
      /\ v.tr.snapshot = w.tr.snapshot
  BY <1>1, <1>2, <1>3, <1>4 DEF Worlds, Hooks, Transports
<1>6. Still(v)
  BY <1>2, <1>5 DEF Still
<1>7. HookGood(v.hook) /\ Timely(v.batch)
  BY <1>5, <1>6 DEF Sound, Core, HookGood, Timely, Still
<1>8. ChannelGood(v.tr)
  BY <1>1, <1>3, <1>5 DEF Sound, Core, ChannelGood
<1>9. AppGood(b, v.app, v.tr) /\ ChoiceGood(v.app, v.seen)
  BY <1>5 DEF Sound, Core, AppGood, ChoiceGood
<1>10. Owed(v.app, v.tr)
  <2>1. {c[i].id : i \in DOMAIN c} = {w.tr.control[i].id : i \in DOMAIN w.tr.control}
    BY <1>3
  <2>2. QED
    BY <1>5, <2>1 DEF Sound, Core, Owed
<1>11. Stale(w) => Stale(v)
  BY <1>3, <1>5 DEF Stale, IsPress
<1>12. QED
  BY <1>3, <1>5, <1>6, <1>7, <1>8, <1>9, <1>10, <1>11, <1>v DEF Sound, Core

\* Which window an event was meant for is no matter of sessions.
LEMMA ConsumeUiGood ==
  ASSUME NEW b \in Bounds, NEW w, Good(b, w)
  PROVE  Good(b, ConsumeUi(w))
<1>1. w \in Worlds(b) /\ w.hook.events \in Seq(Events)
  BY DEF Good, Sound, Core, Worlds, Hooks
<1> DEFINE m == [i \in DOMAIN w.hook.events |-> [w.hook.events[i] EXCEPT !.ui = ~w.hook.events[i].ordered]]
<1>2. DOMAIN m = DOMAIN w.hook.events /\ m = [i \in DOMAIN m |-> m[i]]
  OBVIOUS
<1>3. ASSUME NEW i \in DOMAIN w.hook.events
      PROVE  /\ m[i] \in Events /\ m[i].kind = w.hook.events[i].kind
             /\ m[i].fresh = w.hook.events[i].fresh /\ m[i].current = w.hook.events[i].current
  <2>1. w.hook.events[i] \in Events /\ m[i] = [w.hook.events[i] EXCEPT !.ui = ~w.hook.events[i].ordered]
    BY <1>1
  <2>2. w.hook.events[i].ordered \in BOOLEAN
    BY <2>1 DEF Events
  <2>3. QED
    BY <2>1, <2>2 DEF Events
<1>e. PICK e : e = m
  OBVIOUS
<1>v. PICK v : v = ConsumeUi(w)
  OBVIOUS
<1>4. v = [w EXCEPT !.hook.events = e]
  BY <1>e, <1>v DEF ConsumeUi
<1> HIDE DEF m
<1>5. e \in Seq(Events)
  BY <1>1, <1>2, <1>3, <1>e, MapTyped
<1>6. \A i \in DOMAIN e : /\ i \in DOMAIN w.hook.events
                          /\ e[i].kind = w.hook.events[i].kind
                          /\ e[i].fresh = w.hook.events[i].fresh
                          /\ e[i].current = w.hook.events[i].current
  BY <1>2, <1>3, <1>e
<1>7. /\ v \in Worlds(b)
      /\ v.app = w.app /\ v.tr = w.tr /\ v.seen = w.seen /\ v.batch = w.batch
      /\ v.hook.events = e /\ v.hook.hold = w.hook.hold /\ v.hook.alive = w.hook.alive
      /\ v.hook.current = w.hook.current
  BY <1>1, <1>4, <1>5 DEF Worlds, Hooks
<1>8. HookGood(v.hook)
  BY <1>6, <1>7 DEF Good, Sound, Core, HookGood, Timely, IsPress
<1>9. QED
  BY <1>7, <1>8, <1>v DEF Good, Sound, Core

\* What is required of the next snapshot is no matter of presses or choices.
LEMMA RequireSound ==
  ASSUME NEW b \in Bounds, NEW w, Sound(b, w)
  PROVE  LET v == Require(w) IN
         /\ Sound(b, v)
         /\ v.hook = w.hook /\ v.batch = w.batch /\ v.app = w.app /\ v.seen = w.seen
         /\ v.tr.life = w.tr.life /\ v.tr.control = w.tr.control
<1>1. w \in Worlds(b)
  BY DEF Sound, Core
<1>v. PICK v : v = Require(w)
  OBVIOUS
<1>2. v = [w EXCEPT !.tr.snapshot.early = w.tr.unread]
  BY <1>v DEF Require
<1>3. /\ v \in Worlds(b)
      /\ v.hook = w.hook /\ v.batch = w.batch /\ v.app = w.app /\ v.seen = w.seen
      /\ v.tr.life = w.tr.life /\ v.tr.control = w.tr.control /\ v.tr.pending = w.tr.pending
      /\ v.tr.snapshot.selected = w.tr.snapshot.selected
  BY <1>1, <1>2 DEF Worlds, Transports, Snapshots
<1>4. ChannelGood(v.tr) /\ AppGood(b, v.app, v.tr) /\ Owed(v.app, v.tr)
  BY <1>3 DEF Sound, Core, ChannelGood, AppGood, Owed
<1>5. QED
  BY <1>3, <1>4, <1>v DEF Sound, Core

\* The router gives up what it captured.
LEMMA TerminatedSound ==
  ASSUME NEW b \in Bounds, NEW w, Sound(b, w)
  PROVE  LET v == Terminated(w) IN
         /\ Sound(b, v)
         /\ v.app = w.app /\ v.tr = w.tr /\ v.seen = w.seen /\ v.batch = w.batch
         /\ v.hook.events = w.hook.events /\ v.hook.alive = w.hook.alive
         /\ v.hook.hold = "none"
<1>1. w \in Worlds(b)
  BY DEF Sound, Core
<1>v. PICK v : v = Terminated(w)
  OBVIOUS
<1>2. /\ v \in Worlds(b)
      /\ v.app = w.app /\ v.tr = w.tr /\ v.seen = w.seen /\ v.batch = w.batch
      /\ v.hook.events = w.hook.events /\ v.hook.alive = w.hook.alive
      /\ v.hook.hold = "none"
  BY <1>1, <1>v DEF Terminated, Worlds, Hooks
<1>3. HookGood(v.hook)
  BY <1>2 DEF Sound, Core, HookGood
<1>4. QED
  BY <1>2, <1>3, <1>v DEF Sound, Core

-----------------------------------------------------------------------------
(* The calls that send, and the end of what was captured.                   *)

\* What CanEnqueue admits finds room, and is sent as it was captured.
LEMMA EnqueueSound ==
  ASSUME NEW b \in Bounds, NEW w, Sound(b, w), NEW e \in Events, CanEnqueue(w, e), NEW id \in Nat
  PROVE  LET v == Enqueue(w, e, id) IN
         /\ Sound(b, v)
         /\ v.hook = w.hook /\ v.batch = w.batch /\ v.app = w.app /\ v.seen = w.seen
         /\ v.tr.life = w.tr.life
         /\ id \in {v.tr.control[i].id : i \in DOMAIN v.tr.control}
         /\ Stale(w) /\ ~IsPress(e) => Stale(v)
         /\ Prompt(w.tr.control) /\ (IsPress(e) /\ e.fresh => e.current) => Prompt(v.tr.control)
<1>1. w.app.selected \in Receivers /\ w.app.now \in BOOLEAN
  BY DEF Sound, Core, Worlds, Apps
<1>c. PICK c : c = Command(e.kind, w.app.selected, w.app.now, id, e.current)
  OBVIOUS
<1>2. c \in Commands /\ c.kind = e.kind /\ c.id = id /\ c.current = e.current
  BY <1>1, <1>c DEF Command, Commands, Events
<1>3. c.kind \notin {"Select", "Restart", "Invalidate"}
  BY <1>2 DEF Events
<1>4. Len(w.tr.control) < ControlCapacity /\ w.tr.life # "none" /\ e.fresh
  BY DEF CanEnqueue, CanRequest
<1>v. PICK v : v = [w EXCEPT !.tr.control = Append(@, c)]
  OBVIOUS
<1>5. v = Enqueue(w, e, id)
  BY <1>c, <1>v DEF Enqueue
<1>6. /\ Sound(b, v)
      /\ v.hook = w.hook /\ v.batch = w.batch /\ v.app = w.app /\ v.seen = w.seen
      /\ v.tr.life = w.tr.life
  <2>1. Core(b, w)
    BY DEF Sound
  <2>2. /\ Core(b, v)
        /\ v.hook = w.hook /\ v.batch = w.batch /\ v.app = w.app /\ v.seen = w.seen
        /\ v.tr.life = w.tr.life
    BY <1>2, <1>3, <1>4, <1>v, <2>1, AppendCore
  <2>3. SameChoice(w, v)
    BY <2>2 DEF SameChoice
  <2>4. QED
    BY <2>2, <2>3, SameChoiceSound
<1>7. c.id \in {v.tr.control[i].id : i \in DOMAIN v.tr.control}
  BY <1>2, <1>3, <1>4, <1>v, AppendCore DEF Sound
<1>8. Stale(w) /\ (IsPress(c) => ~c.now) => Stale(v)
  BY <1>2, <1>3, <1>4, <1>v, AppendCore DEF Sound
<1>9. Prompt(w.tr.control) /\ (IsPress(c) /\ c.now => c.current) => Prompt(v.tr.control)
  BY <1>2, <1>3, <1>4, <1>v, AppendCore DEF Sound
<1>10. IsPress(c) <=> IsPress(e)
  BY <1>2 DEF IsPress
<1>11. QED
  BY <1>2, <1>4, <1>5, <1>6, <1>7, <1>8, <1>9, <1>10

\* A release carries the instant of its press.
LEMMA HeldReleaseTyped ==
  ASSUME NEW b \in Bounds, NEW w \in Worlds(b)
  PROVE  HeldRelease(w) \in Events /\ ~IsPress(HeldRelease(w))
BY DEF HeldRelease, Event, Events, Worlds, Hooks, IsPress

\* The release of a held key is sent while the session still admits it.
LEMMA CleanupGood ==
  ASSUME NEW b \in Bounds, NEW w, Good(b, w)
  PROVE  LET v == Cleanup(w) IN
         /\ Good(b, v)
         /\ v.hook = w.hook /\ v.batch = w.batch /\ v.app = w.app /\ v.seen = w.seen
         /\ v.tr.life = w.tr.life
         /\ Stale(w) => Stale(v)
<1>e. PICK e : e = HeldRelease(w)
  OBVIOUS
<1>1. e \in Events /\ ~IsPress(e)
  BY <1>e, HeldReleaseTyped DEF Good, Sound, Core
<1>2. CASE HoldsSeek(w) /\ CanEnqueue(w, e)
  <2>v. PICK v : v = Enqueue(w, e, 0)
    OBVIOUS
  <2>1. Cleanup(w) = v
    BY <1>e, <1>2, <2>v DEF Cleanup
  <2>2. /\ Sound(b, v)
        /\ v.hook = w.hook /\ v.batch = w.batch /\ v.app = w.app /\ v.seen = w.seen
        /\ v.tr.life = w.tr.life
        /\ Stale(w) /\ ~IsPress(e) => Stale(v)
        /\ Prompt(w.tr.control) /\ (IsPress(e) /\ e.fresh => e.current) => Prompt(v.tr.control)
    BY <1>1, <1>2, <2>v, EnqueueSound DEF Good
  <2>3. QED
    BY <1>1, <2>1, <2>2 DEF Good
<1>3. CASE ~(HoldsSeek(w) /\ CanEnqueue(w, e))
  BY <1>e, <1>3 DEF Cleanup
<1>4. QED
  BY <1>2, <1>3

\* The router gives up what it captured and nothing of before is fresh.
LEMMA EndedGood ==
  ASSUME NEW b \in Bounds, NEW w, Good(b, w)
  PROVE  LET v == NewEpoch(IF w.hook.alive = "up" THEN Terminated(Cleanup(w)) ELSE w) IN
         /\ Good(b, v) /\ Still(v)
         /\ v.tr.life = w.tr.life /\ v.hook.alive = w.hook.alive
         /\ Len(v.batch) = Len(w.batch) /\ Len(v.hook.events) = Len(w.hook.events)
         /\ SameChoice(w, v) /\ v.app.capture = w.app.capture
         /\ Stale(w) => Stale(v)
<1>u. PICK u : u = IF w.hook.alive = "up" THEN Terminated(Cleanup(w)) ELSE w
  OBVIOUS
<1>1. /\ Good(b, u)
      /\ u.tr.life = w.tr.life /\ u.hook.alive = w.hook.alive /\ u.app = w.app /\ u.seen = w.seen
      /\ u.batch = w.batch /\ u.hook.events = w.hook.events
      /\ u.hook.hold = "none"
      /\ Stale(w) => Stale(u)
  <2>1. CASE w.hook.alive = "up"
    <3>c. PICK c : c = Cleanup(w)
      OBVIOUS
    <3>1. /\ Good(b, c)
          /\ c.hook = w.hook /\ c.batch = w.batch /\ c.app = w.app /\ c.seen = w.seen
          /\ c.tr.life = w.tr.life
          /\ Stale(w) => Stale(c)
      BY <3>c, CleanupGood
    <3>2. u = Terminated(c)
      BY <1>u, <2>1, <3>c
    <3>3. /\ Sound(b, u)
          /\ u.app = c.app /\ u.tr = c.tr /\ u.seen = c.seen /\ u.batch = c.batch
          /\ u.hook.events = c.hook.events /\ u.hook.alive = c.hook.alive
          /\ u.hook.hold = "none"
      BY <3>1, <3>2, TerminatedSound DEF Good
    <3>4. Prompt(u.tr.control) /\ (Stale(w) => Stale(u))
      BY <3>1, <3>3 DEF Good, Stale
    <3>5. QED
      BY <3>1, <3>3, <3>4 DEF Good
  <2>2. CASE w.hook.alive # "up"
    BY <1>u, <2>2 DEF Good, Sound, Core, HookGood
  <2>3. QED
    BY <2>1, <2>2
<1>v. PICK v : v = NewEpoch(u)
  OBVIOUS
<1>2. /\ v.tr = u.tr
      /\ Len(v.batch) = Len(u.batch) /\ Len(v.hook.events) = Len(u.hook.events)
      /\ \A i \in DOMAIN v.hook.events : ~v.hook.events[i].fresh
      /\ v.hook.hold = u.hook.hold /\ v.hook.alive = u.hook.alive
      /\ v.seen = u.seen /\ v.app.selected = u.app.selected
      /\ v.app.restore = u.app.restore /\ v.app.remembered = u.app.remembered
      /\ v.app.capture = u.app.capture
  BY <1>1, <1>v, NewEpochShape DEF Good, Sound, Core
<1>3. Sound(b, v)
  BY <1>1, <1>v, NewEpochSound DEF Good
<1>4. Good(b, v) /\ Still(v) /\ (Stale(w) => Stale(v))
  BY <1>1, <1>2, <1>3 DEF Good, Still, Stale
<1>5. SameChoice(w, v)
  BY <1>1, <1>2 DEF SameChoice
<1>6. QED
  BY <1>1, <1>2, <1>4, <1>5, <1>u, <1>v

\* A session that is invalidated: no test is pending, nothing is captured, and the
\* presses on their way are stale when the other side is told.
LEMMA InvalidateGood ==
  ASSUME NEW b \in Bounds, NEW w, Good(b, w), NEW reason
  PROVE  LET v == Invalidate(w, reason) IN
         /\ Good(b, v) /\ Still(v)
         /\ v.app.test = 0 /\ v.tr.life = w.tr.life /\ v.hook.alive = w.hook.alive
         /\ SameChoice(w, v)
         /\ SameBatch(w, v) /\ Len(v.hook.events) = Len(w.hook.events)
         /\ Stale(w) => Stale(v)
         /\ reason = "TransportLost" /\ w.tr.life # "none" => Stale(v)
<1>n. PICK n : n = NewEpoch(IF w.hook.alive = "up" THEN Terminated(Cleanup(w)) ELSE w)
  OBVIOUS
<1>1. /\ Good(b, n) /\ Still(n)
      /\ n.tr.life = w.tr.life /\ n.hook.alive = w.hook.alive
      /\ Len(n.batch) = Len(w.batch) /\ Len(n.hook.events) = Len(w.hook.events)
      /\ SameChoice(w, n) /\ n.app.capture = w.app.capture
      /\ Stale(w) => Stale(n)
  BY <1>n, EndedGood
<1>2. n \in Worlds(b)
  BY <1>1 DEF Good, Sound, Core
<1>c. PICK c \in {"none", "waiting"} : c = IF n.app.capture = "none" THEN "none" ELSE "waiting"
  OBVIOUS
<1>r. PICK r : r = [n EXCEPT !.app.capture = c, !.app.test = 0]
  OBVIOUS
<1>3. /\ r \in Worlds(b)
      /\ r.hook = n.hook /\ r.batch = n.batch /\ r.tr = n.tr /\ r.seen = n.seen
      /\ r.app.test = 0 /\ r.app.tests = n.app.tests
      /\ r.app.ready = n.app.ready /\ r.app.selected = n.app.selected
      /\ r.app.restore = n.app.restore /\ r.app.remembered = n.app.remembered
      /\ SameChoice(w, r)
  BY <1>1, <1>2, <1>r DEF Worlds, Apps, SameChoice
<1>4. AppGood(b, r.app, r.tr)
  <2>1. n.app.tests \in Nat
    BY <1>2 DEF Worlds, Apps
  <2>2. QED
    BY <1>1, <1>3, <2>1 DEF Good, Sound, Core, AppGood
<1>5. ChoiceGood(r.app, r.seen) /\ Owed(r.app, r.tr)
  BY <1>1, <1>3 DEF Good, Sound, Core, ChoiceGood, Owed
<1>6. Sound(b, r) /\ Good(b, r) /\ Still(r) /\ (Stale(w) => Stale(r))
  BY <1>1, <1>3, <1>4, <1>5 DEF Good, Sound, Core, Still, Stale
<1> DEFINE tells == \/ reason = "TransportLost"
                    \/ reason = "ListenerStopped" /\ ~w.app.input
<1>7. Invalidate(w, reason) = IF tells /\ w.tr.life # "none" THEN Change(r, "Invalidate", None) ELSE r
  BY <1>n, <1>c, <1>r DEF Invalidate
<1>8. CASE tells /\ w.tr.life # "none"
  <2>v. PICK v : v = Change(r, "Invalidate", None)
    OBVIOUS
  <2>1. r.tr.life # "none" /\ None \in Receivers
    BY <1>1, <1>3, <1>8 DEF Receivers
  <2>2. /\ Sound(b, v) /\ Stale(v)
        /\ v.hook = r.hook /\ v.batch = r.batch /\ v.tr.life = r.tr.life
        /\ v.app.test = r.app.test /\ SameChoice(r, v)
    BY <1>6, <2>1, <2>v, ChangeSound
  <2>3. Good(b, v) /\ Still(v)
    BY <1>6, <2>2, StalePrompt DEF Good, Still
  <2>4. QED
    BY <1>1, <1>3, <1>7, <1>8, <2>2, <2>3, <2>v DEF SameBatch, SameChoice
<1>9. CASE ~(tells /\ w.tr.life # "none")
  BY <1>1, <1>3, <1>6, <1>7, <1>9 DEF SameBatch
<1>10. QED
  BY <1>8, <1>9

-----------------------------------------------------------------------------
(* The folds of the model, by induction over the positions they have read.  *)
(* A fold reads positions 1 .. n of a sequence one by one; iter[s] is the   *)
(* result for the positions in s, taken in the order of their size.         *)

\* Induction over the natural numbers, for a set of them.
LEMMA Induction ==
  ASSUME NEW G, 0 \in G, \A n \in Nat : n \in G => n + 1 \in G
  PROVE  Nat \subseteq G
<1> DEFINE Less == {ss \in Nat \X Nat : ss[1] < ss[2]}
           S == Nat \ G
<1>1. IsWellFoundedOn(Less, Nat)
  BY NatLessThanWellFounded DEF OpToRel
<1> SUFFICES ASSUME S # {} PROVE FALSE
  OBVIOUS
<1>2. PICK i \in S : \A j \in S : <<j, i>> \notin Less
  BY <1>1, WFMin
<1>3. i \in Nat /\ i # 0 /\ i \notin G
  OBVIOUS
<1>4. i - 1 \in Nat /\ <<i - 1, i>> \in Less
  BY <1>3
<1>5. i - 1 \in G
  BY <1>2, <1>4
<1>6. (i - 1) + 1 \in G /\ (i - 1) + 1 = i
  BY <1>3, <1>4, <1>5
<1>7. QED
  BY <1>3, <1>6

\* A set of positions is finite.
LEMMA PositionsFinite ==
  ASSUME NEW n \in Nat, NEW s \in SUBSET (1 .. n)
  PROVE  IsFiniteSet(s) /\ Cardinality(s) \in Nat /\ Cardinality(s) <= n
<1>1. IsFiniteSet(1 .. n) /\ Cardinality(1 .. n) = n
  BY FS_Interval
<1>2. IsFiniteSet(s) /\ Cardinality(s) <= n
  BY <1>1, FS_Subset
<1>3. QED
  BY <1>2, FS_CardinalityType

\* A set of positions that is not empty has a last one, and without it is smaller.
LEMMA LastPosition ==
  ASSUME NEW n \in Nat, NEW s \in SUBSET (1 .. n), s # {}
  PROVE  /\ Max(s) \in s
         /\ s \ {Max(s)} \in SUBSET (1 .. n)
         /\ Cardinality(s) \in 1 .. n
         /\ Cardinality(s \ {Max(s)}) = Cardinality(s) - 1
<1> DEFINE Less == {ss \in Nat \X Nat : ss[1] < ss[2]}
           T == {n - x : x \in s}
<1>1. IsWellFoundedOn(Less, Nat)
  BY NatLessThanWellFounded DEF OpToRel
<1>2. T \subseteq Nat /\ T # {}
  <2>1. \A x \in s : n - x \in Nat
    OBVIOUS
  <2>2. PICK x \in s : TRUE
    OBVIOUS
  <2>3. n - x \in T
    BY <2>2
  <2>4. QED
    BY <2>1, <2>3
<1>3. PICK m \in T : \A j \in T : <<j, m>> \notin Less
  BY <1>1, <1>2, WFMin
<1>4. PICK x \in s : m = n - x
  BY <1>3
<1>5. ASSUME NEW y \in s
      PROVE  y <= x
  <2>1. n - y \in T /\ n - y \in Nat /\ n - x \in Nat
    BY <1>2
  <2>2. ~(n - y < n - x)
    BY <1>3, <1>4, <2>1
  <2>3. QED
    BY <2>2
<1>6. Max(s) \in s
  BY <1>5 DEF Max
<1>8. IsFiniteSet(s) /\ Cardinality(s) \in Nat /\ Cardinality(s) <= n
  BY PositionsFinite
<1>9. Cardinality(s) # 0
  BY <1>8, FS_EmptySet
<1>10. Cardinality(s \ {Max(s)}) = Cardinality(s) - 1
  BY <1>6, <1>8, FS_RemoveElement
<1>11. Cardinality(s) \in 1 .. n
  BY <1>8, <1>9
<1>12. QED
  BY <1>6, <1>10, <1>11

\* What the first value of a fold satisfies and every step keeps, its result satisfies.
LEMMA FoldStays ==
  ASSUME NEW n \in Nat, NEW iter, NEW P,
         iter[{}] \in P[0],
         \A s \in SUBSET (1 .. n) :
           s # {} /\ iter[s \ {Max(s)}] \in P[Cardinality(s) - 1] => iter[s] \in P[Cardinality(s)]
  PROVE  /\ \A s \in SUBSET (1 .. n) : iter[s] \in P[Cardinality(s)]
         /\ iter[1 .. n] \in P[n]
<1> DEFINE G == {k \in Nat : \A s \in SUBSET (1 .. n) : Cardinality(s) = k => iter[s] \in P[k]}
<1>1. \A s \in SUBSET (1 .. n) : IsFiniteSet(s) /\ Cardinality(s) \in Nat /\ Cardinality(s) <= n
  BY PositionsFinite
<1>2. 0 \in G
  <2>1. \A s \in SUBSET (1 .. n) : Cardinality(s) = 0 => s = {}
    BY <1>1, FS_EmptySet
  <2>2. QED
    BY <2>1
<1>3. ASSUME NEW k \in Nat, k \in G
      PROVE  k + 1 \in G
  <2> SUFFICES ASSUME NEW s \in SUBSET (1 .. n), Cardinality(s) = k + 1
               PROVE  iter[s] \in P[k + 1]
    OBVIOUS
  <2>1. s # {}
    BY FS_EmptySet
  <2>2. s \ {Max(s)} \in SUBSET (1 .. n) /\ Cardinality(s \ {Max(s)}) = k
    BY <2>1, LastPosition
  <2>3. iter[s \ {Max(s)}] \in P[k] /\ k = Cardinality(s) - 1
    BY <1>3, <2>2
  <2>4. QED
    BY <2>1, <2>3
<1> HIDE DEF G
<1>4. Nat \subseteq G
  BY <1>2, <1>3, Induction
<1>5. \A s \in SUBSET (1 .. n) : iter[s] \in P[Cardinality(s)]
  BY <1>1, <1>4 DEF G
<1>6. 1 .. n \in SUBSET (1 .. n) /\ Cardinality(1 .. n) = n
  BY FS_Interval
<1>7. QED
  BY <1>5, <1>6

\* The function that a fold with the given step is defined by.
FoldReads(iter, n, base, step) ==
  iter = [s \in SUBSET (1 .. n) |-> IF s = {} THEN base ELSE step[<<iter[s \ {Max(s)}], Max(s)>>]]

\* It exists, whatever the step.
LEMMA FoldExists ==
  ASSUME NEW n \in Nat, NEW base, NEW step
  PROVE  \E iter : FoldReads(iter, n, base, step)
<1> DEFINE D(k) == {s \in SUBSET (1 .. n) : Cardinality(s) <= k}
           Reads(f, k) == f = [s \in D(k) |-> IF s = {} THEN base ELSE step[<<f[s \ {Max(s)}], Max(s)>>]]
           G == {k \in Nat : \E f : Reads(f, k)}
<1>1. \A s \in SUBSET (1 .. n) : IsFiniteSet(s) /\ Cardinality(s) \in Nat /\ Cardinality(s) <= n
  BY PositionsFinite
<1>2. 0 \in G
  <2>1. \A s \in D(0) : s = {}
    BY <1>1, FS_EmptySet
  <2>f. PICK f : f = [s \in D(0) |-> base]
    OBVIOUS
  <2>2. Reads(f, 0)
    BY <2>1, <2>f
  <2>3. QED
    BY <2>2
<1>3. ASSUME NEW k \in Nat, k \in G
      PROVE  k + 1 \in G
  <2>f. PICK f : Reads(f, k)
    BY <1>3
  <2>g. PICK g : g = [s \in D(k + 1) |-> IF s = {} THEN base ELSE step[<<f[s \ {Max(s)}], Max(s)>>]]
    OBVIOUS
  <2>1. ASSUME NEW s \in D(k + 1), s # {}
        PROVE  f[s \ {Max(s)}] = g[s \ {Max(s)}]
    <3>1. s \ {Max(s)} \in D(k)
      BY <1>1, <2>1, LastPosition
    <3>2. s \ {Max(s)} \in D(k + 1)
      BY <1>1, <3>1
    <3>3. QED
      BY <2>f, <2>g, <3>1, <3>2
  <2>2. Reads(g, k + 1)
    BY <2>g, <2>1
  <2> HIDE DEF Reads
  <2>3. k + 1 \in Nat /\ \E h : Reads(h, k + 1)
    BY <2>2
  <2>4. QED
    BY <2>3
<1>4. Nat \subseteq G
  <2> HIDE DEF G
  <2>1. QED
    BY <1>2, <1>3, Induction
<1>5. PICK f : Reads(f, n)
  BY <1>4
<1>6. D(n) = SUBSET (1 .. n)
  BY <1>1
<1>7. FoldReads(f, n, base, step)
  BY <1>5, <1>6 DEF FoldReads
<1>8. QED
  BY <1>7

-----------------------------------------------------------------------------
(* The router follows the runtime, and its outputs are applied.             *)

\* Events of the listener that are typed and timely may take the place of others.
LEMMA EventsSound ==
  ASSUME NEW b \in Bounds, NEW w, Sound(b, w), NEW x \in Seq(Events), Timely(x)
  PROVE  LET v == [w EXCEPT !.hook.events = x] IN
         /\ Sound(b, v)
         /\ v.app = w.app /\ v.tr = w.tr /\ v.seen = w.seen /\ v.batch = w.batch
         /\ v.hook.events = x /\ v.hook.hold = w.hook.hold /\ v.hook.alive = w.hook.alive
<1>1. w \in Worlds(b)
  BY DEF Sound, Core
<1>v. PICK v : v = [w EXCEPT !.hook.events = x]
  OBVIOUS
<1>2. /\ v \in Worlds(b)
      /\ v.app = w.app /\ v.tr = w.tr /\ v.seen = w.seen /\ v.batch = w.batch
      /\ v.hook.events = x /\ v.hook.hold = w.hook.hold /\ v.hook.alive = w.hook.alive
      /\ v.hook.current = w.hook.current
  BY <1>1, <1>v DEF Worlds, Hooks
<1>3. HookGood(v.hook)
  BY <1>2 DEF Sound, Core, HookGood
<1>4. QED
  BY <1>2, <1>3, <1>v DEF Sound, Core

\* A timely event may be added at the end.
LEMMA AppendTimely ==
  ASSUME NEW s \in Seq(Events), Timely(s), NEW e \in Events, IsPress(e) /\ e.fresh => e.current
  PROVE  Append(s, e) \in Seq(Events) /\ Timely(Append(s, e))
<1>t. PICK t : t = Append(s, e)
  OBVIOUS
<1>1. /\ t \in Seq(Events) /\ DOMAIN t = 1 .. Len(s) + 1 /\ DOMAIN s = 1 .. Len(s) /\ Len(s) \in Nat
      /\ t[Len(s) + 1] = e /\ \A i \in DOMAIN s : t[i] = s[i]
  BY <1>t
<1>2. \A i \in DOMAIN t : (i \in DOMAIN s /\ t[i] = s[i]) \/ t[i] = e
  BY <1>1
<1>3. Timely(t)
  BY <1>2 DEF Timely
<1>4. QED
  BY <1>1, <1>3, <1>t

\* The rest of a sequence of timely events, and its first event.
LEMMA TailTimely ==
  ASSUME NEW s \in Seq(Events), Timely(s), Len(s) > 0
  PROVE  /\ Tail(s) \in Seq(Events) /\ Timely(Tail(s)) /\ Len(Tail(s)) = Len(s) - 1
         /\ Head(s) \in Events /\ (IsPress(Head(s)) /\ Head(s).fresh => Head(s).current)
<1>t. PICK t : t = Tail(s)
  OBVIOUS
<1>h. PICK h : h = Head(s)
  OBVIOUS
<1>1. /\ t \in Seq(Events) /\ Len(t) = Len(s) - 1 /\ DOMAIN t = 1 .. Len(s) - 1
      /\ DOMAIN s = 1 .. Len(s) /\ Len(s) \in Nat
      /\ \A i \in DOMAIN t : t[i] = s[i + 1] /\ i + 1 \in DOMAIN s
      /\ h \in Events /\ h = s[1] /\ 1 \in DOMAIN s
  BY <1>t, <1>h
<1>2. Timely(t)
  BY <1>1 DEF Timely
<1>3. IsPress(h) /\ h.fresh => h.current
  BY <1>1 DEF Timely
<1>4. QED
  BY <1>1, <1>2, <1>3, <1>t, <1>h

\* The router follows listening and recording; what it gives up joins the events.
LEMMA ConfigureGood ==
  ASSUME NEW b \in Bounds, NEW w, Good(b, w)
  PROVE  LET v == Configure(w) IN
         Good(b, v) /\ SameBatch(w, v) /\ v.app = w.app /\ v.tr = w.tr /\ v.hook.alive = w.hook.alive
<1>1. w \in Worlds(b) /\ w.app.listening \in BOOLEAN /\ Recording(w) \in BOOLEAN
  BY DEF Good, Sound, Core, Worlds, Apps, Recording
<1>r. PICK r \in BOOLEAN : r = Recording(w)
  BY <1>1
<1>t. PICK t : t = [w EXCEPT !.hook.listening = w.app.listening, !.hook.recording = r]
  OBVIOUS
<1>2. /\ t \in Worlds(b)
      /\ t.app = w.app /\ t.tr = w.tr /\ t.seen = w.seen /\ t.batch = w.batch
      /\ t.hook.events = w.hook.events /\ t.hook.hold = w.hook.hold
      /\ t.hook.alive = w.hook.alive /\ t.hook.current = w.hook.current
  BY <1>1, <1>t DEF Worlds, Hooks
<1>3. HookGood(t.hook)
  BY <1>2 DEF Good, Sound, Core, HookGood
<1>4. Good(b, t)
  BY <1>2, <1>3 DEF Good, Sound, Core
<1>5. CASE Configure(w) = w
  BY <1>5 DEF SameBatch
<1>6. CASE Configure(w) = t
  BY <1>2, <1>4, <1>6 DEF SameBatch
<1>7. CASE Configure(w) = [Terminated(t) EXCEPT
                             !.hook.events = IF HoldsSeek(w) THEN Append(@, HeldRelease(w)) ELSE @]
  <2>u. PICK u : u = Terminated(t)
    OBVIOUS
  <2>1. /\ Sound(b, u)
        /\ u.app = t.app /\ u.tr = t.tr /\ u.batch = t.batch
        /\ u.hook.events = t.hook.events /\ u.hook.alive = t.hook.alive
    BY <1>4, <2>u, TerminatedSound DEF Good
  <2>2. u.hook.events \in Seq(Events) /\ Timely(u.hook.events)
    BY <2>1 DEF Sound, Core, HookGood, Worlds, Hooks
  <2>3. HeldRelease(w) \in Events /\ ~IsPress(HeldRelease(w))
    BY <1>1, HeldReleaseTyped
  <2>x. PICK x : x = IF HoldsSeek(w) THEN Append(u.hook.events, HeldRelease(w)) ELSE u.hook.events
    OBVIOUS
  <2>4. x \in Seq(Events) /\ Timely(x)
    BY <2>2, <2>3, <2>x, AppendTimely
  <2>v. PICK v : v = [u EXCEPT !.hook.events = x]
    OBVIOUS
  <2>5. Sound(b, v) /\ v.app = u.app /\ v.tr = u.tr /\ v.batch = u.batch /\ v.hook.alive = u.hook.alive
    BY <2>1, <2>4, <2>v, EventsSound
  <2>6. Configure(w) = v
    BY <1>7, <2>u, <2>x, <2>v
  <2>7. QED
    BY <1>2, <1>4, <2>1, <2>5, <2>6 DEF Good, SameBatch
<1>8. QED
  BY <1>5, <1>6, <1>7, <1>r, <1>t DEF Configure

\* A media output is enqueued as it was captured, or ends the session.
LEMMA MediaGood ==
  ASSUME NEW b \in Bounds, NEW w, Good(b, w), NEW e \in Events, NEW late,
         IsPress(e) /\ e.fresh => e.current
  PROVE  LET v == Media(w, e, late) IN
         /\ Good(b, v) /\ SameBatch(w, v)
         /\ Len(v.hook.events) = Len(w.hook.events) /\ v.hook.alive = w.hook.alive
<1>1. CASE Media(w, e, late) = w
  BY <1>1 DEF SameBatch
<1>2. CASE Media(w, e, late) = Enqueue(w, e, 0) /\ CanEnqueue(w, e)
  <2>v. PICK v : v = Enqueue(w, e, 0)
    OBVIOUS
  <2>1. /\ Sound(b, v) /\ v.hook = w.hook /\ v.batch = w.batch
        /\ Prompt(w.tr.control) /\ (IsPress(e) /\ e.fresh => e.current) => Prompt(v.tr.control)
    BY <1>2, <2>v, EnqueueSound DEF Good
  <2>2. QED
    BY <1>2, <2>1, <2>v DEF Good, SameBatch
<1>3. CASE Media(w, e, late) = Invalidate(w, "TransportLost")
  BY <1>3, InvalidateGood
<1>4. QED
  BY <1>1, <1>2, <1>3 DEF Media

-----------------------------------------------------------------------------
(* discard_events, and the calls that use it.                               *)

\* One event of discard_events.
DiscardNext(v, late) ==
  LET e    == Head(v.hook.events)
      rest == [v EXCEPT !.hook.events = Tail(@)]
  IN IF e.ordered THEN Media(rest, e, late)
     ELSE [rest EXCEPT !.seen.lost = @ \/ e.kind = "release"]

\* The function that the fold of discard_events is defined by.
DiscardReads(iter, w, late) ==
  iter = [s \in SUBSET DOMAIN w.hook.events |->
            IF s = {} THEN w ELSE DiscardNext(iter[s \ {Max(s)}], late)]

\* What waits is discarded by a function that unfolds event by event.
LEMMA DiscardUnfolds ==
  ASSUME NEW w, NEW late, \E iter : DiscardReads(iter, w, late)
  PROVE \E iter : DiscardReads(iter, w, late) /\ Discard(w, late) = iter[DOMAIN w.hook.events]
<1> DEFINE chosen == CHOOSE iter : DiscardReads(iter, w, late)
<1>1. DiscardReads(chosen, w, late)
  OBVIOUS
<1>2. Discard(w, late) = chosen[DOMAIN w.hook.events]
  BY DEF Discard, FoldLeft, MapThenFoldSet, DiscardReads, DiscardNext
<1>3. QED
  BY <1>1, <1>2

\* One event is discarded by a Good world.
LEMMA DiscardNextGood ==
  ASSUME NEW b \in Bounds, NEW v, Good(b, v), NEW late, Len(v.hook.events) > 0
  PROVE  LET u == DiscardNext(v, late) IN
         /\ Good(b, u) /\ SameBatch(v, u)
         /\ Len(u.hook.events) = Len(v.hook.events) - 1 /\ u.hook.alive = v.hook.alive
<1>1. v.hook.events \in Seq(Events) /\ Timely(v.hook.events) /\ v.seen.lost \in BOOLEAN
  BY DEF Good, Sound, Core, HookGood, Worlds, Hooks, Observers
<1>e. PICK e : e = Head(v.hook.events)
  OBVIOUS
<1>x. PICK x : x = Tail(v.hook.events)
  OBVIOUS
<1>2. /\ x \in Seq(Events) /\ Timely(x) /\ Len(x) = Len(v.hook.events) - 1
      /\ e \in Events /\ (IsPress(e) /\ e.fresh => e.current)
  BY <1>1, <1>e, <1>x, TailTimely
<1>r. PICK r : r = [v EXCEPT !.hook.events = x]
  OBVIOUS
<1>3. /\ Sound(b, r) /\ r.tr = v.tr /\ r.seen = v.seen /\ r.batch = v.batch
      /\ r.hook.events = x /\ r.hook.alive = v.hook.alive
  BY <1>2, <1>r, EventsSound DEF Good
<1>4. Good(b, r)
  BY <1>3 DEF Good
<1>5. CASE e.ordered
  <2>1. DiscardNext(v, late) = Media(r, e, late)
    BY <1>e, <1>x, <1>r, <1>5 DEF DiscardNext
  <2>u. PICK u : u = Media(r, e, late)
    OBVIOUS
  <2>2. /\ Good(b, u) /\ SameBatch(r, u) /\ Len(u.hook.events) = Len(r.hook.events)
        /\ u.hook.alive = r.hook.alive
    BY <1>2, <1>4, <2>u, MediaGood
  <2>3. QED
    BY <1>2, <1>3, <2>1, <2>2, <2>u DEF SameBatch
<1>6. CASE ~e.ordered
  <2>y. PICK y \in BOOLEAN : y = (v.seen.lost \/ e.kind = "release")
    BY <1>1
  <2>u. PICK u : u = [r EXCEPT !.seen.lost = y]
    OBVIOUS
  <2>1. DiscardNext(v, late) = u
    <3>1. DiscardNext(v, late) = [r EXCEPT !.seen.lost = @ \/ e.kind = "release"]
      BY <1>e, <1>x, <1>r, <1>6 DEF DiscardNext
    <3>2. QED
      BY <1>3, <2>y, <2>u, <3>1
  <2>2. Sound(b, u) /\ u.hook = r.hook /\ u.batch = r.batch /\ u.tr = r.tr
    BY <1>3, <2>y, <2>u, LostSound
  <2>3. QED
    BY <1>2, <1>3, <1>4, <2>1, <2>2 DEF Good, SameBatch
<1>7. QED
  BY <1>5, <1>6

\* All that waits is discarded by a Good world, and whatever holds of a world
\* after one more event holds in the end.
LEMMA DiscardStays ==
  ASSUME NEW b \in Bounds, NEW w, Good(b, w), NEW late, NEW C, w \in C,
         \A v \in C : Good(b, v) /\ Len(v.hook.events) > 0 => DiscardNext(v, late) \in C
  PROVE  LET v == Discard(w, late) IN
         v \in C /\ Good(b, v) /\ SameBatch(w, v) /\ v.hook.alive = w.hook.alive
<1>n. PICK n \in Nat : n = Len(w.hook.events)
  BY DEF Good, Sound, Core, Worlds, Hooks
<1>1. DOMAIN w.hook.events = 1 .. n
  BY <1>n DEF Good, Sound, Core, Worlds, Hooks
<1> DEFINE Rest(k) == {v \in Worlds(b) : /\ v \in C /\ Good(b, v) /\ SameBatch(w, v)
                                         /\ Len(v.hook.events) = n - k /\ v.hook.alive = w.hook.alive}
<1>P. PICK P : P = [k \in 0 .. n |-> Rest(k)]
  OBVIOUS
<1>2. w \in P[0]
  BY <1>n, <1>P DEF Good, Sound, Core, SameBatch
<1>3. ASSUME NEW k \in 1 .. n, NEW v \in P[k - 1]
      PROVE  v \in Worlds(b) /\ DiscardNext(v, late) \in P[k]
  <2>1. k - 1 \in 0 .. n /\ k \in 0 .. n /\ n - (k - 1) > 0 /\ n - (k - 1) - 1 = n - k
    OBVIOUS
  <2>2. /\ v \in Worlds(b) /\ v \in C /\ Good(b, v) /\ SameBatch(w, v)
        /\ Len(v.hook.events) = n - (k - 1) /\ v.hook.alive = w.hook.alive
    BY <1>P, <2>1
  <2>u. PICK u : u = DiscardNext(v, late)
    OBVIOUS
  <2>3. /\ u \in C /\ Good(b, u) /\ SameBatch(v, u)
        /\ Len(u.hook.events) = Len(v.hook.events) - 1 /\ u.hook.alive = v.hook.alive
    BY <2>1, <2>2, <2>u, DiscardNextGood
  <2>4. u \in Worlds(b) /\ SameBatch(w, u) /\ Len(u.hook.events) = n - k /\ u.hook.alive = w.hook.alive
    BY <2>1, <2>2, <2>3 DEF Good, Sound, Core, SameBatch
  <2>5. u \in Rest(k)
    BY <2>3, <2>4
  <2>6. QED
    BY <1>P, <2>1, <2>2, <2>5, <2>u
<1>4. \E iter : DiscardReads(iter, w, late)
  <2>s. PICK step : step = [p \in Worlds(b) \X (1 .. n) |-> DiscardNext(p[1], late)]
    OBVIOUS
  <2>f. PICK iter : FoldReads(iter, n, w, step)
    BY FoldExists
  <2>1. iter = [s \in SUBSET (1 .. n) |-> IF s = {} THEN w ELSE step[<<iter[s \ {Max(s)}], Max(s)>>]]
    BY <2>f DEF FoldReads
  <2>2. \A s \in SUBSET (1 .. n) : iter[s] \in P[Cardinality(s)]
    <3>1. iter[{}] \in P[0]
      BY <1>2, <2>1
    <3>2. ASSUME NEW s \in SUBSET (1 .. n), s # {}, iter[s \ {Max(s)}] \in P[Cardinality(s) - 1]
          PROVE  iter[s] \in P[Cardinality(s)]
      <4>1. Max(s) \in 1 .. n /\ Cardinality(s) \in 1 .. n
        BY <3>2, LastPosition
      <4>2. iter[s \ {Max(s)}] \in Worlds(b) /\ DiscardNext(iter[s \ {Max(s)}], late) \in P[Cardinality(s)]
        BY <1>3, <3>2, <4>1
      <4>3. iter[s] = DiscardNext(iter[s \ {Max(s)}], late)
        BY <2>s, <2>1, <3>2, <4>1, <4>2
      <4>4. QED
        BY <4>2, <4>3
    <3>3. QED
      BY <3>1, <3>2, FoldStays
  <2>3. ASSUME NEW s \in SUBSET (1 .. n), s # {}
        PROVE  iter[s] = DiscardNext(iter[s \ {Max(s)}], late)
    <3>1. /\ Max(s) \in 1 .. n /\ s \ {Max(s)} \in SUBSET (1 .. n) /\ Cardinality(s) \in 1 .. n
          /\ Cardinality(s \ {Max(s)}) = Cardinality(s) - 1
      BY <2>3, LastPosition
    <3>2. iter[s \ {Max(s)}] \in Worlds(b)
      BY <1>3, <2>2, <3>1
    <3>3. QED
      BY <2>s, <2>1, <2>3, <3>1, <3>2
  <2>4. DiscardReads(iter, w, late)
    BY <1>1, <2>1, <2>3 DEF DiscardReads
  <2>5. QED
    BY <2>4
<1>5. PICK iter : DiscardReads(iter, w, late) /\ Discard(w, late) = iter[1 .. n]
  BY <1>1, <1>4, DiscardUnfolds
<1>6. iter[1 .. n] \in P[n]
  <2>1. iter = [s \in SUBSET (1 .. n) |-> IF s = {} THEN w ELSE DiscardNext(iter[s \ {Max(s)}], late)]
    BY <1>1, <1>5 DEF DiscardReads
  <2>2. iter[{}] \in P[0]
    BY <1>2, <2>1
  <2>3. ASSUME NEW s \in SUBSET (1 .. n), s # {}, iter[s \ {Max(s)}] \in P[Cardinality(s) - 1]
        PROVE  iter[s] \in P[Cardinality(s)]
    <3>1. Cardinality(s) \in 1 .. n
      BY <2>3, LastPosition
    <3>2. DiscardNext(iter[s \ {Max(s)}], late) \in P[Cardinality(s)]
      BY <1>3, <2>3, <3>1
    <3>3. iter[s] = DiscardNext(iter[s \ {Max(s)}], late)
      BY <2>1, <2>3
    <3>4. QED
      BY <3>2, <3>3
  <2>4. QED
    BY <2>2, <2>3, FoldStays
<1>7. QED
  BY <1>5, <1>6, <1>P

\* In particular the world is Good in the end.
LEMMA DiscardGood ==
  ASSUME NEW b \in Bounds, NEW w, Good(b, w), NEW late
  PROVE  LET v == Discard(w, late) IN
         Good(b, v) /\ SameBatch(w, v) /\ v.hook.alive = w.hook.alive
<1>1. w \in Worlds(b)
  BY DEF Good, Sound, Core
<1>2. ASSUME NEW v \in Worlds(b), Good(b, v), Len(v.hook.events) > 0
      PROVE  DiscardNext(v, late) \in Worlds(b)
  BY <1>2, DiscardNextGood DEF Good, Sound, Core
<1>3. QED
  BY <1>1, <1>2, DiscardStays

\* Listening, recording and the input at hand are no matter of the session.
LEMMA FlagsGood ==
  ASSUME NEW b \in Bounds, NEW w, Good(b, w), NEW v \in Worlds(b),
         v.hook = w.hook, v.tr = w.tr, v.seen = w.seen, v.batch = w.batch,
         v.app.test = w.app.test, v.app.tests = w.app.tests, v.app.receipt = w.app.receipt,
         v.app.ready = w.app.ready, v.app.selected = w.app.selected,
         v.app.restore = w.app.restore, v.app.remembered = w.app.remembered
  PROVE  Good(b, v)
<1>1. AppGood(b, v.app, v.tr) /\ ChoiceGood(v.app, v.seen) /\ Owed(v.app, v.tr)
  BY DEF Good, Sound, Core, AppGood, ChoiceGood, Owed
<1>2. QED
  BY <1>1 DEF Good, Sound, Core

\* The flag of listening alone may change.
LEMMA ListeningGood ==
  ASSUME NEW b \in Bounds, NEW w, Good(b, w), NEW on \in BOOLEAN
  PROVE  LET v == [w EXCEPT !.app.listening = on] IN
         Good(b, v) /\ v.hook = w.hook /\ v.tr = w.tr /\ v.batch = w.batch
<1>1. w \in Worlds(b)
  BY DEF Good, Sound, Core
<1>v. PICK v : v = [w EXCEPT !.app.listening = on]
  OBVIOUS
<1>2. /\ v \in Worlds(b)
      /\ v.hook = w.hook /\ v.tr = w.tr /\ v.seen = w.seen /\ v.batch = w.batch
      /\ v.app.test = w.app.test /\ v.app.tests = w.app.tests /\ v.app.receipt = w.app.receipt
      /\ v.app.ready = w.app.ready /\ v.app.selected = w.app.selected
      /\ v.app.restore = w.app.restore /\ v.app.remembered = w.app.remembered
  BY <1>1, <1>v DEF Worlds, Apps
<1>3. QED
  BY <1>2, <1>v, FlagsGood

\* So may the flag that the listener runs.
LEMMA InputGood ==
  ASSUME NEW b \in Bounds, NEW w, Good(b, w), NEW on \in BOOLEAN
  PROVE  LET v == [w EXCEPT !.app.input = on] IN
         Good(b, v) /\ v.hook = w.hook /\ v.tr = w.tr /\ v.batch = w.batch
<1>1. w \in Worlds(b)
  BY DEF Good, Sound, Core
<1>v. PICK v : v = [w EXCEPT !.app.input = on]
  OBVIOUS
<1>2. /\ v \in Worlds(b)
      /\ v.hook = w.hook /\ v.tr = w.tr /\ v.seen = w.seen /\ v.batch = w.batch
      /\ v.app.test = w.app.test /\ v.app.tests = w.app.tests /\ v.app.receipt = w.app.receipt
      /\ v.app.ready = w.app.ready /\ v.app.selected = w.app.selected
      /\ v.app.restore = w.app.restore /\ v.app.remembered = w.app.remembered
  BY <1>1, <1>v DEF Worlds, Apps
<1>3. QED
  BY <1>2, <1>v, FlagsGood

\* So may the phase of a recording.
LEMMA CaptureGood ==
  ASSUME NEW b \in Bounds, NEW w, Good(b, w), NEW capture \in {"none", "waiting", "recording"}
  PROVE  LET v == [w EXCEPT !.app.capture = capture] IN
         Good(b, v) /\ v.hook = w.hook /\ v.tr = w.tr /\ v.batch = w.batch
<1>1. w \in Worlds(b)
  BY DEF Good, Sound, Core
<1>v. PICK v : v = [w EXCEPT !.app.capture = capture]
  OBVIOUS
<1>2. /\ v \in Worlds(b)
      /\ v.hook = w.hook /\ v.tr = w.tr /\ v.seen = w.seen /\ v.batch = w.batch
      /\ v.app.test = w.app.test /\ v.app.tests = w.app.tests /\ v.app.receipt = w.app.receipt
      /\ v.app.ready = w.app.ready /\ v.app.selected = w.app.selected
      /\ v.app.restore = w.app.restore /\ v.app.remembered = w.app.remembered
  BY <1>1, <1>v DEF Worlds, Apps
<1>3. QED
  BY <1>2, <1>v, FlagsGood

\* A new epoch of a Good world.
LEMMA NewEpochGood ==
  ASSUME NEW b \in Bounds, NEW w, Good(b, w)
  PROVE  LET v == NewEpoch(w) IN
         Good(b, v) /\ SameBatch(w, v) /\ v.tr = w.tr /\ v.hook.alive = w.hook.alive
<1>v. PICK v : v = NewEpoch(w)
  OBVIOUS
<1>1. Sound(b, v) /\ v.tr = w.tr /\ Len(v.batch) = Len(w.batch) /\ v.hook.alive = w.hook.alive
  BY <1>v, NewEpochSound, NewEpochShape DEF Good, Sound, Core
<1>2. QED
  BY <1>1, <1>v DEF Good, SameBatch

\* A new listener knows nothing.
LEMMA EnsureInputGood ==
  ASSUME NEW b \in Bounds, NEW w, Good(b, w), NEW late
  PROVE  Good(b, EnsureInput(w, late)) /\ SameBatch(w, EnsureInput(w, late))
<1>1. CASE w.hook.alive = "up"
  BY <1>1 DEF EnsureInput, SameBatch
<1>2. CASE w.hook.alive # "up"
  <2>d. PICK d : d = Discard(w, late)
    OBVIOUS
  <2>n. PICK n : n = NewEpoch(d)
    OBVIOUS
  <2>v. PICK v : v = [n EXCEPT !.hook.alive = "up", !.hook.listening = FALSE, !.hook.recording = FALSE]
    OBVIOUS
  <2>1. Good(b, d) /\ SameBatch(w, d)
    BY <2>d, DiscardGood
  <2>2. Good(b, n) /\ SameBatch(d, n)
    BY <2>1, <2>n, NewEpochGood
  <2>3. n \in Worlds(b)
    BY <2>2 DEF Good, Sound, Core
  <2>4. /\ v \in Worlds(b)
        /\ v.app = n.app /\ v.tr = n.tr /\ v.seen = n.seen /\ v.batch = n.batch
        /\ v.hook.events = n.hook.events /\ v.hook.hold = n.hook.hold
        /\ v.hook.alive = "up" /\ v.hook.current = n.hook.current
    BY <2>3, <2>v DEF Worlds, Hooks
  <2>5. HookGood(v.hook)
    BY <2>2, <2>4 DEF Good, Sound, Core, HookGood
  <2>6. EnsureInput(w, late) = v
    BY <1>2, <2>d, <2>n, <2>v DEF EnsureInput
  <2>7. QED
    BY <2>1, <2>2, <2>4, <2>5, <2>6 DEF Good, Sound, Core, SameBatch
<1>3. QED
  BY <1>1, <1>2

\* Listening is switched; the router follows, and without listening nothing goes on.
LEMMA SetListeningGood ==
  ASSUME NEW b \in Bounds, NEW w, Good(b, w), NEW on \in BOOLEAN, NEW late
  PROVE  Good(b, SetListening(w, on, late)) /\ SameBatch(w, SetListening(w, on, late))
<1>r. PICK r : r = IF on THEN EnsureInput(w, late) ELSE w
  OBVIOUS
<1>l. PICK l : l = [r EXCEPT !.app.listening = on]
  OBVIOUS
<1>t. PICK t : t = Configure(l)
  OBVIOUS
<1>v. PICK v : v = Invalidate(t, "ListenerStopped")
  OBVIOUS
<1>1. Good(b, r) /\ SameBatch(w, r)
  BY <1>r, EnsureInputGood DEF SameBatch
<1>2. Good(b, l) /\ l.batch = r.batch
  BY <1>1, <1>l, ListeningGood
<1>3. Good(b, t) /\ SameBatch(l, t)
  BY <1>2, <1>t, ConfigureGood
<1>4. Good(b, v) /\ SameBatch(t, v)
  BY <1>3, <1>v, InvalidateGood
<1>5. SetListening(w, on, late) = IF on THEN t ELSE v
  BY <1>r, <1>l, <1>t, <1>v DEF SetListening
<1>6. QED
  BY <1>1, <1>2, <1>3, <1>4, <1>5 DEF SameBatch

\* An event that is applied.
LEMMA ApplyGood ==
  ASSUME NEW b \in Bounds, NEW w, Good(b, w), NEW e \in Events, NEW late,
         IsPress(e) /\ e.fresh => e.current
  PROVE  Good(b, Apply(w, e, late)) /\ SameBatch(w, Apply(w, e, late))
<1>1. CASE Apply(w, e, late) = Media(w, e, late)
  BY <1>1, MediaGood
<1>2. CASE Apply(w, e, late) = SetListening(w, ~w.app.listening, late)
  <2>o. PICK on \in BOOLEAN : on = ~w.app.listening
    BY DEF Good, Sound, Core, Worlds, Apps
  <2>1. QED
    BY <1>2, <2>o, SetListeningGood
<1>3. CASE Apply(w, e, late) = w
  BY <1>3 DEF SameBatch
<1>4. QED
  BY <1>1, <1>2, <1>3 DEF Apply

-----------------------------------------------------------------------------
(* Recording a shortcut.                                                    *)

\* A recording ends: the router is told, and its events are discarded.
LEMMA FinishRecordingGood ==
  ASSUME NEW b \in Bounds, NEW w, Good(b, w), NEW late
  PROVE  LET v == FinishRecording(w, late) IN
         Good(b, v) /\ SameBatch(w, v) /\ v.hook.alive = w.hook.alive
<1>1. CASE ~Recording(w)
  BY <1>1 DEF FinishRecording, SameBatch
<1>2. CASE Recording(w)
  <2>a. PICK a : a = [w EXCEPT !.app.capture = "none"]
    OBVIOUS
  <2>c. PICK c : c = Configure(a)
    OBVIOUS
  <2>n. PICK n : n = NewEpoch(c)
    OBVIOUS
  <2>d. PICK d : d = Discard(n, late)
    OBVIOUS
  <2>1. Good(b, a) /\ a.batch = w.batch /\ a.hook = w.hook
    BY <2>a, CaptureGood
  <2>2. Good(b, c) /\ SameBatch(a, c) /\ c.hook.alive = a.hook.alive
    BY <2>1, <2>c, ConfigureGood
  <2>3. Good(b, n) /\ SameBatch(c, n) /\ n.hook.alive = c.hook.alive
    BY <2>2, <2>n, NewEpochGood
  <2>4. Good(b, d) /\ SameBatch(n, d) /\ d.hook.alive = n.hook.alive
    BY <2>3, <2>d, DiscardGood
  <2>5. FinishRecording(w, late) = d
    BY <1>2, <2>a, <2>c, <2>n, <2>d DEF FinishRecording
  <2>6. QED
    BY <2>1, <2>2, <2>3, <2>4, <2>5 DEF SameBatch
<1>3. QED
  BY <1>1, <1>2

\* A recording begins: an earlier one ends, and a listener is made if none runs.
LEMMA RecordGood ==
  ASSUME NEW b \in Bounds, NEW w, Good(b, w), NEW late
  PROVE  Good(b, Record(w, late))
<1>u. PICK u : u = ConsumeUi(w)
  OBVIOUS
<1>f. PICK f : f = FinishRecording(u, late)
  OBVIOUS
<1>o. PICK o : o = EnsureInput(f, late)
  OBVIOUS
<1>a. PICK a : a = [o EXCEPT !.app.capture = "waiting"]
  OBVIOUS
<1>c. PICK c : c = Configure(a)
  OBVIOUS
<1>1. Good(b, u)
  BY <1>u, ConsumeUiGood
<1>2. Good(b, f)
  BY <1>1, <1>f, FinishRecordingGood
<1>3. Good(b, o)
  BY <1>2, <1>o, EnsureInputGood
<1>4. Good(b, a)
  BY <1>3, <1>a, CaptureGood
<1>5. Good(b, c)
  BY <1>4, <1>c, ConfigureGood
<1>6. Good(b, NewEpoch(c))
  BY <1>5, NewEpochGood
<1>7. Record(w, late) = NewEpoch(c)
  BY <1>u, <1>f, <1>o, <1>a, <1>c DEF Record
<1>8. QED
  BY <1>6, <1>7

\* An edge that is recorded may end the recording.
LEMMA RecordedGood ==
  ASSUME NEW b \in Bounds, NEW w, Good(b, w), NEW ends, NEW late
  PROVE  Good(b, Recorded(w, ends, late)) /\ SameBatch(w, Recorded(w, ends, late))
BY FinishRecordingGood DEF Recorded, SameBatch

-----------------------------------------------------------------------------
(* The supervisor.                                                          *)

\* A snapshot is published while the supervisor runs.
LEMMA PublishSound ==
  ASSUME NEW b \in Bounds, NEW w, Sound(b, w), w.tr.life # "stopped"
  PROVE  LET v == Publish(w) IN
         /\ Sound(b, v)
         /\ v.app = w.app /\ v.hook = w.hook /\ v.seen = w.seen /\ v.batch = w.batch
         /\ v.tr.life = w.tr.life /\ v.tr.control = w.tr.control /\ v.tr.pending = w.tr.pending
         /\ v.tr.snapshot.selected = w.tr.selected
<1>1. w \in Worlds(b)
  BY DEF Sound, Core
<1>v. PICK v : v = Publish(w)
  OBVIOUS
<1>2. /\ v \in Worlds(b)
      /\ v.app = w.app /\ v.hook = w.hook /\ v.seen = w.seen /\ v.batch = w.batch
      /\ v.tr.life = w.tr.life /\ v.tr.control = w.tr.control /\ v.tr.pending = w.tr.pending
      /\ v.tr.snapshot.selected = w.tr.selected
  BY <1>1, <1>v DEF Publish, Worlds, Transports, Snapshots
<1>3. ChannelGood(v.tr) /\ AppGood(b, v.app, v.tr) /\ Owed(v.app, v.tr)
  BY <1>2 DEF Sound, Core, ChannelGood, AppGood, Owed
<1>4. QED
  BY <1>2, <1>3, <1>v DEF Sound, Core

\* What the worker and the supervisor know besides the channel may change freely.
LEMMA WorkerSound ==
  ASSUME NEW b \in Bounds, NEW w, Sound(b, w), NEW v \in Worlds(b),
         v.app = w.app, v.hook = w.hook, v.seen = w.seen, v.batch = w.batch,
         v.tr.life = w.tr.life, v.tr.control = w.tr.control, v.tr.pending = w.tr.pending,
         v.tr.snapshot = w.tr.snapshot
  PROVE  Sound(b, v)
<1>1. ChannelGood(v.tr) /\ AppGood(b, v.app, v.tr) /\ Owed(v.app, v.tr)
  BY DEF Sound, Core, ChannelGood, AppGood, Owed
<1>2. QED
  BY <1>1 DEF Sound, Core

\* What is true of a world in which the answer to one test may be missing.
Unanswered(b, w, ids) ==
  /\ w \in Worlds(b)
  /\ HookGood(w.hook) /\ Timely(w.batch) /\ ChannelGood(w.tr)
  /\ AppGood(b, w.app, w.tr) /\ ChoiceGood(w.app, w.seen)
  /\ w.app.test \in ids \/ Owed(w.app, w.tr)

\* The answers of Answer are the ones that were missing.
LEMMA AnswerSound ==
  ASSUME NEW b \in Bounds, NEW ids \in SUBSET Nat, NEW w, Unanswered(b, w, ids),
         NEW answer \in {"done", "refused"}
  PROVE  LET v == Answer(w, ids, answer) IN
         /\ Sound(b, v) /\ SameChoice(w, v)
         /\ v.hook = w.hook /\ v.seen = w.seen /\ v.batch = w.batch
         /\ v.tr.life = w.tr.life /\ v.tr.control = w.tr.control
         /\ v.tr.selected = w.tr.selected /\ v.tr.ready = w.tr.ready
         /\ v.app.test = w.app.test
<1>1. w \in Worlds(b)
  BY DEF Unanswered
<1>2. w.app.receipt \in [1 .. b.tests -> Receipts] /\ w.tr.pending \in SUBSET Nat
  BY <1>1 DEF Worlds, Apps, Transports
<1>r. PICK r : r = [t \in DOMAIN w.app.receipt |->
                      IF t \in ids THEN [w.app.receipt[t] EXCEPT !.answer = answer] ELSE w.app.receipt[t]]
  OBVIOUS
<1>p. PICK p : p = w.tr.pending \ ids
  OBVIOUS
<1>v. PICK v : v = Answer(w, ids, answer)
  OBVIOUS
<1>3. r \in [1 .. b.tests -> Receipts]
      /\ \A t \in 1 .. b.tests : r[t].answer = IF t \in ids THEN answer ELSE w.app.receipt[t].answer
  <2>1. \A t \in 1 .. b.tests : /\ [w.app.receipt[t] EXCEPT !.answer = answer] \in Receipts
                                /\ [w.app.receipt[t] EXCEPT !.answer = answer].answer = answer
    BY <1>2 DEF Receipts
  <2>2. QED
    BY <1>2, <1>r, <2>1
<1>4. v = [w EXCEPT !.app.receipt = r, !.tr.pending = p]
  BY <1>r, <1>p, <1>v DEF Answer
<1>5. p \in SUBSET Nat
  BY <1>2, <1>p
<1>6. /\ v \in Worlds(b)
      /\ v.hook = w.hook /\ v.seen = w.seen /\ v.batch = w.batch
      /\ v.tr.life = w.tr.life /\ v.tr.control = w.tr.control /\ v.tr.pending = p
      /\ v.tr.selected = w.tr.selected /\ v.tr.ready = w.tr.ready
      /\ v.tr.snapshot = w.tr.snapshot
      /\ v.app.test = w.app.test /\ v.app.tests = w.app.tests /\ v.app.receipt = r
      /\ v.app.ready = w.app.ready /\ v.app.selected = w.app.selected
      /\ v.app.restore = w.app.restore /\ v.app.remembered = w.app.remembered
  BY <1>1, <1>3, <1>4, <1>5 DEF Worlds, Apps, Transports
<1>7. SameChoice(w, v)
  BY <1>6 DEF SameChoice
<1>8. HookGood(v.hook) /\ Timely(v.batch) /\ ChannelGood(v.tr)
  BY <1>6 DEF Unanswered, ChannelGood
<1>9. AppGood(b, v.app, v.tr) /\ ChoiceGood(v.app, v.seen)
  BY <1>6 DEF Unanswered, AppGood, ChoiceGood
<1>10. Owed(v.app, v.tr)
  <2>1. w.app.test \in Nat /\ w.app.tests \in Nat /\ b.tests \in Nat
    BY <1>1, BoundsTyped DEF Worlds, Apps
  <2>2. w.app.test # 0 => w.app.test \in 1 .. b.tests
    BY <2>1 DEF Unanswered, AppGood
  <2>3. CASE w.app.test \in ids
    <3>1. w.app.test # 0 => r[w.app.test].answer = answer
      BY <1>3, <2>2, <2>3
    <3>2. QED
      BY <1>6, <3>1 DEF Owed
  <2>4. CASE w.app.test \notin ids
    <3>1. w.app.test # 0 => r[w.app.test].answer = w.app.receipt[w.app.test].answer
      BY <1>3, <2>2, <2>4
    <3>2. w.app.test \in w.tr.pending => w.app.test \in p
      BY <1>p, <2>4
    <3>3. Owed(w.app, w.tr)
      BY <2>4 DEF Unanswered
    <3>4. QED
      BY <1>6, <3>1, <3>2, <3>3 DEF Owed
  <2>5. QED
    BY <2>3, <2>4
<1>11. QED
  BY <1>6, <1>7, <1>8, <1>9, <1>10, <1>v DEF Sound, Core

\* A Sound world misses no answer.
LEMMA SoundUnanswered ==
  ASSUME NEW b, NEW w, NEW ids, Sound(b, w)
  PROVE  Unanswered(b, w, ids)
BY DEF Sound, Core, Unanswered

\* A worker that is replaced refuses what it had not answered, and no press is valid.
LEMMA ReplaceGood ==
  ASSUME NEW b \in Bounds, NEW w, Sound(b, w), w.tr.life # "stopped",
         NEW switching \in BOOLEAN, NEW full \in BOOLEAN
  PROVE  LET v == Replace(w, switching, full) IN
         /\ Good(b, v) /\ SameChoice(w, v)
         /\ v.hook = w.hook /\ v.seen = w.seen /\ v.batch = w.batch
         /\ v.tr.life = w.tr.life /\ v.app.test = w.app.test
<1>a. PICK a : a = Answer(w, w.tr.pending, "refused")
  OBVIOUS
<1>n. PICK n : n = NextRevision(a)
  OBVIOUS
<1>u. PICK u : u = [n EXCEPT !.tr.native = "none", !.tr.switching = switching, !.tr.full = full,
                             !.tr.ready = FALSE, !.tr.held = FALSE]
  OBVIOUS
<1>v. PICK v : v = Publish(u)
  OBVIOUS
<1>1. /\ Sound(b, a) /\ SameChoice(w, a)
      /\ a.hook = w.hook /\ a.seen = w.seen /\ a.batch = w.batch
      /\ a.tr.life = w.tr.life /\ a.app.test = w.app.test
  <2>1. w.tr.pending \in SUBSET Nat
    BY DEF Sound, Core, Worlds, Transports
  <2>2. Unanswered(b, w, w.tr.pending)
    BY SoundUnanswered
  <2>3. QED
    BY <1>a, <2>1, <2>2, AnswerSound
<1>2. /\ Core(b, n) /\ Stale(n) /\ SameChoice(a, n)
      /\ n.hook = a.hook /\ n.seen = a.seen /\ n.batch = a.batch
      /\ n.tr.life = a.tr.life /\ n.app.test = a.app.test
  BY <1>1, <1>n, NextRevisionCore DEF Sound
<1>3. Sound(b, n) /\ n \in Worlds(b)
  BY <1>1, <1>2, SameChoiceSound DEF Core
<1>4. /\ u \in Worlds(b)
      /\ u.app = n.app /\ u.hook = n.hook /\ u.seen = n.seen /\ u.batch = n.batch
      /\ u.tr.life = n.tr.life /\ u.tr.control = n.tr.control /\ u.tr.pending = n.tr.pending
      /\ u.tr.snapshot = n.tr.snapshot
  BY <1>3, <1>u DEF Worlds, Transports
<1>5. Sound(b, u)
  BY <1>3, <1>4, WorkerSound
<1>6. /\ Sound(b, v)
      /\ v.app = u.app /\ v.hook = u.hook /\ v.seen = u.seen /\ v.batch = u.batch
      /\ v.tr.life = u.tr.life /\ v.tr.control = u.tr.control
  BY <1>1, <1>2, <1>4, <1>5, <1>v, PublishSound
<1>7. Good(b, v)
  <2>1. Stale(v)
    BY <1>2, <1>4, <1>6 DEF Stale
  <2>2. QED
    BY <1>6, <2>1, StalePrompt DEF Good
<1>8. SameChoice(w, v)
  BY <1>1, <1>2, <1>4, <1>6 DEF SameChoice
<1>9. v = Replace(w, switching, full)
  BY <1>a, <1>n, <1>u, <1>v DEF Replace
<1>10. QED
  BY <1>1, <1>2, <1>4, <1>6, <1>7, <1>8, <1>9

\* Executing or refusing the oldest command keeps every promise: a test whose
\* command was it has its answer, or waits for the worker's.
LEMMA ControlGood ==
  ASSUME NEW b \in Bounds, NEW w, Good(b, w), w.tr.life = "up", w.tr.control # <<>>
  PROVE  Good(b, Control([w EXCEPT !.tr.control = Tail(@)], Head(w.tr.control)))
<1>1. w \in Worlds(b) /\ w.tr.control \in Seq(Commands)
  BY DEF Good, Sound, Core, Worlds, Transports
<1>s. PICK s : s = Tail(w.tr.control)
  OBVIOUS
<1>c. PICK c : c = Head(w.tr.control)
  OBVIOUS
<1>t. PICK t : t = [w EXCEPT !.tr.control = s]
  OBVIOUS
<1>2. /\ s \in Seq(Commands) /\ Len(s) = Len(w.tr.control) - 1 /\ DOMAIN s = 1 .. Len(w.tr.control) - 1
      /\ DOMAIN w.tr.control = 1 .. Len(w.tr.control) /\ Len(w.tr.control) \in Nat
      /\ \A i \in DOMAIN s : s[i] = w.tr.control[i + 1] /\ i + 1 \in DOMAIN w.tr.control
      /\ c \in Commands /\ c = w.tr.control[1] /\ 1 \in DOMAIN w.tr.control
  BY <1>1, <1>s, <1>c
<1>3. /\ t \in Worlds(b)
      /\ t.app = w.app /\ t.hook = w.hook /\ t.seen = w.seen /\ t.batch = w.batch
      /\ t.tr.control = s /\ t.tr.life = w.tr.life /\ t.tr.pending = w.tr.pending
      /\ t.tr.snapshot = w.tr.snapshot
  BY <1>1, <1>2, <1>t DEF Worlds, Transports
<1>4. HookGood(t.hook) /\ Timely(t.batch) /\ ChoiceGood(t.app, t.seen) /\ AppGood(b, t.app, t.tr)
  BY <1>3 DEF Good, Sound, Core, AppGood
<1>5. ChannelGood(t.tr)
  <2>1. Len(s) <= ControlCapacity
    BY <1>2, RuntimeAssumption DEF Good, Sound, Core, ChannelGood
  <2>2. QED
    BY <1>2, <1>3, <2>1 DEF Good, Sound, Core, ChannelGood
<1>6. Prompt(s)
  BY <1>2 DEF Good, Prompt
<1>7. c.kind \in {"Select", "Restart", "Invalidate"} => c.id = 0
  BY <1>2 DEF Good, Sound, Core, ChannelGood
<1>8. \A x : x \in {w.tr.control[i].id : i \in DOMAIN w.tr.control} =>
               x = c.id \/ x \in {s[i].id : i \in DOMAIN s}
  <2> SUFFICES ASSUME NEW i \in DOMAIN w.tr.control
               PROVE  w.tr.control[i].id = c.id \/ w.tr.control[i].id \in {s[j].id : j \in DOMAIN s}
    OBVIOUS
  <2>1. CASE i = 1
    BY <1>2, <2>1
  <2>2. CASE i # 1
    <3>1. i - 1 \in DOMAIN s /\ (i - 1) + 1 = i
      BY <1>2, <2>2
    <3>2. s[i - 1] = w.tr.control[i]
      BY <1>2, <3>1
    <3>3. QED
      BY <3>1, <3>2
  <2>3. QED
    BY <2>1, <2>2
<1>9. (t.app.test = c.id /\ c.id # 0) \/ Owed(t.app, t.tr)
  BY <1>3, <1>8 DEF Good, Sound, Core, Owed
<1>10. Control(t, c) = Control([w EXCEPT !.tr.control = Tail(@)], Head(w.tr.control))
  BY <1>s, <1>c, <1>t
<1>11. c.id = 0 => Sound(b, t)
  BY <1>3, <1>4, <1>5, <1>9 DEF Sound, Core
<1>12. CASE c.kind \in {"Select", "Restart"}
  <2>1. PICK dev \in Receivers, full \in BOOLEAN :
          Control(t, c) = Replace([t EXCEPT !.tr.selected = dev, !.tr.remembered = None], full, FALSE)
    <3>1. CASE c.kind = "Select"
      <4>1. c.dev \in Receivers /\ (c.dev # None) \in BOOLEAN
        BY <1>2 DEF Commands
      <4>2. Control(t, c) = Replace([t EXCEPT !.tr.selected = c.dev, !.tr.remembered = None], c.dev # None, FALSE)
        BY <3>1 DEF Control
      <4>3. QED
        BY <4>1, <4>2
    <3>2. CASE c.kind = "Restart"
      <4>1. Control(t, c) = Replace([t EXCEPT !.tr.selected = None, !.tr.remembered = None], TRUE, FALSE)
        BY <3>2 DEF Control
      <4>2. QED
        BY <4>1 DEF Receivers
    <3>3. QED
      BY <1>12, <3>1, <3>2
  <2>u. PICK u : u = [t EXCEPT !.tr.selected = dev, !.tr.remembered = None]
    OBVIOUS
  <2>2. /\ u \in Worlds(b)
        /\ u.app = t.app /\ u.hook = t.hook /\ u.seen = t.seen /\ u.batch = t.batch
        /\ u.tr.life = t.tr.life /\ u.tr.control = t.tr.control /\ u.tr.pending = t.tr.pending
        /\ u.tr.snapshot = t.tr.snapshot
    BY <1>3, <2>u DEF Worlds, Transports, Receivers
  <2>3. Sound(b, u)
    BY <1>7, <1>11, <1>12, <2>2, WorkerSound
  <2>4. Good(b, Replace(u, full, FALSE))
    BY <1>3, <2>2, <2>3, ReplaceGood
  <2>5. QED
    BY <1>10, <2>1, <2>4, <2>u
<1>13. CASE c.kind = "Invalidate"
  <2>n. PICK n \in {"none", "blocked", "open"} : n = IF t.tr.native = "none" THEN "none" ELSE "blocked"
    OBVIOUS
  <2>u. PICK u : u = [t EXCEPT !.tr.ready = FALSE, !.tr.held = FALSE, !.tr.native = n]
    OBVIOUS
  <2>1. Control(t, c) = Publish(u)
    BY <1>13, <2>n, <2>u DEF Control
  <2>2. /\ u \in Worlds(b)
        /\ u.app = t.app /\ u.hook = t.hook /\ u.seen = t.seen /\ u.batch = t.batch
        /\ u.tr.life = t.tr.life /\ u.tr.control = t.tr.control /\ u.tr.pending = t.tr.pending
        /\ u.tr.snapshot = t.tr.snapshot
    BY <1>3, <2>u DEF Worlds, Transports
  <2>3. Sound(b, u)
    BY <1>7, <1>11, <1>13, <2>2, WorkerSound
  <2>v. PICK v : v = Publish(u)
    OBVIOUS
  <2>4. Sound(b, v) /\ v.tr.control = u.tr.control
    BY <1>3, <2>2, <2>3, <2>v, PublishSound
  <2>5. QED
    BY <1>3, <1>6, <1>10, <2>1, <2>2, <2>4, <2>v DEF Good
<1>14. CASE c.kind \notin {"Select", "Restart", "Invalidate"} /\ Accepts(t, c)
  <2>h. PICK h \in BOOLEAN : h = CASE c.kind = "press" -> TRUE
                                   [] c.kind = "release" -> FALSE
                                   [] OTHER -> t.tr.held
    BY <1>3 DEF Worlds, Transports
  <2>p. PICK p : p = IF c.id = 0 THEN t.tr.pending ELSE t.tr.pending \union {c.id}
    OBVIOUS
  <2>v. PICK v : v = [t EXCEPT !.tr.held = h, !.tr.pending = p]
    OBVIOUS
  <2>1. Control(t, c) = v
    <3>1. Control(t, c) = Execute(t, c)
      BY <1>14 DEF Control
    <3>2. QED
      BY <2>h, <2>p, <2>v, <3>1 DEF Execute
  <2>2. p \in SUBSET Nat /\ t.tr.pending \subseteq p /\ (c.id # 0 => c.id \in p)
    BY <1>2, <1>3, <2>p DEF Worlds, Transports, Commands
  <2>3. /\ v \in Worlds(b)
        /\ v.app = t.app /\ v.hook = t.hook /\ v.seen = t.seen /\ v.batch = t.batch
        /\ v.tr.life = t.tr.life /\ v.tr.control = t.tr.control /\ v.tr.pending = p
        /\ v.tr.snapshot = t.tr.snapshot
    BY <1>3, <2>2, <2>v DEF Worlds, Transports
  <2>4. ChannelGood(v.tr) /\ AppGood(b, v.app, v.tr)
    BY <1>4, <1>5, <2>3 DEF ChannelGood, AppGood
  <2>5. Owed(v.app, v.tr)
    BY <1>3, <1>8, <2>2, <2>3 DEF Good, Sound, Core, Owed
  <2>6. QED
    BY <1>3, <1>4, <1>6, <1>10, <2>1, <2>3, <2>4, <2>5 DEF Good, Sound, Core
<1>15. CASE c.kind \notin {"Select", "Restart", "Invalidate"} /\ ~Accepts(t, c)
  <2>v. PICK v : v = Answer(t, {c.id} \ {0}, "refused")
    OBVIOUS
  <2>1. Control(t, c) = v
    BY <1>15, <2>v DEF Control
  <2>2. {c.id} \ {0} \in SUBSET Nat
    BY <1>2 DEF Commands
  <2>3. Unanswered(b, t, {c.id} \ {0})
    BY <1>3, <1>4, <1>5, <1>9 DEF Unanswered
  <2>4. Sound(b, v) /\ v.tr.control = t.tr.control
    BY <2>2, <2>3, <2>v, AnswerSound
  <2>5. QED
    BY <1>3, <1>6, <1>10, <2>1, <2>4 DEF Good
<1>16. QED
  BY <1>12, <1>13, <1>14, <1>15

-----------------------------------------------------------------------------
(* connection.rs                                                            *)

\* The fields of a transport that was not started.
LEMMA NoTransportTyped ==
  NoTransport \in Transports /\ NoTransport.life = "none" /\ NoTransport.control = <<>>
BY DEF NoTransport, NoSnapshot, Transports, Snapshots, Receivers

\* A new supervisor starts from nothing but the receiver to restore.
LEMMA NewTransportGood ==
  ASSUME NEW b \in Bounds, NEW w, Sound(b, w), w.app.test = 0
  PROVE  Good(b, NewTransport(w)) /\ SameChoice(w, NewTransport(w))
<1>1. w \in Worlds(b)
  BY DEF Sound, Core
<1>t. PICK t : t = [NoTransport EXCEPT !.life = "up", !.remembered = w.app.restore]
  OBVIOUS
<1>u. PICK u : u = [w EXCEPT !.tr = t, !.app.now = FALSE]
  OBVIOUS
<1>2. t \in Transports /\ t.life = "up" /\ t.control = <<>>
  <2>1. w.app.restore \in Receivers
    BY <1>1 DEF Worlds, Apps
  <2>2. QED
    BY <1>t, <2>1, NoTransportTyped DEF Transports
<1>3. /\ u \in Worlds(b)
      /\ u.hook = w.hook /\ u.seen = w.seen /\ u.batch = w.batch /\ u.tr = t
      /\ u.app.test = w.app.test /\ u.app.tests = w.app.tests
      /\ u.app.ready = w.app.ready /\ u.app.selected = w.app.selected
      /\ u.app.restore = w.app.restore /\ u.app.remembered = w.app.remembered
  BY <1>1, <1>2, <1>u DEF Worlds, Apps
<1>4. ChannelGood(u.tr)
  BY <1>2, <1>3, RuntimeAssumption DEF ChannelGood
<1>5. AppGood(b, u.app, u.tr) /\ Owed(u.app, u.tr)
  BY <1>2, <1>3 DEF Sound, Core, AppGood, Owed
<1>6. Core(b, u) /\ SameChoice(w, u)
  BY <1>3, <1>4, <1>5 DEF Sound, Core, SameChoice
<1>7. Sound(b, u)
  BY <1>6, SameChoiceSound
<1>v. PICK v : v = Replace(u, FALSE, FALSE)
  OBVIOUS
<1>8. Good(b, v) /\ SameChoice(u, v)
  BY <1>2, <1>3, <1>7, <1>v, ReplaceGood
<1>9. NewTransport(w) = v
  BY <1>t, <1>u, <1>v DEF NewTransport
<1>10. QED
  BY <1>6, <1>8, <1>9 DEF SameChoice

\* start_bluetooth: whatever becomes of the supervisor, the receiver to restore is
\* the one that was chosen last.
LEMMA StartGood ==
  ASSUME NEW b \in Bounds, NEW w, Good(b, w), NEW made \in BOOLEAN
  PROVE  Good(b, Start(w, made))
<1>1. w \in Worlds(b)
  BY DEF Good, Sound, Core
<1>p. PICK p : p = [w EXCEPT !.app.ready = FALSE, !.app.selected = None]
  OBVIOUS
<1>i. PICK i : i = Invalidate(p, "SessionChanged")
  OBVIOUS
<1>o. PICK o : o = SessionOver(i)
  OBVIOUS
<1>2. /\ p \in Worlds(b)
      /\ p.hook = w.hook /\ p.seen = w.seen /\ p.batch = w.batch /\ p.tr = w.tr
      /\ p.app.test = w.app.test /\ p.app.tests = w.app.tests /\ p.app.receipt = w.app.receipt
      /\ p.app.ready = FALSE /\ p.app.selected = None
      /\ p.app.restore = w.app.restore /\ p.app.remembered = w.app.remembered
  BY <1>1, <1>p DEF Worlds, Apps, Receivers
<1>3. AppGood(b, p.app, p.tr) /\ ChoiceGood(p.app, p.seen) /\ Owed(p.app, p.tr)
  BY <1>2 DEF Good, Sound, Core, AppGood, ChoiceGood, Owed
<1>4. Good(b, p)
  BY <1>2, <1>3 DEF Good, Sound, Core
<1>5. Good(b, i) /\ Still(i) /\ i.app.test = 0 /\ SameChoice(p, i)
  BY <1>4, <1>i, InvalidateGood
<1>6. Sound(b, o) /\ o.app = i.app /\ o.seen = i.seen
  BY <1>5, <1>o, SessionOverSound DEF Good
<1>n. PICK n : /\ Good(b, n) /\ SameChoice(o, n)
               /\ Start(w, made) = [n EXCEPT !.seen.chosen = w.app.restore]
  <2>1. CASE o.tr.life = "up"
    <3>c. PICK c : c = Change(o, "Restart", None)
      OBVIOUS
    <3>r. PICK r : r = Require(c)
      OBVIOUS
    <3>1. Sound(b, c) /\ Stale(c) /\ SameChoice(o, c)
      BY <1>6, <2>1, <3>c, ChangeSound DEF Receivers
    <3>2. Sound(b, r) /\ r.app = c.app /\ r.seen = c.seen /\ r.tr.control = c.tr.control
      BY <3>1, <3>r, RequireSound
    <3>3. Good(b, c) /\ Good(b, r) /\ SameChoice(o, r)
      BY <3>1, <3>2, StalePrompt DEF Good, SameChoice
    <3>4. Start(w, made) = [(IF CanRequest(o) THEN r ELSE c) EXCEPT !.seen.chosen = w.app.restore]
      BY <1>p, <1>i, <1>o, <2>1, <3>c, <3>r DEF Start
    <3>5. QED
      BY <3>1, <3>3, <3>4
  <2>2. CASE o.tr.life # "up" /\ made
    <3>n. PICK n : n = NewTransport(o)
      OBVIOUS
    <3>1. Good(b, n) /\ SameChoice(o, n)
      BY <1>5, <1>6, <3>n, NewTransportGood
    <3>2. Start(w, made) = [n EXCEPT !.seen.chosen = w.app.restore]
      BY <1>p, <1>i, <1>o, <2>2, <3>n DEF Start
    <3>3. QED
      BY <3>1, <3>2
  <2>3. CASE o.tr.life # "up" /\ ~made
    <3>n. PICK n : n = [o EXCEPT !.tr = NoTransport, !.app.now = FALSE]
      OBVIOUS
    <3>1. NoTransport \in Transports /\ NoTransport.life = "none" /\ NoTransport.control = <<>>
      BY NoTransportTyped
    <3>2. o \in Worlds(b)
      BY <1>6 DEF Sound, Core
    <3>3. /\ n \in Worlds(b)
          /\ n.hook = o.hook /\ n.seen = o.seen /\ n.batch = o.batch /\ n.tr = NoTransport
          /\ n.app.test = o.app.test /\ n.app.tests = o.app.tests
          /\ n.app.ready = o.app.ready /\ n.app.selected = o.app.selected
          /\ n.app.restore = o.app.restore /\ n.app.remembered = o.app.remembered
      BY <3>1, <3>2, <3>n DEF Worlds, Apps
    <3>4. n.app.selected = None
      BY <1>2, <1>5, <1>6, <3>3 DEF SameChoice
    <3>5. ChannelGood(n.tr)
      BY <3>1, <3>3, RuntimeAssumption DEF ChannelGood
    <3>6. AppGood(b, n.app, n.tr) /\ Owed(n.app, n.tr)
      BY <1>5, <1>6, <3>3, <3>4 DEF Sound, Core, AppGood, Owed
    <3>7. Core(b, n) /\ SameChoice(o, n)
      BY <1>6, <3>3, <3>5, <3>6 DEF Sound, Core, SameChoice
    <3>8. Good(b, n)
      <4>1. Sound(b, n)
        BY <1>6, <3>7, SameChoiceSound
      <4>2. Prompt(n.tr.control)
        BY <3>1, <3>3 DEF Prompt
      <4>3. QED
        BY <4>1, <4>2 DEF Good
    <3>9. Start(w, made) = [n EXCEPT !.seen.chosen = w.app.restore]
      BY <1>p, <1>i, <1>o, <2>3, <3>n DEF Start
    <3>10. QED
      BY <3>7, <3>8, <3>9
  <2>4. QED
    BY <2>1, <2>2, <2>3
<1>v. PICK v : v = [n EXCEPT !.seen.chosen = w.app.restore]
  OBVIOUS
<1>7. n \in Worlds(b) /\ w.app.restore \in Receivers
  BY <1>1, <1>n DEF Good, Sound, Core, Worlds, Apps
<1>8. /\ v \in Worlds(b)
      /\ v.app = n.app /\ v.hook = n.hook /\ v.tr = n.tr /\ v.batch = n.batch
      /\ v.seen.chosen = w.app.restore /\ v.seen.forgotten = n.seen.forgotten
  BY <1>7, <1>v DEF Worlds, Observers
<1>9. /\ v.app.selected = None /\ v.app.restore = w.app.restore /\ v.app.remembered = w.app.remembered
      /\ v.seen.forgotten = w.seen.forgotten
  BY <1>2, <1>5, <1>6, <1>8, <1>n DEF SameChoice
<1>10. ChoiceGood(v.app, v.seen)
  BY <1>8, <1>9 DEF Good, Sound, ChoiceGood
<1>11. QED
  BY <1>8, <1>10, <1>n, <1>v DEF Good, Sound, Core

\* choose: the receiver that is chosen is the one that is shown.
LEMMA ChooseGood ==
  ASSUME NEW b \in Bounds, NEW w, Good(b, w), NEW d \in Device
  PROVE  Good(b, Choose(w, d))
<1>1. w \in Worlds(b) /\ d \in Receivers
  BY DEF Good, Sound, Core, Receivers
<1>r. PICK r : r = [w EXCEPT !.app.restore = None]
  OBVIOUS
<1>2. /\ r \in Worlds(b)
      /\ r.hook = w.hook /\ r.seen = w.seen /\ r.batch = w.batch /\ r.tr = w.tr
      /\ r.app.test = w.app.test /\ r.app.tests = w.app.tests /\ r.app.receipt = w.app.receipt
      /\ r.app.ready = w.app.ready /\ r.app.selected = w.app.selected
      /\ r.app.restore = None /\ r.app.remembered = w.app.remembered
  BY <1>1, <1>r DEF Worlds, Apps, Receivers
<1>3. AppGood(b, r.app, r.tr) /\ ChoiceGood(r.app, r.seen) /\ Owed(r.app, r.tr)
  BY <1>2 DEF Good, Sound, Core, AppGood, ChoiceGood, Owed
<1>4. Good(b, r)
  BY <1>2, <1>3 DEF Good, Sound, Core
<1>5. CASE w.tr.life = "none"
  BY <1>4, <1>5, <1>r DEF Choose
<1>6. CASE w.tr.life # "none"
  <2>a. PICK a : a = Change(r, "Select", d)
    OBVIOUS
  <2>q. PICK q : q = Require(a)
    OBVIOUS
  <2>p. PICK p : p = [q EXCEPT !.app.ready = FALSE, !.app.selected = d,
                               !.seen.chosen = d, !.seen.forgotten = FALSE]
    OBVIOUS
  <2>i. PICK i : i = Invalidate(p, "SessionChanged")
    OBVIOUS
  <2>o. PICK o : o = SessionOver(i)
    OBVIOUS
  <2>1. Sound(b, a) /\ Stale(a) /\ SameChoice(r, a) /\ a.tr.life = w.tr.life
    BY <1>1, <1>2, <1>4, <1>6, <2>a, ChangeSound DEF Good
  <2>2. Good(b, a)
    BY <2>1, StalePrompt DEF Good
  <2>3. /\ Sound(b, q) /\ q \in Worlds(b)
        /\ q.app = a.app /\ q.tr.life = a.tr.life /\ q.tr.control = a.tr.control
    BY <2>1, <2>q, RequireSound DEF Sound, Core
  <2>4. /\ p \in Worlds(b)
        /\ p.hook = q.hook /\ p.batch = q.batch /\ p.tr = q.tr
        /\ p.app.test = q.app.test /\ p.app.tests = q.app.tests /\ p.app.receipt = q.app.receipt
        /\ p.app.ready = FALSE /\ p.app.selected = d
        /\ p.app.restore = q.app.restore /\ p.app.remembered = q.app.remembered
        /\ p.seen.chosen = d /\ p.seen.forgotten = FALSE
    BY <1>1, <2>3, <2>p DEF Worlds, Apps, Observers
  <2>5. p.app.restore = None
    BY <1>2, <2>1, <2>3, <2>4 DEF SameChoice
  <2>6. AppGood(b, p.app, p.tr) /\ ChoiceGood(p.app, p.seen) /\ Owed(p.app, p.tr)
    BY <1>6, <2>1, <2>3, <2>4, <2>5 DEF Sound, Core, AppGood, ChoiceGood, Owed
  <2>7. Sound(b, p) /\ Stale(p)
    BY <2>1, <2>3, <2>4, <2>6 DEF Sound, Core, Stale
  <2>8. Good(b, p)
    BY <2>7, StalePrompt DEF Good
  <2>9. Good(b, i) /\ Still(i) /\ Stale(i)
    BY <2>7, <2>8, <2>i, InvalidateGood
  <2>10. Sound(b, o) /\ Stale(o)
    BY <2>9, <2>o, SessionOverSound DEF Good
  <2>11. Good(b, o)
    BY <2>10, StalePrompt DEF Good
  <2>12. Choose(w, d) = IF ~CanRequest(w) THEN a ELSE o
    BY <1>6, <1>r, <2>a, <2>q, <2>p, <2>i, <2>o DEF Choose
  <2>13. QED
    BY <2>2, <2>11, <2>12
<1>7. QED
  BY <1>5, <1>6

\* disconnect: nobody is shown, and nobody is remembered.
LEMMA DisconnectGood ==
  ASSUME NEW b \in Bounds, NEW w, Good(b, w)
  PROVE  Good(b, Disconnect(w))
<1>1. w \in Worlds(b)
  BY DEF Good, Sound, Core
<1>f. PICK f : f = [w EXCEPT !.app.restore = None, !.app.remembered = None,
                             !.seen.chosen = None, !.seen.forgotten = TRUE]
  OBVIOUS
<1>2. /\ f \in Worlds(b)
      /\ f.hook = w.hook /\ f.batch = w.batch /\ f.tr = w.tr
      /\ f.app.test = w.app.test /\ f.app.tests = w.app.tests /\ f.app.receipt = w.app.receipt
      /\ f.app.ready = w.app.ready /\ f.app.selected = w.app.selected
      /\ f.app.restore = None /\ f.app.remembered = None
      /\ f.seen.chosen = None /\ f.seen.forgotten = TRUE
  BY <1>1, <1>f DEF Worlds, Apps, Observers, Receivers
<1>3. AppGood(b, f.app, f.tr) /\ Owed(f.app, f.tr)
  BY <1>2 DEF Good, Sound, Core, AppGood, Owed
<1>4. Core(b, f) /\ Prompt(f.tr.control)
  BY <1>2, <1>3 DEF Good, Sound, Core
<1>5. CASE w.tr.life = "none"
  <2>1. f.app.selected = None
    BY <1>2, <1>3, <1>5 DEF AppGood
  <2>2. ChoiceGood(f.app, f.seen)
    BY <1>2, <2>1 DEF ChoiceGood
  <2>3. Disconnect(w) = f
    BY <1>5, <1>f DEF Disconnect
  <2>4. QED
    BY <1>4, <2>2, <2>3 DEF Good, Sound
<1>6. CASE w.tr.life # "none"
  <2>a. PICK a : a = Change(f, "Select", None)
    OBVIOUS
  <2>p. PICK p : p = [a EXCEPT !.app.ready = FALSE, !.app.selected = None]
    OBVIOUS
  <2>i. PICK i : i = Invalidate(p, "SessionChanged")
    OBVIOUS
  <2>o. PICK o : o = SessionOver(i)
    OBVIOUS
  <2>q. PICK q : q = Require(o)
    OBVIOUS
  <2>1. Core(b, a) /\ Stale(a) /\ SameChoice(f, a) /\ a \in Worlds(b)
    BY <1>2, <1>4, <1>6, <2>a, ChangeCore DEF Core, Receivers
  <2>2. /\ p \in Worlds(b)
        /\ p.hook = a.hook /\ p.batch = a.batch /\ p.tr = a.tr /\ p.seen = a.seen
        /\ p.app.test = a.app.test /\ p.app.tests = a.app.tests /\ p.app.receipt = a.app.receipt
        /\ p.app.ready = FALSE /\ p.app.selected = None
        /\ p.app.restore = a.app.restore /\ p.app.remembered = a.app.remembered
    BY <2>1, <2>p DEF Worlds, Apps, Receivers
  <2>3. AppGood(b, p.app, p.tr) /\ Owed(p.app, p.tr)
    BY <2>1, <2>2 DEF Core, AppGood, Owed
  <2>4. ChoiceGood(p.app, p.seen)
    BY <1>2, <2>1, <2>2 DEF SameChoice, ChoiceGood
  <2>5. Sound(b, p) /\ Stale(p)
    BY <2>1, <2>2, <2>3, <2>4 DEF Sound, Core, Stale
  <2>6. Good(b, p)
    BY <2>5, StalePrompt DEF Good
  <2>7. Good(b, i) /\ Still(i) /\ Stale(i)
    BY <2>5, <2>6, <2>i, InvalidateGood
  <2>8. Sound(b, o) /\ Stale(o)
    BY <2>7, <2>o, SessionOverSound DEF Good
  <2>9. Good(b, o)
    BY <2>8, StalePrompt DEF Good
  <2>10. Sound(b, q) /\ q.tr.control = o.tr.control
    BY <2>8, <2>q, RequireSound
  <2>11. Good(b, q)
    BY <2>9, <2>10 DEF Good
  <2>12. Disconnect(w) = IF CanRequest(f) THEN q ELSE o
    BY <1>6, <1>f, <2>a, <2>p, <2>i, <2>o, <2>q DEF Disconnect
  <2>13. QED
    BY <2>9, <2>11, <2>12
<1>7. QED
  BY <1>5, <1>6

-----------------------------------------------------------------------------
(* tick, up to the batch of events.                                         *)

\* A snapshot that is taken shows the chosen receiver or nobody.
LEMMA TakeSnapshotGood ==
  ASSUME NEW b \in Bounds, NEW w, Good(b, w)
  PROVE  Good(b, TakeSnapshot(w))
<1>1. w \in Worlds(b)
  BY DEF Good, Sound, Core
<1>s. PICK s : s = w.tr.snapshot
  OBVIOUS
<1>2. s \in Snapshots
  BY <1>1, <1>s DEF Worlds, Transports
<1>y. PICK y \in BOOLEAN : y = (s.ready /\ s.selected # None /\ w.tr.life # "stopped")
  BY <1>2 DEF Snapshots
<1>x. PICK x \in BOOLEAN : x = (s.now /\ y)
  BY <1>2 DEF Snapshots
<1>r. PICK r : r = [w EXCEPT !.tr.unread = FALSE, !.tr.snapshot = NoSnapshot]
  OBVIOUS
<1>3. NoSnapshot \in Snapshots /\ NoSnapshot.selected = None
  BY DEF NoSnapshot, Snapshots, Receivers
<1>4. /\ r \in Worlds(b)
      /\ r.app = w.app /\ r.hook = w.hook /\ r.seen = w.seen /\ r.batch = w.batch
      /\ r.tr.life = w.tr.life /\ r.tr.control = w.tr.control /\ r.tr.pending = w.tr.pending
      /\ r.tr.snapshot = NoSnapshot
  BY <1>1, <1>3, <1>r DEF Worlds, Transports
<1>5. ChannelGood(r.tr) /\ AppGood(b, r.app, r.tr) /\ Owed(r.app, r.tr)
  BY <1>3, <1>4 DEF Good, Sound, Core, ChannelGood, AppGood, Owed
<1>6. Good(b, r)
  BY <1>4, <1>5 DEF Good, Sound, Core
<1>7. CASE TakeSnapshot(w) = r
  BY <1>6, <1>7
<1>8. CASE /\ w.tr.life # "none" /\ Admits(w, s)
           /\ TakeSnapshot(w) = [r EXCEPT !.app.now        = s.now /\ y,
                                          !.app.selected   = s.selected,
                                          !.app.ready      = y,
                                          !.app.switching  = s.switching,
                                          !.app.remembered = IF y THEN s.selected ELSE @,
                                          !.app.restore    = IF y THEN None ELSE @]
  <2>m. PICK m \in Receivers : m = IF y THEN s.selected ELSE r.app.remembered
    BY <1>2, <1>4 DEF Worlds, Apps, Snapshots
  <2>o. PICK o \in Receivers : o = IF y THEN None ELSE r.app.restore
    BY <1>4 DEF Worlds, Apps, Receivers
  <2>v. PICK v : v = [r EXCEPT !.app.now = x, !.app.selected = s.selected, !.app.ready = y,
                               !.app.switching = s.switching, !.app.remembered = m, !.app.restore = o]
    OBVIOUS
  <2>1. TakeSnapshot(w) = v
    BY <1>8, <1>x, <2>m, <2>o, <2>v
  <2>2. /\ v \in Worlds(b)
        /\ v.hook = r.hook /\ v.seen = r.seen /\ v.batch = r.batch /\ v.tr = r.tr
        /\ v.app.test = r.app.test /\ v.app.tests = r.app.tests /\ v.app.receipt = r.app.receipt
        /\ v.app.ready = y /\ v.app.selected = s.selected
        /\ v.app.restore = o /\ v.app.remembered = m
    BY <1>2, <1>4, <2>v DEF Worlds, Apps, Snapshots
  <2>3. y => s.selected # None
    BY <1>y
  <2>4. AppGood(b, v.app, v.tr) /\ Owed(v.app, v.tr)
    BY <1>4, <1>5, <1>8, <2>2, <2>3 DEF AppGood, Owed
  <2>5. s.selected \in {None, w.seen.chosen}
    <3>1. CASE w.tr.life = "stopped"
      BY <1>s, <3>1 DEF Good, Sound, Core, ChannelGood
    <3>2. CASE w.tr.life # "stopped"
      BY <1>8, <3>2 DEF Admits, Good, Sound, ChoiceGood
    <3>3. QED
      BY <3>1, <3>2
  <2>6. ChoiceGood(v.app, v.seen)
    BY <1>4, <2>2, <2>3, <2>5, <2>m, <2>o DEF Good, Sound, ChoiceGood
  <2>7. QED
    BY <1>4, <1>6, <2>1, <2>2, <2>4, <2>6 DEF Good, Sound, Core
<1>9. QED
  BY <1>7, <1>8, <1>s, <1>y, <1>r DEF TakeSnapshot

\* A retry is a start.
LEMMA RetryGood ==
  ASSUME NEW b \in Bounds, NEW w, Good(b, w), NEW due \in BOOLEAN, NEW made \in BOOLEAN
  PROVE  Good(b, Retry(w, due, made))
BY StartGood DEF Retry

\* A session that is lost is over: what was captured in it is not sent in another.
LEMMA NoticeLossGood ==
  ASSUME NEW b \in Bounds, NEW w, Good(b, w)
  PROVE  Good(b, NoticeLoss(w))
<1>i. PICK i : i = Invalidate(w, "TransportLost")
  OBVIOUS
<1>o. PICK o : o = SessionOver(i)
  OBVIOUS
<1>1. Good(b, i) /\ Still(i) /\ i.tr.life = w.tr.life /\ (w.tr.life # "none" => Stale(i))
  BY <1>i, InvalidateGood
<1>2. Stale(i)
  <2>1. CASE w.tr.life = "none"
    <3>1. i.tr.control = <<>>
      BY <1>1, <2>1 DEF Good, Sound, Core, ChannelGood
    <3>2. QED
      BY <3>1 DEF Stale
  <2>2. QED
    BY <1>1, <2>1
<1>3. Sound(b, o) /\ Stale(o)
  BY <1>1, <1>2, <1>o, SessionOverSound DEF Good
<1>4. Good(b, o)
  BY <1>3, StalePrompt DEF Good
<1>u. PICK u : u = IF w.app.lastReady /\ ~w.app.ready /\ ~w.app.switching THEN o ELSE w
  OBVIOUS
<1>5. Good(b, u) /\ u \in Worlds(b) /\ w \in Worlds(b)
  BY <1>4, <1>u DEF Good, Sound, Core
<1>v. PICK v : v = [u EXCEPT !.app.lastReady = w.app.ready]
  OBVIOUS
<1>6. w.app.ready \in BOOLEAN
  BY <1>5 DEF Worlds, Apps
<1>7. /\ v \in Worlds(b)
      /\ v.hook = u.hook /\ v.tr = u.tr /\ v.seen = u.seen /\ v.batch = u.batch
      /\ v.app.test = u.app.test /\ v.app.tests = u.app.tests /\ v.app.receipt = u.app.receipt
      /\ v.app.ready = u.app.ready /\ v.app.selected = u.app.selected
      /\ v.app.restore = u.app.restore /\ v.app.remembered = u.app.remembered
  BY <1>5, <1>6, <1>v DEF Worlds, Apps
<1>8. Good(b, v)
  BY <1>5, <1>7, FlagsGood
<1>9. NoticeLoss(w) = v
  BY <1>i, <1>o, <1>u, <1>v DEF NoticeLoss
<1>10. QED
  BY <1>8, <1>9

\* A failed passthrough ends listening before the router is told.
LEMMA ConfigureInputGood ==
  ASSUME NEW b \in Bounds, NEW w, Good(b, w), NEW fault
  PROVE  Good(b, ConfigureInput(w, fault))
<1>x. PICK x \in BOOLEAN : x = (w.hook.alive = "up")
  OBVIOUS
<1>a. PICK a : a = [w EXCEPT !.app.input = x]
  OBVIOUS
<1>l. PICK l : l = [a EXCEPT !.app.listening = FALSE]
  OBVIOUS
<1>i. PICK i : i = Invalidate(l, "TransportLost")
  OBVIOUS
<1>1. Good(b, a)
  BY <1>a, InputGood
<1>2. Good(b, l)
  BY <1>1, <1>l, ListeningGood
<1>3. Good(b, i)
  BY <1>2, <1>i, InvalidateGood
<1>4. ConfigureInput(w, fault) = Configure(IF fault /\ w.hook.alive # "none" THEN i ELSE a)
  BY <1>x, <1>a, <1>l, <1>i DEF ConfigureInput
<1>5. QED
  BY <1>1, <1>3, <1>4, ConfigureGood

\* A listener that ended holds nothing, so it can be forgotten.
LEMMA NoticeInputGood ==
  ASSUME NEW b \in Bounds, NEW w, Good(b, w), NEW late
  PROVE  Good(b, NoticeInput(w, late))
<1>1. CASE w.hook.alive # "down"
  BY <1>1 DEF NoticeInput
<1>2. CASE w.hook.alive = "down"
  <2>l. PICK l : l = [w EXCEPT !.app.listening = FALSE]
    OBVIOUS
  <2>i. PICK i : i = Invalidate(l, "ListenerStopped")
    OBVIOUS
  <2>f. PICK f : f = FinishRecording(i, late)
    OBVIOUS
  <2>v. PICK v : v = [f EXCEPT !.hook.alive = "none"]
    OBVIOUS
  <2>1. Good(b, l) /\ l.hook = w.hook
    BY <2>l, ListeningGood
  <2>2. Good(b, i) /\ i.hook.alive = l.hook.alive
    BY <2>1, <2>i, InvalidateGood
  <2>3. Good(b, f) /\ f.hook.alive = i.hook.alive
    BY <2>2, <2>f, FinishRecordingGood
  <2>4. f.hook.hold = "none" /\ f \in Worlds(b)
    BY <1>2, <2>1, <2>2, <2>3 DEF Good, Sound, Core, HookGood
  <2>5. /\ v \in Worlds(b)
        /\ v.app = f.app /\ v.tr = f.tr /\ v.seen = f.seen /\ v.batch = f.batch
        /\ v.hook.events = f.hook.events /\ v.hook.hold = f.hook.hold
    BY <2>4, <2>v DEF Worlds, Hooks
  <2>6. HookGood(v.hook)
    BY <2>3, <2>4, <2>5 DEF Good, Sound, Core, HookGood
  <2>7. NoticeInput(w, late) = v
    BY <1>2, <2>l, <2>i, <2>f, <2>v DEF NoticeInput
  <2>8. QED
    BY <2>3, <2>5, <2>6, <2>7 DEF Good, Sound, Core
<1>3. QED
  BY <1>1, <1>2

\* A recording ends when the window is left, and starts when no key is held.
LEMMA NoticeWindowGood ==
  ASSUME NEW b \in Bounds, NEW w, Good(b, w), NEW foreground, NEW keys, NEW late
  PROVE  Good(b, NoticeWindow(w, foreground, keys, late))
<1>l. PICK l : l = IF foreground THEN w ELSE FinishRecording(w, late)
  OBVIOUS
<1>d. PICK d : d = Discard(l, late)
  OBVIOUS
<1>r. PICK r : r = [d EXCEPT !.app.capture = "recording"]
  OBVIOUS
<1>1. Good(b, l)
  BY <1>l, FinishRecordingGood
<1>2. Good(b, d)
  BY <1>1, <1>d, DiscardGood
<1>3. Good(b, r)
  BY <1>2, <1>r, CaptureGood
<1>4. Good(b, NewEpoch(r))
  BY <1>3, NewEpochGood
<1>5. NoticeWindow(w, foreground, keys, late)
      = IF l.app.capture = "waiting" /\ ~keys THEN NewEpoch(r) ELSE l
  BY <1>l, <1>d, <1>r DEF NoticeWindow
<1>6. QED
  BY <1>1, <1>4, <1>5

-----------------------------------------------------------------------------
(* The rest of tick: the batch of events.                                   *)

\* The batch is of the tick alone.
LEMMA BatchGood ==
  ASSUME NEW b \in Bounds, NEW w, Good(b, w), NEW x \in Seq(Events), Timely(x)
  PROVE  LET v == [w EXCEPT !.batch = x] IN Good(b, v) /\ v.batch = x
<1>1. w \in Worlds(b)
  BY DEF Good, Sound, Core
<1>v. PICK v : v = [w EXCEPT !.batch = x]
  OBVIOUS
<1>2. /\ v \in Worlds(b)
      /\ v.app = w.app /\ v.hook = w.hook /\ v.tr = w.tr /\ v.seen = w.seen /\ v.batch = x
  BY <1>1, <1>v DEF Worlds
<1>3. QED
  BY <1>2, <1>v DEF Good, Sound, Core

\* An event of the batch is applied, recorded or dropped by its age.
LEMMA HandleGood ==
  ASSUME NEW b \in Bounds, NEW w, Good(b, w), NEW e \in Events, NEW late, NEW ends,
         IsPress(e) /\ e.fresh => e.current
  PROVE  Good(b, Handle(w, e, late, ends)) /\ SameBatch(w, Handle(w, e, late, ends))
<1>y. PICK y \in BOOLEAN : y = (w.seen.lost \/ e.kind = "release")
  BY DEF Good, Sound, Core, Worlds, Observers
<1>u. PICK u : u = [w EXCEPT !.seen.lost = y]
  OBVIOUS
<1>1. Good(b, u) /\ SameBatch(w, u)
  <2>1. Sound(b, u) /\ u.batch = w.batch /\ u.tr = w.tr
    BY <1>u, LostSound DEF Good
  <2>2. QED
    BY <2>1 DEF Good, SameBatch
<1>2. CASE Handle(w, e, late, ends) = Apply(w, e, late)
  BY <1>2, ApplyGood
<1>3. CASE Handle(w, e, late, ends) = Recorded(w, ends, late)
  BY <1>3, RecordedGood
<1>4. CASE Handle(w, e, late, ends) = [w EXCEPT !.seen.lost = @ \/ e.kind = "release"]
  <2>1. Handle(w, e, late, ends) = u
    BY <1>y, <1>u, <1>4
  <2>2. QED
    BY <1>1, <2>1
<1>5. CASE Handle(w, e, late, ends) = w
  BY <1>5 DEF SameBatch
<1>6. QED
  BY <1>2, <1>3, <1>4, <1>5 DEF Handle

\* One event of the batch.
HandleNext(v, late, ends) == Handle([v EXCEPT !.batch = Tail(@)], Head(v.batch), late, ends)

\* The world in which the batch has been taken from the channel.
Taken(w) == [w EXCEPT !.batch = w.hook.events, !.hook.events = <<>>]

\* The function that the fold over the batch is defined by.
HandleReads(iter, w, late, ends) ==
  iter = [s \in SUBSET DOMAIN w.hook.events |->
            IF s = {} THEN Taken(w) ELSE HandleNext(iter[s \ {Max(s)}], late, ends)]

\* The batch is handled by a function that unfolds event by event.
LEMMA HandleUnfolds ==
  ASSUME NEW w, NEW late, NEW ends, \E iter : HandleReads(iter, w, late, ends)
  PROVE \E iter : /\ HandleReads(iter, w, late, ends)
                  /\ HandleEvents(w, late, ends) = iter[DOMAIN w.hook.events]
<1> DEFINE chosen == CHOOSE iter : HandleReads(iter, w, late, ends)
<1>1. HandleReads(chosen, w, late, ends)
  OBVIOUS
<1>2. HandleEvents(w, late, ends) = chosen[DOMAIN w.hook.events]
  BY DEF HandleEvents, FoldLeft, MapThenFoldSet, HandleReads, HandleNext, Taken
<1>3. QED
  BY <1>1, <1>2

\* The batch is taken by a Good world.
LEMMA TakenGood ==
  ASSUME NEW b \in Bounds, NEW w, Good(b, w)
  PROVE  Good(b, Taken(w)) /\ Len(Taken(w).batch) = Len(w.hook.events)
<1>1. w \in Worlds(b) /\ w.hook.events \in Seq(Events) /\ Timely(w.hook.events)
  BY DEF Good, Sound, Core, HookGood, Worlds, Hooks
<1>x. PICK x : x = w.hook.events
  OBVIOUS
<1>m. PICK m : m = [w EXCEPT !.batch = x]
  OBVIOUS
<1>v. PICK v : v = [m EXCEPT !.hook.events = <<>>]
  OBVIOUS
<1>2. Good(b, m) /\ m.batch = x
  BY <1>1, <1>x, <1>m, BatchGood
<1>3. Sound(b, v) /\ v.batch = m.batch /\ v.tr = m.tr
  <2>1. <<>> \in Seq(Events) /\ Timely(<<>>)
    BY DEF Timely
  <2>2. QED
    BY <1>2, <1>v, <2>1, EventsSound DEF Good
<1>4. Taken(w) = v
  BY <1>1, <1>x, <1>m, <1>v DEF Taken, Worlds
<1>5. QED
  BY <1>2, <1>3, <1>4, <1>x DEF Good

\* One event of the batch is handled by a Good world.
LEMMA HandleNextGood ==
  ASSUME NEW b \in Bounds, NEW v, Good(b, v), NEW late, NEW ends, Len(v.batch) > 0
  PROVE  LET u == HandleNext(v, late, ends) IN
         Good(b, u) /\ Len(u.batch) = Len(v.batch) - 1
<1>1. v.batch \in Seq(Events) /\ Timely(v.batch)
  BY DEF Good, Sound, Core, Worlds
<1>e. PICK e : e = Head(v.batch)
  OBVIOUS
<1>x. PICK x : x = Tail(v.batch)
  OBVIOUS
<1>2. /\ x \in Seq(Events) /\ Timely(x) /\ Len(x) = Len(v.batch) - 1
      /\ e \in Events /\ (IsPress(e) /\ e.fresh => e.current)
  BY <1>1, <1>e, <1>x, TailTimely
<1>r. PICK r : r = [v EXCEPT !.batch = x]
  OBVIOUS
<1>3. Good(b, r) /\ r.batch = x
  BY <1>2, <1>r, BatchGood
<1>u. PICK u : u = Handle(r, e, late, ends)
  OBVIOUS
<1>4. Good(b, u) /\ SameBatch(r, u)
  BY <1>2, <1>3, <1>u, HandleGood
<1>5. HandleNext(v, late, ends) = u
  BY <1>e, <1>x, <1>r, <1>u DEF HandleNext
<1>6. QED
  BY <1>2, <1>3, <1>4, <1>5 DEF SameBatch

\* The whole batch is handled by a Good world, which leaves none of it, and
\* whatever holds of a world after one more event holds in the end.
LEMMA HandleEventsStays ==
  ASSUME NEW b \in Bounds, NEW w, Good(b, w), NEW late, NEW ends, NEW C, Taken(w) \in C,
         \A v \in C : Good(b, v) /\ Len(v.batch) > 0 => HandleNext(v, late, ends) \in C
  PROVE  LET v == HandleEvents(w, late, ends) IN
         v \in C /\ Good(b, v) /\ v.batch = <<>>
<1>n. PICK n \in Nat : n = Len(w.hook.events)
  BY DEF Good, Sound, Core, Worlds, Hooks
<1>1. DOMAIN w.hook.events = 1 .. n
  BY <1>n DEF Good, Sound, Core, Worlds, Hooks
<1>o. PICK o : o = Taken(w)
  OBVIOUS
<1> DEFINE Rest(k) == {v \in Worlds(b) : v \in C /\ Good(b, v) /\ Len(v.batch) = n - k}
<1>P. PICK P : P = [k \in 0 .. n |-> Rest(k)]
  OBVIOUS
<1>2. o \in P[0]
  <2>1. o \in C /\ Good(b, o) /\ Len(o.batch) = n
    BY <1>n, <1>o, TakenGood
  <2>2. o \in Rest(0)
    BY <2>1 DEF Good, Sound, Core
  <2>3. QED
    BY <1>P, <2>2
<1>3. ASSUME NEW k \in 1 .. n, NEW v \in P[k - 1]
      PROVE  v \in Worlds(b) /\ HandleNext(v, late, ends) \in P[k]
  <2>1. k - 1 \in 0 .. n /\ k \in 0 .. n /\ n - (k - 1) > 0 /\ n - (k - 1) - 1 = n - k
    OBVIOUS
  <2>2. v \in Worlds(b) /\ v \in C /\ Good(b, v) /\ Len(v.batch) = n - (k - 1)
    BY <1>P, <2>1
  <2>u. PICK u : u = HandleNext(v, late, ends)
    OBVIOUS
  <2>3. u \in C /\ Good(b, u) /\ Len(u.batch) = Len(v.batch) - 1
    BY <2>1, <2>2, <2>u, HandleNextGood
  <2>4. u \in Rest(k)
    BY <2>1, <2>2, <2>3 DEF Good, Sound, Core
  <2>5. QED
    BY <1>P, <2>1, <2>2, <2>4, <2>u
<1>4. \E iter : HandleReads(iter, w, late, ends)
  <2>s. PICK step : step = [p \in Worlds(b) \X (1 .. n) |-> HandleNext(p[1], late, ends)]
    OBVIOUS
  <2>f. PICK iter : FoldReads(iter, n, o, step)
    BY FoldExists
  <2>1. iter = [s \in SUBSET (1 .. n) |-> IF s = {} THEN o ELSE step[<<iter[s \ {Max(s)}], Max(s)>>]]
    BY <2>f DEF FoldReads
  <2>2. \A s \in SUBSET (1 .. n) : iter[s] \in P[Cardinality(s)]
    <3>1. iter[{}] \in P[0]
      BY <1>2, <2>1
    <3>2. ASSUME NEW s \in SUBSET (1 .. n), s # {}, iter[s \ {Max(s)}] \in P[Cardinality(s) - 1]
          PROVE  iter[s] \in P[Cardinality(s)]
      <4>1. Max(s) \in 1 .. n /\ Cardinality(s) \in 1 .. n
        BY <3>2, LastPosition
      <4>2. /\ iter[s \ {Max(s)}] \in Worlds(b)
            /\ HandleNext(iter[s \ {Max(s)}], late, ends) \in P[Cardinality(s)]
        BY <1>3, <3>2, <4>1
      <4>3. iter[s] = HandleNext(iter[s \ {Max(s)}], late, ends)
        BY <2>s, <2>1, <3>2, <4>1, <4>2
      <4>4. QED
        BY <4>2, <4>3
    <3>3. QED
      BY <3>1, <3>2, FoldStays
  <2>3. ASSUME NEW s \in SUBSET (1 .. n), s # {}
        PROVE  iter[s] = HandleNext(iter[s \ {Max(s)}], late, ends)
    <3>1. /\ Max(s) \in 1 .. n /\ s \ {Max(s)} \in SUBSET (1 .. n) /\ Cardinality(s) \in 1 .. n
          /\ Cardinality(s \ {Max(s)}) = Cardinality(s) - 1
      BY <2>3, LastPosition
    <3>2. iter[s \ {Max(s)}] \in Worlds(b)
      BY <1>3, <2>2, <3>1
    <3>3. QED
      BY <2>s, <2>1, <2>3, <3>1, <3>2
  <2>4. HandleReads(iter, w, late, ends)
    BY <1>1, <1>o, <2>1, <2>3 DEF HandleReads
  <2>5. QED
    BY <2>4
<1>5. PICK iter : HandleReads(iter, w, late, ends) /\ HandleEvents(w, late, ends) = iter[1 .. n]
  BY <1>1, <1>4, HandleUnfolds
<1>6. iter[1 .. n] \in P[n]
  <2>1. iter = [s \in SUBSET (1 .. n) |-> IF s = {} THEN o ELSE HandleNext(iter[s \ {Max(s)}], late, ends)]
    BY <1>1, <1>5, <1>o DEF HandleReads
  <2>2. iter[{}] \in P[0]
    BY <1>2, <2>1
  <2>3. ASSUME NEW s \in SUBSET (1 .. n), s # {}, iter[s \ {Max(s)}] \in P[Cardinality(s) - 1]
        PROVE  iter[s] \in P[Cardinality(s)]
    <3>1. Cardinality(s) \in 1 .. n
      BY <2>3, LastPosition
    <3>2. HandleNext(iter[s \ {Max(s)}], late, ends) \in P[Cardinality(s)]
      BY <1>3, <2>3, <3>1
    <3>3. iter[s] = HandleNext(iter[s \ {Max(s)}], late, ends)
      BY <2>1, <2>3
    <3>4. QED
      BY <3>2, <3>3
  <2>4. QED
    BY <2>2, <2>3, FoldStays
<1>h. PICK h : h = HandleEvents(w, late, ends)
  OBVIOUS
<1>7. h \in C /\ Good(b, h) /\ Len(h.batch) = 0 /\ h.batch \in Seq(Events)
  BY <1>5, <1>6, <1>P, <1>h DEF Worlds
<1>8. h.batch = <<>>
  BY <1>7
<1>9. QED
  BY <1>7, <1>8, <1>h

\* In particular the world is Good in the end.
LEMMA HandleEventsGood ==
  ASSUME NEW b \in Bounds, NEW w, Good(b, w), NEW late, NEW ends
  PROVE  Good(b, HandleEvents(w, late, ends)) /\ HandleEvents(w, late, ends).batch = <<>>
<1>1. Taken(w) \in Worlds(b)
  BY TakenGood DEF Good, Sound, Core
<1>2. ASSUME NEW v \in Worlds(b), Good(b, v), Len(v.batch) > 0
      PROVE  HandleNext(v, late, ends) \in Worlds(b)
  BY <1>2, HandleNextGood DEF Good, Sound, Core
<1>3. QED
  BY <1>1, <1>2, HandleEventsStays

-----------------------------------------------------------------------------
(* The rest of tick: the receipts.                                          *)

\* A test whose answer was read is over.
LEMMA SettleGood ==
  ASSUME NEW b \in Bounds, NEW w, Good(b, w), NEW t \in 1 .. b.tests
  PROVE  Good(b, Settle(w, t)) /\ Settle(w, t).batch = w.batch
<1>1. /\ w \in Worlds(b)
      /\ w.app.receipt \in [1 .. b.tests -> Receipts] /\ w.app.test \in Nat
  BY DEF Good, Sound, Core, Worlds, Apps
<1>x. PICK x \in Nat : x = IF w.app.test = t THEN 0 ELSE w.app.test
  BY <1>1
<1>r. PICK r : r = [w.app.receipt EXCEPT ![t] = [answer |-> "none", fresh |-> FALSE]]
  OBVIOUS
<1>2. /\ r \in [1 .. b.tests -> Receipts]
      /\ \A i \in 1 .. b.tests : i # t => r[i] = w.app.receipt[i]
  <2>1. [answer |-> "none", fresh |-> FALSE] \in Receipts
    BY DEF Receipts
  <2>2. QED
    BY <1>1, <1>r, <2>1
<1>v. PICK v : v = [w EXCEPT !.app.test = x, !.app.receipt = r]
  OBVIOUS
<1>3. Settle(w, t) = v
  BY <1>1, <1>x, <1>r, <1>v DEF Settle
<1>4. /\ v \in Worlds(b)
      /\ v.hook = w.hook /\ v.tr = w.tr /\ v.seen = w.seen /\ v.batch = w.batch
      /\ v.app.test = x /\ v.app.tests = w.app.tests /\ v.app.receipt = r
      /\ v.app.ready = w.app.ready /\ v.app.selected = w.app.selected
      /\ v.app.restore = w.app.restore /\ v.app.remembered = w.app.remembered
  BY <1>1, <1>2, <1>v DEF Worlds, Apps
<1>5. w.app.tests \in Nat /\ b.tests \in Nat
  BY <1>1, BoundsTyped DEF Worlds, Apps
<1>6. w.app.test <= w.app.tests /\ w.app.tests <= b.tests /\ x <= w.app.test
  BY <1>1, <1>x DEF Good, Sound, Core, AppGood
<1>7. AppGood(b, v.app, v.tr)
  BY <1>1, <1>4, <1>5, <1>6 DEF Good, Sound, Core, AppGood
<1>8. ChoiceGood(v.app, v.seen)
  BY <1>4 DEF Good, Sound, ChoiceGood
<1>9. Owed(v.app, v.tr)
  <2>1. CASE x = 0
    BY <1>4, <2>1 DEF Owed
  <2>2. CASE x # 0
    <3>1. x = w.app.test /\ x # t /\ x \in 1 .. b.tests
      BY <1>1, <1>x, <1>5, <1>6, <2>2
    <3>2. r[x] = w.app.receipt[x]
      BY <1>2, <3>1
    <3>3. QED
      BY <1>4, <3>1, <3>2 DEF Good, Sound, Core, Owed
  <2>3. QED
    BY <2>1, <2>2
<1>10. QED
  BY <1>3, <1>4, <1>7, <1>8, <1>9 DEF Good, Sound, Core

\* The tests with an answer, in some order.
Answered(w) == {t \in DOMAIN w.app.receipt : w.app.receipt[t].answer \notin {"none", "waiting"}}

\* The function that the fold over the receipts q is defined by.
SettleReads(iter, w, q) ==
  iter = [s \in SUBSET DOMAIN q |-> IF s = {} THEN w ELSE Settle(iter[s \ {Max(s)}], q[Max(s)])]

\* The receipts are read by a function that unfolds receipt by receipt.
LEMMA SettleUnfolds ==
  ASSUME NEW w, NEW q, q = SetToSeq(Answered(w)), \E iter : SettleReads(iter, w, q)
  PROVE \E iter : SettleReads(iter, w, q) /\ ReadReceipts(w) = iter[DOMAIN q]
<1> DEFINE chosen == CHOOSE iter : SettleReads(iter, w, q)
<1>1. SettleReads(chosen, w, q)
  OBVIOUS
<1>2. ReadReceipts(w) = FoldLeft(Settle, w, q)
  BY DEF ReadReceipts, Answered
<1>3. FoldLeft(Settle, w, q) = chosen[DOMAIN q]
  BY DEF FoldLeft, MapThenFoldSet, SettleReads
<1>4. QED
  BY <1>1, <1>2, <1>3

\* An order of finitely many receipts.
LEMMA OrderTyped ==
  ASSUME NEW n \in Nat, NEW S \in SUBSET (1 .. n)
  PROVE  Cardinality(S) \in Nat /\ SetToSeq(S) \in [1 .. Cardinality(S) -> S]
<1>1. IsFiniteSet(S) /\ Cardinality(S) \in Nat
  BY PositionsFinite
<1>2. ExistsBijection(1 .. Cardinality(S), S)
  BY <1>1, FS_CardinalityType
<1>3. \E f \in [1 .. Cardinality(S) -> S] : IsInjective(f)
  BY <1>2 DEF ExistsBijection, Bijection, Injection
<1>4. QED
  BY <1>1, <1>3 DEF SetToSeq

\* All answers are read by a Good world, and whatever holds of a world after
\* one more answer holds in the end.
LEMMA ReadReceiptsStays ==
  ASSUME NEW b \in Bounds, NEW w, Good(b, w), NEW C, w \in C,
         \A v \in C, t \in 1 .. b.tests : Good(b, v) => Settle(v, t) \in C
  PROVE  LET v == ReadReceipts(w) IN
         v \in C /\ Good(b, v) /\ v.batch = w.batch
<1>q. PICK q : q = SetToSeq(Answered(w))
  OBVIOUS
<1>n. PICK n : n = Cardinality(Answered(w))
  OBVIOUS
<1>1. n \in Nat /\ q \in [1 .. n -> 1 .. b.tests]
  <2>1. b.tests \in Nat /\ Answered(w) \in SUBSET (1 .. b.tests)
    BY BoundsTyped DEF Good, Sound, Core, Worlds, Apps, Answered
  <2>2. n \in Nat /\ q \in [1 .. n -> Answered(w)]
    BY <1>q, <1>n, <2>1, OrderTyped
  <2>3. QED
    BY <2>1, <2>2
<1> DEFINE Rest == {v \in Worlds(b) : v \in C /\ Good(b, v) /\ v.batch = w.batch}
<1>P. PICK P : P = [k \in 0 .. n |-> Rest]
  OBVIOUS
<1>2. w \in P[0]
  BY <1>1, <1>P DEF Good, Sound, Core
<1>3. ASSUME NEW k \in 1 .. n, NEW v \in P[k - 1], NEW t \in 1 .. b.tests
      PROVE  v \in Worlds(b) /\ Settle(v, t) \in P[k]
  <2>1. k - 1 \in 0 .. n /\ k \in 0 .. n
    BY <1>1
  <2>2. v \in Worlds(b) /\ v \in C /\ Good(b, v) /\ v.batch = w.batch
    BY <1>P, <2>1
  <2>u. PICK u : u = Settle(v, t)
    OBVIOUS
  <2>3. u \in C /\ Good(b, u) /\ u.batch = v.batch
    BY <2>2, <2>u, SettleGood
  <2>4. u \in Rest
    BY <2>2, <2>3 DEF Good, Sound, Core
  <2>5. QED
    BY <1>P, <2>1, <2>2, <2>4, <2>u
<1>4. \E iter : SettleReads(iter, w, q)
  <2>s. PICK step : step = [p \in Worlds(b) \X (1 .. n) |-> Settle(p[1], q[p[2]])]
    OBVIOUS
  <2>f. PICK iter : FoldReads(iter, n, w, step)
    BY <1>1, FoldExists
  <2>1. iter = [s \in SUBSET (1 .. n) |-> IF s = {} THEN w ELSE step[<<iter[s \ {Max(s)}], Max(s)>>]]
    BY <2>f DEF FoldReads
  <2>2. \A s \in SUBSET (1 .. n) : iter[s] \in P[Cardinality(s)]
    <3>1. iter[{}] \in P[0]
      BY <1>2, <2>1
    <3>2. ASSUME NEW s \in SUBSET (1 .. n), s # {}, iter[s \ {Max(s)}] \in P[Cardinality(s) - 1]
          PROVE  iter[s] \in P[Cardinality(s)]
      <4>1. Max(s) \in 1 .. n /\ Cardinality(s) \in 1 .. n
        BY <1>1, <3>2, LastPosition
      <4>2. /\ iter[s \ {Max(s)}] \in Worlds(b)
            /\ Settle(iter[s \ {Max(s)}], q[Max(s)]) \in P[Cardinality(s)]
        BY <1>1, <1>3, <3>2, <4>1
      <4>3. iter[s] = Settle(iter[s \ {Max(s)}], q[Max(s)])
        BY <2>s, <2>1, <3>2, <4>1, <4>2
      <4>4. QED
        BY <4>2, <4>3
    <3>3. QED
      BY <1>1, <3>1, <3>2, FoldStays
  <2>3. ASSUME NEW s \in SUBSET (1 .. n), s # {}
        PROVE  iter[s] = Settle(iter[s \ {Max(s)}], q[Max(s)])
    <3>1. /\ Max(s) \in 1 .. n /\ s \ {Max(s)} \in SUBSET (1 .. n) /\ Cardinality(s) \in 1 .. n
          /\ Cardinality(s \ {Max(s)}) = Cardinality(s) - 1
      BY <1>1, <2>3, LastPosition
    <3>2. iter[s \ {Max(s)}] \in Worlds(b)
      BY <1>1, <1>3, <2>2, <3>1
    <3>3. QED
      BY <2>s, <2>1, <2>3, <3>1, <3>2
  <2>4. SettleReads(iter, w, q)
    BY <1>1, <2>1, <2>3 DEF SettleReads
  <2>5. QED
    BY <2>4
<1>5. PICK iter : SettleReads(iter, w, q) /\ ReadReceipts(w) = iter[1 .. n]
  BY <1>q, <1>1, <1>4, SettleUnfolds
<1>6. iter[1 .. n] \in P[n]
  <2>1. iter = [s \in SUBSET (1 .. n) |-> IF s = {} THEN w ELSE Settle(iter[s \ {Max(s)}], q[Max(s)])]
    BY <1>1, <1>5 DEF SettleReads
  <2>2. iter[{}] \in P[0]
    BY <1>2, <2>1
  <2>3. ASSUME NEW s \in SUBSET (1 .. n), s # {}, iter[s \ {Max(s)}] \in P[Cardinality(s) - 1]
        PROVE  iter[s] \in P[Cardinality(s)]
    <3>1. Max(s) \in 1 .. n /\ Cardinality(s) \in 1 .. n
      BY <1>1, <2>3, LastPosition
    <3>2. Settle(iter[s \ {Max(s)}], q[Max(s)]) \in P[Cardinality(s)]
      BY <1>1, <1>3, <2>3, <3>1
    <3>3. iter[s] = Settle(iter[s \ {Max(s)}], q[Max(s)])
      BY <2>1, <2>3
    <3>4. QED
      BY <3>2, <3>3
  <2>4. QED
    BY <1>1, <2>2, <2>3, FoldStays
<1>7. QED
  BY <1>1, <1>5, <1>6, <1>P

\* In particular the world is Good in the end.
LEMMA ReadReceiptsGood ==
  ASSUME NEW b \in Bounds, NEW w, Good(b, w)
  PROVE  Good(b, ReadReceipts(w)) /\ ReadReceipts(w).batch = w.batch
<1>1. w \in Worlds(b)
  BY DEF Good, Sound, Core
<1>2. ASSUME NEW v \in Worlds(b), NEW t \in 1 .. b.tests, Good(b, v)
      PROVE  Settle(v, t) \in Worlds(b)
  BY <1>2, SettleGood DEF Good, Sound, Core
<1>3. QED
  BY <1>1, <1>2, ReadReceiptsStays

-----------------------------------------------------------------------------
(* A world that becomes the next state.                                     *)

\* The bound on the environment only counts.
LEMMA DisturbedGood ==
  ASSUME NEW b \in Bounds, NEW w, Good(b, w)
  PROVE  Good(b, Disturbed(w))
<1>1. w \in Worlds(b) /\ w.seen.changes + 1 \in Nat
  BY DEF Good, Sound, Core, Worlds, Observers
<1>v. PICK v : v = Disturbed(w)
  OBVIOUS
<1>2. /\ v \in Worlds(b)
      /\ v.app = w.app /\ v.hook = w.hook /\ v.tr = w.tr /\ v.batch = w.batch
      /\ v.seen.chosen = w.seen.chosen /\ v.seen.forgotten = w.seen.forgotten
  BY <1>1, <1>v DEF Disturbed, Worlds, Observers
<1>3. ChoiceGood(v.app, v.seen)
  BY <1>2 DEF Good, Sound, ChoiceGood
<1>4. QED
  BY <1>2, <1>3, <1>v DEF Good, Sound, Core

\* A state is a Good world when the call before it ended in one.
LEMMA BecomesGood ==
  ASSUME NEW b \in Bounds, NEW w, Good(b, w), Becomes(w)
  PROVE  IInv'
<1>1. w \in Worlds(b)
  BY DEF Good, Sound, Core
<1>x. PICK x \in BOOLEAN : x = (w.app.now /\ w.app.ready)
  BY <1>1 DEF Worlds, Apps
<1>y. PICK y \in BOOLEAN : y = (w.seen.lost /\ Pressing(w))
  OBVIOUS
<1>a. PICK a : a = [w.app EXCEPT !.now = x]
  OBVIOUS
<1>s. PICK s : s = [w.seen EXCEPT !.lost = y]
  OBVIOUS
<1>h. PICK h : h = w.hook
  OBVIOUS
<1>t. PICK t : t = w.tr
  OBVIOUS
<1>v. PICK v : v = [app |-> a, hook |-> h, tr |-> t, seen |-> s, batch |-> <<>>]
  OBVIOUS
<1>2. app' = a /\ hook' = h /\ tr' = t /\ seen' = s
  BY <1>1, <1>x, <1>y, <1>a, <1>s, <1>h, <1>t DEF Becomes
<1>3. /\ a \in Apps(b) /\ s \in Observers(b) /\ h \in Hooks /\ t \in Transports
      /\ <<>> \in Seq(Events)
      /\ a.test = w.app.test /\ a.tests = w.app.tests /\ a.receipt = w.app.receipt
      /\ a.ready = w.app.ready /\ a.selected = w.app.selected
      /\ a.restore = w.app.restore /\ a.remembered = w.app.remembered
      /\ s.chosen = w.seen.chosen /\ s.forgotten = w.seen.forgotten /\ s.bound = b
  BY <1>1, <1>a, <1>s, <1>h, <1>t DEF Worlds, Apps, Observers
<1>4. /\ v \in Worlds(b)
      /\ v.app = a /\ v.hook = h /\ v.tr = t /\ v.seen = s /\ v.batch = <<>>
  BY <1>3, <1>v DEF Worlds
<1>5. HookGood(h) /\ ChannelGood(t) /\ Timely(<<>>) /\ Prompt(t.control)
  BY <1>h, <1>t DEF Good, Sound, Core, Timely
<1>6. AppGood(b, a, t) /\ ChoiceGood(a, s) /\ Owed(a, t)
  BY <1>3, <1>t DEF Good, Sound, Core, AppGood, ChoiceGood, Owed
<1>7. Good(b, v)
  BY <1>4, <1>5, <1>6 DEF Good, Sound, Core
<1>8. world' = v /\ seen'.bound = b
  BY <1>2, <1>3, <1>v DEF world
<1>9. QED
  BY <1>7, <1>8 DEF IInv

-----------------------------------------------------------------------------
(* The actions.                                                             *)

\* A tick, for what it reads.
TickReads(due, made, fault, foreground, keys, late, ends) ==
  /\ (fault \/ late) => MayDisturb
  /\ fault => hook.alive = "up"
  /\ late => \E i \in DOMAIN hook.events : IsPress(hook.events[i])
  /\ due => app.restore # None /\ tr.life # "up"
  /\ made => due
  /\ Recording(world) \/ (foreground /\ keys /\ ~ends)
  /\ LET synced == NoticeWindow(NoticeInput(ConfigureInput(
                     NoticeLoss(Retry(TakeSnapshot(world), due, made)), fault), late),
                     foreground, keys, late)
         done == ReadReceipts(HandleEvents(synced, late, ends))
     IN Becomes(IF fault \/ late THEN Disturbed(done) ELSE done)

\* The world after a tick.
Ticked(w, due, made, fault, foreground, keys, late, ends) ==
  LET synced == NoticeWindow(NoticeInput(ConfigureInput(
                  NoticeLoss(Retry(TakeSnapshot(w), due, made)), fault), late),
                  foreground, keys, late)
      done == ReadReceipts(HandleEvents(synced, late, ends))
  IN IF fault \/ late THEN Disturbed(done) ELSE done

\* It is Good, call by call.
LEMMA TickedGood ==
  ASSUME NEW b \in Bounds, NEW w, Good(b, w), NEW due \in BOOLEAN, NEW made \in BOOLEAN,
         NEW fault, NEW foreground, NEW keys, NEW late, NEW ends
  PROVE  Good(b, Ticked(w, due, made, fault, foreground, keys, late, ends))
<1>s. PICK s : s = TakeSnapshot(w)
  OBVIOUS
<1>r. PICK r : r = Retry(s, due, made)
  OBVIOUS
<1>l. PICK l : l = NoticeLoss(r)
  OBVIOUS
<1>c. PICK c : c = ConfigureInput(l, fault)
  OBVIOUS
<1>i. PICK i : i = NoticeInput(c, late)
  OBVIOUS
<1>f. PICK f : f = NoticeWindow(i, foreground, keys, late)
  OBVIOUS
<1>h. PICK h : h = HandleEvents(f, late, ends)
  OBVIOUS
<1>d. PICK d : d = ReadReceipts(h)
  OBVIOUS
<1>3. Good(b, s)
  BY <1>s, TakeSnapshotGood
<1>4. Good(b, r)
  BY <1>3, <1>r, RetryGood
<1>5. Good(b, l)
  BY <1>4, <1>l, NoticeLossGood
<1>6. Good(b, c)
  BY <1>5, <1>c, ConfigureInputGood
<1>7. Good(b, i)
  BY <1>6, <1>i, NoticeInputGood
<1>8. Good(b, f)
  BY <1>7, <1>f, NoticeWindowGood
<1>9. Good(b, h)
  BY <1>8, <1>h, HandleEventsGood
<1>10. Good(b, d) /\ Good(b, Disturbed(d))
  BY <1>9, <1>d, ReadReceiptsGood, DisturbedGood
<1>11. Ticked(w, due, made, fault, foreground, keys, late, ends)
       = IF fault \/ late THEN Disturbed(d) ELSE d
  BY <1>s, <1>r, <1>l, <1>c, <1>i, <1>f, <1>h, <1>d DEF Ticked
<1>12. QED
  BY <1>10, <1>11

\* tick
LEMMA TickGood ==
  ASSUME IInv, Tick
  PROVE  IInv'
<1>b. PICK b \in Bounds : b = seen.bound
  BY DEF IInv
<1>w. PICK w : w = world
  OBVIOUS
<1>1. Good(b, w)
  BY <1>b, <1>w DEF IInv
<1>2. PICK due \in BOOLEAN, made \in BOOLEAN, fault \in BOOLEAN, foreground \in BOOLEAN,
           keys \in BOOLEAN, late \in BOOLEAN, ends \in BOOLEAN :
        TickReads(due, made, fault, foreground, keys, late, ends)
  BY DEF Tick, TickReads
<1>t. Becomes(Ticked(world, due, made, fault, foreground, keys, late, ends))
  BY <1>2 DEF TickReads, Ticked
<1>x. PICK x : x = Ticked(world, due, made, fault, foreground, keys, late, ends)
  OBVIOUS
<1>3. Becomes(x)
  BY <1>t, <1>x DEF Becomes
<1>4. x = Ticked(w, due, made, fault, foreground, keys, late, ends)
  BY <1>w, <1>x
<1>5. Good(b, x)
  BY <1>1, <1>4, TickedGood
<1>6. QED
  BY <1>3, <1>5, BecomesGood

\* start_bluetooth
LEMMA UserStartGood ==
  ASSUME IInv, UserStart
  PROVE  IInv'
<1>b. PICK b \in Bounds : b = seen.bound
  BY DEF IInv
<1>w. PICK w : w = world
  OBVIOUS
<1>1. Good(b, w)
  BY <1>b, <1>w DEF IInv
<1>2. PICK made \in BOOLEAN : Becomes(Disturbed(Start(world, made)))
  BY DEF UserStart
<1>x. PICK x : x = Disturbed(Start(w, made))
  OBVIOUS
<1>3. Becomes(x)
  BY <1>2, <1>w, <1>x DEF Becomes
<1>s. PICK s : s = Start(w, made)
  OBVIOUS
<1>4. Good(b, s)
  BY <1>1, <1>s, StartGood
<1>5. Good(b, x)
  BY <1>4, <1>s, <1>x, DisturbedGood
<1>6. QED
  BY <1>3, <1>5, BecomesGood

\* choose
LEMMA UserChooseGood ==
  ASSUME IInv, UserChoose
  PROVE  IInv'
<1>b. PICK b \in Bounds : b = seen.bound
  BY DEF IInv
<1>w. PICK w : w = world
  OBVIOUS
<1>1. Good(b, w)
  BY <1>b, <1>w DEF IInv
<1>2. PICK d \in Device : Becomes(Disturbed(Choose(world, d)))
  BY DEF UserChoose
<1>x. PICK x : x = Disturbed(Choose(w, d))
  OBVIOUS
<1>3. Becomes(x)
  BY <1>2, <1>w, <1>x DEF Becomes
<1>s. PICK s : s = Choose(w, d)
  OBVIOUS
<1>4. Good(b, s)
  BY <1>1, <1>s, ChooseGood
<1>5. Good(b, x)
  BY <1>4, <1>s, <1>x, DisturbedGood
<1>6. QED
  BY <1>3, <1>5, BecomesGood

\* disconnect, listening, recording, and the input of the configuration window.
LEMMA UserCallsGood ==
  ASSUME IInv, UserDisconnect \/ UserListening \/ UserCapture \/ UserInput
  PROVE  IInv'
<1>b. PICK b \in Bounds : b = seen.bound
  BY DEF IInv
<1>w. PICK w : w = world
  OBVIOUS
<1>1. Good(b, w)
  BY <1>b, <1>w DEF IInv
<1>2. CASE UserDisconnect
  <2>s. PICK s : s = Disconnect(w)
    OBVIOUS
  <2>x. PICK x : x = Disturbed(s)
    OBVIOUS
  <2>1. Becomes(x)
    BY <1>2, <1>w, <2>s, <2>x DEF UserDisconnect, Becomes
  <2>2. Good(b, s)
    BY <1>1, <2>s, DisconnectGood
  <2>3. Good(b, x)
    BY <2>2, <2>x, DisturbedGood
  <2>4. QED
    BY <2>1, <2>3, BecomesGood
<1>3. CASE UserListening
  <2>1. PICK on \in BOOLEAN : Becomes(SetListening(world, on, FALSE))
    BY <1>3 DEF UserListening
  <2>x. PICK x : x = SetListening(w, on, FALSE)
    OBVIOUS
  <2>2. Becomes(x)
    BY <2>1, <1>w, <2>x DEF Becomes
  <2>3. Good(b, x)
    BY <1>1, <2>x, SetListeningGood
  <2>4. QED
    BY <2>2, <2>3, BecomesGood
<1>4. CASE Becomes(Disturbed(Record(world, FALSE)))
  <2>s. PICK s : s = Record(w, FALSE)
    OBVIOUS
  <2>x. PICK x : x = Disturbed(s)
    OBVIOUS
  <2>1. Becomes(x)
    BY <1>4, <1>w, <2>s, <2>x DEF Becomes
  <2>2. Good(b, s)
    BY <1>1, <2>s, RecordGood
  <2>3. Good(b, x)
    BY <2>2, <2>x, DisturbedGood
  <2>4. QED
    BY <2>1, <2>3, BecomesGood
<1>5. CASE Becomes(FinishRecording(ConsumeUi(world), FALSE))
  <2>s. PICK s : s = ConsumeUi(w)
    OBVIOUS
  <2>x. PICK x : x = FinishRecording(s, FALSE)
    OBVIOUS
  <2>1. Becomes(x)
    BY <1>5, <1>w, <2>s, <2>x DEF Becomes
  <2>2. Good(b, s)
    BY <1>1, <2>s, ConsumeUiGood
  <2>3. Good(b, x)
    BY <2>2, <2>x, FinishRecordingGood
  <2>4. QED
    BY <2>1, <2>3, BecomesGood
<1>6. CASE UserInput
  <2>x. PICK x : x = ConsumeUi(w)
    OBVIOUS
  <2>1. Becomes(x)
    BY <1>6, <1>w, <2>x DEF UserInput, Becomes
  <2>2. Good(b, x)
    BY <1>1, <2>x, ConsumeUiGood
  <2>3. QED
    BY <2>1, <2>2, BecomesGood
<1>7. QED
  BY <1>2, <1>3, <1>4, <1>5, <1>6 DEF UserCapture

\* A test is owed an answer from the step that starts it.
LEMMA TestedGood ==
  ASSUME NEW b \in Bounds, NEW w, Good(b, w), NEW t, t = w.app.tests + 1, w.app.tests < b.tests,
         CanEnqueue(w, Event(FALSE, "tap", TRUE, TRUE))
  PROVE  Good(b, [Enqueue(w, Event(FALSE, "tap", TRUE, TRUE), t) EXCEPT
                    !.app.tests = t, !.app.test = t,
                    !.app.receipt[t] = [answer |-> "waiting", fresh |-> TRUE]])
<1>1. w \in Worlds(b) /\ w.app.tests \in Nat /\ b.tests \in Nat
  BY BoundsTyped DEF Good, Sound, Core, Worlds, Apps
<1>2. t \in Nat /\ t # 0 /\ t \in 1 .. b.tests /\ t <= b.tests
  BY <1>1
<1>e. PICK e : e = Event(FALSE, "tap", TRUE, TRUE)
  OBVIOUS
<1>3. e \in Events /\ e.current
  BY <1>e DEF Event, Events
<1>v. PICK v : v = Enqueue(w, e, t)
  OBVIOUS
<1>4. /\ Sound(b, v) /\ v.app = w.app /\ v.tr.life = w.tr.life
      /\ t \in {v.tr.control[i].id : i \in DOMAIN v.tr.control}
      /\ Prompt(v.tr.control)
  <2>1. Sound(b, w) /\ Prompt(w.tr.control) /\ CanEnqueue(w, e)
    BY <1>e DEF Good
  <2>2. Sound(b, v) /\ v.app = w.app /\ v.tr.life = w.tr.life
    BY <1>2, <1>3, <1>v, <2>1, EnqueueSound
  <2>3. t \in {v.tr.control[i].id : i \in DOMAIN v.tr.control}
    BY <1>2, <1>3, <1>v, <2>1, EnqueueSound
  <2>4. Prompt(v.tr.control)
    BY <1>2, <1>3, <1>v, <2>1, EnqueueSound
  <2>5. QED
    BY <2>2, <2>3, <2>4
<1>5. v.tr.life = "up"
  BY <1>4, <1>e DEF CanEnqueue, CanRequest
<1>6. v \in Worlds(b) /\ v.app.receipt \in [1 .. b.tests -> Receipts]
  BY <1>4 DEF Sound, Core, Worlds, Apps
<1>r. PICK r : r = [v.app.receipt EXCEPT ![t] = [answer |-> "waiting", fresh |-> TRUE]]
  OBVIOUS
<1>7. r \in [1 .. b.tests -> Receipts] /\ r[t].answer = "waiting"
  <2>1. [answer |-> "waiting", fresh |-> TRUE] \in Receipts
    BY DEF Receipts
  <2>2. QED
    BY <1>2, <1>6, <1>r, <2>1
<1>u. PICK u : u = [v EXCEPT !.app.tests = t, !.app.test = t, !.app.receipt = r]
  OBVIOUS
<1>8. /\ u \in Worlds(b)
      /\ u.hook = v.hook /\ u.tr = v.tr /\ u.seen = v.seen /\ u.batch = v.batch
      /\ u.app.test = t /\ u.app.tests = t /\ u.app.receipt = r
      /\ u.app.ready = v.app.ready /\ u.app.selected = v.app.selected
      /\ u.app.restore = v.app.restore /\ u.app.remembered = v.app.remembered
  BY <1>2, <1>6, <1>7, <1>u DEF Worlds, Apps
<1>9. AppGood(b, u.app, u.tr)
  BY <1>2, <1>4, <1>8 DEF Sound, Core, AppGood
<1>10. ChoiceGood(u.app, u.seen)
  BY <1>4, <1>8 DEF Sound, ChoiceGood
<1>11. Owed(u.app, u.tr)
  BY <1>4, <1>5, <1>7, <1>8 DEF Owed
<1>12. Good(b, u)
  BY <1>4, <1>8, <1>9, <1>10, <1>11 DEF Good, Sound, Core
<1>13. u = [v EXCEPT !.app.tests = t, !.app.test = t,
                     !.app.receipt[t] = [answer |-> "waiting", fresh |-> TRUE]]
  BY <1>6, <1>r, <1>u DEF Worlds, Apps
<1>14. QED
  BY <1>12, <1>13, <1>e, <1>v

\* send
LEMMA UserTestGood ==
  ASSUME IInv, UserTest
  PROVE  IInv'
<1>b. PICK b \in Bounds : b = seen.bound
  BY DEF IInv
<1>w. PICK w : w = world
  OBVIOUS
<1>t. PICK t : t = app.tests + 1
  OBVIOUS
<1>1. Good(b, w)
  BY <1>b, <1>w DEF IInv
<1>2. t = w.app.tests + 1 /\ w.app.tests < b.tests
  BY <1>b, <1>w, <1>t DEF UserTest, world
<1>3. CanEnqueue(w, Event(FALSE, "tap", TRUE, TRUE))
  BY <1>w DEF UserTest
<1>x. PICK x : x = [Enqueue(w, Event(FALSE, "tap", TRUE, TRUE), t) EXCEPT
                      !.app.tests = t, !.app.test = t,
                      !.app.receipt[t] = [answer |-> "waiting", fresh |-> TRUE]]
  OBVIOUS
<1>4. Becomes(x)
  BY <1>w, <1>t, <1>x DEF UserTest, Becomes
<1>5. Good(b, x)
  BY <1>1, <1>2, <1>3, <1>x, TestedGood
<1>6. QED
  BY <1>4, <1>5, BecomesGood

-----------------------------------------------------------------------------
(* The listener thread.                                                     *)

\* The listener may change its own state within HookGood.
LEMMA HookChanged ==
  ASSUME NEW b \in Bounds, NEW w, Good(b, w), NEW v \in Worlds(b),
         v.app = w.app, v.tr = w.tr, v.seen = w.seen, v.batch = w.batch, HookGood(v.hook)
  PROVE  Good(b, v)
BY DEF Good, Sound, Core

\* It sends what is timely.
LEMMA EmitsGood ==
  ASSUME NEW b \in Bounds, NEW w, Good(b, w), NEW e \in Events, IsPress(e) /\ e.fresh => e.current
  PROVE  /\ Good(b, Emits(w, e))
         /\ Emits(w, e).hook.alive = w.hook.alive
         /\ Emits(w, e).hook.hold = w.hook.hold
<1>1. w.hook.events \in Seq(Events) /\ Timely(w.hook.events) /\ w \in Worlds(b)
  BY DEF Good, Sound, Core, HookGood, Worlds, Hooks
<1>x. PICK x : x = Append(w.hook.events, e)
  OBVIOUS
<1>2. x \in Seq(Events) /\ Timely(x)
  BY <1>1, <1>x, AppendTimely
<1>v. PICK v : v = [w EXCEPT !.hook.events = x]
  OBVIOUS
<1>3. Sound(b, v) /\ v.tr = w.tr /\ v.hook.hold = w.hook.hold /\ v.hook.alive = w.hook.alive
  BY <1>2, <1>v, EventsSound DEF Good
<1>4. Emits(w, e) = v
  BY <1>x, <1>v DEF Emits
<1>5. QED
  BY <1>3, <1>4 DEF Good

\* What is captured now is of the session at hand.
LEMMA KeyDownGood ==
  ASSUME IInv, KeyDown
  PROVE  IInv'
<1>b. PICK b \in Bounds : b = seen.bound
  BY DEF IInv
<1>w. PICK w : w = world
  OBVIOUS
<1>1. Good(b, w)
  BY <1>b, <1>w DEF IInv
<1>2. w \in Worlds(b) /\ w.hook.alive = "up"
  BY <1>1, <1>w DEF Good, Sound, Core, KeyDown, world
<1>x. PICK x : x = [w EXCEPT !.hook.hold = "down", !.hook.fresh = TRUE, !.hook.current = TRUE]
  OBVIOUS
<1>3. Becomes(x)
  BY <1>w, <1>x DEF KeyDown, Becomes
<1>4. /\ x \in Worlds(b)
      /\ x.app = w.app /\ x.tr = w.tr /\ x.seen = w.seen /\ x.batch = w.batch
      /\ x.hook.alive = w.hook.alive /\ x.hook.current /\ x.hook.events = w.hook.events
  BY <1>2, <1>x DEF Worlds, Hooks
<1>5. HookGood(x.hook)
  BY <1>1, <1>2, <1>4 DEF Good, Sound, Core, HookGood
<1>6. Good(b, x)
  BY <1>1, <1>4, <1>5, HookChanged
<1>7. QED
  BY <1>3, <1>6, BecomesGood

\* A hold that is due is as current as its capture.
LEMMA HoldDueGood ==
  ASSUME IInv, HoldDue
  PROVE  IInv'
<1>b. PICK b \in Bounds : b = seen.bound
  BY DEF IInv
<1>w. PICK w : w = world
  OBVIOUS
<1>1. Good(b, w)
  BY <1>b, <1>w DEF IInv
<1>2. w \in Worlds(b) /\ w.hook.alive = "up" /\ w.hook.hold = "down" /\ hook.current = w.hook.current
  BY <1>1, <1>w DEF Good, Sound, Core, HoldDue, world
<1>3. w.hook.current /\ w.hook.current \in BOOLEAN
  BY <1>1, <1>2 DEF Good, Sound, Core, HookGood, Worlds, Hooks
<1>e. PICK e : e = Event(TRUE, "press", TRUE, w.hook.current)
  OBVIOUS
<1>4. e \in Events /\ e.current
  BY <1>3, <1>e DEF Event, Events
<1>v. PICK v : v = [w EXCEPT !.hook.hold = "held"]
  OBVIOUS
<1>5. /\ v \in Worlds(b)
      /\ v.app = w.app /\ v.tr = w.tr /\ v.seen = w.seen /\ v.batch = w.batch
      /\ v.hook.alive = w.hook.alive /\ v.hook.current = w.hook.current
      /\ v.hook.events = w.hook.events
  BY <1>2, <1>v DEF Worlds, Hooks
<1>6. HookGood(v.hook)
  BY <1>1, <1>2, <1>3, <1>5 DEF Good, Sound, Core, HookGood
<1>7. Good(b, v)
  BY <1>1, <1>5, <1>6, HookChanged
<1>x. PICK x : x = Emits(v, e)
  OBVIOUS
<1>8. Good(b, x)
  BY <1>4, <1>7, <1>x, EmitsGood
<1>9. Becomes(x)
  BY <1>2, <1>w, <1>e, <1>v, <1>x DEF HoldDue, Becomes
<1>10. QED
  BY <1>8, <1>9, BecomesGood

\* A key that comes up is a tap of the session of its capture, or a release.
LEMMA KeyUpGood ==
  ASSUME IInv, KeyUp
  PROVE  IInv'
<1>b. PICK b \in Bounds : b = seen.bound
  BY DEF IInv
<1>w. PICK w : w = world
  OBVIOUS
<1>1. Good(b, w)
  BY <1>b, <1>w DEF IInv
<1>2. w.hook.hold # "none" /\ hook.current = w.hook.current /\ hook.hold = w.hook.hold
  BY <1>w DEF KeyUp, world
<1>3. w.hook.current /\ w.hook.current \in BOOLEAN
  BY <1>1, <1>2 DEF Good, Sound, Core, HookGood, Worlds, Hooks
<1>e. PICK e : e = IF w.hook.hold = "held" THEN Event(FALSE, "release", TRUE, TRUE)
                   ELSE Event(FALSE, "tap", TRUE, w.hook.current)
  OBVIOUS
<1>4. e \in Events /\ e.current
  BY <1>3, <1>e DEF Event, Events
<1>v. PICK v : v = Terminated(w)
  OBVIOUS
<1>5. Good(b, v)
  BY <1>1, <1>v, TerminatedSound DEF Good
<1>x. PICK x : x = Emits(v, e)
  OBVIOUS
<1>6. Good(b, x)
  BY <1>4, <1>5, <1>x, EmitsGood
<1>7. Becomes(x)
  BY <1>2, <1>w, <1>e, <1>v, <1>x DEF KeyUp, Becomes
<1>8. QED
  BY <1>6, <1>7, BecomesGood

\* What is neither a press nor a release is timely.
LEMMA OtherKeysGood ==
  ASSUME IInv, ToggleKey \/ RecordedKey
  PROVE  IInv'
<1>b. PICK b \in Bounds : b = seen.bound
  BY DEF IInv
<1>w. PICK w : w = world
  OBVIOUS
<1>1. Good(b, w)
  BY <1>b, <1>w DEF IInv
<1>2. PICK kind \in {"toggle", "key"} : Becomes(Emits(world, Event(FALSE, kind, TRUE, TRUE)))
  BY DEF ToggleKey, RecordedKey
<1>e. PICK e : e = Event(FALSE, kind, TRUE, TRUE)
  OBVIOUS
<1>3. e \in Events /\ e.current
  BY <1>e DEF Event, Events
<1>x. PICK x : x = Emits(w, e)
  OBVIOUS
<1>4. Good(b, x)
  BY <1>1, <1>3, <1>x, EmitsGood
<1>5. Becomes(x)
  BY <1>2, <1>w, <1>e, <1>x DEF Becomes
<1>6. QED
  BY <1>4, <1>5, BecomesGood

\* A listener that ends has released what it held.
LEMMA ListenerEndsGood ==
  ASSUME IInv, ListenerEnds
  PROVE  IInv'
<1>b. PICK b \in Bounds : b = seen.bound
  BY DEF IInv
<1>w. PICK w : w = world
  OBVIOUS
<1>1. Good(b, w) /\ w \in Worlds(b)
  BY <1>b, <1>w DEF IInv, Good, Sound, Core
<1>h. PICK h : h = IF HoldsSeek(w) THEN Emits(w, HeldRelease(w)) ELSE w
  OBVIOUS
<1>t. PICK t : t = Terminated(h)
  OBVIOUS
<1>v. PICK v : v = [t EXCEPT !.hook.alive = "down"]
  OBVIOUS
<1>x. PICK x : x = Disturbed(v)
  OBVIOUS
<1>2. Good(b, h)
  BY <1>1, <1>h, HeldReleaseTyped, EmitsGood
<1>3. Good(b, t) /\ t.hook.hold = "none"
  BY <1>2, <1>t, TerminatedSound DEF Good
<1>4. t \in Worlds(b)
  BY <1>3 DEF Good, Sound, Core
<1>5. /\ v \in Worlds(b)
      /\ v.app = t.app /\ v.tr = t.tr /\ v.seen = t.seen /\ v.batch = t.batch
      /\ v.hook.hold = t.hook.hold /\ v.hook.events = t.hook.events
  BY <1>4, <1>v DEF Worlds, Hooks
<1>6. HookGood(v.hook)
  BY <1>3, <1>5 DEF Good, Sound, Core, HookGood
<1>7. Good(b, v)
  BY <1>3, <1>5, <1>6, HookChanged
<1>8. Good(b, x)
  BY <1>7, <1>x, DisturbedGood
<1>9. Becomes(x)
  BY <1>w, <1>h, <1>t, <1>v, <1>x DEF ListenerEnds, Becomes
<1>10. QED
  BY <1>8, <1>9, BecomesGood

-----------------------------------------------------------------------------
(* The supervisor thread and its worker.                                    *)

\* A command is taken from the channel and carried out.
LEMMA SuperviseGood ==
  ASSUME IInv, Supervise
  PROVE  IInv'
<1>b. PICK b \in Bounds : b = seen.bound
  BY DEF IInv
<1>w. PICK w : w = world
  OBVIOUS
<1>1. Good(b, w)
  BY <1>b, <1>w DEF IInv
<1>2. w.tr.life = "up" /\ w.tr.control # <<>> /\ tr.control = w.tr.control
  BY <1>w DEF Supervise, world
<1>x. PICK x : x = Control([w EXCEPT !.tr.control = Tail(@)], Head(w.tr.control))
  OBVIOUS
<1>3. Good(b, x)
  BY <1>1, <1>2, <1>x, ControlGood
<1>4. Becomes(x)
  BY <1>2, <1>w, <1>x DEF Supervise, Becomes
<1>5. QED
  BY <1>3, <1>4, BecomesGood

\* A new revision keeps a Good world.
LEMMA NextRevisionGood ==
  ASSUME NEW b \in Bounds, NEW w, Good(b, w)
  PROVE  Good(b, NextRevision(w)) /\ NextRevision(w).tr.life = w.tr.life
<1>v. PICK v : v = NextRevision(w)
  OBVIOUS
<1>1. Core(b, v) /\ Stale(v) /\ SameChoice(w, v) /\ v.tr.life = w.tr.life
  BY <1>v, NextRevisionCore DEF Good, Sound
<1>2. Sound(b, v)
  BY <1>1, SameChoiceSound DEF Good
<1>3. Good(b, v)
  BY <1>1, <1>2, StalePrompt DEF Good
<1>4. QED
  BY <1>1, <1>3, <1>v

\* What the worker reports is published.
LEMMA ReportedGood ==
  ASSUME NEW b \in Bounds, NEW w, Good(b, w), w.tr.life = "up", NEW v \in Worlds(b),
         v.app = w.app, v.hook = w.hook, v.seen = w.seen, v.batch = w.batch,
         v.tr.life = w.tr.life, v.tr.control = w.tr.control, v.tr.pending = w.tr.pending,
         v.tr.snapshot = w.tr.snapshot
  PROVE  Good(b, Publish(v))
<1>1. Sound(b, v)
  BY WorkerSound DEF Good
<1>2. Sound(b, Publish(v)) /\ Publish(v).tr.control = v.tr.control
  BY <1>1, PublishSound
<1>3. QED
  BY <1>2 DEF Good

\* The world after a status of the worker; t is the transport of w.
Reported(w, t, new, ready) ==
  LET selected == IF t.selected = None THEN t.remembered ELSE t.selected
      told     == Publish([(IF new THEN NextRevision(w) ELSE w) EXCEPT
          !.tr.native    = "open",
          !.tr.selected  = IF ready THEN selected ELSE @,
          !.tr.ready     = ready,
          !.tr.switching = @ /\ (t.full \/ ~ready),
          !.tr.held      = @ /\ ~new])
  IN IF new /\ t.ready THEN Disturbed(told) ELSE told

\* A status that arrives, for what it says.
StatusReads(new, ready) ==
  /\ new \/ (tr.native = "open" /\ ~tr.ready /\ ready)
  /\ (new /\ tr.ready) => MayDisturb
  /\ LET selected == IF tr.selected = None THEN tr.remembered ELSE tr.selected
         told     == Publish([(IF new THEN NextRevision(world) ELSE world) EXCEPT
             !.tr.native    = "open",
             !.tr.selected  = IF ready THEN selected ELSE @,
             !.tr.ready     = ready,
             !.tr.switching = @ /\ (tr.full \/ ~ready),
             !.tr.held      = @ /\ ~new])
     IN /\ ready => selected # None
        /\ Becomes(IF new /\ tr.ready THEN Disturbed(told) ELSE told)

\* Its world is Good.
LEMMA ReportedSound ==
  ASSUME NEW b \in Bounds, NEW w, Good(b, w), w.tr.life = "up", NEW t, t = w.tr,
         NEW new \in BOOLEAN, NEW ready \in BOOLEAN
  PROVE  Good(b, Reported(w, t, new, ready))
<1>n. PICK n : n = IF new THEN NextRevision(w) ELSE w
  OBVIOUS
<1>1. Good(b, n) /\ n.tr.life = "up" /\ n \in Worlds(b) /\ w \in Worlds(b)
  BY <1>n, NextRevisionGood DEF Good, Sound, Core
<1>o. PICK o \in Receivers : o = IF t.selected = None THEN t.remembered ELSE t.selected
  BY <1>1 DEF Worlds, Transports
<1>s. PICK s \in Receivers : s = IF ready THEN o ELSE n.tr.selected
  BY <1>1 DEF Worlds, Transports
<1>y. PICK y \in BOOLEAN : y = (n.tr.switching /\ (t.full \/ ~ready))
  BY <1>1 DEF Worlds, Transports
<1>z. PICK z \in BOOLEAN : z = (n.tr.held /\ ~new)
  BY <1>1 DEF Worlds, Transports
<1>v. PICK v : v = [n EXCEPT !.tr.native = "open", !.tr.selected = s, !.tr.ready = ready,
                             !.tr.switching = y, !.tr.held = z]
  OBVIOUS
<1>2. /\ v \in Worlds(b)
      /\ v.app = n.app /\ v.hook = n.hook /\ v.seen = n.seen /\ v.batch = n.batch
      /\ v.tr.life = n.tr.life /\ v.tr.control = n.tr.control /\ v.tr.pending = n.tr.pending
      /\ v.tr.snapshot = n.tr.snapshot
  BY <1>1, <1>v DEF Worlds, Transports
<1>p. PICK p : p = Publish(v)
  OBVIOUS
<1>3. Good(b, p) /\ Good(b, Disturbed(p))
  BY <1>1, <1>2, <1>p, ReportedGood, DisturbedGood
<1>4. v = [n EXCEPT !.tr.native    = "open",
                    !.tr.selected  = IF ready THEN o ELSE @,
                    !.tr.ready     = ready,
                    !.tr.switching = @ /\ (t.full \/ ~ready),
                    !.tr.held      = @ /\ ~new]
  BY <1>1, <1>s, <1>y, <1>z, <1>v DEF Worlds, Transports
<1>5. Reported(w, t, new, ready) = IF new /\ t.ready THEN Disturbed(p) ELSE p
  BY <1>n, <1>o, <1>p, <1>4 DEF Reported
<1>6. QED
  BY <1>3, <1>5

\* A status of the worker.
LEMMA StatusGood ==
  ASSUME IInv, Status
  PROVE  IInv'
<1>b. PICK b \in Bounds : b = seen.bound
  BY DEF IInv
<1>w. PICK w : w = world
  OBVIOUS
<1>1. Good(b, w) /\ w.tr.life = "up" /\ tr = w.tr
  BY <1>b, <1>w DEF IInv, Status, world
<1>2. PICK new \in BOOLEAN, ready \in BOOLEAN : StatusReads(new, ready)
  BY DEF Status, StatusReads
<1>3. Becomes(Reported(world, tr, new, ready))
  BY <1>2 DEF StatusReads, Reported
<1>x. PICK x : x = Reported(world, tr, new, ready)
  OBVIOUS
<1>4. Becomes(x)
  BY <1>3, <1>x DEF Becomes
<1>t. PICK t : t = tr
  OBVIOUS
<1>5. x = Reported(w, t, new, ready) /\ t = w.tr
  BY <1>1, <1>w, <1>t, <1>x
<1>6. Good(b, x)
  BY <1>1, <1>5, ReportedSound
<1>7. QED
  BY <1>4, <1>6, BecomesGood

\* A switch of the profile, or one that takes too long, replaces the worker.
LEMMA SwitchGood ==
  ASSUME IInv, SwitchProfile \/ Armed \/ SwitchExpires
  PROVE  IInv'
<1>b. PICK b \in Bounds : b = seen.bound
  BY DEF IInv
<1>w. PICK w : w = world
  OBVIOUS
<1>1. Good(b, w) /\ w.tr.life = "up" /\ w \in Worlds(b) /\ tr = w.tr /\ w.tr.full \in BOOLEAN
  BY <1>b, <1>w DEF IInv, Good, Sound, Core, Worlds, Transports, SwitchProfile, Armed, SwitchExpires, world
<1>f. PICK f \in BOOLEAN : f = ~w.tr.full
  OBVIOUS
<1>v. PICK v : v = [w EXCEPT !.tr.switching = FALSE]
  OBVIOUS
<1>2. /\ v \in Worlds(b)
      /\ v.app = w.app /\ v.hook = w.hook /\ v.seen = w.seen /\ v.batch = w.batch
      /\ v.tr.life = w.tr.life /\ v.tr.control = w.tr.control /\ v.tr.pending = w.tr.pending
      /\ v.tr.snapshot = w.tr.snapshot
  BY <1>1, <1>v DEF Worlds, Transports
<1>p. PICK p : p = Publish(v)
  OBVIOUS
<1>r. PICK r : r = Replace(w, TRUE, f)
  OBVIOUS
<1>d. PICK d : d = Disturbed(r)
  OBVIOUS
<1>e. PICK e : e = Replace(w, TRUE, FALSE)
  OBVIOUS
<1>3. Good(b, p)
  BY <1>1, <1>2, <1>p, ReportedGood
<1>4. Good(b, r) /\ Good(b, e)
  BY <1>1, <1>r, <1>e, ReplaceGood DEF Good
<1>5. Good(b, d)
  BY <1>4, <1>d, DisturbedGood
<1>6. CASE SwitchProfile
  <2>1. Becomes(d)
    BY <1>1, <1>6, <1>w, <1>f, <1>r, <1>d DEF SwitchProfile, Becomes
  <2>2. QED
    BY <1>5, <2>1, BecomesGood
<1>7. CASE Armed
  <2>1. Becomes(p)
    BY <1>7, <1>w, <1>v, <1>p DEF Armed, Becomes
  <2>2. QED
    BY <1>3, <2>1, BecomesGood
<1>8. CASE SwitchExpires
  <2>1. Becomes(e) \/ Becomes(p)
    BY <1>8, <1>w, <1>v, <1>p, <1>e DEF SwitchExpires, Becomes
  <2>2. QED
    BY <1>3, <1>4, <2>1, BecomesGood
<1>9. QED
  BY <1>6, <1>7, <1>8

\* The worker answers a test.
LEMMA ReplyGood ==
  ASSUME IInv, Reply
  PROVE  IInv'
<1>b. PICK b \in Bounds : b = seen.bound
  BY DEF IInv
<1>w. PICK w : w = world
  OBVIOUS
<1>1. Good(b, w) /\ tr = w.tr /\ w.tr.pending \in SUBSET Nat
  BY <1>b, <1>w DEF IInv, Good, Sound, Core, Worlds, Transports, world
<1>2. PICK t \in w.tr.pending, answer \in {"done", "refused"} : Becomes(Answer(world, {t}, answer))
  BY <1>1 DEF Reply
<1>x. PICK x : x = Answer(w, {t}, answer)
  OBVIOUS
<1>3. Becomes(x)
  BY <1>2, <1>w, <1>x DEF Becomes
<1>4. {t} \in SUBSET Nat /\ Unanswered(b, w, {t})
  BY <1>1, SoundUnanswered DEF Good
<1>5. Sound(b, x) /\ x.tr.control = w.tr.control
  BY <1>4, <1>x, AnswerSound
<1>6. Good(b, x)
  BY <1>1, <1>5 DEF Good
<1>7. QED
  BY <1>3, <1>6, BecomesGood

\* The world after finish; ids are the tests that nobody will answer any more.
Finished(w, ids) ==
  [Publish([Answer(w, ids, "refused") EXCEPT !.tr.selected = None, !.tr.ready = FALSE,
                                             !.tr.switching = FALSE])
     EXCEPT !.tr.life = "stopped", !.tr.control = <<>>, !.tr.held = FALSE]

\* A supervisor that ends has refused whatever it owed.
LEMMA FinishedGood ==
  ASSUME NEW b \in Bounds, NEW w, Good(b, w), w.tr.life = "up", NEW ids,
         ids = w.tr.pending \union ({w.tr.control[i].id : i \in DOMAIN w.tr.control} \ {0})
  PROVE  Good(b, Finished(w, ids))
<1>1. /\ w \in Worlds(b) /\ w.app.test \in Nat /\ w.app.tests \in Nat /\ b.tests \in Nat
      /\ w.tr.pending \in SUBSET Nat /\ w.tr.control \in Seq(Commands)
      /\ w.app.receipt \in [1 .. b.tests -> Receipts]
  BY BoundsTyped DEF Good, Sound, Core, Worlds, Apps, Transports
<1>2. ids \in SUBSET Nat
  <2>1. \A i \in DOMAIN w.tr.control : w.tr.control[i] \in Commands
    BY <1>1
  <2>2. \A i \in DOMAIN w.tr.control : w.tr.control[i].id \in Nat
    BY <2>1 DEF Commands
  <2>3. QED
    BY <1>1, <2>2
<1>a. PICK a : a = Answer(w, ids, "refused")
  OBVIOUS
<1>3. /\ Sound(b, a) /\ a.tr.life = "up" /\ a.app.test = w.app.test /\ a \in Worlds(b)
  <2>1. Unanswered(b, w, ids)
    BY SoundUnanswered DEF Good
  <2>2. Sound(b, a) /\ a.tr.life = "up" /\ a.app.test = w.app.test
    BY <1>2, <1>a, <2>1, AnswerSound
  <2>3. QED
    BY <2>2 DEF Sound, Core
<1>4. a.app.test # 0 => a.app.receipt[a.app.test].answer \in {"done", "refused"}
  <2> SUFFICES ASSUME a.app.test # 0
               PROVE  a.app.receipt[a.app.test].answer \in {"done", "refused"}
    OBVIOUS
  <2>t. PICK t : t = w.app.test
    OBVIOUS
  <2>1. t # 0 /\ t \in 1 .. b.tests
    BY <1>1, <1>3, <2>t DEF Good, Sound, Core, AppGood
  <2>r. PICK r : r = [u \in DOMAIN w.app.receipt |->
                        IF u \in ids THEN [w.app.receipt[u] EXCEPT !.answer = "refused"]
                        ELSE w.app.receipt[u]]
    OBVIOUS
  <2>2. a.app.receipt = r
    <3>p. PICK p : p = w.tr.pending \ ids
      OBVIOUS
    <3>1. a = [w EXCEPT !.app.receipt = r, !.tr.pending = p]
      BY <1>a, <2>r, <3>p DEF Answer
    <3>2. QED
      BY <1>1, <3>1 DEF Worlds, Apps
  <2>3. r[t] = IF t \in ids THEN [w.app.receipt[t] EXCEPT !.answer = "refused"] ELSE w.app.receipt[t]
    BY <1>1, <2>1, <2>r
  <2>4. CASE t \in ids
    <3>1. w.app.receipt[t] \in Receipts
      BY <1>1, <2>1
    <3>2. r[t].answer = "refused"
      BY <2>3, <2>4, <3>1 DEF Receipts
    <3>3. QED
      BY <1>3, <2>t, <2>2, <3>2
  <2>5. CASE t \notin ids
    <3>1. w.app.receipt[t].answer \in {"done", "refused"}
      BY <2>t, <2>1, <2>5 DEF Good, Sound, Core, Owed
    <3>2. QED
      BY <1>3, <2>t, <2>2, <2>3, <2>5, <3>1
  <2>6. QED
    BY <2>4, <2>5
<1>m. PICK m : m = [a EXCEPT !.tr.selected = None, !.tr.ready = FALSE, !.tr.switching = FALSE]
  OBVIOUS
<1>5. /\ m \in Worlds(b)
      /\ m.app = a.app /\ m.hook = a.hook /\ m.seen = a.seen /\ m.batch = a.batch
      /\ m.tr.life = a.tr.life /\ m.tr.control = a.tr.control /\ m.tr.pending = a.tr.pending
      /\ m.tr.snapshot = a.tr.snapshot /\ m.tr.selected = None
  BY <1>3, <1>m DEF Worlds, Transports, Receivers
<1>p. PICK p : p = Publish(m)
  OBVIOUS
<1>6. /\ Sound(b, p) /\ p.app = a.app /\ p.tr.snapshot.selected = None
  <2>1. Sound(b, m) /\ m.tr.life # "stopped"
    BY <1>3, <1>5, WorkerSound
  <2>2. QED
    BY <1>5, <1>p, <2>1, PublishSound
<1>7. p \in Worlds(b)
  BY <1>6 DEF Sound, Core
<1>e. PICK e \in Seq(Commands) : e = <<>>
  <2>1. <<>> \in Seq(Commands)
    OBVIOUS
  <2>2. QED
    BY <2>1, Zenon
<1>z. PICK z : z = [p EXCEPT !.tr.life = "stopped", !.tr.control = e, !.tr.held = FALSE]
  OBVIOUS
<1>8. /\ z \in Worlds(b)
      /\ z.app = p.app /\ z.hook = p.hook /\ z.seen = p.seen /\ z.batch = p.batch
      /\ z.tr.life = "stopped" /\ z.tr.control = e /\ z.tr.snapshot = p.tr.snapshot
  BY <1>7, <1>z DEF Worlds, Transports
<1>9. ChannelGood(z.tr)
  BY <1>6, <1>8, <1>e, RuntimeAssumption DEF ChannelGood
<1>10. AppGood(b, z.app, z.tr)
  BY <1>6, <1>8 DEF Sound, Core, AppGood
<1>11. Owed(z.app, z.tr)
  BY <1>4, <1>6, <1>8 DEF Owed
<1>12. Prompt(z.tr.control)
  BY <1>8, <1>e DEF Prompt
<1>13. Good(b, z)
  BY <1>6, <1>8, <1>9, <1>10, <1>11, <1>12 DEF Good, Sound, Core
<1>14. Finished(w, ids) = z
  BY <1>a, <1>m, <1>p, <1>e, <1>z DEF Finished
<1>15. QED
  BY <1>13, <1>14

\* finish
LEMMA SupervisorEndsGood ==
  ASSUME IInv, SupervisorEnds
  PROVE  IInv'
<1>b. PICK b \in Bounds : b = seen.bound
  BY DEF IInv
<1>w. PICK w : w = world
  OBVIOUS
<1>1. Good(b, w) /\ w.tr.life = "up" /\ tr = w.tr
  BY <1>b, <1>w DEF IInv, SupervisorEnds, world
<1>i. PICK ids : ids = tr.pending \union ({tr.control[i].id : i \in DOMAIN tr.control} \ {0})
  OBVIOUS
<1>2. Becomes(Disturbed(Finished(world, ids)))
  BY <1>i DEF SupervisorEnds, Finished
<1>f. PICK f : f = Finished(w, ids)
  OBVIOUS
<1>x. PICK x : x = Disturbed(f)
  OBVIOUS
<1>3. Becomes(x)
  BY <1>2, <1>w, <1>f, <1>x DEF Becomes
<1>4. ids = w.tr.pending \union ({w.tr.control[i].id : i \in DOMAIN w.tr.control} \ {0})
  BY <1>1, <1>i
<1>5. Good(b, f)
  BY <1>1, <1>4, <1>f, FinishedGood
<1>6. Good(b, x)
  BY <1>5, <1>x, DisturbedGood
<1>7. QED
  BY <1>3, <1>6, BecomesGood

-----------------------------------------------------------------------------
(* The first state.                                                         *)

\* The runtime is created without a receiver, a test or an event.
LEMMA CreatedGood ==
  ASSUME NEW b \in Bounds, NEW saved \in Receivers
  PROVE  Good(b, Created(saved, b))
<1>r. PICK r : r = [t \in 1 .. b.tests |-> [answer |-> "none", fresh |-> FALSE]]
  OBVIOUS
<1>1. r \in [1 .. b.tests -> Receipts]
  BY <1>r DEF Receipts
<1>a. PICK a : a =
        [listening |-> FALSE, capture |-> "none", input |-> TRUE,
         ready |-> FALSE, selected |-> None, now |-> FALSE, switching |-> FALSE,
         lastReady |-> FALSE, restore |-> saved, remembered |-> saved,
         test |-> 0, tests |-> 0, receipt |-> r]
  OBVIOUS
<1>2. /\ a \in Apps(b) /\ ~a.ready /\ a.selected = None /\ a.restore = saved
      /\ a.test = 0 /\ a.tests = 0
  BY <1>1, <1>a DEF Apps, Receivers
<1>h. PICK h : h = [alive |-> "up", listening |-> FALSE, recording |-> FALSE, hold |-> "none",
                    fresh |-> FALSE, current |-> FALSE, events |-> <<>>]
  OBVIOUS
<1>3. h \in Hooks /\ h.hold = "none" /\ h.events = <<>>
  BY <1>h DEF Hooks
<1>s. PICK s : s = [chosen |-> saved, forgotten |-> FALSE, lost |-> FALSE, changes |-> 0, bound |-> b]
  OBVIOUS
<1>4. s \in Observers(b) /\ s.chosen = saved /\ ~s.forgotten
  BY <1>s DEF Observers
<1>t. PICK t : t = NoTransport
  OBVIOUS
<1>5. t \in Transports /\ t.life = "none" /\ t.control = <<>>
  BY <1>t, NoTransportTyped
<1>v. PICK v : v = [app |-> a, hook |-> h, tr |-> t, seen |-> s, batch |-> <<>>]
  OBVIOUS
<1>6. /\ v \in Worlds(b)
      /\ v.app = a /\ v.hook = h /\ v.tr = t /\ v.seen = s /\ v.batch = <<>>
  BY <1>2, <1>3, <1>4, <1>5, <1>v DEF Worlds
<1>7. HookGood(h) /\ Timely(<<>>) /\ Prompt(t.control)
  BY <1>3, <1>5 DEF HookGood, Timely, Prompt
<1>8. ChannelGood(t)
  BY <1>5, RuntimeAssumption DEF ChannelGood
<1>9. AppGood(b, a, t) /\ ChoiceGood(a, s) /\ Owed(a, t)
  BY <1>2, <1>4, BoundsTyped DEF AppGood, ChoiceGood, Owed
<1>10. Good(b, v)
  BY <1>6, <1>7, <1>8, <1>9 DEF Good, Sound, Core
<1>11. Created(saved, b) = v
  BY <1>r, <1>a, <1>h, <1>s, <1>t, <1>v DEF Created
<1>12. QED
  BY <1>10, <1>11

\* The window starts Bluetooth.
LEMMA InitGood ==
  ASSUME Init
  PROVE  IInv
<1>1. PICK saved \in Receivers, made \in BOOLEAN, b \in Bounds :
        LET w == Start(Created(saved, b), made) IN
        app = w.app /\ hook = w.hook /\ tr = w.tr /\ seen = w.seen
  BY DEF Init, Receivers
<1>c. PICK c : c = Created(saved, b)
  OBVIOUS
<1>w. PICK w : w = Start(c, made)
  OBVIOUS
<1>2. Good(b, c)
  BY <1>c, CreatedGood
<1>3. Good(b, w) /\ w \in Worlds(b)
  BY <1>2, <1>w, StartGood DEF Good, Sound, Core
<1>v. PICK v : v = [w EXCEPT !.batch = <<>>]
  OBVIOUS
<1>4. Good(b, v)
  <2>1. <<>> \in Seq(Events) /\ Timely(<<>>)
    BY DEF Timely
  <2>2. QED
    BY <1>3, <1>v, <2>1, BatchGood
<1>5. /\ v = [app |-> w.app, hook |-> w.hook, tr |-> w.tr, seen |-> w.seen, batch |-> <<>>]
      /\ w.seen.bound = b
  BY <1>3, <1>v DEF Worlds, Observers
<1>6. app = w.app /\ hook = w.hook /\ tr = w.tr /\ seen = w.seen
  BY <1>1, <1>c, <1>w
<1>7. world = v /\ seen.bound = b
  BY <1>5, <1>6 DEF world
<1>8. QED
  BY <1>4, <1>7 DEF IInv

-----------------------------------------------------------------------------
(* The theorems.                                                            *)

\* Every step of the system keeps the invariant.
LEMMA NextGood ==
  ASSUME IInv, [Next]_vars
  PROVE  IInv'
<1>1. CASE Tick
  BY <1>1, TickGood
<1>2. CASE User
  BY <1>2, UserStartGood, UserChooseGood, UserCallsGood, UserTestGood DEF User
<1>3. CASE Listener
  BY <1>3, KeyDownGood, HoldDueGood, KeyUpGood, OtherKeysGood, ListenerEndsGood DEF Listener
<1>4. CASE Worker
  BY <1>4, SuperviseGood, StatusGood, SwitchGood, ReplyGood, SupervisorEndsGood DEF Worker
<1>5. CASE UNCHANGED vars
  BY <1>5 DEF IInv, world, vars
<1>6. QED
  BY <1>1, <1>2, <1>3, <1>4, <1>5 DEF Next

\* Every reachable state is a Good world between two calls (runtime.rs,
\* connection.rs and capture.rs).
THEOREM RuntimeInvariant == Spec => []IInv
BY InitGood, NextGood, PTL DEF Spec

\* The fields of the runtime, the listener and the transport have their types,
\* the channel keeps to its capacity, and a ready session has a receiver.
THEOREM RuntimeTypes == Spec => []TypeOK
<1>1. IInv => TypeOK
  <2> SUFFICES ASSUME IInv
               PROVE  TypeOK
    OBVIOUS
  <2>b. PICK b \in Bounds : b = seen.bound
    BY DEF IInv
  <2>w. PICK w : w = world
    OBVIOUS
  <2>1. Good(b, w) /\ w \in Worlds(b)
    BY <2>b, <2>w DEF IInv, Good, Sound, Core
  <2>2. app = w.app /\ hook = w.hook /\ tr = w.tr /\ seen = w.seen
    BY <2>w DEF world
  <2>3. w.app \in Apps(b) /\ w.hook \in Hooks /\ w.tr \in Transports /\ b.tests \in Nat
    BY <2>1, BoundsTyped DEF Worlds
  <2>4. /\ app.capture \in {"none", "waiting", "recording"}
        /\ {app.selected, app.restore, app.remembered, tr.selected, tr.remembered}
             \subseteq Device \union {None}
    BY <2>2, <2>3 DEF Apps, Transports, Receivers
  <2>5. app.test \in 0 .. app.tests /\ app.tests \in 0 .. seen.bound.tests
    <3>1. w.app.test \in Nat /\ w.app.tests \in Nat
      BY <2>3 DEF Apps
    <3>2. w.app.test <= w.app.tests /\ w.app.tests <= b.tests
      BY <2>1 DEF Good, Sound, Core, AppGood
    <3>3. QED
      BY <2>b, <2>2, <2>3, <3>1, <3>2
  <2>6. app.ready => app.selected # None /\ tr.life # "none"
    BY <2>1, <2>2 DEF Good, Sound, Core, AppGood
  <2>7. /\ hook.alive \in {"none", "up", "down"}
        /\ hook.hold \in {"none", "down", "held"}
        /\ hook.alive # "up" => hook.hold = "none"
    BY <2>1, <2>2, <2>3 DEF Good, Sound, Core, HookGood, Hooks
  <2>8. /\ tr.life \in {"none", "up", "stopped"}
        /\ Len(tr.control) <= ControlCapacity
        /\ tr.native \in {"none", "blocked", "open"}
    BY <2>1, <2>2, <2>3 DEF Good, Sound, Core, ChannelGood, Transports
  <2>9. QED
    BY <2>4, <2>5, <2>6, <2>7, <2>8 DEF TypeOK
<1>2. QED
  BY <1>1, RuntimeInvariant, PTL

\* The runtime shows, and sends to, nobody but the device chosen last or being
\* restored, and a disconnected device is not remembered again, whatever
\* snapshots of earlier sessions are still on their way (runtime.rs tick,
\* connection.rs disconnect).
THEOREM OnlyTheChosen == Spec => []ShownIsChosen
<1>1. IInv => ShownIsChosen
  BY DEF IInv, Good, Sound, ChoiceGood, ShownIsChosen, world
<1>2. QED
  BY <1>1, RuntimeInvariant, PTL

\* A press that the supervisor is about to accept was made after the session
\* last changed: every change outdates what was captured before it, by the
\* epoch, or what was queued before it, by the revision (runtime.rs invalidate).
THEOREM NoOldPress == Spec => []PressIsCurrent
<1>1. IInv => PressIsCurrent
  BY DEF IInv, Good, Prompt, PressIsCurrent, Accepts, world
<1>2. QED
  BY <1>1, RuntimeInvariant, PTL

\* A pending test was answered or is owed an answer by a supervisor that runs:
\* no test stays pending for good (runtime.rs send and tick, supervisor finish).
THEOREM TestsEnd == Spec => []TestOwed
<1>1. IInv => TestOwed
  BY DEF IInv, Good, Sound, Core, Owed, TestOwed, world
<1>2. QED
  BY <1>1, RuntimeInvariant, PTL
=============================================================================
