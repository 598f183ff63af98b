----------------------- MODULE RuntimeReleaseProofs ------------------------
(***************************************************************************)
(* Proof that what the receiver holds is released: HeldUnlessDiscarded of  *)
(* Runtime, for every number of receivers, every capacity of the channel   *)
(* and every plan of bounds.                                               *)
(*                                                                         *)
(* The release of a held seek passes from the router to the events of the  *)
(* listener, the batch of a tick, the channel of the supervisor and the    *)
(* worker, and it only counts in the session in which its press was sent.  *)
(* The invariant therefore says two things of a world: that the session    *)
(* the runtime shows is the one the supervisor has, unless one of them     *)
(* already knows that it is over, and that a press, wherever it is, has    *)
(* its release behind it.  As in RuntimeProofs there is one lemma per      *)
(* call, and the theorem follows the actions.                              *)
(***************************************************************************)
EXTENDS RuntimeProofs

-----------------------------------------------------------------------------
(* The session.                                                             *)

\* A command that ends the session is under way, or a release was given up.
Kills(t)   == \E i \in DOMAIN t.control : t.control[i].kind \in {"Select", "Restart", "Invalidate"}
Excused(w) == w.seen.lost \/ Kills(w.tr)

\* Commands that the supervisor may still accept.
Live(c)        == c.now /\ IsSend(c)
LivePress(c)   == c.now /\ c.kind = "press"
LiveRelease(c) == c.now /\ c.kind = "release"

\* The generation at hand is ready, or will be replaced before it is ready again;
\* a snapshot that is unread belongs to it.
Lasting(t) == (t.ready \/ t.native = "blocked") /\ (t.unread => t.snapshot.now)

\* The supervisor, its channel and its snapshot.
Linked(t) ==
  /\ t.held => t.ready /\ ~t.switching /\ t.selected # None
  /\ t.ready => t.native = "open" /\ t.life = "up"
  /\ t.unread /\ t.life = "up" => t.snapshot.ready = t.ready /\ t.snapshot.selected = t.selected
  /\ \A i \in DOMAIN t.control :
       Live(t.control[i]) =>
         t.control[i].dev # None /\ t.control[i].dev = t.selected /\ Lasting(t)

\* What the runtime shows as the generation at hand is the supervisor's.
Seen(a, t) == a.now /\ t.life = "up" => a.ready /\ a.selected = t.selected /\ Lasting(t)

\* While the receiver holds a key, or will, the runtime is in its session.
InSession(w) ==
  w.tr.ready /\ (w.tr.held \/ \E i \in DOMAIN w.tr.control : LivePress(w.tr.control[i])) =>
    w.app.ready /\ w.app.now /\ (w.tr.unread => w.tr.snapshot.now)

-----------------------------------------------------------------------------
(* The release.                                                             *)

\* The router holds a seek only while it listens and does not record.
Holding(hk) == hk.hold # "none" => hk.alive = "up" /\ hk.listening /\ ~hk.recording

Releases(events) == \E i \in DOMAIN events : events[i].kind = "release"

\* The keyboard, the batch or the listener still has the release.
Coming(w) == w.hook.hold = "held" \/ Releases(w.batch) \/ Releases(w.hook.events)

\* What the receiver holds, or will when the channel is empty, is followed by a release.
Closing(w) ==
  /\ w.tr.held => Coming(w) \/ \E j \in DOMAIN w.tr.control : LiveRelease(w.tr.control[j])
  /\ w.tr.ready => \A i \in DOMAIN w.tr.control :
       LivePress(w.tr.control[i]) =>
         Coming(w) \/ \E j \in DOMAIN w.tr.control : j > i /\ LiveRelease(w.tr.control[j])

\* A press that may still be sent is followed by its release.
Paired(events) ==
  \A i \in DOMAIN events :
    events[i].kind = "press" /\ events[i].fresh =>
      \E j \in DOMAIN events : j > i /\ events[j].kind = "release"

Queued(w)  == w.seen.lost \/ w.hook.hold = "held" \/ Paired(w.hook.events)
Batched(w) == w.seen.lost \/ w.hook.hold = "held" \/ Releases(w.hook.events) \/ Paired(w.batch)

\* While a shortcut is recorded the router knows it, and what is recorded is no
\* release of a seek.
Released(events) ==
  \E i \in DOMAIN events : events[i].kind = "release" /\ events[i].fresh /\ ~events[i].ordered

Recorder(w) ==
  Recording(w) => /\ w.hook.alive = "up" => w.hook.recording
                  /\ ~Released(w.hook.events) /\ ~Released(w.batch)

-----------------------------------------------------------------------------
(* The invariant.                                                           *)

\* What a call needs that ends the session whatever the runtime shows.
Base(w) == Linked(w.tr) /\ Holding(w.hook) /\ Queued(w)

Tied(w) == Base(w) /\ Seen(w.app, w.tr) /\ (Excused(w) \/ (InSession(w) /\ Closing(w)))

HInv == IInv /\ Tied(world) /\ Recorder(world)

-----------------------------------------------------------------------------
(* Sequences of events and of commands.                                     *)

\* The same events, some of them too old.
Fades(s, r) ==
  /\ DOMAIN r = DOMAIN s
  /\ \A i \in DOMAIN s : /\ r[i].kind = s[i].kind
                         /\ r[i].ordered = s[i].ordered
                         /\ r[i].fresh => s[i].fresh

\* All of them too old.
Spent(s) == \A i \in DOMAIN s : ~s[i].fresh

\* The same commands, as far as the supervisor can tell.
SameCommands(s, r) ==
  /\ DOMAIN r = DOMAIN s
  /\ \A i \in DOMAIN s : r[i].kind = s[i].kind /\ r[i].dev = s[i].dev /\ r[i].now = s[i].now

\* Age takes no release away and makes no press.
LEMMA FadesKeeps ==
  ASSUME NEW s, NEW r, Fades(s, r)
  PROVE  /\ Releases(r) <=> Releases(s)
         /\ Paired(s) => Paired(r)
         /\ Released(r) => Released(s)
         /\ Spent(s) => Spent(r)
<1>1. Releases(r) <=> Releases(s)
  BY DEF Fades, Releases
<1>2. Paired(s) => Paired(r)
  BY DEF Fades, Paired
<1>3. Released(r) => Released(s)
  BY DEF Fades, Released
<1>4. Spent(s) => Spent(r)
  BY DEF Fades, Spent
<1>5. QED
  BY <1>1, <1>2, <1>3, <1>4

\* What did not age at all.
LEMMA FadesItself ==
  ASSUME NEW s
  PROVE  Fades(s, s)
BY DEF Fades

\* Nothing that is too old waits for a release.
LEMMA SpentPaired ==
  ASSUME NEW s, Spent(s)
  PROVE  Paired(s) /\ ~Released(s)
BY DEF Spent, Paired, Released

\* The three ways in which events age or are marked.
LEMMA AgedFades ==
  ASSUME NEW s \in Seq(Events)
  PROVE  Fades(s, Aged(s)) /\ Spent(Aged(s))
<1>1. DOMAIN Aged(s) = DOMAIN s
  BY DEF Aged
<1>2. ASSUME NEW i \in DOMAIN s
      PROVE  Aged(s)[i].kind = s[i].kind /\ Aged(s)[i].ordered = s[i].ordered /\ ~Aged(s)[i].fresh
  <2>1. s[i] \in Events /\ Aged(s)[i] = [s[i] EXCEPT !.fresh = FALSE]
    BY DEF Aged
  <2>2. QED
    BY <2>1 DEF Events
<1>3. QED
  BY <1>1, <1>2 DEF Fades, Spent

\* What becomes outdated loses no event.
LEMMA OutdatedFades ==
  ASSUME NEW s \in Seq(Events)
  PROVE  Fades(s, Outdated(s))
<1>1. DOMAIN Outdated(s) = DOMAIN s
  BY DEF Outdated
<1>2. ASSUME NEW i \in DOMAIN s
      PROVE  /\ Outdated(s)[i].kind = s[i].kind /\ Outdated(s)[i].ordered = s[i].ordered
             /\ Outdated(s)[i].fresh = s[i].fresh
  <2>1. s[i] \in Events /\ Outdated(s)[i] = [s[i] EXCEPT !.current = ~IsPress(s[i])]
    BY DEF Outdated
  <2>2. QED
    BY <2>1 DEF Events
<1>3. QED
  BY <1>1, <1>2 DEF Fades

\* What the window has read stays in the channel.
LEMMA MarkedFades ==
  ASSUME NEW s \in Seq(Events), NEW r, r = [i \in DOMAIN s |-> [s[i] EXCEPT !.ui = ~s[i].ordered]]
  PROVE  Fades(s, r)
<1>1. ASSUME NEW i \in DOMAIN s
      PROVE  r[i].kind = s[i].kind /\ r[i].ordered = s[i].ordered /\ r[i].fresh = s[i].fresh
  <2>1. s[i] \in Events /\ r[i] = [s[i] EXCEPT !.ui = ~s[i].ordered]
    OBVIOUS
  <2>2. QED
    BY <2>1 DEF Events
<1>2. QED
  BY <1>1 DEF Fades

\* An event that joins the others.
LEMMA AppendedEvents ==
  ASSUME NEW s \in Seq(Events), NEW e \in Events
  PROVE  LET r == Append(s, e) IN
         /\ Releases(s) => Releases(r)
         /\ e.kind = "release" => Releases(r) /\ Paired(r)
         /\ e.kind # "press" /\ Paired(s) => Paired(r)
         /\ ~Released(s) /\ ~(e.kind = "release" /\ e.fresh /\ ~e.ordered) => ~Released(r)
<1>r. PICK r : r = Append(s, e)
  OBVIOUS
<1>n. PICK n \in Nat : n = Len(s)
  OBVIOUS
<1>1. /\ DOMAIN s = 1 .. n /\ DOMAIN r = 1 .. n + 1 /\ r[n + 1] = e
      /\ \A i \in 1 .. n : r[i] = s[i]
  BY <1>r, <1>n
<1>2. Releases(s) => Releases(r)
  BY <1>1 DEF Releases
<1>3. e.kind = "release" => Releases(r) /\ Paired(r)
  <2>1. n + 1 \in DOMAIN r
    BY <1>1
  <2>2. \A i \in DOMAIN r : i = n + 1 \/ n + 1 > i
    BY <1>1
  <2>3. QED
    BY <1>1, <2>1, <2>2 DEF Releases, Paired
<1>4. e.kind # "press" /\ Paired(s) => Paired(r)
  <2>1. SUFFICES ASSUME e.kind # "press", Paired(s), NEW i \in DOMAIN r, r[i].kind = "press", r[i].fresh
                 PROVE  \E j \in DOMAIN r : j > i /\ r[j].kind = "release"
    BY DEF Paired
  <2>2. i \in 1 .. n /\ r[i] = s[i]
    BY <1>1, <2>1
  <2>3. PICK j \in 1 .. n : j > i /\ s[j].kind = "release"
    BY <1>1, <2>1, <2>2 DEF Paired
  <2>4. QED
    BY <1>1, <2>3
<1>5. ~Released(s) /\ ~(e.kind = "release" /\ e.fresh /\ ~e.ordered) => ~Released(r)
  <2>1. \A i \in DOMAIN r : (i \in DOMAIN s /\ r[i] = s[i]) \/ r[i] = e
    BY <1>1
  <2>2. QED
    BY <2>1 DEF Released
<1>6. QED
  BY <1>2, <1>3, <1>4, <1>5, <1>r

\* An event that leaves the others.
LEMMA TailEvents ==
  ASSUME NEW s \in Seq(Events), Len(s) > 0
  PROVE  LET r == Tail(s)
             e == Head(s)
         IN /\ Paired(s) => Paired(r)
            /\ Paired(s) /\ e.kind = "press" /\ e.fresh => Releases(r)
            /\ Releases(s) /\ e.kind # "release" => Releases(r)
            /\ ~Released(s) => ~Released(r) /\ ~(e.kind = "release" /\ e.fresh /\ ~e.ordered)
            /\ Spent(s) => Spent(r) /\ ~e.fresh
<1>r. PICK r : r = Tail(s)
  OBVIOUS
<1>e. PICK e : e = Head(s)
  OBVIOUS
<1>n. PICK n \in Nat : n = Len(s)
  OBVIOUS
<1>1. /\ DOMAIN s = 1 .. n /\ n > 0 /\ DOMAIN r = 1 .. n - 1 /\ s[1] = e
      /\ \A i \in 1 .. n - 1 : r[i] = s[i + 1]
  BY <1>r, <1>n, <1>e
<1>2. \A i \in DOMAIN r : i + 1 \in DOMAIN s /\ r[i] = s[i + 1]
  BY <1>1
<1>3. \A i \in DOMAIN s : i = 1 \/ (i - 1 \in DOMAIN r /\ r[i - 1] = s[i])
  <2>1. ASSUME NEW i \in DOMAIN s, i # 1
        PROVE  i - 1 \in 1 .. n - 1 /\ s[(i - 1) + 1] = s[i]
    BY <1>1, <2>1
  <2>2. QED
    BY <1>1, <2>1
<1>4. Paired(s) => Paired(r)
  <2>1. SUFFICES ASSUME Paired(s), NEW i \in DOMAIN r, r[i].kind = "press", r[i].fresh
                 PROVE  \E j \in DOMAIN r : j > i /\ r[j].kind = "release"
    BY DEF Paired
  <2>2. PICK j \in DOMAIN s : j > i + 1 /\ s[j].kind = "release"
    BY <1>2, <2>1 DEF Paired
  <2>3. i \in Int /\ j \in Int
    BY <1>1
  <2>4. j # 1 /\ j - 1 > i
    BY <1>1, <2>2, <2>3
  <2>5. QED
    BY <1>3, <2>2, <2>4
<1>5. Paired(s) /\ e.kind = "press" /\ e.fresh => Releases(r)
  <2>1. SUFFICES ASSUME Paired(s), e.kind = "press", e.fresh
                 PROVE  Releases(r)
    OBVIOUS
  <2>2. PICK j \in DOMAIN s : j > 1 /\ s[j].kind = "release"
    BY <1>1, <2>1 DEF Paired
  <2>3. QED
    BY <1>1, <1>3, <2>2 DEF Releases
<1>6. Releases(s) /\ e.kind # "release" => Releases(r)
  BY <1>1, <1>3 DEF Releases
<1>7. ~Released(s) => ~Released(r) /\ ~(e.kind = "release" /\ e.fresh /\ ~e.ordered)
  <2>1. 1 \in DOMAIN s
    BY <1>1
  <2>2. QED
    BY <1>1, <1>2, <2>1 DEF Released
<1>8. Spent(s) => Spent(r) /\ ~e.fresh
  <2>1. 1 \in DOMAIN s
    BY <1>1
  <2>2. QED
    BY <1>1, <1>2, <2>1 DEF Spent
<1>9. QED
  BY <1>4, <1>5, <1>6, <1>7, <1>8, <1>r, <1>e

\* A change of the session that only observers see.
LEMMA OutdatedSame ==
  ASSUME NEW s \in Seq(Commands)
  PROVE  SameCommands(s, Outdated(s))
<1>1. DOMAIN Outdated(s) = DOMAIN s
  BY DEF Outdated
<1>2. ASSUME NEW i \in DOMAIN s
      PROVE  /\ Outdated(s)[i].kind = s[i].kind /\ Outdated(s)[i].dev = s[i].dev
             /\ Outdated(s)[i].now = s[i].now
  <2>1. s[i] \in Commands /\ Outdated(s)[i] = [s[i] EXCEPT !.current = ~IsPress(s[i])]
    BY DEF Outdated
  <2>2. QED
    BY <2>1 DEF Commands
<1>3. QED
  BY <1>1, <1>2 DEF SameCommands

\* A new revision: no command that depends on the generation is accepted.
LEMMA RevisedDead ==
  ASSUME NEW s \in Seq(Commands)
  PROVE  /\ DOMAIN Revised(s) = DOMAIN s
         /\ \A i \in DOMAIN s : Revised(s)[i].kind = s[i].kind /\ ~Live(Revised(s)[i])
<1>1. DOMAIN Revised(s) = DOMAIN s
  BY DEF Revised
<1>2. ASSUME NEW i \in DOMAIN s
      PROVE  Revised(s)[i].kind = s[i].kind /\ ~Live(Revised(s)[i])
  <2>1. s[i] \in Commands
    OBVIOUS
  <2>2. PICK x \in BOOLEAN : x = (s[i].now /\ ~IsSend(s[i]))
    BY <2>1 DEF Commands, IsSend, IsPress
  <2>3. Revised(s)[i] = [s[i] EXCEPT !.now = x]
    BY <2>2 DEF Revised
  <2>4. Revised(s)[i].kind = s[i].kind /\ Revised(s)[i].now = x
    BY <2>1, <2>2, <2>3 DEF Commands
  <2>5. QED
    BY <2>2, <2>4 DEF Live, IsSend, IsPress
<1>3. QED
  BY <1>1, <1>2

-----------------------------------------------------------------------------
(* Changes that matter to nobody: older events, observers, receipts.        *)

\* The same supervisor, as far as the session goes.
SameTransport(t, u) ==
  /\ u.life = t.life /\ u.ready = t.ready /\ u.switching = t.switching
  /\ u.selected = t.selected /\ u.native = t.native /\ u.held = t.held
  /\ u.unread = t.unread /\ u.snapshot.now = t.snapshot.now
  /\ u.snapshot.ready = t.snapshot.ready /\ u.snapshot.selected = t.snapshot.selected
  /\ SameCommands(t.control, u.control)

\* The runtime shows the same session.
SameShown(a, c) == c.now = a.now /\ c.ready = a.ready /\ c.selected = a.selected

\* The router is in the same state.
SameRouter(h, k) ==
  k.hold = h.hold /\ k.alive = h.alive /\ k.listening = h.listening /\ k.recording = h.recording

Faded(w, v) ==
  /\ SameTransport(w.tr, v.tr) /\ SameShown(w.app, v.app) /\ SameRouter(w.hook, v.hook)
  /\ Fades(w.hook.events, v.hook.events) /\ Fades(w.batch, v.batch)
  /\ v.seen.lost = w.seen.lost
  /\ Recording(v) => Recording(w)

\* A channel that nobody touched.
LEMMA SameCommandsItself ==
  ASSUME NEW s
  PROVE  SameCommands(s, s)
BY DEF SameCommands

\* The parts of the invariant that are about the supervisor.
LEMMA SameLinked ==
  ASSUME NEW t, NEW u, SameTransport(t, u)
  PROVE  /\ Linked(t) => Linked(u)
         /\ Lasting(u) <=> Lasting(t)
         /\ Kills(u) <=> Kills(t)
<1>1. Lasting(u) <=> Lasting(t)
  BY DEF SameTransport, Lasting
<1>2. Kills(u) <=> Kills(t)
  BY DEF SameTransport, SameCommands, Kills
<1>3. \A i \in DOMAIN u.control : /\ i \in DOMAIN t.control
                                  /\ Live(u.control[i]) <=> Live(t.control[i])
                                  /\ u.control[i].dev = t.control[i].dev
  BY DEF SameTransport, SameCommands, Live, IsSend, IsPress
<1>4. Linked(t) => Linked(u)
  BY <1>1, <1>3 DEF SameTransport, Linked
<1>5. QED
  BY <1>1, <1>2, <1>4

\* The parts about the session and the release.
LEMMA SameSession ==
  ASSUME NEW w, NEW v, SameTransport(w.tr, v.tr)
  PROVE  /\ SameShown(w.app, v.app) /\ InSession(w) => InSession(v)
         /\ SameShown(w.app, v.app) /\ Seen(w.app, w.tr) => Seen(v.app, v.tr)
         /\ (Coming(w) => Coming(v)) /\ Closing(w) => Closing(v)
<1>1. /\ DOMAIN v.tr.control = DOMAIN w.tr.control
      /\ \A i \in DOMAIN w.tr.control :
           /\ LivePress(v.tr.control[i]) <=> LivePress(w.tr.control[i])
           /\ LiveRelease(v.tr.control[i]) <=> LiveRelease(w.tr.control[i])
  BY DEF SameTransport, SameCommands, LivePress, LiveRelease
<1>2. SameShown(w.app, v.app) /\ InSession(w) => InSession(v)
  BY <1>1 DEF SameTransport, SameShown, InSession
<1>3. SameShown(w.app, v.app) /\ Seen(w.app, w.tr) => Seen(v.app, v.tr)
  BY SameLinked DEF SameTransport, SameShown, Seen
<1>4. (Coming(w) => Coming(v)) /\ Closing(w) => Closing(v)
  BY <1>1 DEF SameTransport, Closing
<1>5. QED
  BY <1>2, <1>3, <1>4

\* Whatever fades, the invariant stays.
LEMMA FadedTied ==
  ASSUME NEW w, NEW v, Faded(w, v)
  PROVE  /\ Excused(v) <=> Excused(w)
         /\ Coming(v) <=> Coming(w)
         /\ Base(w) => Base(v)
         /\ Tied(w) => Tied(v)
         /\ Batched(w) => Batched(v)
         /\ Recorder(w) => Recorder(v)
         /\ InSession(w) => InSession(v)
         /\ Seen(w.app, w.tr) => Seen(v.app, v.tr)
<1>1. Excused(v) <=> Excused(w)
  BY SameLinked DEF Faded, Excused
<1>2. /\ Releases(v.hook.events) <=> Releases(w.hook.events)
      /\ Paired(w.hook.events) => Paired(v.hook.events)
      /\ Released(v.hook.events) => Released(w.hook.events)
  BY FadesKeeps DEF Faded
<1>3. /\ Releases(v.batch) <=> Releases(w.batch)
      /\ Paired(w.batch) => Paired(v.batch)
      /\ Released(v.batch) => Released(w.batch)
  BY FadesKeeps DEF Faded
<1>4. /\ v.hook.hold = w.hook.hold /\ v.hook.alive = w.hook.alive
      /\ v.hook.listening = w.hook.listening /\ v.hook.recording = w.hook.recording
      /\ v.seen.lost = w.seen.lost
  BY DEF Faded, SameRouter
<1>5. Coming(v) <=> Coming(w)
  BY <1>2, <1>3, <1>4 DEF Coming
<1>6. Base(w) => Base(v)
  <2>1. Linked(w.tr) => Linked(v.tr)
    BY SameLinked DEF Faded
  <2>2. Holding(w.hook) => Holding(v.hook)
    BY <1>4 DEF Holding
  <2>3. Queued(w) => Queued(v)
    BY <1>2, <1>4 DEF Queued
  <2>4. QED
    BY <2>1, <2>2, <2>3 DEF Base
<1>7. (InSession(w) => InSession(v)) /\ (Seen(w.app, w.tr) => Seen(v.app, v.tr))
      /\ (Closing(w) => Closing(v))
  BY <1>5, SameSession DEF Faded
<1>8. Tied(w) => Tied(v)
  BY <1>1, <1>6, <1>7 DEF Tied
<1>9. Batched(w) => Batched(v)
  BY <1>2, <1>3, <1>4 DEF Batched
<1>10. Recorder(w) => Recorder(v)
  BY <1>2, <1>3, <1>4 DEF Faded, Recorder
<1>11. QED
  BY <1>1, <1>5, <1>6, <1>7, <1>8, <1>9, <1>10

\* With nothing ready, nothing waits for a release.
LEMMA IdleTied ==
  ASSUME NEW w, Linked(w.tr), ~w.tr.ready
  PROVE  InSession(w) /\ Closing(w)
BY DEF Linked, InSession, Closing

\* A session that both have given up.
LEMMA OverTied ==
  ASSUME NEW w, Base(w), ~w.app.now, Excused(w) \/ ~w.tr.ready
  PROVE  Tied(w)
<1>1. Seen(w.app, w.tr)
  BY DEF Seen
<1>2. ~w.tr.ready => InSession(w) /\ Closing(w)
  BY IdleTied DEF Base
<1>3. QED
  BY <1>1, <1>2 DEF Tied

\* NewEpoch
LEMMA NewEpochFaded ==
  ASSUME NEW b \in Bounds, NEW w \in Worlds(b)
  PROVE  LET v == NewEpoch(w) IN
         /\ Faded(w, v) /\ Spent(v.hook.events) /\ Spent(v.batch)
         /\ v.tr = w.tr /\ v.app.listening = w.app.listening /\ v.app.capture = w.app.capture
<1>1. w.hook.events \in Seq(Events) /\ w.batch \in Seq(Events)
  BY DEF Worlds, Hooks
<1>x. PICK x : x = Aged(w.hook.events)
  OBVIOUS
<1>y. PICK y : y = Aged(w.batch)
  OBVIOUS
<1>r. PICK r : r = [t \in DOMAIN w.app.receipt |-> [w.app.receipt[t] EXCEPT !.fresh = FALSE]]
  OBVIOUS
<1>v. PICK v : v = NewEpoch(w)
  OBVIOUS
<1>2. Fades(w.hook.events, x) /\ Spent(x) /\ Fades(w.batch, y) /\ Spent(y)
  BY <1>1, <1>x, <1>y, AgedFades
<1>3. v = [w EXCEPT !.hook.events = x, !.hook.fresh = FALSE, !.batch = y, !.app.receipt = r]
  BY <1>x, <1>y, <1>r, <1>v DEF NewEpoch
<1>4. /\ v.hook.events = x /\ v.batch = y /\ v.tr = w.tr /\ v.seen = w.seen
      /\ v.app.now = w.app.now /\ v.app.ready = w.app.ready /\ v.app.selected = w.app.selected
      /\ v.app.capture = w.app.capture /\ v.app.listening = w.app.listening
      /\ v.hook.hold = w.hook.hold /\ v.hook.alive = w.hook.alive
      /\ v.hook.listening = w.hook.listening /\ v.hook.recording = w.hook.recording
  BY <1>3 DEF Worlds, Apps, Hooks
<1>5. SameTransport(w.tr, v.tr)
  BY <1>4, SameCommandsItself DEF SameTransport
<1>6. Faded(w, v)
  BY <1>2, <1>4, <1>5 DEF Faded, SameShown, SameRouter, Recording
<1>7. QED
  BY <1>2, <1>4, <1>6, <1>v

\* SessionOver
LEMMA SessionOverFaded ==
  ASSUME NEW b \in Bounds, NEW w \in Worlds(b)
  PROVE  LET v == SessionOver(w) IN
         Faded(w, v) /\ v.app = w.app
<1>1. w.hook.events \in Seq(Events) /\ w.tr.control \in Seq(Commands) /\ w.batch \in Seq(Events)
  BY DEF Worlds, Hooks, Transports
<1>x. PICK x : x = Outdated(w.hook.events)
  OBVIOUS
<1>y. PICK y : y = Outdated(w.tr.control)
  OBVIOUS
<1>v. PICK v : v = SessionOver(w)
  OBVIOUS
<1>2. Fades(w.hook.events, x) /\ SameCommands(w.tr.control, y) /\ Fades(w.batch, w.batch)
  BY <1>1, <1>x, <1>y, OutdatedFades, OutdatedSame, FadesItself
<1>3. v = [w EXCEPT !.hook.events = x, !.hook.current = FALSE, !.tr.control = y]
  BY <1>x, <1>y, <1>v DEF SessionOver
<1>4. /\ v.hook.events = x /\ v.batch = w.batch /\ v.seen = w.seen /\ v.app = w.app
      /\ v.hook.hold = w.hook.hold /\ v.hook.alive = w.hook.alive
      /\ v.hook.listening = w.hook.listening /\ v.hook.recording = w.hook.recording
  BY <1>3 DEF Worlds, Hooks
<1>5. /\ v.tr.control = y /\ v.tr.life = w.tr.life /\ v.tr.ready = w.tr.ready
      /\ v.tr.switching = w.tr.switching /\ v.tr.selected = w.tr.selected
      /\ v.tr.native = w.tr.native /\ v.tr.held = w.tr.held /\ v.tr.unread = w.tr.unread
      /\ v.tr.snapshot = w.tr.snapshot
  BY <1>3 DEF Worlds, Transports
<1>6. SameTransport(w.tr, v.tr)
  BY <1>2, <1>5 DEF SameTransport
<1>7. Faded(w, v)
  BY <1>2, <1>4, <1>6 DEF Faded, SameShown, SameRouter, Recording
<1>8. QED
  BY <1>4, <1>7, <1>v

\* ConsumeUi
LEMMA ConsumeUiFaded ==
  ASSUME NEW b \in Bounds, NEW w \in Worlds(b)
  PROVE  Faded(w, ConsumeUi(w)) /\ ConsumeUi(w).app = w.app
<1>1. w.hook.events \in Seq(Events) /\ w.batch \in Seq(Events)
  BY DEF Worlds, Hooks
<1>x. PICK x : x = [i \in DOMAIN w.hook.events |->
                      [w.hook.events[i] EXCEPT !.ui = ~w.hook.events[i].ordered]]
  OBVIOUS
<1>v. PICK v : v = ConsumeUi(w)
  OBVIOUS
<1>2. Fades(w.hook.events, x) /\ Fades(w.batch, w.batch)
  BY <1>1, <1>x, MarkedFades, FadesItself
<1>3. v = [w EXCEPT !.hook.events = x]
  BY <1>x, <1>v DEF ConsumeUi
<1>4. /\ v.hook.events = x /\ v.batch = w.batch /\ v.seen = w.seen /\ v.app = w.app /\ v.tr = w.tr
      /\ v.hook.hold = w.hook.hold /\ v.hook.alive = w.hook.alive
      /\ v.hook.listening = w.hook.listening /\ v.hook.recording = w.hook.recording
  BY <1>3 DEF Worlds, Hooks
<1>5. SameTransport(w.tr, v.tr)
  BY <1>4, SameCommandsItself DEF SameTransport
<1>6. QED
  BY <1>2, <1>4, <1>5, <1>v DEF Faded, SameShown, SameRouter, Recording

\* A call that only changes what the session does not depend on.
LEMMA OtherFaded ==
  ASSUME NEW w, NEW v, v.tr = w.tr, SameShown(w.app, v.app), v.hook = w.hook, v.batch = w.batch,
         v.seen.lost = w.seen.lost, Recording(v) => Recording(w)
  PROVE  Faded(w, v)
<1>1. SameTransport(w.tr, v.tr)
  BY SameCommandsItself DEF SameTransport
<1>2. QED
  BY <1>1, FadesItself DEF Faded, SameRouter

\* Require
LEMMA RequireFaded ==
  ASSUME NEW b \in Bounds, NEW w \in Worlds(b)
  PROVE  LET v == Require(w) IN
         /\ Faded(w, v) /\ v.app = w.app /\ v.tr.control = w.tr.control
<1>v. PICK v : v = Require(w)
  OBVIOUS
<1>1. v = [w EXCEPT !.tr.snapshot.early = w.tr.unread]
  BY <1>v DEF Require
<1>2. /\ v.app = w.app /\ v.hook = w.hook /\ v.seen = w.seen /\ v.batch = w.batch
      /\ v.tr.control = w.tr.control /\ v.tr.life = w.tr.life /\ v.tr.ready = w.tr.ready
      /\ v.tr.switching = w.tr.switching /\ v.tr.selected = w.tr.selected
      /\ v.tr.native = w.tr.native /\ v.tr.held = w.tr.held /\ v.tr.unread = w.tr.unread
      /\ v.tr.snapshot.now = w.tr.snapshot.now /\ v.tr.snapshot.ready = w.tr.snapshot.ready
      /\ v.tr.snapshot.selected = w.tr.snapshot.selected
  BY <1>1 DEF Worlds, Transports, Snapshots
<1>3. SameTransport(w.tr, v.tr)
  BY <1>2, SameCommandsItself DEF SameTransport
<1>4. QED
  BY <1>2, <1>3, <1>v, FadesItself DEF Faded, SameShown, SameRouter, Recording

\* Answer
LEMMA AnswerFaded ==
  ASSUME NEW b \in Bounds, NEW w \in Worlds(b), NEW ids \in SUBSET Nat, NEW answer
  PROVE  LET v == Answer(w, ids, answer) IN
         Faded(w, v) /\ v.tr.control = w.tr.control /\ v.hook = w.hook /\ v.batch = w.batch
<1>v. PICK v : v = Answer(w, ids, answer)
  OBVIOUS
<1>r. PICK r : r = [t \in DOMAIN w.app.receipt |->
                      IF t \in ids THEN [w.app.receipt[t] EXCEPT !.answer = answer]
                      ELSE w.app.receipt[t]]
  OBVIOUS
<1>p. PICK p : p = w.tr.pending \ ids
  OBVIOUS
<1>1. v = [w EXCEPT !.app.receipt = r, !.tr.pending = p]
  BY <1>v, <1>r, <1>p DEF Answer
<1>2. /\ v.hook = w.hook /\ v.seen = w.seen /\ v.batch = w.batch
      /\ v.app.now = w.app.now /\ v.app.ready = w.app.ready /\ v.app.selected = w.app.selected
      /\ v.app.capture = w.app.capture
  BY <1>1 DEF Worlds, Apps
<1>3. /\ v.tr.control = w.tr.control /\ v.tr.life = w.tr.life /\ v.tr.ready = w.tr.ready
      /\ v.tr.switching = w.tr.switching /\ v.tr.selected = w.tr.selected
      /\ v.tr.native = w.tr.native /\ v.tr.held = w.tr.held /\ v.tr.unread = w.tr.unread
      /\ v.tr.snapshot = w.tr.snapshot
  BY <1>1 DEF Worlds, Transports
<1>4. SameTransport(w.tr, v.tr)
  BY <1>3, SameCommandsItself DEF SameTransport
<1>5. QED
  BY <1>2, <1>3, <1>4, <1>v, FadesItself DEF Faded, SameShown, SameRouter, Recording

-----------------------------------------------------------------------------
(* Commands that the runtime queues.                                        *)

\* Change: whatever was shown, both know now that the session ends.
LEMMA ChangeTied ==
  ASSUME NEW b \in Bounds, NEW w \in Worlds(b), Base(w),
         NEW kind \in {"Select", "Restart", "Invalidate"}, NEW dev
  PROVE  LET v == Change(w, kind, dev) IN
         /\ Tied(v) /\ Excused(v) /\ ~v.app.now
         /\ Batched(w) => Batched(v)
         /\ Recorder(w) => Recorder(v)
         /\ v.hook = w.hook /\ v.batch = w.batch
         /\ v.app.ready = w.app.ready /\ v.app.selected = w.app.selected
         /\ v.app.capture = w.app.capture /\ v.app.listening = w.app.listening
<1>v. PICK v : v = Change(w, kind, dev)
  OBVIOUS
<1>s. PICK s : s = Revised(w.tr.control)
  OBVIOUS
<1>c. PICK c : c = Command(kind, dev, TRUE, 0, TRUE)
  OBVIOUS
<1>u. PICK u : u = NextRevision(w)
  OBVIOUS
<1>1. w.tr.control \in Seq(Commands) /\ DOMAIN s = DOMAIN w.tr.control
      /\ \A i \in DOMAIN s : s[i].kind = w.tr.control[i].kind /\ ~Live(s[i])
  BY <1>s, RevisedDead DEF Worlds, Transports
<1>2. u = [w EXCEPT !.app.now = FALSE, !.tr.snapshot.now = FALSE, !.tr.control = s]
  BY <1>u, <1>s DEF NextRevision
<1>3. /\ u.hook = w.hook /\ u.batch = w.batch /\ u.seen = w.seen /\ u.app.now = FALSE
      /\ u.app.ready = w.app.ready /\ u.app.selected = w.app.selected
      /\ u.app.capture = w.app.capture /\ u.app.listening = w.app.listening
  BY <1>2 DEF Worlds, Apps
<1>4. /\ u.tr.control = s /\ u.tr.life = w.tr.life /\ u.tr.ready = w.tr.ready
      /\ u.tr.switching = w.tr.switching /\ u.tr.selected = w.tr.selected
      /\ u.tr.native = w.tr.native /\ u.tr.held = w.tr.held /\ u.tr.unread = w.tr.unread
      /\ u.tr.snapshot.ready = w.tr.snapshot.ready
      /\ u.tr.snapshot.selected = w.tr.snapshot.selected
  BY <1>2 DEF Worlds, Transports, Snapshots
<1>5. u \in Worlds(b)
  <2>1. s \in Seq(Commands)
    BY <1>1, <1>s, RevisedCommands
  <2>2. QED
    BY <1>2, <2>1 DEF Worlds, Apps, Transports, Snapshots
<1>6. /\ Linked(w.tr) /\ Holding(w.hook) /\ Queued(w)
  BY DEF Base
<1>7. CASE CanRequest(w)
  <2>a. PICK a : a = Append(s, c)
    OBVIOUS
  <2>1. v = [u EXCEPT !.tr.control = a]
    BY <1>7, <1>4, <1>v, <1>u, <1>c, <2>a DEF Change
  <2>2. /\ v.app = u.app /\ v.hook = u.hook /\ v.seen = u.seen /\ v.batch = u.batch
        /\ v.tr.control = a /\ v.tr.life = u.tr.life /\ v.tr.ready = u.tr.ready
        /\ v.tr.switching = u.tr.switching /\ v.tr.selected = u.tr.selected
        /\ v.tr.native = u.tr.native /\ v.tr.held = u.tr.held /\ v.tr.unread = u.tr.unread
        /\ v.tr.snapshot = u.tr.snapshot
    BY <1>5, <2>1 DEF Worlds, Transports
  <2>3. s \in Seq(Commands)
    BY <1>1, <1>s, RevisedCommands
  <2>n. PICK n \in Nat : n = Len(s)
    BY <2>3
  <2>4. DOMAIN a = 1 .. n + 1 /\ DOMAIN s = 1 .. n /\ a[n + 1] = c /\ \A i \in 1 .. n : a[i] = s[i]
    BY <2>3, <2>a, <2>n
  <2>5. c.kind = kind /\ ~Live(c)
    BY <1>c DEF Command, Live, IsSend, IsPress
  <2>6. n + 1 \in DOMAIN a /\ \A i \in DOMAIN a : ~Live(a[i])
    BY <1>1, <2>4, <2>5
  <2>7. Kills(v.tr)
    BY <2>2, <2>4, <2>5, <2>6 DEF Kills
  <2>8. Linked(v.tr)
    BY <1>4, <1>6, <2>2, <2>6 DEF Linked
  <2>9. Holding(v.hook) /\ Queued(v)
    BY <1>3, <1>6, <2>2 DEF Queued
  <2>10. Tied(v)
    BY <1>3, <2>2, <2>7, <2>8, <2>9, OverTied DEF Base, Excused
  <2>11. (Batched(w) => Batched(v)) /\ (Recorder(w) => Recorder(v))
    BY <1>3, <2>2 DEF Batched, Recorder, Recording
  <2>12. QED
    BY <1>3, <2>2, <2>7, <2>10, <2>11, <1>v DEF Excused
<1>8. CASE ~CanRequest(w)
  <2>1. v = [u EXCEPT !.seen.lost = TRUE]
    BY <1>8, <1>v, <1>u DEF Change
  <2>2. v.app = u.app /\ v.hook = u.hook /\ v.tr = u.tr /\ v.batch = u.batch /\ v.seen.lost = TRUE
    BY <1>5, <2>1 DEF Worlds, Observers
  <2>3. Linked(v.tr)
    BY <1>1, <1>4, <1>6, <2>2 DEF Linked
  <2>4. Holding(v.hook) /\ Queued(v)
    BY <1>3, <1>6, <2>2 DEF Queued
  <2>5. Tied(v)
    BY <1>3, <2>2, <2>3, <2>4, OverTied DEF Base, Excused
  <2>6. Batched(v) /\ (Recorder(w) => Recorder(v))
    BY <1>3, <2>2 DEF Batched, Recorder, Recording
  <2>7. QED
    BY <1>3, <2>2, <2>5, <2>6, <1>v DEF Excused
<1>9. QED
  BY <1>7, <1>8

\* Without a supervisor there is no session.
LEMMA DownTied ==
  ASSUME NEW w, Base(w), w.tr.life # "up"
  PROVE  Tied(w)
<1>1. ~w.tr.ready /\ Linked(w.tr)
  BY DEF Base, Linked
<1>2. Seen(w.app, w.tr)
  BY DEF Seen
<1>3. InSession(w) /\ Closing(w)
  BY <1>1, IdleTied
<1>4. QED
  BY <1>2, <1>3 DEF Tied

\* Enqueue: the command belongs to the session that is shown, and a press has
\* its release behind it.
LEMMA EnqueueTied ==
  ASSUME NEW b \in Bounds, NEW w \in Worlds(b), NEW e \in Events, NEW id \in Nat,
         CanEnqueue(w, e), Base(w), Seen(w.app, w.tr)
  PROVE  LET v == Enqueue(w, e, id) IN
         /\ Base(v) /\ Seen(v.app, v.tr)
         /\ Excused(w) => Excused(v)
         /\ v.hook = w.hook /\ v.batch = w.batch /\ v.app = w.app /\ v.seen = w.seen
         /\ v.tr.life = w.tr.life
         /\ /\ Excused(w) \/ InSession(w)
            /\ e.kind # "release" => Excused(w) \/ Closing(w)
            /\ e.kind = "press" => Excused(w) \/ Coming(w)
            => Tied(v)
<1>v. PICK v : v = Enqueue(w, e, id)
  OBVIOUS
<1>c. PICK c : c = Command(e.kind, w.app.selected, w.app.now, id, e.current)
  OBVIOUS
<1>s. PICK s : s = w.tr.control
  OBVIOUS
<1>a. PICK a : a = Append(s, c)
  OBVIOUS
<1>1. v = [w EXCEPT !.tr.control = a]
  BY <1>v, <1>c, <1>a, <1>s DEF Enqueue
<1>2. /\ v.app = w.app /\ v.hook = w.hook /\ v.seen = w.seen /\ v.batch = w.batch
      /\ v.tr.control = a /\ v.tr.life = w.tr.life /\ v.tr.ready = w.tr.ready
      /\ v.tr.switching = w.tr.switching /\ v.tr.selected = w.tr.selected
      /\ v.tr.native = w.tr.native /\ v.tr.held = w.tr.held /\ v.tr.unread = w.tr.unread
      /\ v.tr.snapshot = w.tr.snapshot
  BY <1>1 DEF Worlds, Transports
<1>3. s \in Seq(Commands)
  BY <1>s DEF Worlds, Transports
<1>n. PICK n \in Nat : n = Len(s)
  BY <1>3
<1>4. DOMAIN a = 1 .. n + 1 /\ DOMAIN s = 1 .. n /\ a[n + 1] = c /\ \A i \in 1 .. n : a[i] = s[i]
  BY <1>3, <1>a, <1>n
<1>5. \A i \in DOMAIN a : (i \in DOMAIN s /\ a[i] = s[i]) \/ (i = n + 1 /\ a[i] = c)
  BY <1>4
<1>6. \A i \in DOMAIN s : i \in DOMAIN a /\ a[i] = s[i] /\ n + 1 > i
  BY <1>4
<1>7. /\ c.kind = e.kind /\ c.dev = w.app.selected /\ c.now = w.app.now
      /\ w.app.ready /\ w.app.selected # None /\ w.tr.life = "up"
  BY <1>c DEF Command, CanEnqueue, CanRequest
<1>8. c.now => c.dev # None /\ c.dev = w.tr.selected /\ Lasting(w.tr)
  BY <1>7 DEF Seen
<1>9. Linked(v.tr)
  <2>1. Lasting(v.tr) <=> Lasting(w.tr)
    BY <1>2 DEF Lasting
  <2>2. \A i \in DOMAIN s : Live(s[i]) => s[i].dev # None /\ s[i].dev = w.tr.selected /\ Lasting(w.tr)
    BY <1>s DEF Base, Linked
  <2>3. \A i \in DOMAIN a : Live(a[i]) => a[i].dev # None /\ a[i].dev = v.tr.selected /\ Lasting(v.tr)
    BY <1>2, <1>5, <1>8, <2>1, <2>2 DEF Live
  <2>4. QED
    BY <1>2, <2>3 DEF Base, Linked
<1>10. Base(v)
  BY <1>2, <1>9 DEF Base, Queued
<1>11. Seen(v.app, v.tr)
  BY <1>2 DEF Seen, Lasting
<1>12. Excused(w) => Excused(v)
  BY <1>2, <1>6, <1>s DEF Excused, Kills
<1>13. ASSUME InSession(w), ~Excused(w),
              e.kind # "release" => Closing(w),
              e.kind = "press" => Coming(w)
       PROVE  Tied(v)
  <2>1. InSession(v)
    <3>1. SUFFICES ASSUME v.tr.ready, v.tr.held \/ \E i \in DOMAIN a : LivePress(a[i])
                   PROVE  v.app.ready /\ v.app.now /\ (v.tr.unread => v.tr.snapshot.now)
      BY <1>2 DEF InSession
    <3>2. CASE v.tr.held \/ \E i \in DOMAIN s : LivePress(s[i])
      BY <1>2, <1>13, <1>s, <3>1, <3>2 DEF InSession
    <3>3. CASE LivePress(c)
      BY <1>2, <1>7, <1>8, <3>3 DEF LivePress, Lasting
    <3>4. QED
      BY <1>5, <3>1, <3>2, <3>3
  <2>2. Coming(v) <=> Coming(w)
    BY <1>2 DEF Coming
  <2>3. CASE e.kind # "release"
    <3>1. Closing(w)
      BY <1>13, <2>3
    <3>2. v.tr.held => Coming(v) \/ \E j \in DOMAIN a : LiveRelease(a[j])
      BY <1>2, <1>6, <1>s, <2>2, <3>1 DEF Closing
    <3>3. ASSUME v.tr.ready, NEW i \in DOMAIN a, LivePress(a[i])
          PROVE  Coming(v) \/ \E j \in DOMAIN a : j > i /\ LiveRelease(a[j])
      <4>1. CASE a[i] = c
        BY <1>7, <1>13, <2>2, <3>3, <4>1 DEF LivePress
      <4>2. CASE i \in DOMAIN s /\ a[i] = s[i]
        BY <1>2, <1>6, <1>s, <2>2, <3>1, <3>3, <4>2 DEF Closing
      <4>3. QED
        BY <1>5, <3>3, <4>1, <4>2
    <3>4. Closing(v)
      BY <1>2, <3>2, <3>3 DEF Closing
    <3>5. QED
      BY <1>10, <1>11, <2>1, <3>4 DEF Tied
  <2>4. CASE e.kind = "release" /\ w.app.now
    <3>1. n + 1 \in DOMAIN a /\ LiveRelease(a[n + 1])
      BY <1>4, <1>7, <2>4 DEF LiveRelease
    <3>2. ~LivePress(c)
      BY <1>7, <2>4 DEF LivePress
    <3>3. \A i \in DOMAIN a : LivePress(a[i]) => n + 1 > i
      BY <1>5, <1>6, <3>2
    <3>4. Closing(v)
      BY <1>2, <3>1, <3>3 DEF Closing
    <3>5. QED
      BY <1>10, <1>11, <2>1, <3>4 DEF Tied
  <2>5. CASE ~w.app.now
    <3>1. ~(v.tr.ready /\ (v.tr.held \/ \E i \in DOMAIN v.tr.control : LivePress(v.tr.control[i])))
      BY <1>2, <2>1, <2>5 DEF InSession
    <3>2. v.tr.held => v.tr.ready
      BY <1>9 DEF Linked
    <3>3. Closing(v)
      BY <3>1, <3>2 DEF Closing
    <3>4. QED
      BY <1>10, <1>11, <2>1, <3>3 DEF Tied
  <2>6. QED
    BY <2>3, <2>4, <2>5
<1>14. /\ Excused(w) \/ InSession(w)
       /\ e.kind # "release" => Excused(w) \/ Closing(w)
       /\ e.kind = "press" => Excused(w) \/ Coming(w)
       => Tied(v)
  BY <1>10, <1>11, <1>12, <1>13 DEF Tied
<1>15. QED
  BY <1>2, <1>10, <1>11, <1>12, <1>14, <1>v

\* Cleanup: a release for the session that is shown, or nothing.
LEMMA CleanupTied ==
  ASSUME NEW b \in Bounds, NEW w \in Worlds(b), Base(w), Seen(w.app, w.tr) \/ ~w.app.ready
  PROVE  LET v == Cleanup(w) IN
         /\ Base(v)
         /\ Seen(w.app, w.tr) => Seen(v.app, v.tr)
         /\ Excused(w) => Excused(v)
         /\ v.hook = w.hook /\ v.batch = w.batch /\ v.app = w.app /\ v.seen = w.seen
         /\ v.tr.life = w.tr.life
         /\ w.hook.hold # "held" => v = w
<1>v. PICK v : v = Cleanup(w)
  OBVIOUS
<1>e. PICK e : e = HeldRelease(w)
  OBVIOUS
<1>1. CASE ~(HoldsSeek(w) /\ CanEnqueue(w, e))
  <2>1. v = w
    BY <1>1, <1>v, <1>e DEF Cleanup
  <2>2. QED
    BY <2>1, <1>v
<1>2. CASE HoldsSeek(w) /\ CanEnqueue(w, e)
  <2>1. e \in Events /\ e.kind = "release"
    BY <1>e, HeldReleaseTyped DEF HeldRelease, Event
  <2>2. v = Enqueue(w, e, 0)
    BY <1>2, <1>v, <1>e DEF Cleanup
  <2>3. w.app.ready /\ w.hook.hold = "held"
    BY <1>2 DEF CanEnqueue, HoldsSeek
  <2>4. /\ Base(v) /\ Seen(v.app, v.tr)
        /\ Excused(w) => Excused(v)
        /\ v.hook = w.hook /\ v.batch = w.batch /\ v.app = w.app /\ v.seen = w.seen
        /\ v.tr.life = w.tr.life
    BY <1>2, <2>1, <2>2, <2>3, EnqueueTied
  <2>5. QED
    BY <2>3, <2>4, <1>v
<1>3. QED
  BY <1>1, <1>2

-----------------------------------------------------------------------------
(* invalidate                                                               *)

\* What invalidate does to the router and to the events, before it tells the
\* supervisor: no press that was captured will be sent any more.
LEMMA EndedTied ==
  ASSUME NEW b \in Bounds, NEW w, Good(b, w), Base(w), Seen(w.app, w.tr) \/ ~w.app.ready
  PROVE  LET v == NewEpoch(IF w.hook.alive = "up" THEN Terminated(Cleanup(w)) ELSE w) IN
         /\ Base(v) /\ v.hook.hold = "none"
         /\ Spent(v.hook.events) /\ Spent(v.batch)
         /\ Seen(w.app, w.tr) => Seen(v.app, v.tr)
         /\ Excused(w) => Excused(v)
         /\ Tied(w) /\ w.hook.hold # "held" => Tied(v)
         /\ Recorder(w) => Recorder(v)
         /\ v.tr.life = w.tr.life
         /\ v.hook.alive = w.hook.alive /\ SameShown(w.app, v.app)
         /\ v.app.capture = w.app.capture /\ v.app.listening = w.app.listening
<1>c. PICK c : c = Cleanup(w)
  OBVIOUS
<1>d. PICK d : d = (IF w.hook.alive = "up" THEN Terminated(c) ELSE w)
  OBVIOUS
<1>v. PICK v : v = NewEpoch(d)
  OBVIOUS
<1>1. w \in Worlds(b)
  BY DEF Good, Sound, Core
<1>2. /\ Good(b, c) /\ Base(c)
      /\ Seen(w.app, w.tr) => Seen(c.app, c.tr)
      /\ Excused(w) => Excused(c)
      /\ c.hook = w.hook /\ c.batch = w.batch /\ c.app = w.app /\ c.seen = w.seen
      /\ c.tr.life = w.tr.life
      /\ w.hook.hold # "held" => c = w
  <2>1. Good(b, c)
    BY <1>c, CleanupGood
  <2>2. QED
    BY <1>1, <1>c, <2>1, CleanupTied
<1>3. /\ d \in Worlds(b) /\ d.hook.hold = "none"
      /\ Linked(d.tr) /\ d.batch = w.batch /\ d.app = w.app /\ d.seen = w.seen
      /\ d.hook.events = w.hook.events /\ d.hook.alive = w.hook.alive
      /\ d.hook.listening = w.hook.listening /\ d.hook.recording = w.hook.recording
      /\ Seen(w.app, w.tr) => Seen(d.app, d.tr)
      /\ Excused(w) => Excused(d)
      /\ w.hook.hold # "held" => d.tr = w.tr
      /\ d.tr.life = w.tr.life
  <2>1. CASE w.hook.alive = "up"
    <3>1. d = Terminated(c)
      BY <1>d, <2>1
    <3>2. Sound(b, c) /\ c \in Worlds(b)
      BY <1>2 DEF Good, Sound, Core
    <3>3. Sound(b, d) /\ d.app = c.app /\ d.tr = c.tr /\ d.seen = c.seen /\ d.batch = c.batch
          /\ d.hook.events = c.hook.events /\ d.hook.alive = c.hook.alive /\ d.hook.hold = "none"
      BY <3>1, <3>2, TerminatedSound
    <3>4. d.hook.listening = c.hook.listening /\ d.hook.recording = c.hook.recording
      BY <3>1, <3>2 DEF Terminated, Worlds, Hooks
    <3>5. d \in Worlds(b)
      BY <3>3 DEF Sound, Core
    <3>6. Seen(w.app, w.tr) => Seen(d.app, d.tr)
      BY <1>2, <3>3
    <3>7. Excused(w) => Excused(d)
      BY <1>2, <3>3 DEF Excused
    <3>8. Linked(d.tr)
      BY <1>2, <3>3 DEF Base
    <3>9. QED
      BY <1>2, <3>3, <3>4, <3>5, <3>6, <3>7, <3>8
  <2>2. CASE w.hook.alive # "up"
    <3>1. d = w
      BY <1>d, <2>2
    <3>2. w.hook.hold = "none"
      BY <2>2 DEF Base, Holding
    <3>3. QED
      BY <1>1, <3>1, <3>2 DEF Base
  <2>3. QED
    BY <2>1, <2>2
<1>4. /\ Faded(d, v) /\ Spent(v.hook.events) /\ Spent(v.batch)
      /\ v.tr = d.tr /\ v.app.listening = d.app.listening /\ v.app.capture = d.app.capture
  BY <1>3, <1>v, NewEpochFaded
<1>5. v.hook.hold = "none" /\ v.hook.alive = w.hook.alive /\ SameShown(w.app, v.app)
      /\ v.hook.recording = w.hook.recording
  BY <1>3, <1>4 DEF Faded, SameRouter, SameShown
<1>6. Base(v)
  <2>1. Paired(v.hook.events)
    BY <1>4, SpentPaired
  <2>2. QED
    BY <1>3, <1>4, <1>5, <2>1 DEF Base, Holding, Queued
<1>7. /\ Seen(w.app, w.tr) => Seen(v.app, v.tr)
      /\ Excused(w) => Excused(v)
  BY <1>3, <1>4, FadedTied
<1>8. Tied(w) /\ w.hook.hold # "held" => Tied(v)
  <2>1. SUFFICES ASSUME Tied(w), w.hook.hold # "held"
                 PROVE  Tied(v)
    OBVIOUS
  <2>2. SameTransport(w.tr, v.tr)
    BY <1>3, <1>4, <2>1, SameCommandsItself DEF SameTransport
  <2>3. Releases(v.hook.events) <=> Releases(w.hook.events)
    BY <1>3, <1>4, FadesKeeps DEF Faded
  <2>4. Releases(v.batch) <=> Releases(w.batch)
    BY <1>3, <1>4, FadesKeeps DEF Faded
  <2>5. Coming(w) => Coming(v)
    BY <2>1, <2>3, <2>4 DEF Coming
  <2>6. (InSession(w) => InSession(v)) /\ (Closing(w) => Closing(v))
    BY <1>5, <2>2, <2>5, SameSession
  <2>7. QED
    BY <1>6, <1>7, <2>1, <2>6 DEF Tied
<1>9. Recorder(w) => Recorder(v)
  <2>1. ~Released(v.hook.events) /\ ~Released(v.batch)
    BY <1>4, SpentPaired
  <2>2. QED
    BY <1>3, <1>4, <1>5, <2>1 DEF Recorder, Recording
<1>10. v.tr.life = w.tr.life /\ v.app.capture = w.app.capture /\ v.app.listening = w.app.listening
  BY <1>3, <1>4
<1>11. v = NewEpoch(IF w.hook.alive = "up" THEN Terminated(Cleanup(w)) ELSE w)
  BY <1>v, <1>d, <1>c
<1>12. QED
  BY <1>4, <1>5, <1>6, <1>7, <1>8, <1>9, <1>10, <1>11

\* Invalidate: a session that is lost ends at the supervisor too, one that is
\* already over needs no more, and without a held seek nothing is missing.
LEMMA InvalidateTied ==
  ASSUME NEW b \in Bounds, NEW w, Good(b, w), Base(w), Seen(w.app, w.tr) \/ ~w.app.ready, NEW reason
  PROVE  LET v == Invalidate(w, reason) IN
         /\ Base(v) /\ v.hook.hold = "none"
         /\ Spent(v.hook.events) /\ Spent(v.batch)
         /\ Excused(w) => Excused(v)
         /\ \/ reason = "TransportLost"
            \/ Excused(w) /\ Seen(w.app, w.tr)
            \/ Tied(w) /\ w.hook.hold # "held"
            => Tied(v)
         /\ Recorder(w) => Recorder(v)
         /\ v.app.ready = w.app.ready /\ v.app.selected = w.app.selected
         /\ v.app.now => w.app.now
         /\ v.tr.life = w.tr.life
         /\ v.hook.alive = w.hook.alive /\ v.app.listening = w.app.listening
         /\ Recording(v) <=> Recording(w)
<1>d. PICK d : d = NewEpoch(IF w.hook.alive = "up" THEN Terminated(Cleanup(w)) ELSE w)
  OBVIOUS
<1>r. PICK r : r = [d EXCEPT !.app.capture = IF d.app.capture = "none" THEN "none" ELSE "waiting",
                             !.app.test = 0]
  OBVIOUS
<1>t. PICK tells \in BOOLEAN : tells = (reason = "TransportLost" \/ (reason = "ListenerStopped" /\ ~w.app.input))
  OBVIOUS
<1>v. PICK v : v = Invalidate(w, reason)
  OBVIOUS
<1>1. Good(b, d)
  BY <1>d, EndedGood
<1>2. d \in Worlds(b)
  BY <1>1 DEF Good, Sound, Core
<1>3. /\ Base(d) /\ d.hook.hold = "none"
      /\ Spent(d.hook.events) /\ Spent(d.batch)
      /\ Seen(w.app, w.tr) => Seen(d.app, d.tr)
      /\ Excused(w) => Excused(d)
      /\ Tied(w) /\ w.hook.hold # "held" => Tied(d)
      /\ Recorder(w) => Recorder(d)
      /\ d.tr.life = w.tr.life
      /\ d.hook.alive = w.hook.alive /\ SameShown(w.app, d.app)
      /\ d.app.capture = w.app.capture /\ d.app.listening = w.app.listening
  BY <1>d, EndedTied
<1>4. /\ r \in Worlds(b)
      /\ r.tr = d.tr /\ r.hook = d.hook /\ r.batch = d.batch /\ r.seen = d.seen
      /\ r.app.now = d.app.now /\ r.app.ready = d.app.ready /\ r.app.selected = d.app.selected
      /\ r.app.listening = d.app.listening
      /\ r.app.capture = IF d.app.capture = "none" THEN "none" ELSE "waiting"
  BY <1>2, <1>r DEF Worlds, Apps
<1>5. Recording(r) <=> Recording(d)
  BY <1>4 DEF Recording
<1>6. Faded(d, r)
  BY <1>4, <1>5, OtherFaded DEF SameShown
<1>7. /\ Base(r) /\ (Excused(r) <=> Excused(d))
      /\ Tied(d) => Tied(r)
      /\ Recorder(d) => Recorder(r)
      /\ Seen(d.app, d.tr) => Seen(r.app, r.tr)
  BY <1>3, <1>6, FadedTied
<1>8. CASE tells /\ w.tr.life # "none"
  <2>1. v = Change(r, "Invalidate", None)
    BY <1>8, <1>v, <1>r, <1>d, <1>t DEF Invalidate
  <2>2. /\ Tied(v) /\ Excused(v) /\ ~v.app.now
        /\ Recorder(r) => Recorder(v)
        /\ v.hook = r.hook /\ v.batch = r.batch
        /\ v.app.ready = r.app.ready /\ v.app.selected = r.app.selected
        /\ v.app.capture = r.app.capture /\ v.app.listening = r.app.listening
    BY <1>4, <1>7, <2>1, ChangeTied
  <2>3. v.tr.life = r.tr.life
    <3>1. Good(b, v) /\ v.tr.life = w.tr.life
      BY <1>v, InvalidateGood
    <3>2. QED
      BY <1>3, <1>4, <3>1
  <2>4. Recording(v) <=> Recording(w)
    BY <1>3, <1>5, <2>2 DEF Recording
  <2>5. QED
    BY <1>3, <1>4, <1>7, <2>2, <2>3, <2>4, <1>v DEF Tied, SameShown
<1>9. CASE ~(tells /\ w.tr.life # "none")
  <2>1. v = r
    BY <1>9, <1>v, <1>r, <1>d, <1>t DEF Invalidate
  <2>2. reason = "TransportLost" => Tied(r)
    BY <1>3, <1>4, <1>7, <1>9, <1>t, DownTied
  <2>3. Excused(w) /\ Seen(w.app, w.tr) => Tied(r)
    BY <1>3, <1>7 DEF Tied
  <2>4. Tied(w) /\ w.hook.hold # "held" => Tied(r)
    BY <1>3, <1>7
  <2>5. Recording(v) <=> Recording(w)
    BY <1>3, <1>5, <2>1 DEF Recording
  <2>6. QED
    BY <1>3, <1>4, <1>7, <2>1, <2>2, <2>3, <2>4, <2>5, <1>v DEF SameShown
<1>10. QED
  BY <1>8, <1>9

-----------------------------------------------------------------------------
(* configure_input, the media outputs and discard_events.                   *)

\* Configure: a seek that is given up leaves its release with the events.
LEMMA ConfigureTied ==
  ASSUME NEW b \in Bounds, NEW w \in Worlds(b), Base(w)
  PROVE  LET v == Configure(w) IN
         /\ Base(v)
         /\ v.app = w.app /\ v.tr = w.tr /\ v.seen = w.seen /\ v.batch = w.batch
         /\ v.hook.alive = w.hook.alive
         /\ v.hook.hold # "none" => w.app.listening
         /\ w.hook.alive = "up" /\ Recording(w) => v.hook.recording
         /\ Tied(w) => Tied(v)
         /\ Batched(w) => Batched(v)
         /\ (Recording(w) => ~Released(w.hook.events) /\ ~Released(w.batch)) => Recorder(v)
<1>v. PICK v : v = Configure(w)
  OBVIOUS
<1>e. PICK e : e = HeldRelease(w)
  OBVIOUS
<1>g. PICK recording \in BOOLEAN : recording = Recording(w)
  BY DEF Recording
<1>k. PICK told : told = [w EXCEPT !.hook.listening = w.app.listening, !.hook.recording = recording]
  OBVIOUS
<1>p. PICK stops \in BOOLEAN :
        stops = ((w.hook.listening /\ ~w.app.listening) \/ (~w.hook.recording /\ recording))
  BY DEF Worlds, Hooks, Apps
<1>1. /\ w.hook.events \in Seq(Events) /\ w.app.listening \in BOOLEAN
      /\ w.hook.listening \in BOOLEAN /\ w.hook.recording \in BOOLEAN
  BY DEF Worlds, Hooks, Apps
<1>2. /\ told.app = w.app /\ told.tr = w.tr /\ told.seen = w.seen /\ told.batch = w.batch
      /\ told.hook.listening = w.app.listening /\ told.hook.recording = recording
      /\ told.hook.alive = w.hook.alive /\ told.hook.hold = w.hook.hold
      /\ told.hook.events = w.hook.events /\ told \in Worlds(b)
  BY <1>k, <1>1 DEF Worlds, Hooks
<1>3. e \in Events /\ e.kind = "release" /\ e.ordered
  BY <1>e, HeldReleaseTyped DEF HeldRelease, Event
<1>4. /\ Linked(w.tr) /\ Holding(w.hook) /\ Queued(w)
  BY DEF Base
<1>5. /\ v.app = w.app /\ v.tr = w.tr /\ v.seen = w.seen /\ v.batch = w.batch
      /\ v.hook.alive = w.hook.alive
      /\ Holding(v.hook) /\ (v.hook.hold # "none" => w.app.listening)
      /\ w.hook.alive = "up" => v.hook.recording = recording
      /\ \/ v.hook.hold = w.hook.hold /\ v.hook.events = w.hook.events
         \/ w.hook.hold # "held" /\ v.hook.hold # "held" /\ v.hook.events = w.hook.events
         \/ v.hook.events = Append(w.hook.events, e)
  <2>1. CASE w.hook.alive # "up"
    <3>1. v = w
      BY <1>v, <2>1 DEF Configure
    <3>2. QED
      BY <1>4, <2>1, <3>1 DEF Holding
  <2>2. CASE w.hook.alive = "up" /\ ~stops
    <3>1. v = told
      BY <1>v, <1>k, <1>p, <1>g, <2>2 DEF Configure
    <3>2. w.hook.hold # "none" => w.app.listening /\ ~recording
      BY <1>4, <1>p, <2>2 DEF Holding
    <3>3. QED
      BY <1>2, <2>2, <3>1, <3>2 DEF Holding
  <2>3. CASE w.hook.alive = "up" /\ stops
    <3>x. PICK x : x = (IF HoldsSeek(w) THEN Append(w.hook.events, e) ELSE w.hook.events)
      OBVIOUS
    <3>t. PICK t : t = Terminated(told)
      OBVIOUS
    <3>1. t = [told EXCEPT !.hook.hold = "none", !.hook.fresh = FALSE, !.hook.current = FALSE]
      BY <3>t DEF Terminated
    <3>2. /\ t.app = w.app /\ t.tr = w.tr /\ t.seen = w.seen /\ t.batch = w.batch
          /\ t.hook.hold = "none" /\ t.hook.alive = w.hook.alive /\ t.hook.recording = recording
          /\ t.hook.events = w.hook.events /\ t \in Worlds(b)
      BY <1>2, <3>1 DEF Worlds, Hooks
    <3>3. v = [t EXCEPT !.hook.events = x]
      <4>1. Configure(w) = [Terminated(told) EXCEPT
                              !.hook.events = IF HoldsSeek(w) THEN Append(@, HeldRelease(w)) ELSE @]
        <5>1. (w.hook.listening /\ ~w.app.listening) \/ (~w.hook.recording /\ Recording(w))
          BY <1>p, <1>g, <2>3
        <5>2. w.hook.alive = "up"
          BY <2>3
        <5>k. told = [w EXCEPT !.hook.listening = w.app.listening, !.hook.recording = Recording(w)]
          BY <1>k, <1>g
        <5> HIDE DEF Recording
        <5>3. QED
          BY <5>1, <5>2, <5>k DEF Configure
      <4>2. QED
        BY <1>v, <1>e, <3>t, <3>2, <3>x, <4>1
    <3>4. /\ v.app = w.app /\ v.tr = w.tr /\ v.seen = w.seen /\ v.batch = w.batch
          /\ v.hook.alive = w.hook.alive /\ v.hook.hold = "none" /\ v.hook.recording = recording
          /\ v.hook.events = x
      BY <3>2, <3>3 DEF Worlds, Hooks
    <3>5. w.hook.hold # "held" => x = w.hook.events
      BY <3>x DEF HoldsSeek
    <3>6. QED
      BY <2>3, <3>4, <3>5, <3>x DEF Holding, HoldsSeek
  <2>4. QED
    BY <2>1, <2>2, <2>3
<1>6. /\ Coming(w) => Coming(v)
      /\ Queued(v)
      /\ Batched(w) => Batched(v)
      /\ ~Released(w.hook.events) => ~Released(v.hook.events)
  <2>1. CASE v.hook.events = Append(w.hook.events, e)
    <3>1. /\ Releases(v.hook.events) /\ Paired(v.hook.events)
          /\ ~Released(w.hook.events) => ~Released(v.hook.events)
      BY <1>1, <1>3, <2>1, AppendedEvents
    <3>2. QED
      BY <3>1 DEF Coming, Queued, Batched
  <2>2. CASE v.hook.events = w.hook.events /\ (v.hook.hold = "held" <=> w.hook.hold = "held")
    BY <1>4, <1>5, <2>2 DEF Coming, Queued, Batched
  <2>3. QED
    BY <1>5, <2>1, <2>2
<1>7. Base(v)
  BY <1>4, <1>5, <1>6 DEF Base
<1>8. Tied(w) => Tied(v)
  <2>1. SameTransport(w.tr, v.tr) /\ SameShown(w.app, v.app) /\ (Excused(w) => Excused(v))
    BY <1>5, SameCommandsItself DEF SameTransport, SameShown, Excused
  <2>2. QED
    BY <1>6, <1>7, <2>1, SameSession DEF Tied
<1>9. (Recording(w) => ~Released(w.hook.events) /\ ~Released(w.batch)) => Recorder(v)
  BY <1>5, <1>6, <1>g DEF Recorder, Recording
<1>10. w.hook.alive = "up" /\ Recording(w) => v.hook.recording
  BY <1>5, <1>g
<1>11. QED
  BY <1>5, <1>6, <1>7, <1>8, <1>9, <1>10, <1>v

\* The release or press at hand was the last thing of its kind to wait for.
MediaReady(w, e) ==
  /\ Base(w) /\ Seen(w.app, w.tr)
  /\ Excused(w) \/ InSession(w)
  /\ e.kind # "release" => Excused(w) \/ Closing(w)
  /\ e.kind = "press" /\ e.fresh => Excused(w) \/ Coming(w)

\* Media: the command is queued, or the session it was meant for is given up.
LEMMA MediaTied ==
  ASSUME NEW b \in Bounds, NEW w, Good(b, w), NEW e \in Events, NEW late,
         MediaReady(w, e)
  PROVE  LET v == Media(w, e, late) IN
         /\ Tied(v)
         /\ Batched(w) => Batched(v)
         /\ Recorder(w) => Recorder(v)
         /\ Spent(w.batch) => Spent(v.batch)
         /\ v.app.listening = w.app.listening
         /\ Recording(v) <=> Recording(w)
<1>v. PICK v : v = Media(w, e, late)
  OBVIOUS
<1>i. PICK ignored : ignored = (IsPress(e) /\ (~w.app.listening \/ ~e.fresh))
  OBVIOUS
<1>q. PICK queued : queued = (CanEnqueue(w, e) /\ ~(IsPress(e) /\ late))
  OBVIOUS
<1>1. w \in Worlds(b) /\ Base(w) /\ Seen(w.app, w.tr)
  BY DEF Good, Sound, Core, MediaReady
<1>2. CASE v = w /\ ignored
  <2>1. e.kind # "release"
    BY <1>2, <1>i DEF IsPress
  <2>2. Tied(v)
    BY <1>2, <2>1 DEF MediaReady, Tied
  <2>3. QED
    BY <1>2, <2>2, <1>v
<1>3. CASE v = Enqueue(w, e, 0) /\ ~ignored /\ queued
  <2>1. e.kind = "press" => Excused(w) \/ Coming(w)
    BY <1>3, <1>i DEF MediaReady, IsPress
  <2>2. CanEnqueue(w, e)
    BY <1>3, <1>q
  <2>3. /\ Tied(v)
        /\ v.hook = w.hook /\ v.batch = w.batch /\ v.app = w.app /\ v.seen = w.seen
    BY <1>1, <1>3, <2>1, <2>2, EnqueueTied DEF MediaReady
  <2>4. (Batched(w) => Batched(v)) /\ (Recorder(w) => Recorder(v)) /\ (Recording(v) <=> Recording(w))
    BY <2>3 DEF Batched, Recorder, Recording
  <2>5. QED
    BY <2>3, <2>4, <1>v
<1>4. CASE v = Invalidate(w, "TransportLost")
  <2>1. /\ Tied(v) /\ Spent(v.hook.events) /\ Spent(v.batch)
        /\ Recorder(w) => Recorder(v)
        /\ v.hook.alive = w.hook.alive /\ v.app.listening = w.app.listening
        /\ Recording(v) <=> Recording(w)
    BY <1>1, <1>4, InvalidateTied
  <2>2. Batched(v)
    BY <2>1, SpentPaired DEF Batched
  <2>3. QED
    BY <2>1, <2>2, <1>v
<1>5. CASE v = w /\ ~ignored /\ ~w.app.ready
  <2>1. InSession(w) => Closing(w)
    BY <1>1, <1>5 DEF InSession, Closing, Base, Linked
  <2>2. Tied(v)
    BY <1>1, <1>5, <2>1 DEF MediaReady, Tied
  <2>3. QED
    BY <1>5, <2>2, <1>v
<1>6. QED
  BY <1>2, <1>3, <1>4, <1>5, <1>v, <1>i, <1>q DEF Media

-----------------------------------------------------------------------------
(* discard_events, and the calls that use it.                               *)

\* An event has left the others: its release, if it is a press, is still there.
LEMMA TakenTied ==
  ASSUME NEW w, NEW r, NEW e, Tied(w),
         r.tr = w.tr, r.app = w.app, SameRouter(w.hook, r.hook), r.seen = w.seen, Queued(r),
         e.kind # "release" /\ Coming(w) => Coming(r),
         e.kind = "press" /\ e.fresh => Excused(w) \/ Coming(r)
  PROVE  /\ MediaReady(r, e)
         /\ e.kind # "release" => Tied(r)
<1>1. SameTransport(w.tr, r.tr) /\ SameShown(w.app, r.app)
  BY SameCommandsItself DEF SameTransport, SameShown
<1>2. Holding(r.hook) /\ Linked(r.tr) /\ Seen(r.app, r.tr) /\ (Excused(r) <=> Excused(w))
  BY DEF Tied, Base, Holding, SameRouter, Excused
<1>3. /\ InSession(w) => InSession(r)
      /\ e.kind # "release" /\ Closing(w) => Closing(r)
  BY <1>1, SameSession
<1>4. QED
  BY <1>2, <1>3 DEF Tied, Base, MediaReady

\* One event of a discard: ordered cleanup is applied, any other release is given up.
LEMMA DiscardNextTied ==
  ASSUME NEW b \in Bounds, NEW v, Good(b, v), Tied(v), NEW late, Len(v.hook.events) > 0
  PROVE  LET u == DiscardNext(v, late) IN
         /\ Tied(u)
         /\ Recorder(v) => Recorder(u)
         /\ Spent(v.batch) => Spent(u.batch)
         /\ u.app.listening = v.app.listening
         /\ Recording(u) <=> Recording(v)
<1>1. /\ v \in Worlds(b) /\ v.hook.events \in Seq(Events) /\ v.seen.lost \in BOOLEAN
      /\ Timely(v.hook.events)
  BY DEF Good, Sound, Core, HookGood, Worlds, Hooks, Observers
<1>e. PICK e : e = Head(v.hook.events)
  OBVIOUS
<1>x. PICK x : x = Tail(v.hook.events)
  OBVIOUS
<1>2. /\ x \in Seq(Events) /\ Timely(x) /\ e \in Events
  BY <1>1, <1>e, <1>x, TailTimely
<1>3. /\ Paired(v.hook.events) => Paired(x)
      /\ Paired(v.hook.events) /\ e.kind = "press" /\ e.fresh => Releases(x)
      /\ Releases(v.hook.events) /\ e.kind # "release" => Releases(x)
      /\ ~Released(v.hook.events) => ~Released(x)
  BY <1>1, <1>e, <1>x, TailEvents
<1>r. PICK r : r = [v EXCEPT !.hook.events = x]
  OBVIOUS
<1>4. /\ r \in Worlds(b)
      /\ r.app = v.app /\ r.tr = v.tr /\ r.seen = v.seen /\ r.batch = v.batch
      /\ r.hook.events = x /\ SameRouter(v.hook, r.hook)
  BY <1>1, <1>2, <1>r DEF Worlds, Hooks, SameRouter
<1>5. Good(b, r)
  BY <1>2, <1>4, <1>r, EventsSound DEF Good
<1>6. /\ Queued(r)
      /\ e.kind # "release" /\ Coming(v) => Coming(r)
      /\ e.kind = "press" /\ e.fresh => Excused(v) \/ Coming(r)
  BY <1>3, <1>4 DEF Tied, Base, Queued, Coming, Excused, SameRouter
<1>7. MediaReady(r, e) /\ (e.kind # "release" => Tied(r))
  BY <1>4, <1>6, TakenTied
<1>8. Recorder(v) => Recorder(r)
  BY <1>3, <1>4 DEF Recorder, Recording, SameRouter
<1>9. CASE e.ordered
  <2>u. PICK u : u = Media(r, e, late)
    OBVIOUS
  <2>1. DiscardNext(v, late) = u
    BY <1>e, <1>x, <1>r, <1>9, <2>u DEF DiscardNext
  <2>2. /\ Tied(u)
        /\ Recorder(r) => Recorder(u)
        /\ Spent(r.batch) => Spent(u.batch)
        /\ u.app.listening = r.app.listening
        /\ Recording(u) <=> Recording(r)
    BY <1>2, <1>5, <1>7, <2>u, MediaTied
  <2>3. QED
    BY <1>4, <1>8, <2>1, <2>2 DEF Recording
<1>10. CASE ~e.ordered
  <2>y. PICK y \in BOOLEAN : y = (v.seen.lost \/ e.kind = "release")
    BY <1>1
  <2>u. PICK u : u = [r EXCEPT !.seen.lost = y]
    OBVIOUS
  <2>1. DiscardNext(v, late) = u
    <3>1. DiscardNext(v, late) = [r EXCEPT !.seen.lost = @ \/ e.kind = "release"]
      BY <1>e, <1>x, <1>r, <1>10 DEF DiscardNext
    <3>2. QED
      BY <1>4, <2>y, <2>u, <3>1
  <2>2. /\ u.app = r.app /\ u.tr = r.tr /\ u.hook = r.hook /\ u.batch = r.batch /\ u.seen.lost = y
    BY <1>4, <2>u DEF Worlds, Observers
  <2>3. Tied(u)
    <3>1. Linked(u.tr) /\ Holding(u.hook) /\ Seen(u.app, u.tr)
      BY <1>7, <2>2 DEF MediaReady, Base
    <3>2. Queued(u) /\ (Excused(r) => Excused(u))
      BY <1>4, <1>6, <2>2, <2>y DEF Queued, Excused
    <3>3. CASE e.kind = "release"
      BY <2>2, <2>y, <3>1, <3>2, <3>3 DEF Tied, Base, Excused
    <3>4. CASE e.kind # "release"
      <4>1. (InSession(r) => InSession(u)) /\ (Closing(r) => Closing(u))
        BY <2>2 DEF InSession, Closing, Coming
      <4>2. QED
        BY <1>7, <3>1, <3>2, <3>4, <4>1 DEF Tied, Base
    <3>5. QED
      BY <3>3, <3>4
  <2>4. Recorder(r) => Recorder(u)
    BY <2>2 DEF Recorder, Recording
  <2>5. QED
    BY <1>4, <1>8, <2>1, <2>2, <2>3, <2>4 DEF Recording
<1>11. QED
  BY <1>9, <1>10

\* Discard: what is given up are releases that were noticed as lost.
LEMMA DiscardTied ==
  ASSUME NEW b \in Bounds, NEW w, Good(b, w), Tied(w), NEW late
  PROVE  LET v == Discard(w, late) IN
         /\ Good(b, v) /\ Tied(v) /\ v.hook.alive = w.hook.alive
         /\ Recorder(w) => Recorder(v)
         /\ Spent(w.batch) => Spent(v.batch)
         /\ v.app.listening = w.app.listening
         /\ Recording(v) <=> Recording(w)
<1> DEFINE Fine(v) == /\ Tied(v)
                      /\ Recorder(w) => Recorder(v)
                      /\ Spent(w.batch) => Spent(v.batch)
                      /\ v.app.listening = w.app.listening
                      /\ Recording(v) <=> Recording(w)
<1>C. PICK C : C = {v \in Worlds(b) : Fine(v)}
  OBVIOUS
<1>1. w \in C
  BY <1>C DEF Good, Sound, Core
<1>2. ASSUME NEW v \in C, Good(b, v), Len(v.hook.events) > 0
      PROVE  DiscardNext(v, late) \in C
  <2>u. PICK u : u = DiscardNext(v, late)
    OBVIOUS
  <2>1. Fine(v)
    BY <1>C
  <2>2. u \in Worlds(b)
    BY <1>2, <2>u, DiscardNextGood DEF Good, Sound, Core
  <2>3. /\ Tied(u)
        /\ Recorder(v) => Recorder(u)
        /\ Spent(v.batch) => Spent(u.batch)
        /\ u.app.listening = v.app.listening
        /\ Recording(u) <=> Recording(v)
    BY <1>2, <2>1, <2>u, DiscardNextTied
  <2>4. Fine(u)
    BY <2>1, <2>3
  <2>5. QED
    BY <1>C, <2>2, <2>4, <2>u
<1>v. PICK v : v = Discard(w, late)
  OBVIOUS
<1>3. v \in C /\ Good(b, v) /\ v.hook.alive = w.hook.alive
  BY <1>1, <1>2, <1>v, DiscardStays
<1>4. Fine(v)
  BY <1>C, <1>3
<1>5. QED
  BY <1>3, <1>4, <1>v

\* Listening, recording and the input at hand are no matter of the session.
LEMMA FlagsTied ==
  ASSUME NEW w, NEW v, v.tr = w.tr, SameShown(w.app, v.app), v.hook = w.hook, v.batch = w.batch,
         v.seen.lost = w.seen.lost
  PROVE  /\ Base(w) => Base(v)
         /\ Tied(w) => Tied(v)
         /\ Batched(w) => Batched(v)
         /\ Seen(w.app, w.tr) => Seen(v.app, v.tr)
         /\ Excused(v) <=> Excused(w)
<1>1. Base(w) => Base(v)
  BY DEF Base, Queued
<1>2. Seen(w.app, w.tr) => Seen(v.app, v.tr)
  BY DEF SameShown, Seen
<1>3. Excused(v) <=> Excused(w)
  BY DEF Excused
<1>4. (InSession(w) => InSession(v)) /\ (Closing(w) => Closing(v))
  BY DEF SameShown, InSession, Closing, Coming
<1>5. Batched(w) => Batched(v)
  BY DEF Batched
<1>6. QED
  BY <1>1, <1>2, <1>3, <1>4, <1>5 DEF Tied

\* EnsureInput: the router of a new listener holds nothing.
LEMMA EnsureInputTied ==
  ASSUME NEW b \in Bounds, NEW w, Good(b, w), Tied(w), NEW late
  PROVE  LET v == EnsureInput(w, late) IN
         /\ Good(b, v) /\ Tied(v)
         /\ Batched(w) => Batched(v)
         /\ v.app.listening = w.app.listening /\ v.hook.alive = "up"
         /\ Recording(v) <=> Recording(w)
         /\ Recorder(w) /\ Recording(w) => ~Released(v.hook.events) /\ ~Released(v.batch)
<1>v. PICK v : v = EnsureInput(w, late)
  OBVIOUS
<1>1. Good(b, v)
  BY <1>v, EnsureInputGood
<1>2. CASE w.hook.alive = "up"
  <2>1. v = w
    BY <1>2, <1>v DEF EnsureInput
  <2>2. QED
    BY <1>1, <1>2, <2>1, <1>v DEF Recorder
<1>3. CASE w.hook.alive # "up"
  <2>d. PICK d : d = Discard(w, late)
    OBVIOUS
  <2>n. PICK n : n = NewEpoch(d)
    OBVIOUS
  <2>1. /\ Good(b, d) /\ Tied(d) /\ d.hook.alive = w.hook.alive
        /\ d.app.listening = w.app.listening
        /\ Recording(d) <=> Recording(w)
    BY <2>d, DiscardTied
  <2>2. d \in Worlds(b)
    BY <2>1 DEF Good, Sound, Core
  <2>3. /\ Faded(d, n) /\ Spent(n.hook.events) /\ Spent(n.batch)
        /\ n.app.listening = d.app.listening /\ n.app.capture = d.app.capture
    BY <2>2, <2>n, NewEpochFaded
  <2>4. n \in Worlds(b)
    BY <2>1, <2>n, NewEpochGood DEF Good, Sound, Core
  <2>5. v = [n EXCEPT !.hook.alive = "up", !.hook.listening = FALSE, !.hook.recording = FALSE]
    BY <1>3, <1>v, <2>d, <2>n DEF EnsureInput
  <2>6. /\ v.app = n.app /\ v.tr = n.tr /\ v.seen = n.seen /\ v.batch = n.batch
        /\ v.hook.alive = "up" /\ v.hook.hold = n.hook.hold /\ v.hook.events = n.hook.events
    BY <2>4, <2>5 DEF Worlds, Hooks
  <2>7. Tied(n)
    BY <2>1, <2>3, FadedTied
  <2>8. n.hook.hold = "none"
    BY <1>3, <2>1, <2>3, <2>7 DEF Tied, Base, Holding, Faded, SameRouter
  <2>9. Tied(v)
    <3>1. Base(v)
      BY <2>6, <2>7, <2>8 DEF Tied, Base, Queued, Holding
    <3>2. Seen(v.app, v.tr) /\ (Excused(v) <=> Excused(n))
      BY <2>6, <2>7 DEF Tied, Excused
    <3>3. (InSession(n) => InSession(v)) /\ (Closing(n) => Closing(v))
      BY <2>6 DEF InSession, Closing, Coming
    <3>4. QED
      BY <2>7, <3>1, <3>2, <3>3 DEF Tied
  <2>10. Batched(v) /\ ~Released(v.hook.events) /\ ~Released(v.batch)
    BY <2>3, <2>6, SpentPaired DEF Batched
  <2>11. Recording(v) <=> Recording(w)
    BY <2>1, <2>3, <2>6 DEF Recording
  <2>12. QED
    BY <1>1, <2>1, <2>3, <2>6, <2>9, <2>10, <2>11, <1>v
<1>4. QED
  BY <1>2, <1>3

\* SetListening: to stop listening gives up a held seek before the session is left alone.
LEMMA SetListeningTied ==
  ASSUME NEW b \in Bounds, NEW w, Good(b, w), Tied(w), NEW on \in BOOLEAN, NEW late
  PROVE  LET v == SetListening(w, on, late) IN
         /\ Tied(v)
         /\ Batched(w) => Batched(v)
         /\ Recorder(w) => Recorder(v)
<1>v. PICK v : v = SetListening(w, on, late)
  OBVIOUS
<1>r. PICK r : r = IF on THEN EnsureInput(w, late) ELSE w
  OBVIOUS
<1>l. PICK l : l = [r EXCEPT !.app.listening = on]
  OBVIOUS
<1>k. PICK k : k = Configure(l)
  OBVIOUS
<1>1. /\ Good(b, r) /\ Tied(r)
      /\ Batched(w) => Batched(r)
      /\ Recorder(w) /\ Recording(r) => ~Released(r.hook.events) /\ ~Released(r.batch)
  <2>1. CASE on
    BY <1>r, <2>1, EnsureInputTied
  <2>2. CASE ~on
    BY <1>r, <2>2 DEF Recorder
  <2>3. QED
    BY <2>1, <2>2
<1>2. r \in Worlds(b)
  BY <1>1 DEF Good, Sound, Core
<1>3. Good(b, l) /\ l \in Worlds(b)
  BY <1>1, <1>l, ListeningGood DEF Good, Sound, Core
<1>4. /\ l.tr = r.tr /\ l.hook = r.hook /\ l.batch = r.batch /\ l.seen = r.seen
      /\ SameShown(r.app, l.app) /\ l.app.listening = on /\ l.app.capture = r.app.capture
  BY <1>2, <1>l DEF Worlds, Apps, SameShown
<1>5. Tied(l) /\ (Batched(r) => Batched(l))
  BY <1>1, <1>4, FlagsTied
<1>6. /\ Base(k) /\ Tied(k)
      /\ Batched(l) => Batched(k)
      /\ k.app = l.app /\ (k.hook.hold # "none" => on)
      /\ (Recording(l) => ~Released(l.hook.events) /\ ~Released(l.batch)) => Recorder(k)
  BY <1>3, <1>4, <1>5, <1>k, ConfigureTied DEF Tied
<1>7. Good(b, k)
  BY <1>3, <1>k, ConfigureGood
<1>8. Recorder(w) => Recorder(k)
  BY <1>1, <1>4, <1>6 DEF Recording
<1>9. CASE on
  <2>1. v = k
    BY <1>9, <1>v, <1>r, <1>l, <1>k DEF SetListening
  <2>2. QED
    BY <1>1, <1>5, <1>6, <1>8, <2>1, <1>v
<1>10. CASE ~on
  <2>1. v = Invalidate(k, "ListenerStopped")
    BY <1>10, <1>v, <1>r, <1>l, <1>k DEF SetListening
  <2>2. k.hook.hold # "held" /\ Seen(k.app, k.tr)
    BY <1>6, <1>10 DEF Tied
  <2>3. /\ Tied(v) /\ Spent(v.batch)
        /\ Recorder(k) => Recorder(v)
    BY <1>6, <1>7, <2>1, <2>2, InvalidateTied
  <2>4. Batched(v)
    BY <2>3, SpentPaired DEF Batched
  <2>5. QED
    BY <1>8, <2>3, <2>4, <1>v
<1>11. QED
  BY <1>9, <1>10

\* Apply
LEMMA ApplyTied ==
  ASSUME NEW b \in Bounds, NEW w, Good(b, w), NEW e \in Events, NEW late,
         MediaReady(w, e), e.kind # "release" => Tied(w)
  PROVE  LET v == Apply(w, e, late) IN
         /\ Tied(v)
         /\ Batched(w) => Batched(v)
         /\ Recorder(w) => Recorder(v)
<1>1. CASE e.kind \in {"press", "tap", "release"}
  <2>1. Apply(w, e, late) = Media(w, e, late)
    BY <1>1 DEF Apply
  <2>2. QED
    BY <2>1, MediaTied
<1>2. CASE e.kind = "toggle" /\ ~Recording(w) /\ e.fresh
  <2>on. PICK on \in BOOLEAN : on = ~w.app.listening
    BY DEF Good, Sound, Core, Worlds, Apps
  <2>1. Apply(w, e, late) = SetListening(w, ~w.app.listening, late)
    BY <1>2 DEF Apply
  <2>2. Apply(w, e, late) = SetListening(w, on, late)
    BY <2>1, <2>on
  <2>3. QED
    BY <1>2, <2>2, SetListeningTied
<1>3. CASE ~(e.kind \in {"press", "tap", "release"}) /\ ~(e.kind = "toggle" /\ ~Recording(w) /\ e.fresh)
  <2>1. Apply(w, e, late) = w
    BY <1>3 DEF Apply
  <2>2. e.kind # "release"
    BY <1>3
  <2>3. QED
    BY <2>1, <2>2
<1>4. QED
  BY <1>1, <1>2, <1>3

\* FinishRecording: what is discarded after the recording is too old to be sent.
LEMMA FinishRecordingTied ==
  ASSUME NEW b \in Bounds, NEW w, Good(b, w), Tied(w), Recorder(w), NEW late
  PROVE  LET v == FinishRecording(w, late) IN
         /\ Good(b, v) /\ Tied(v) /\ Recorder(v) /\ v.hook.alive = w.hook.alive
         /\ Batched(w) => Batched(v)
         /\ ~Recording(v)
         /\ v.app.listening = w.app.listening
<1>v. PICK v : v = FinishRecording(w, late)
  OBVIOUS
<1>1. Good(b, v)
  BY <1>v, FinishRecordingGood
<1>2. CASE ~Recording(w)
  <2>1. v = w
    BY <1>2, <1>v DEF FinishRecording
  <2>2. QED
    BY <1>1, <1>2, <2>1, <1>v
<1>3. CASE Recording(w)
  <2>c. PICK c : c = [w EXCEPT !.app.capture = "none"]
    OBVIOUS
  <2>k. PICK k : k = Configure(c)
    OBVIOUS
  <2>n. PICK n : n = NewEpoch(k)
    OBVIOUS
  <2>1. w \in Worlds(b)
    BY DEF Good, Sound, Core
  <2>2. Good(b, c) /\ c \in Worlds(b)
    BY <2>c, CaptureGood DEF Good, Sound, Core
  <2>3. /\ c.tr = w.tr /\ c.hook = w.hook /\ c.batch = w.batch /\ c.seen = w.seen
        /\ SameShown(w.app, c.app) /\ c.app.listening = w.app.listening /\ c.app.capture = "none"
    BY <2>1, <2>c DEF Worlds, Apps, SameShown
  <2>4. Tied(c)
    BY <2>3, FlagsTied
  <2>5. Good(b, k) /\ k \in Worlds(b)
    BY <2>2, <2>k, ConfigureGood DEF Good, Sound, Core
  <2>6. Tied(k) /\ k.app = c.app /\ k.hook.alive = c.hook.alive
    BY <2>2, <2>4, <2>k, ConfigureTied DEF Tied
  <2>7. Good(b, n)
    BY <2>5, <2>n, NewEpochGood
  <2>8. /\ Tied(n) /\ Spent(n.batch) /\ n.app.capture = "none"
        /\ n.app.listening = w.app.listening /\ n.hook.alive = w.hook.alive
    BY <2>3, <2>5, <2>6, <2>n, NewEpochFaded, FadedTied DEF Faded, SameRouter
  <2>9. v = Discard(n, late)
    BY <1>3, <1>v, <2>c, <2>k, <2>n DEF FinishRecording
  <2>10. /\ Tied(v) /\ v.hook.alive = n.hook.alive /\ Spent(v.batch)
         /\ v.app.listening = n.app.listening
         /\ Recording(v) <=> Recording(n)
    BY <2>7, <2>8, <2>9, DiscardTied
  <2>11. ~Recording(v) /\ Recorder(v)
    BY <2>8, <2>10 DEF Recording, Recorder
  <2>12. Batched(v)
    BY <2>10, SpentPaired DEF Batched
  <2>13. QED
    BY <1>1, <2>8, <2>10, <2>11, <2>12, <1>v
<1>4. QED
  BY <1>2, <1>3

\* Record: the router is told before anything that follows is recorded.
LEMMA RecordTied ==
  ASSUME NEW b \in Bounds, NEW w, Good(b, w), Tied(w), Recorder(w), NEW late
  PROVE  Tied(Record(w, late)) /\ Recorder(Record(w, late)) /\ SameBatch(w, Record(w, late))
<1>u. PICK u : u = ConsumeUi(w)
  OBVIOUS
<1>f. PICK f : f = FinishRecording(u, late)
  OBVIOUS
<1>o. PICK o : o = EnsureInput(f, late)
  OBVIOUS
<1>c. PICK c : c = [o EXCEPT !.app.capture = "waiting"]
  OBVIOUS
<1>k. PICK k : k = Configure(c)
  OBVIOUS
<1>v. PICK v : v = NewEpoch(k)
  OBVIOUS
<1>1. Record(w, late) = v
  BY <1>u, <1>f, <1>o, <1>c, <1>k, <1>v DEF Record
<1>2. Good(b, u)
  BY <1>u, ConsumeUiGood
<1>3. Tied(u) /\ Recorder(u)
  BY <1>u, ConsumeUiFaded, FadedTied DEF Good, Sound, Core
<1>4. Good(b, f) /\ Tied(f)
  BY <1>2, <1>3, <1>f, FinishRecordingTied
<1>5. Good(b, o) /\ Tied(o) /\ o.hook.alive = "up"
  BY <1>4, <1>o, EnsureInputTied
<1>6. o \in Worlds(b)
  BY <1>5 DEF Good, Sound, Core
<1>7. Good(b, c) /\ c \in Worlds(b)
  BY <1>5, <1>c, CaptureGood DEF Good, Sound, Core
<1>8. /\ c.tr = o.tr /\ c.hook = o.hook /\ c.batch = o.batch /\ c.seen = o.seen
      /\ SameShown(o.app, c.app) /\ c.app.capture = "waiting"
  BY <1>6, <1>c DEF Worlds, Apps, SameShown
<1>9. Tied(c) /\ Recording(c) /\ c.hook.alive = "up"
  BY <1>5, <1>8, FlagsTied DEF Recording
<1>10. Good(b, k) /\ k \in Worlds(b)
  BY <1>7, <1>k, ConfigureGood DEF Good, Sound, Core
<1>11. Tied(k) /\ k.hook.recording
  BY <1>7, <1>9, <1>k, ConfigureTied DEF Tied
<1>12. /\ Faded(k, v) /\ Spent(v.hook.events) /\ Spent(v.batch)
  BY <1>10, <1>v, NewEpochFaded
<1>13. Tied(v) /\ v.hook.recording
  BY <1>11, <1>12, FadedTied DEF Faded, SameRouter
<1>14. Recorder(v)
  BY <1>12, <1>13, SpentPaired DEF Recorder
<1>15. SameBatch(w, v)
  <2>1. u.batch = w.batch
    BY <1>u DEF ConsumeUi, Good, Sound, Core, Worlds
  <2>2. SameBatch(u, f) /\ SameBatch(f, o)
    BY <1>2, <1>4, <1>f, <1>o, FinishRecordingGood, EnsureInputGood
  <2>3. c.batch = o.batch /\ SameBatch(c, k) /\ SameBatch(k, v)
    BY <1>5, <1>7, <1>8, <1>k, <1>v, ConfigureGood, NewEpochGood
  <2>4. QED
    BY <2>1, <2>2, <2>3 DEF SameBatch
<1>16. QED
  BY <1>1, <1>13, <1>14, <1>15

\* Recorded
LEMMA RecordedTied ==
  ASSUME NEW b \in Bounds, NEW w, Good(b, w), Tied(w), Recorder(w), NEW ends, NEW late
  PROVE  LET v == Recorded(w, ends, late) IN
         Tied(v) /\ Recorder(v) /\ (Batched(w) => Batched(v))
<1>1. CASE Recorded(w, ends, late) = w
  BY <1>1
<1>2. CASE Recorded(w, ends, late) = FinishRecording(w, late)
  BY <1>2, FinishRecordingTied
<1>3. QED
  BY <1>1, <1>2 DEF Recorded

-----------------------------------------------------------------------------
(* The supervisor.                                                          *)

\* What is true of the supervisor between a change and the snapshot of it.
Unpublished(t) ==
  /\ t.held => t.ready /\ ~t.switching /\ t.selected # None
  /\ t.ready => t.native = "open" /\ t.life = "up"
  /\ \A i \in DOMAIN t.control :
       Live(t.control[i]) =>
         t.control[i].dev # None /\ t.control[i].dev = t.selected /\ (t.ready \/ t.native = "blocked")

\* Publish: the snapshot is the supervisor's state, and nobody has read it.
LEMMA PublishLinked ==
  ASSUME NEW b \in Bounds, NEW w \in Worlds(b), Unpublished(w.tr)
  PROVE  LET v == Publish(w) IN
         /\ Linked(v.tr)
         /\ v.app = w.app /\ v.hook = w.hook /\ v.seen = w.seen /\ v.batch = w.batch
         /\ v.tr.life = w.tr.life /\ v.tr.control = w.tr.control /\ v.tr.ready = w.tr.ready
         /\ v.tr.switching = w.tr.switching /\ v.tr.selected = w.tr.selected
         /\ v.tr.native = w.tr.native /\ v.tr.held = w.tr.held
         /\ v.tr.snapshot.now
         /\ Kills(v.tr) <=> Kills(w.tr)
<1>v. PICK v : v = Publish(w)
  OBVIOUS
<1>s. PICK s : s = [now |-> TRUE, early |-> FALSE, selected |-> w.tr.selected,
                    ready |-> w.tr.ready, switching |-> w.tr.switching]
  OBVIOUS
<1>1. v = [w EXCEPT !.tr.unread = TRUE, !.tr.snapshot = s]
  BY <1>v, <1>s DEF Publish
<1>2. /\ v.app = w.app /\ v.hook = w.hook /\ v.seen = w.seen /\ v.batch = w.batch
      /\ v.tr.life = w.tr.life /\ v.tr.control = w.tr.control /\ v.tr.ready = w.tr.ready
      /\ v.tr.switching = w.tr.switching /\ v.tr.selected = w.tr.selected
      /\ v.tr.native = w.tr.native /\ v.tr.held = w.tr.held
      /\ v.tr.snapshot = s
  BY <1>1 DEF Worlds, Transports
<1>3. v.tr.snapshot.now /\ v.tr.snapshot.ready = w.tr.ready /\ v.tr.snapshot.selected = w.tr.selected
  BY <1>2, <1>s
<1>4. Linked(v.tr)
  BY <1>2, <1>3 DEF Unpublished, Linked, Lasting
<1>5. Kills(v.tr) <=> Kills(w.tr)
  BY <1>2 DEF Kills
<1>6. QED
  BY <1>2, <1>3, <1>4, <1>5, <1>v

\* Between two changes it is true as well.
LEMMA LinkedUnpublished ==
  ASSUME NEW t, Linked(t)
  PROVE  Unpublished(t)
BY DEF Linked, Unpublished, Lasting

\* Publish in a state that has not changed.
LEMMA PublishTied ==
  ASSUME NEW b \in Bounds, NEW w \in Worlds(b), Tied(w)
  PROVE  Tied(Publish(w)) /\ (Recorder(w) => Recorder(Publish(w)))
<1>v. PICK v : v = Publish(w)
  OBVIOUS
<1>1. Unpublished(w.tr)
  BY LinkedUnpublished DEF Tied, Base
<1>2. /\ Linked(v.tr)
      /\ v.app = w.app /\ v.hook = w.hook /\ v.seen = w.seen /\ v.batch = w.batch
      /\ v.tr.life = w.tr.life /\ v.tr.control = w.tr.control /\ v.tr.ready = w.tr.ready
      /\ v.tr.switching = w.tr.switching /\ v.tr.selected = w.tr.selected
      /\ v.tr.native = w.tr.native /\ v.tr.held = w.tr.held
      /\ v.tr.snapshot.now
      /\ Kills(v.tr) <=> Kills(w.tr)
  BY <1>1, <1>v, PublishLinked
<1>3. Base(v) /\ (Excused(w) => Excused(v))
  BY <1>2 DEF Tied, Base, Queued, Excused
<1>4. Seen(v.app, v.tr)
  BY <1>2 DEF Tied, Seen, Lasting
<1>5. (InSession(w) => InSession(v)) /\ (Closing(w) => Closing(v))
  BY <1>2 DEF InSession, Closing, Coming
<1>6. Recorder(w) => Recorder(v)
  BY <1>2 DEF Recorder, Recording
<1>7. QED
  BY <1>3, <1>4, <1>5, <1>6, <1>v DEF Tied

\* Answer keeps the types.
LEMMA AnswerTyped ==
  ASSUME NEW b \in Bounds, NEW w \in Worlds(b), NEW ids \in SUBSET Nat,
         NEW answer \in {"done", "refused"}
  PROVE  Answer(w, ids, answer) \in Worlds(b)
<1>1. w.app.receipt \in [1 .. b.tests -> Receipts] /\ w.tr.pending \in SUBSET Nat
  BY DEF Worlds, Apps, Transports
<1>r. PICK r : r = [t \in DOMAIN w.app.receipt |->
                      IF t \in ids THEN [w.app.receipt[t] EXCEPT !.answer = answer]
                      ELSE w.app.receipt[t]]
  OBVIOUS
<1>p. PICK p : p = w.tr.pending \ ids
  OBVIOUS
<1>2. r \in [1 .. b.tests -> Receipts]
  <2>1. \A t \in 1 .. b.tests : [w.app.receipt[t] EXCEPT !.answer = answer] \in Receipts
    BY <1>1 DEF Receipts
  <2>2. QED
    BY <1>1, <1>r, <2>1
<1>v. PICK v : v = Answer(w, ids, answer)
  OBVIOUS
<1>3. v = [w EXCEPT !.app.receipt = r, !.tr.pending = p]
  BY <1>r, <1>p, <1>v DEF Answer
<1>4. p \in SUBSET Nat
  BY <1>1, <1>p
<1>5. v \in Worlds(b)
  BY <1>2, <1>3, <1>4 DEF Worlds, Apps, Transports
<1>6. QED
  BY <1>5, <1>v

\* Replace: a new worker holds nothing, and no command of the old session is
\* accepted by it.
LEMMA ReplaceTied ==
  ASSUME NEW b \in Bounds, NEW w \in Worlds(b), Holding(w.hook), Queued(w),
         NEW switching \in BOOLEAN, NEW full \in BOOLEAN
  PROVE  LET v == Replace(w, switching, full) IN
         /\ Tied(v) /\ ~v.app.now
         /\ Recorder(w) => Recorder(v)
         /\ v.hook = w.hook /\ v.seen = w.seen /\ v.batch = w.batch
         /\ v.app.ready = w.app.ready
<1>a. PICK a : a = Answer(w, w.tr.pending, "refused")
  OBVIOUS
<1>n. PICK n : n = NextRevision(a)
  OBVIOUS
<1>u. PICK u : u = [n EXCEPT !.tr.native = "none", !.tr.switching = switching, !.tr.full = full,
                             !.tr.ready = FALSE, !.tr.held = FALSE]
  OBVIOUS
<1>v. PICK v : v = Publish(u)
  OBVIOUS
<1>s. PICK s : s = Revised(a.tr.control)
  OBVIOUS
<1>1. a \in Worlds(b) /\ Faded(w, a) /\ a.hook = w.hook /\ a.batch = w.batch
  <2>1. w.tr.pending \in SUBSET Nat
    BY DEF Worlds, Transports
  <2>2. Faded(w, a) /\ a.hook = w.hook /\ a.batch = w.batch
    BY <1>a, <2>1, AnswerFaded
  <2>3. a \in Worlds(b)
    BY <1>a, <2>1, AnswerTyped
  <2>4. QED
    BY <2>2, <2>3
<1>2. /\ s \in Seq(Commands) /\ DOMAIN s = DOMAIN a.tr.control
      /\ \A i \in DOMAIN s : ~Live(s[i])
  <2>1. a.tr.control \in Seq(Commands)
    BY <1>1 DEF Worlds, Transports
  <2>2. QED
    BY <1>s, <2>1, RevisedDead, RevisedCommands
<1>3. n = [a EXCEPT !.app.now = FALSE, !.tr.snapshot.now = FALSE, !.tr.control = s]
  BY <1>n, <1>s DEF NextRevision
<1>4. /\ n \in Worlds(b)
      /\ n.hook = a.hook /\ n.seen = a.seen /\ n.batch = a.batch /\ n.app.now = FALSE
      /\ n.app.capture = a.app.capture /\ n.app.ready = a.app.ready /\ n.tr.control = s
  <2>1. a \in Worlds(b) /\ s \in Seq(Commands)
    BY <1>1, <1>2
  <2>2. n \in Worlds(b)
    BY <1>3, <2>1 DEF Worlds, Apps, Transports, Snapshots
  <2>3. /\ n.hook = a.hook /\ n.seen = a.seen /\ n.batch = a.batch /\ n.app.now = FALSE
        /\ n.app.capture = a.app.capture /\ n.app.ready = a.app.ready
    BY <1>3, <2>1 DEF Worlds, Apps
  <2>4. n.tr.control = s
    BY <1>3, <2>1 DEF Worlds, Transports
  <2>5. QED
    BY <2>2, <2>3, <2>4
<1>5. /\ u \in Worlds(b)
      /\ u.app = n.app /\ u.hook = n.hook /\ u.seen = n.seen /\ u.batch = n.batch
      /\ u.tr.control = s /\ u.tr.ready = FALSE /\ u.tr.held = FALSE
  BY <1>4, <1>u DEF Worlds, Transports
<1>6. Unpublished(u.tr)
  BY <1>2, <1>5 DEF Unpublished
<1>7. /\ Linked(v.tr) /\ v.tr.ready = u.tr.ready
      /\ v.app = u.app /\ v.hook = u.hook /\ v.seen = u.seen /\ v.batch = u.batch
  BY <1>5, <1>6, <1>v, PublishLinked
<1>8. /\ v.hook = w.hook /\ v.batch = w.batch /\ v.seen = w.seen
      /\ v.app.ready = w.app.ready /\ ~v.app.now
      /\ Recording(v) => Recording(w)
  <2>1. a.seen = w.seen /\ a.app.ready = w.app.ready /\ a.app.capture = w.app.capture
    BY <1>a DEF Answer, Worlds, Apps
  <2>2. QED
    BY <1>1, <1>4, <1>5, <1>7, <2>1 DEF Recording
<1>9. Base(v) /\ ~v.tr.ready
  BY <1>5, <1>7, <1>8 DEF Base, Queued
<1>10. Tied(v)
  BY <1>8, <1>9, OverTied
<1>11. Recorder(w) => Recorder(v)
  BY <1>8 DEF Recorder
<1>12. v = Replace(w, switching, full)
  BY <1>a, <1>n, <1>u, <1>v DEF Replace
<1>13. QED
  BY <1>8, <1>10, <1>11, <1>12

\* Control: a command that ends the session leaves nothing held; a press that is
\* accepted has its release behind it, and a release that is refused was not needed.
LEMMA ControlTied ==
  ASSUME NEW b \in Bounds, NEW w \in Worlds(b), Tied(w), w.tr.control # <<>>
  PROVE  LET v == Control([w EXCEPT !.tr.control = Tail(@)], Head(w.tr.control)) IN
         Tied(v) /\ (Recorder(w) => Recorder(v)) /\ v.batch = w.batch
<1>1. w.tr.control \in Seq(Commands)
  BY DEF Worlds, Transports
<1>s. PICK s : s = Tail(w.tr.control)
  OBVIOUS
<1>c. PICK c : c = Head(w.tr.control)
  OBVIOUS
<1>t. PICK t : t = [w EXCEPT !.tr.control = s]
  OBVIOUS
<1>n. PICK n \in Nat : n = Len(w.tr.control)
  BY <1>1
<1>2. /\ s \in Seq(Commands) /\ c \in Commands /\ n > 0
      /\ DOMAIN w.tr.control = 1 .. n /\ DOMAIN s = 1 .. n - 1
      /\ \A i \in 1 .. n - 1 : s[i] = w.tr.control[i + 1]
      /\ c = w.tr.control[1]
  BY <1>1, <1>s, <1>c, <1>n
<1>3. \A i \in DOMAIN s : i + 1 \in DOMAIN w.tr.control /\ s[i] = w.tr.control[i + 1]
  BY <1>2
<1>4. \A i \in DOMAIN w.tr.control : i = 1 \/ (i - 1 \in DOMAIN s /\ s[i - 1] = w.tr.control[i])
  <2>1. ASSUME NEW i \in DOMAIN w.tr.control, i # 1
        PROVE  i - 1 \in 1 .. n - 1 /\ s[i - 1] = w.tr.control[i]
    <3>1. i - 1 \in 1 .. n - 1 /\ (i - 1) + 1 = i
      BY <1>2, <2>1
    <3>2. QED
      BY <1>2, <3>1
  <2>2. QED
    BY <1>2, <2>1
<1>5. t \in Worlds(b)
  BY <1>2, <1>t DEF Worlds, Transports
<1>6. /\ t.app = w.app /\ t.hook = w.hook /\ t.seen = w.seen /\ t.batch = w.batch
      /\ t.tr.control = s /\ t.tr.life = w.tr.life /\ t.tr.pending = w.tr.pending
      /\ t.tr.snapshot = w.tr.snapshot /\ t.tr.ready = w.tr.ready
      /\ t.tr.switching = w.tr.switching /\ t.tr.selected = w.tr.selected
      /\ t.tr.native = w.tr.native /\ t.tr.held = w.tr.held /\ t.tr.unread = w.tr.unread
  BY <1>t DEF Worlds, Transports
<1>7. /\ Linked(w.tr) /\ Holding(w.hook) /\ Queued(w) /\ Seen(w.app, w.tr)
      /\ Excused(w) \/ (InSession(w) /\ Closing(w))
  BY DEF Tied, Base
<1>8. /\ Holding(t.hook) /\ Queued(t)
      /\ Recorder(w) => Recorder(t)
      /\ Coming(t) <=> Coming(w)
  BY <1>6, <1>7 DEF Queued, Recorder, Recording, Coming
<1>9. Lasting(t.tr) <=> Lasting(w.tr)
  BY <1>6 DEF Lasting
<1>10. \A i \in DOMAIN s : Live(s[i]) =>
         s[i].dev # None /\ s[i].dev = t.tr.selected /\ Lasting(t.tr)
  BY <1>3, <1>6, <1>7, <1>9 DEF Linked
<1>11. Linked(t.tr)
  BY <1>6, <1>7, <1>10 DEF Linked
<1>12. Control(t, c) = Control([w EXCEPT !.tr.control = Tail(@)], Head(w.tr.control))
  BY <1>s, <1>c, <1>t
<1>13. CASE c.kind \in {"Select", "Restart"}
  <2>1. PICK dev \in Receivers, full \in BOOLEAN :
          Control(t, c) = Replace([t EXCEPT !.tr.selected = dev, !.tr.remembered = None], full, FALSE)
    <3>1. CASE c.kind = "Select"
      <4>1. c.dev \in Receivers /\ (c.dev # None) \in BOOLEAN
        BY <1>2 DEF Commands
      <4>2. Control(t, c) = Replace([t EXCEPT !.tr.selected = c.dev, !.tr.remembered = None], c.dev # None, FALSE)
        BY <3>1 DEF Control
      <4>3. QED
        BY <4>1, <4>2
    <3>2. CASE c.kind = "Restart"
      <4>1. Control(t, c) = Replace([t EXCEPT !.tr.selected = None, !.tr.remembered = None], TRUE, FALSE)
        BY <3>2 DEF Control
      <4>2. QED
        BY <4>1 DEF Receivers
    <3>3. QED
      BY <1>13, <3>1, <3>2
  <2>u. PICK u : u = [t EXCEPT !.tr.selected = dev, !.tr.remembered = None]
    OBVIOUS
  <2>v. PICK v : v = Replace(u, full, FALSE)
    OBVIOUS
  <2>2. /\ u \in Worlds(b)
        /\ u.app = t.app /\ u.hook = t.hook /\ u.seen = t.seen /\ u.batch = t.batch
    BY <1>5, <2>u DEF Worlds, Transports, Receivers
  <2>3. Holding(u.hook) /\ Queued(u) /\ (Recorder(t) => Recorder(u))
    BY <1>8, <2>2 DEF Queued, Recorder, Recording
  <2>4. Tied(v) /\ (Recorder(u) => Recorder(v)) /\ v.batch = u.batch
    BY <2>2, <2>3, <2>v, ReplaceTied
  <2>5. QED
    BY <1>6, <1>8, <1>12, <2>2, <2>1, <2>3, <2>4, <2>u, <2>v
<1>14. CASE c.kind = "Invalidate"
  <2>m. PICK m \in {"none", "blocked", "open"} : m = IF t.tr.native = "none" THEN "none" ELSE "blocked"
    OBVIOUS
  <2>u. PICK u : u = [t EXCEPT !.tr.ready = FALSE, !.tr.held = FALSE, !.tr.native = m]
    OBVIOUS
  <2>v. PICK v : v = Publish(u)
    OBVIOUS
  <2>1. Control(t, c) = v
    BY <1>14, <2>m, <2>u, <2>v DEF Control
  <2>2. /\ u \in Worlds(b)
        /\ u.app = t.app /\ u.hook = t.hook /\ u.seen = t.seen /\ u.batch = t.batch
    BY <1>5, <2>u DEF Worlds, Transports
  <2>3. /\ u.tr.ready = FALSE /\ u.tr.held = FALSE /\ u.tr.native = m
        /\ u.tr.life = t.tr.life /\ u.tr.control = s /\ u.tr.selected = t.tr.selected
    BY <1>5, <1>6, <2>u DEF Worlds, Transports
  <2>4. Lasting(t.tr) => m = "blocked"
    BY <1>11, <2>m DEF Lasting, Linked
  <2>5. Unpublished(u.tr)
    BY <1>10, <2>3, <2>4 DEF Unpublished
  <2>6. /\ Linked(v.tr)
        /\ v.app = u.app /\ v.hook = u.hook /\ v.seen = u.seen /\ v.batch = u.batch
        /\ v.tr.life = u.tr.life /\ v.tr.ready = u.tr.ready
        /\ v.tr.selected = u.tr.selected /\ v.tr.native = u.tr.native /\ v.tr.snapshot.now
    BY <2>2, <2>5, <2>v, PublishLinked
  <2>7. Base(v)
    BY <1>8, <2>2, <2>6 DEF Base, Queued
  <2>8. Seen(v.app, v.tr)
    <3>1. Seen(t.app, t.tr)
      BY <1>6, <1>7, <1>9 DEF Seen
    <3>2. v.tr.life = t.tr.life /\ v.tr.selected = t.tr.selected /\ v.app = t.app
          /\ v.tr.native = m /\ v.tr.snapshot.now
      BY <2>2, <2>3, <2>6
    <3>3. QED
      BY <2>4, <3>1, <3>2 DEF Seen, Lasting
  <2>9. InSession(v) /\ Closing(v)
    BY <2>3, <2>6, IdleTied
  <2>10. Recorder(t) => Recorder(v)
    BY <2>2, <2>6 DEF Recorder, Recording
  <2>11. QED
    BY <1>6, <1>8, <1>12, <2>1, <2>2, <2>6, <2>7, <2>8, <2>9, <2>10 DEF Tied
<1>15. ASSUME c.kind \notin {"Select", "Restart", "Invalidate"}
       PROVE  Excused(w) => Excused(t)
  <2>1. SUFFICES ASSUME Kills(w.tr)
                 PROVE  Kills(t.tr)
    BY <1>6 DEF Excused
  <2>2. PICK i \in DOMAIN w.tr.control : w.tr.control[i].kind \in {"Select", "Restart", "Invalidate"}
    BY <2>1 DEF Kills
  <2>3. i # 1
    BY <1>2, <1>15, <2>2
  <2>4. QED
    BY <1>4, <1>6, <2>2, <2>3 DEF Kills
<1>16. ASSUME InSession(w), Closing(w)
       PROVE  /\ w.tr.ready => \A i \in DOMAIN s : LivePress(s[i]) =>
                   Coming(t) \/ \E j \in DOMAIN s : j > i /\ LiveRelease(s[j])
              /\ w.tr.ready /\ LivePress(c) => Coming(t) \/ \E j \in DOMAIN s : LiveRelease(s[j])
              /\ w.tr.held /\ ~LiveRelease(c) => Coming(t) \/ \E j \in DOMAIN s : LiveRelease(s[j])
              /\ w.tr.ready /\ (w.tr.held \/ LivePress(c) \/ \E i \in DOMAIN s : LivePress(s[i])) =>
                   w.app.ready /\ w.app.now /\ (w.tr.unread => w.tr.snapshot.now)
  <2>1. \A j \in DOMAIN w.tr.control : j > 1 => j - 1 \in DOMAIN s /\ s[j - 1] = w.tr.control[j]
    BY <1>2, <1>4
  <2>2. ASSUME w.tr.ready, NEW i \in DOMAIN s, LivePress(s[i])
        PROVE  Coming(t) \/ \E j \in DOMAIN s : j > i /\ LiveRelease(s[j])
    <3>1. Coming(w) \/ \E j \in DOMAIN w.tr.control : j > i + 1 /\ LiveRelease(w.tr.control[j])
      BY <1>3, <1>16, <2>2 DEF Closing
    <3>2. ASSUME NEW j \in DOMAIN w.tr.control, j > i + 1, LiveRelease(w.tr.control[j])
          PROVE  j - 1 \in DOMAIN s /\ j - 1 > i /\ LiveRelease(s[j - 1])
      <4>1. i \in Int /\ j \in Int /\ i > 0
        BY <1>2
      <4>2. j > 1 /\ j - 1 > i
        BY <3>2, <4>1
      <4>3. QED
        BY <2>1, <3>2, <4>2
    <3>3. QED
      BY <1>8, <3>1, <3>2
  <2>3. ASSUME w.tr.ready, LivePress(c)
        PROVE  Coming(t) \/ \E j \in DOMAIN s : LiveRelease(s[j])
    <3>1. 1 \in DOMAIN w.tr.control /\ LivePress(w.tr.control[1])
      BY <1>2, <2>3
    <3>2. Coming(w) \/ \E j \in DOMAIN w.tr.control : j > 1 /\ LiveRelease(w.tr.control[j])
      BY <1>16, <2>3, <3>1 DEF Closing
    <3>3. QED
      BY <1>8, <2>1, <3>2
  <2>4. ASSUME w.tr.held, ~LiveRelease(c)
        PROVE  Coming(t) \/ \E j \in DOMAIN s : LiveRelease(s[j])
    <3>1. Coming(w) \/ \E j \in DOMAIN w.tr.control : LiveRelease(w.tr.control[j])
      BY <1>16, <2>4 DEF Closing
    <3>2. QED
      BY <1>2, <1>4, <1>8, <2>4, <3>1
  <2>5. ASSUME w.tr.ready, w.tr.held \/ LivePress(c) \/ \E i \in DOMAIN s : LivePress(s[i])
        PROVE  w.app.ready /\ w.app.now /\ (w.tr.unread => w.tr.snapshot.now)
    <3>1. 1 \in DOMAIN w.tr.control
      BY <1>2
    <3>2. w.tr.held \/ \E i \in DOMAIN w.tr.control : LivePress(w.tr.control[i])
      BY <1>2, <1>3, <2>5, <3>1
    <3>3. QED
      BY <1>16, <2>5, <3>2 DEF InSession
  <2>6. QED
    BY <2>2, <2>3, <2>4, <2>5
<1>17. CASE c.kind \notin {"Select", "Restart", "Invalidate"} /\ Accepts(t, c)
  <2>h. PICK h \in BOOLEAN : h = CASE c.kind = "press" -> TRUE
                                   [] c.kind = "release" -> FALSE
                                   [] OTHER -> t.tr.held
    BY <1>5 DEF Worlds, Transports
  <2>p. PICK p : p = IF c.id = 0 THEN t.tr.pending ELSE t.tr.pending \union {c.id}
    OBVIOUS
  <2>v. PICK v : v = [t EXCEPT !.tr.held = h, !.tr.pending = p]
    OBVIOUS
  <2>1. Control(t, c) = v
    <3>1. Control(t, c) = Execute(t, c)
      BY <1>17 DEF Control
    <3>2. QED
      BY <2>h, <2>p, <2>v, <3>1 DEF Execute
  <2>2. /\ v.app = w.app /\ v.hook = w.hook /\ v.seen = w.seen /\ v.batch = w.batch
        /\ v.tr.control = s /\ v.tr.life = t.tr.life /\ v.tr.held = h
        /\ v.tr.snapshot = t.tr.snapshot /\ v.tr.ready = t.tr.ready
        /\ v.tr.switching = t.tr.switching /\ v.tr.selected = t.tr.selected
        /\ v.tr.native = t.tr.native /\ v.tr.unread = t.tr.unread
    BY <1>5, <1>6, <2>v DEF Worlds, Transports
  <2>3. c.now /\ t.tr.ready /\ ~t.tr.switching /\ t.tr.selected = c.dev
    BY <1>17 DEF Accepts
  <2>4. /\ h => c.kind = "press" \/ (t.tr.held /\ c.kind # "release")
    BY <2>h
  <2>5. h => t.tr.selected # None
    <3>1. c.kind = "press" => c.dev # None
      <4>1. c.kind = "press" => Live(w.tr.control[1])
        BY <1>2, <2>3 DEF Live, IsSend, IsPress
      <4>2. QED
        BY <1>2, <1>7, <4>1 DEF Linked
    <3>2. QED
      BY <1>11, <2>3, <2>4, <3>1 DEF Linked
  <2>6. Linked(v.tr)
    <3>1. Lasting(v.tr) <=> Lasting(t.tr)
      BY <2>2 DEF Lasting
    <3>2. \A i \in DOMAIN v.tr.control : Live(v.tr.control[i]) =>
            v.tr.control[i].dev # None /\ v.tr.control[i].dev = v.tr.selected /\ Lasting(v.tr)
      BY <1>10, <2>2, <3>1
    <3>3. QED
      BY <1>11, <2>2, <2>3, <2>5, <3>2 DEF Linked
  <2>7. Base(v) /\ (Excused(w) => Excused(v)) /\ (Recorder(w) => Recorder(v)) /\ (Coming(v) <=> Coming(t))
    <3>1. Excused(w) => Excused(v)
      BY <1>6, <1>15, <1>17, <2>2 DEF Excused, Kills
    <3>2. QED
      BY <1>6, <1>7, <2>2, <2>6, <3>1 DEF Base, Queued, Recorder, Recording, Coming
  <2>8. Seen(v.app, v.tr)
    BY <1>6, <1>7, <2>2 DEF Seen, Lasting
  <2>9. ASSUME InSession(w), Closing(w)
        PROVE  InSession(v) /\ Closing(v)
    <3>1. w.tr.ready
      BY <1>6, <2>3
    <3>2. h => LivePress(c) \/ (w.tr.held /\ ~LiveRelease(c))
      BY <1>6, <2>3, <2>4 DEF LivePress, LiveRelease
    <3>3. InSession(v)
      BY <1>6, <1>16, <2>2, <2>9, <3>1, <3>2 DEF InSession
    <3>4. h => Coming(v) \/ \E j \in DOMAIN s : LiveRelease(s[j])
      BY <1>16, <2>7, <2>9, <3>1, <3>2
    <3>5. \A i \in DOMAIN s : LivePress(s[i]) =>
            Coming(v) \/ \E j \in DOMAIN s : j > i /\ LiveRelease(s[j])
      BY <1>16, <2>7, <2>9, <3>1
    <3>6. Closing(v)
      BY <2>2, <3>4, <3>5 DEF Closing
    <3>7. QED
      BY <3>3, <3>6
  <2>10. QED
    BY <1>7, <1>12, <2>1, <2>2, <2>7, <2>8, <2>9 DEF Tied
<1>18. CASE c.kind \notin {"Select", "Restart", "Invalidate"} /\ ~Accepts(t, c)
  <2>v. PICK v : v = Answer(t, {c.id} \ {0}, "refused")
    OBVIOUS
  <2>1. Control(t, c) = v
    BY <1>18, <2>v DEF Control
  <2>2. {c.id} \ {0} \in SUBSET Nat
    BY <1>2 DEF Commands
  <2>3. Base(t) /\ Seen(t.app, t.tr)
    BY <1>6, <1>7, <1>8, <1>9, <1>11 DEF Base, Seen
  <2>4. ASSUME InSession(w), Closing(w)
        PROVE  InSession(t) /\ Closing(t)
    <3>1. w.tr.held => ~LiveRelease(c)
      <4>1. SUFFICES ASSUME w.tr.held, LiveRelease(c)
                     PROVE  FALSE
        OBVIOUS
      <4>2. 1 \in DOMAIN w.tr.control /\ Live(w.tr.control[1])
        BY <1>2, <4>1 DEF LiveRelease, Live, IsSend
      <4>3. c.dev = w.tr.selected
        BY <1>2, <1>7, <4>2 DEF Linked
      <4>4. w.tr.ready /\ ~w.tr.switching
        BY <1>7, <4>1 DEF Linked
      <4>5. QED
        BY <1>6, <1>18, <4>1, <4>3, <4>4 DEF Accepts, LiveRelease
    <3>2. InSession(t)
      BY <1>6, <1>16, <2>4 DEF InSession
    <3>3. Closing(t)
      BY <1>6, <1>16, <2>4, <3>1 DEF Closing
    <3>4. QED
      BY <3>2, <3>3
  <2>5. Tied(t)
    BY <1>7, <1>15, <1>18, <2>3, <2>4 DEF Tied
  <2>6. Faded(t, v) /\ v.batch = t.batch
    BY <1>5, <2>2, <2>v, AnswerFaded
  <2>7. Tied(v) /\ (Recorder(t) => Recorder(v))
    BY <2>5, <2>6, FadedTied
  <2>8. QED
    BY <1>6, <1>8, <1>12, <2>1, <2>6, <2>7
<1>19. QED
  BY <1>13, <1>14, <1>17, <1>18

-----------------------------------------------------------------------------
(* connection.rs                                                            *)

\* What the runtime shows may change while the supervisor and the router do not.
LEMMA ShownTied ==
  ASSUME NEW w, NEW v, v.tr = w.tr, v.hook = w.hook, v.batch = w.batch,
         v.seen.lost = w.seen.lost, v.app.capture = w.app.capture
  PROVE  /\ Base(w) => Base(v)
         /\ Excused(v) <=> Excused(w)
         /\ Recorder(w) => Recorder(v)
BY DEF Base, Queued, Excused, Recorder, Recording

\* NewTransport: a new supervisor has nothing.
LEMMA NewTransportTied ==
  ASSUME NEW b \in Bounds, NEW w \in Worlds(b), Base(w)
  PROVE  Tied(NewTransport(w)) /\ (Recorder(w) => Recorder(NewTransport(w)))
<1>t. PICK t : t = [NoTransport EXCEPT !.life = "up", !.remembered = w.app.restore]
  OBVIOUS
<1>u. PICK u : u = [w EXCEPT !.tr = t, !.app.now = FALSE]
  OBVIOUS
<1>v. PICK v : v = Replace(u, FALSE, FALSE)
  OBVIOUS
<1>1. t \in Transports
  <2>1. w.app.restore \in Receivers
    BY DEF Worlds, Apps
  <2>2. QED
    BY <1>t, <2>1, NoTransportTyped DEF Transports
<1>2. /\ u \in Worlds(b)
      /\ u.hook = w.hook /\ u.seen = w.seen /\ u.batch = w.batch /\ u.app.capture = w.app.capture
  BY <1>1, <1>u DEF Worlds, Apps
<1>3. Holding(u.hook) /\ Queued(u) /\ (Recorder(w) => Recorder(u))
  BY <1>2 DEF Base, Queued, Recorder, Recording
<1>4. Tied(v) /\ (Recorder(u) => Recorder(v))
  BY <1>2, <1>3, <1>v, ReplaceTied
<1>5. NewTransport(w) = v
  BY <1>t, <1>u, <1>v DEF NewTransport
<1>6. QED
  BY <1>3, <1>4, <1>5

\* Without a transport there is nothing.
LEMMA NoTransportLinked ==
  Linked(NoTransport) /\ ~NoTransport.ready
BY DEF Linked, NoTransport, NoSnapshot

\* Start: the session is given up before the supervisor is told, or replaced.
LEMMA StartTied ==
  ASSUME NEW b \in Bounds, NEW w, Good(b, w), Base(w), NEW made \in BOOLEAN
  PROVE  LET v == Start(w, made) IN
         Tied(v) /\ (Recorder(w) => Recorder(v))
<1>1. w \in Worlds(b)
  BY DEF Good, Sound, Core
<1>p. PICK p : p = [w EXCEPT !.app.ready = FALSE, !.app.selected = None]
  OBVIOUS
<1>i. PICK i : i = Invalidate(p, "SessionChanged")
  OBVIOUS
<1>o. PICK o : o = SessionOver(i)
  OBVIOUS
<1>2. /\ p \in Worlds(b)
      /\ p.hook = w.hook /\ p.seen = w.seen /\ p.batch = w.batch /\ p.tr = w.tr
      /\ p.app.test = w.app.test /\ p.app.tests = w.app.tests /\ p.app.receipt = w.app.receipt
      /\ p.app.ready = FALSE /\ p.app.selected = None /\ p.app.capture = w.app.capture
      /\ p.app.restore = w.app.restore /\ p.app.remembered = w.app.remembered
  BY <1>1, <1>p DEF Worlds, Apps, Receivers
<1>3. AppGood(b, p.app, p.tr) /\ ChoiceGood(p.app, p.seen) /\ Owed(p.app, p.tr)
  BY <1>2 DEF Good, Sound, Core, AppGood, ChoiceGood, Owed
<1>4. Good(b, p)
  BY <1>2, <1>3 DEF Good, Sound, Core
<1>5. Base(p) /\ (Recorder(w) => Recorder(p))
  BY <1>2, ShownTied
<1>6. Good(b, i) /\ Still(i)
  BY <1>4, <1>i, InvalidateGood
<1>7. Base(i) /\ (Recorder(p) => Recorder(i))
  BY <1>2, <1>4, <1>5, <1>i, InvalidateTied
<1>8. Sound(b, o) /\ o \in Worlds(b) /\ i \in Worlds(b)
  BY <1>6, <1>o, SessionOverSound DEF Good, Sound, Core
<1>9. Base(o) /\ (Recorder(i) => Recorder(o))
  BY <1>7, <1>8, <1>o, SessionOverFaded, FadedTied
<1>n. PICK n : /\ n \in Worlds(b) /\ Tied(n) /\ (Recorder(o) => Recorder(n))
               /\ Start(w, made) = [n EXCEPT !.seen.chosen = w.app.restore]
  <2>1. CASE o.tr.life = "up"
    <3>c. PICK c : c = Change(o, "Restart", None)
      OBVIOUS
    <3>r. PICK r : r = Require(c)
      OBVIOUS
    <3>1. Sound(b, c) /\ c \in Worlds(b)
      BY <1>8, <2>1, <3>c, ChangeSound DEF Receivers, Sound, Core
    <3>2. Tied(c) /\ (Recorder(o) => Recorder(c))
      BY <1>8, <1>9, <3>c, ChangeTied
    <3>3. r \in Worlds(b)
      BY <3>1, <3>r, RequireSound DEF Sound, Core
    <3>4. Tied(r) /\ (Recorder(c) => Recorder(r))
      BY <3>1, <3>2, <3>r, RequireFaded, FadedTied
    <3>5. Start(w, made) = [(IF CanRequest(o) THEN r ELSE c) EXCEPT !.seen.chosen = w.app.restore]
      BY <1>p, <1>i, <1>o, <2>1, <3>c, <3>r DEF Start
    <3>6. QED
      BY <3>1, <3>2, <3>3, <3>4, <3>5
  <2>2. CASE o.tr.life # "up" /\ made
    <3>n. PICK n : n = NewTransport(o)
      OBVIOUS
    <3>1. Tied(n) /\ (Recorder(o) => Recorder(n))
      BY <1>8, <1>9, <3>n, NewTransportTied
    <3>2. n \in Worlds(b)
      <4>1. i.app.test = 0
        BY <1>4, <1>i, InvalidateGood
      <4>2. o.app = i.app
        BY <1>6, <1>o, SessionOverSound DEF Good
      <4>3. Good(b, n)
        BY <1>8, <3>n, <4>1, <4>2, NewTransportGood
      <4>4. QED
        BY <4>3 DEF Good, Sound, Core
    <3>3. Start(w, made) = [n EXCEPT !.seen.chosen = w.app.restore]
      BY <1>p, <1>i, <1>o, <2>2, <3>n DEF Start
    <3>4. QED
      BY <3>1, <3>2, <3>3
  <2>3. CASE o.tr.life # "up" /\ ~made
    <3>n. PICK n : n = [o EXCEPT !.tr = NoTransport, !.app.now = FALSE]
      OBVIOUS
    <3>1. NoTransport \in Transports
      BY NoTransportTyped
    <3>2. /\ n \in Worlds(b)
          /\ n.hook = o.hook /\ n.seen = o.seen /\ n.batch = o.batch /\ n.tr = NoTransport
          /\ n.app.capture = o.app.capture /\ n.app.now = FALSE
      BY <1>8, <3>1, <3>n DEF Worlds, Apps
    <3>3. Base(n)
      BY <1>9, <3>2, NoTransportLinked DEF Base, Queued
    <3>4. Tied(n)
      BY <3>2, <3>3, NoTransportLinked, OverTied
    <3>5. Recorder(o) => Recorder(n)
      BY <3>2 DEF Recorder, Recording
    <3>6. Start(w, made) = [n EXCEPT !.seen.chosen = w.app.restore]
      BY <1>p, <1>i, <1>o, <2>3, <3>n DEF Start
    <3>7. QED
      BY <3>2, <3>4, <3>5, <3>6
  <2>4. QED
    BY <2>1, <2>2, <2>3
<1>v. PICK v : v = [n EXCEPT !.seen.chosen = w.app.restore]
  OBVIOUS
<1>10. /\ v.app = n.app /\ v.hook = n.hook /\ v.tr = n.tr /\ v.batch = n.batch
       /\ v.seen.lost = n.seen.lost
  BY <1>n, <1>v DEF Worlds, Observers
<1>11. Faded(n, v)
  BY <1>10, OtherFaded DEF SameShown, Recording
<1>12. Tied(v) /\ (Recorder(n) => Recorder(v))
  BY <1>n, <1>11, FadedTied
<1>13. QED
  BY <1>5, <1>7, <1>9, <1>12, <1>n, <1>v

\* The rest of a change of the session that the supervisor already knows of.
LEMMA AbandonTied ==
  ASSUME NEW b \in Bounds, NEW p, Good(b, p), Base(p), Excused(p), ~p.app.now
  PROVE  LET o == SessionOver(Invalidate(p, "SessionChanged")) IN
         o \in Worlds(b) /\ Tied(o) /\ (Recorder(p) => Recorder(o)) /\ SameBatch(p, o)
<1>i. PICK i : i = Invalidate(p, "SessionChanged")
  OBVIOUS
<1>o. PICK o : o = SessionOver(i)
  OBVIOUS
<1>1. Good(b, i) /\ Still(i) /\ SameBatch(p, i)
  BY <1>i, InvalidateGood
<1>2. Seen(p.app, p.tr)
  BY DEF Seen
<1>3. Tied(i) /\ (Recorder(p) => Recorder(i))
  BY <1>2, <1>i, InvalidateTied
<1>4. Sound(b, o) /\ o \in Worlds(b) /\ i \in Worlds(b) /\ o.batch = i.batch
  BY <1>1, <1>o, SessionOverSound DEF Good, Sound, Core
<1>5. Tied(o) /\ (Recorder(i) => Recorder(o))
  BY <1>3, <1>4, <1>o, SessionOverFaded, FadedTied
<1>6. SameBatch(p, o)
  BY <1>1, <1>4 DEF SameBatch
<1>7. QED
  BY <1>3, <1>4, <1>5, <1>6, <1>i, <1>o

\* Choose: the supervisor is told before the session is given up.
LEMMA ChooseTied ==
  ASSUME NEW b \in Bounds, NEW w, Good(b, w), Tied(w), NEW d \in Device
  PROVE  LET v == Choose(w, d) IN
         Tied(v) /\ (Recorder(w) => Recorder(v)) /\ SameBatch(w, v)
<1>1. w \in Worlds(b) /\ d \in Receivers
  BY DEF Good, Sound, Core, Receivers
<1>r. PICK r : r = [w EXCEPT !.app.restore = None]
  OBVIOUS
<1>2. /\ r \in Worlds(b)
      /\ r.hook = w.hook /\ r.seen = w.seen /\ r.batch = w.batch /\ r.tr = w.tr
      /\ r.app.test = w.app.test /\ r.app.tests = w.app.tests /\ r.app.receipt = w.app.receipt
      /\ r.app.ready = w.app.ready /\ r.app.selected = w.app.selected
      /\ r.app.now = w.app.now /\ r.app.capture = w.app.capture
      /\ r.app.restore = None /\ r.app.remembered = w.app.remembered
  BY <1>1, <1>r DEF Worlds, Apps, Receivers
<1>3. AppGood(b, r.app, r.tr) /\ ChoiceGood(r.app, r.seen) /\ Owed(r.app, r.tr)
  BY <1>2 DEF Good, Sound, Core, AppGood, ChoiceGood, Owed
<1>4. Good(b, r)
  BY <1>2, <1>3 DEF Good, Sound, Core
<1>5. Tied(r) /\ (Recorder(w) => Recorder(r))
  <2>1. Faded(w, r)
    BY <1>2, OtherFaded DEF SameShown, Recording
  <2>2. QED
    BY <2>1, FadedTied
<1>6. CASE w.tr.life = "none"
  <2>1. Choose(w, d) = r
    BY <1>6, <1>r DEF Choose
  <2>2. QED
    BY <1>2, <1>5, <2>1 DEF SameBatch
<1>7. CASE w.tr.life # "none"
  <2>a. PICK a : a = Change(r, "Select", d)
    OBVIOUS
  <2>q. PICK q : q = Require(a)
    OBVIOUS
  <2>p. PICK p : p = [q EXCEPT !.app.ready = FALSE, !.app.selected = d,
                               !.seen.chosen = d, !.seen.forgotten = FALSE]
    OBVIOUS
  <2>o. PICK o : o = SessionOver(Invalidate(p, "SessionChanged"))
    OBVIOUS
  <2>1. /\ Sound(b, a) /\ Stale(a) /\ SameChoice(r, a) /\ a.tr.life = w.tr.life /\ a \in Worlds(b)
        /\ a.batch = w.batch
    BY <1>1, <1>2, <1>4, <1>7, <2>a, ChangeSound DEF Good, Sound, Core
  <2>2. Tied(a) /\ Excused(a) /\ ~a.app.now /\ (Recorder(r) => Recorder(a))
    BY <1>2, <1>5, <2>a, ChangeTied DEF Tied
  <2>3. /\ Sound(b, q) /\ q \in Worlds(b)
        /\ q.app = a.app /\ q.tr.life = a.tr.life /\ q.tr.control = a.tr.control
        /\ q.batch = a.batch
    BY <2>1, <2>q, RequireSound DEF Sound, Core
  <2>4. Tied(q) /\ Excused(q) /\ (Recorder(a) => Recorder(q))
    BY <2>1, <2>2, <2>q, RequireFaded, FadedTied
  <2>5. /\ p \in Worlds(b)
        /\ p.hook = q.hook /\ p.batch = q.batch /\ p.tr = q.tr
        /\ p.app.test = q.app.test /\ p.app.tests = q.app.tests /\ p.app.receipt = q.app.receipt
        /\ p.app.ready = FALSE /\ p.app.selected = d
        /\ p.app.now = q.app.now /\ p.app.capture = q.app.capture
        /\ p.app.restore = q.app.restore /\ p.app.remembered = q.app.remembered
        /\ p.seen.chosen = d /\ p.seen.forgotten = FALSE /\ p.seen.lost = q.seen.lost
    BY <1>1, <2>3, <2>p DEF Worlds, Apps, Observers
  <2>6. p.app.restore = None
    BY <1>2, <2>1, <2>3, <2>5 DEF SameChoice
  <2>7. AppGood(b, p.app, p.tr) /\ ChoiceGood(p.app, p.seen) /\ Owed(p.app, p.tr)
    BY <1>7, <2>1, <2>3, <2>5, <2>6 DEF Sound, Core, AppGood, ChoiceGood, Owed
  <2>8. Sound(b, p) /\ Stale(p)
    BY <2>1, <2>3, <2>5, <2>7 DEF Sound, Core, Stale
  <2>9. Good(b, p)
    BY <2>8, StalePrompt DEF Good
  <2>10. Base(p) /\ Excused(p) /\ ~p.app.now /\ (Recorder(q) => Recorder(p))
    BY <2>2, <2>3, <2>4, <2>5, ShownTied DEF Tied
  <2>11. Tied(o) /\ (Recorder(p) => Recorder(o)) /\ SameBatch(p, o)
    BY <2>9, <2>10, <2>o, AbandonTied
  <2>12. Choose(w, d) = IF ~CanRequest(w) THEN a ELSE o
    BY <1>7, <1>r, <2>a, <2>q, <2>p, <2>o DEF Choose
  <2>13. SameBatch(w, a) /\ SameBatch(w, o)
    BY <2>1, <2>3, <2>5, <2>11 DEF SameBatch
  <2>14. QED
    BY <1>5, <2>2, <2>4, <2>10, <2>11, <2>12, <2>13
<1>8. QED
  BY <1>6, <1>7

\* Disconnect: the same, whether or not the command found room.
LEMMA DisconnectTied ==
  ASSUME NEW b \in Bounds, NEW w, Good(b, w), Tied(w)
  PROVE  LET v == Disconnect(w) IN
         Tied(v) /\ (Recorder(w) => Recorder(v)) /\ SameBatch(w, v)
<1>1. w \in Worlds(b)
  BY DEF Good, Sound, Core
<1>f. PICK f : f = [w EXCEPT !.app.restore = None, !.app.remembered = None,
                             !.seen.chosen = None, !.seen.forgotten = TRUE]
  OBVIOUS
<1>2. /\ f \in Worlds(b)
      /\ f.hook = w.hook /\ f.batch = w.batch /\ f.tr = w.tr
      /\ f.app.test = w.app.test /\ f.app.tests = w.app.tests /\ f.app.receipt = w.app.receipt
      /\ f.app.ready = w.app.ready /\ f.app.selected = w.app.selected
      /\ f.app.now = w.app.now /\ f.app.capture = w.app.capture
      /\ f.app.restore = None /\ f.app.remembered = None
      /\ f.seen.chosen = None /\ f.seen.forgotten = TRUE /\ f.seen.lost = w.seen.lost
  BY <1>1, <1>f DEF Worlds, Apps, Observers, Receivers
<1>3. AppGood(b, f.app, f.tr) /\ Owed(f.app, f.tr)
  BY <1>2 DEF Good, Sound, Core, AppGood, Owed
<1>4. Core(b, f)
  BY <1>2, <1>3 DEF Good, Sound, Core
<1>5. Tied(f) /\ (Recorder(w) => Recorder(f))
  <2>1. Faded(w, f)
    BY <1>2, OtherFaded DEF SameShown, Recording
  <2>2. QED
    BY <2>1, FadedTied
<1>6. CASE w.tr.life = "none"
  <2>1. Disconnect(w) = f
    BY <1>6, <1>f DEF Disconnect
  <2>2. QED
    BY <1>2, <1>5, <2>1 DEF SameBatch
<1>7. CASE w.tr.life # "none"
  <2>a. PICK a : a = Change(f, "Select", None)
    OBVIOUS
  <2>p. PICK p : p = [a EXCEPT !.app.ready = FALSE, !.app.selected = None]
    OBVIOUS
  <2>o. PICK o : o = SessionOver(Invalidate(p, "SessionChanged"))
    OBVIOUS
  <2>q. PICK q : q = Require(o)
    OBVIOUS
  <2>1. Core(b, a) /\ Stale(a) /\ SameChoice(f, a) /\ a \in Worlds(b) /\ a.batch = f.batch
    BY <1>2, <1>4, <1>7, <2>a, ChangeCore DEF Core, Receivers
  <2>2. Tied(a) /\ Excused(a) /\ ~a.app.now /\ (Recorder(f) => Recorder(a))
    BY <1>2, <1>5, <2>a, ChangeTied DEF Tied
  <2>3. /\ p \in Worlds(b)
        /\ p.hook = a.hook /\ p.batch = a.batch /\ p.tr = a.tr /\ p.seen = a.seen
        /\ p.app.test = a.app.test /\ p.app.tests = a.app.tests /\ p.app.receipt = a.app.receipt
        /\ p.app.ready = FALSE /\ p.app.selected = None
        /\ p.app.now = a.app.now /\ p.app.capture = a.app.capture
        /\ p.app.restore = a.app.restore /\ p.app.remembered = a.app.remembered
    BY <2>1, <2>p DEF Worlds, Apps, Receivers
  <2>4. AppGood(b, p.app, p.tr) /\ Owed(p.app, p.tr)
    BY <2>1, <2>3 DEF Core, AppGood, Owed
  <2>5. ChoiceGood(p.app, p.seen)
    BY <1>2, <2>1, <2>3 DEF SameChoice, ChoiceGood
  <2>6. Sound(b, p) /\ Stale(p)
    BY <2>1, <2>3, <2>4, <2>5 DEF Sound, Core, Stale
  <2>7. Good(b, p)
    BY <2>6, StalePrompt DEF Good
  <2>8. Base(p) /\ Excused(p) /\ ~p.app.now /\ (Recorder(a) => Recorder(p))
    BY <2>2, <2>3, ShownTied DEF Tied
  <2>9. o \in Worlds(b) /\ Tied(o) /\ (Recorder(p) => Recorder(o)) /\ SameBatch(p, o)
    BY <2>7, <2>8, <2>o, AbandonTied
  <2>10. Tied(q) /\ (Recorder(o) => Recorder(q))
    BY <2>9, <2>q, RequireFaded, FadedTied
  <2>b. q.batch = o.batch
    BY <2>9, <2>q DEF Require, Worlds
  <2>11. Disconnect(w) = IF CanRequest(f) THEN q ELSE o
    BY <1>7, <1>f, <2>a, <2>p, <2>o, <2>q DEF Disconnect
  <2>12. SameBatch(w, q) /\ SameBatch(w, o)
    BY <1>2, <2>1, <2>3, <2>9, <2>b DEF SameBatch
  <2>13. QED
    BY <1>5, <2>2, <2>8, <2>9, <2>10, <2>11, <2>12
<1>8. QED
  BY <1>6, <1>7

-----------------------------------------------------------------------------
(* tick, up to the batch of events.                                         *)

\* TakeSnapshot: what is shown afterwards is the supervisor's state, and as long
\* as the receiver holds a key, its generation.
LEMMA TakeSnapshotTied ==
  ASSUME NEW b \in Bounds, NEW w, Good(b, w), Tied(w)
  PROVE  LET v == TakeSnapshot(w) IN
         Tied(v) /\ (Recorder(w) => Recorder(v))
<1>1. w \in Worlds(b)
  BY DEF Good, Sound, Core
<1>s. PICK s : s = w.tr.snapshot
  OBVIOUS
<1>2. s \in Snapshots
  BY <1>1, <1>s DEF Worlds, Transports
<1>y. PICK y \in BOOLEAN : y = (s.ready /\ s.selected # None /\ w.tr.life # "stopped")
  BY <1>2 DEF Snapshots
<1>x. PICK x \in BOOLEAN : x = (s.now /\ y)
  BY <1>2 DEF Snapshots
<1>r. PICK r : r = [w EXCEPT !.tr.unread = FALSE, !.tr.snapshot = NoSnapshot]
  OBVIOUS
<1>3. /\ r \in Worlds(b)
      /\ r.app = w.app /\ r.hook = w.hook /\ r.seen = w.seen /\ r.batch = w.batch
  <2>1. NoSnapshot \in Snapshots
    BY DEF NoSnapshot, Snapshots, Receivers
  <2>2. QED
    BY <1>1, <1>r, <2>1 DEF Worlds, Transports
<1>4. /\ r.tr.life = w.tr.life /\ r.tr.control = w.tr.control /\ r.tr.unread = FALSE
      /\ r.tr.ready = w.tr.ready /\ r.tr.switching = w.tr.switching
      /\ r.tr.selected = w.tr.selected /\ r.tr.native = w.tr.native /\ r.tr.held = w.tr.held
  BY <1>1, <1>r DEF Worlds, Transports
<1>5. Lasting(w.tr) => Lasting(r.tr)
  BY <1>4 DEF Lasting
<1>6. Base(r) /\ (Excused(w) => Excused(r)) /\ (Recorder(w) => Recorder(r))
  <2>1. Linked(r.tr)
    BY <1>4, <1>5 DEF Tied, Base, Linked
  <2>2. QED
    BY <1>3, <1>4, <2>1 DEF Tied, Base, Queued, Excused, Kills, Recorder, Recording
<1>7. Closing(w) => Closing(r)
  BY <1>3, <1>4 DEF Closing, Coming
<1>8. CASE TakeSnapshot(w) = r
  <2>1. Seen(r.app, r.tr)
    BY <1>3, <1>4, <1>5 DEF Tied, Seen
  <2>2. InSession(w) => InSession(r)
    BY <1>3, <1>4 DEF InSession
  <2>3. QED
    BY <1>6, <1>7, <1>8, <2>1, <2>2 DEF Tied
<1>9. CASE /\ w.tr.unread \/ w.tr.life = "stopped"
           /\ TakeSnapshot(w) = [r EXCEPT !.app.now        = s.now /\ y,
                                          !.app.selected   = s.selected,
                                          !.app.ready      = y,
                                          !.app.switching  = s.switching,
                                          !.app.remembered = IF y THEN s.selected ELSE @,
                                          !.app.restore    = IF y THEN None ELSE @]
  <2>m. PICK m \in Receivers : m = IF y THEN s.selected ELSE r.app.remembered
    BY <1>2, <1>3 DEF Worlds, Apps, Snapshots
  <2>o. PICK o \in Receivers : o = IF y THEN None ELSE r.app.restore
    BY <1>3 DEF Worlds, Apps, Receivers
  <2>v. PICK v : v = [r EXCEPT !.app.now = x, !.app.selected = s.selected, !.app.ready = y,
                               !.app.switching = s.switching, !.app.remembered = m, !.app.restore = o]
    OBVIOUS
  <2>1. TakeSnapshot(w) = v
    BY <1>9, <1>x, <2>m, <2>o, <2>v
  <2>2. /\ v.hook = r.hook /\ v.seen = r.seen /\ v.batch = r.batch /\ v.tr = r.tr
        /\ v.app.now = x /\ v.app.ready = y /\ v.app.selected = s.selected
        /\ v.app.capture = r.app.capture
    BY <1>2, <1>3, <2>v DEF Worlds, Apps, Snapshots
  <2>3. Base(v) /\ (Excused(r) => Excused(v)) /\ (Recorder(r) => Recorder(v))
    BY <1>6, <2>2, ShownTied
  <2>4. CASE w.tr.life # "up"
    <3>1. Tied(v)
      BY <1>4, <2>2, <2>3, <2>4, DownTied
    <3>2. QED
      BY <1>6, <2>1, <2>3, <3>1
  <2>5. CASE w.tr.life = "up"
    <3>1. w.tr.unread /\ s.ready = w.tr.ready /\ s.selected = w.tr.selected
      BY <1>9, <1>s, <2>5 DEF Tied, Base, Linked
    <3>2. Seen(v.app, v.tr)
      BY <1>4, <1>x, <1>y, <2>2, <3>1 DEF Seen, Lasting
    <3>3. InSession(w) => InSession(v)
      <4>1. SUFFICES ASSUME InSession(w), w.tr.ready,
                            w.tr.held \/ \E i \in DOMAIN w.tr.control : LivePress(w.tr.control[i])
                     PROVE  v.app.ready /\ v.app.now
        BY <1>4, <2>2 DEF InSession
      <4>2. s.now
        BY <1>s, <3>1, <4>1 DEF InSession
      <4>3. w.tr.selected # None
        <5>1. CASE w.tr.held
          BY <5>1 DEF Tied, Base, Linked
        <5>2. CASE \E i \in DOMAIN w.tr.control : LivePress(w.tr.control[i])
          <6>1. PICK i \in DOMAIN w.tr.control : LivePress(w.tr.control[i])
            BY <5>2
          <6>2. Live(w.tr.control[i])
            BY <6>1 DEF Live, LivePress, IsSend, IsPress
          <6>3. QED
            BY <6>2 DEF Tied, Base, Linked
        <5>3. QED
          BY <4>1, <5>1, <5>2
      <4>4. y
        BY <1>y, <2>5, <3>1, <4>1, <4>3
      <4>5. QED
        BY <1>x, <2>2, <4>2, <4>4
    <3>4. Closing(r) => Closing(v)
      BY <2>2 DEF Closing, Coming
    <3>5. Tied(v)
      BY <1>6, <1>7, <2>3, <3>2, <3>3, <3>4 DEF Tied
    <3>6. QED
      BY <1>6, <2>1, <2>3, <3>5
  <2>6. QED
    BY <2>4, <2>5
<1>10. QED
  BY <1>8, <1>9, <1>s, <1>y, <1>r DEF TakeSnapshot

\* Retry
LEMMA RetryTied ==
  ASSUME NEW b \in Bounds, NEW w, Good(b, w), Tied(w), NEW due \in BOOLEAN, NEW made \in BOOLEAN
  PROVE  LET v == Retry(w, due, made) IN
         Tied(v) /\ (Recorder(w) => Recorder(v))
<1>1. Base(w)
  BY DEF Tied
<1>2. CASE Retry(w, due, made) = w
  BY <1>2
<1>3. CASE Retry(w, due, made) = Start(w, made)
  BY <1>1, <1>3, StartTied
<1>4. QED
  BY <1>2, <1>3 DEF Retry

\* NoticeLoss: the supervisor is told of a session that is lost.
LEMMA NoticeLossTied ==
  ASSUME NEW b \in Bounds, NEW w, Good(b, w), Tied(w)
  PROVE  LET v == NoticeLoss(w) IN
         Tied(v) /\ (Recorder(w) => Recorder(v))
<1>i. PICK i : i = Invalidate(w, "TransportLost")
  OBVIOUS
<1>o. PICK o : o = SessionOver(i)
  OBVIOUS
<1>1. w \in Worlds(b) /\ Base(w) /\ Seen(w.app, w.tr)
  BY DEF Good, Sound, Core, Tied
<1>2. Good(b, i) /\ Still(i) /\ i \in Worlds(b)
  BY <1>i, InvalidateGood DEF Good, Sound, Core
<1>3. Tied(i) /\ (Recorder(w) => Recorder(i))
  BY <1>1, <1>i, InvalidateTied
<1>4. Tied(o) /\ (Recorder(i) => Recorder(o)) /\ o \in Worlds(b)
  BY <1>2, <1>3, <1>o, SessionOverFaded, SessionOverSound, FadedTied DEF Good, Sound, Core
<1>u. PICK u : u = IF w.app.lastReady /\ ~w.app.ready /\ ~w.app.switching THEN o ELSE w
  OBVIOUS
<1>5. u \in Worlds(b) /\ Tied(u) /\ (Recorder(w) => Recorder(u))
  BY <1>1, <1>3, <1>4, <1>u
<1>v. PICK v : v = [u EXCEPT !.app.lastReady = w.app.ready]
  OBVIOUS
<1>6. /\ v.hook = u.hook /\ v.tr = u.tr /\ v.seen = u.seen /\ v.batch = u.batch
      /\ v.app.now = u.app.now /\ v.app.ready = u.app.ready /\ v.app.selected = u.app.selected
      /\ v.app.capture = u.app.capture
  BY <1>5, <1>v DEF Worlds, Apps
<1>7. Faded(u, v)
  BY <1>6, OtherFaded DEF SameShown, Recording
<1>8. Tied(v) /\ (Recorder(u) => Recorder(v))
  BY <1>5, <1>7, FadedTied
<1>9. NoticeLoss(w) = v
  BY <1>i, <1>o, <1>u, <1>v DEF NoticeLoss
<1>10. QED
  BY <1>5, <1>8, <1>9

\* The flags of listening and of the listener alone.
LEMMA FlagFaded ==
  ASSUME NEW b \in Bounds, NEW w \in Worlds(b), NEW on
  PROVE  /\ Faded(w, [w EXCEPT !.app.listening = on])
         /\ Faded(w, [w EXCEPT !.app.input = on])
<1>l. PICK l : l = [w EXCEPT !.app.listening = on]
  OBVIOUS
<1>i. PICK i : i = [w EXCEPT !.app.input = on]
  OBVIOUS
<1>1. /\ l.hook = w.hook /\ l.tr = w.tr /\ l.seen = w.seen /\ l.batch = w.batch
      /\ l.app.now = w.app.now /\ l.app.ready = w.app.ready /\ l.app.selected = w.app.selected
      /\ l.app.capture = w.app.capture
  BY <1>l DEF Worlds, Apps
<1>2. /\ i.hook = w.hook /\ i.tr = w.tr /\ i.seen = w.seen /\ i.batch = w.batch
      /\ i.app.now = w.app.now /\ i.app.ready = w.app.ready /\ i.app.selected = w.app.selected
      /\ i.app.capture = w.app.capture
  BY <1>i DEF Worlds, Apps
<1>3. Faded(w, l)
  BY <1>1, OtherFaded DEF SameShown, Recording
<1>4. Faded(w, i)
  BY <1>2, OtherFaded DEF SameShown, Recording
<1>5. QED
  BY <1>3, <1>4, <1>l, <1>i

\* ConfigureInput: a failed passthrough loses the session, whatever was held.
LEMMA ConfigureInputTied ==
  ASSUME NEW b \in Bounds, NEW w, Good(b, w), Tied(w), Recorder(w), NEW fault
  PROVE  LET v == ConfigureInput(w, fault) IN
         Tied(v) /\ Recorder(v)
<1>x. PICK x \in BOOLEAN : x = (w.hook.alive = "up")
  OBVIOUS
<1>a. PICK a : a = [w EXCEPT !.app.input = x]
  OBVIOUS
<1>l. PICK l : l = [a EXCEPT !.app.listening = FALSE]
  OBVIOUS
<1>i. PICK i : i = Invalidate(l, "TransportLost")
  OBVIOUS
<1>k. PICK k : k = IF fault /\ w.hook.alive # "none" THEN i ELSE a
  OBVIOUS
<1>1. Good(b, a) /\ Good(b, l) /\ Good(b, i)
  <2>1. Good(b, a)
    BY <1>a, InputGood
  <2>2. Good(b, l)
    BY <1>l, <2>1, ListeningGood
  <2>3. QED
    BY <1>i, <2>1, <2>2, InvalidateGood
<1>2. w \in Worlds(b) /\ a \in Worlds(b) /\ i \in Worlds(b)
  BY <1>1 DEF Good, Sound, Core
<1>3. Tied(a) /\ Recorder(a)
  BY <1>2, <1>a, FlagFaded, FadedTied
<1>4. Tied(l) /\ Recorder(l)
  BY <1>2, <1>3, <1>l, FlagFaded, FadedTied
<1>5. Tied(i) /\ Recorder(i)
  BY <1>1, <1>4, <1>i, InvalidateTied DEF Tied
<1>6. k \in Worlds(b) /\ Tied(k) /\ Recorder(k)
  BY <1>2, <1>3, <1>5, <1>k
<1>v. PICK v : v = Configure(k)
  OBVIOUS
<1>7. Tied(v) /\ Recorder(v)
  BY <1>6, <1>v, ConfigureTied DEF Tied, Recorder
<1>8. ConfigureInput(w, fault) = v
  BY <1>x, <1>a, <1>l, <1>i, <1>k, <1>v DEF ConfigureInput
<1>9. QED
  BY <1>7, <1>8

\* NoticeInput: a listener that ended has sent the release of what it held.
LEMMA NoticeInputTied ==
  ASSUME NEW b \in Bounds, NEW w, Good(b, w), Tied(w), Recorder(w), NEW late
  PROVE  LET v == NoticeInput(w, late) IN
         Tied(v) /\ Recorder(v)
<1>1. CASE w.hook.alive # "down"
  BY <1>1 DEF NoticeInput
<1>2. CASE w.hook.alive = "down"
  <2>l. PICK l : l = [w EXCEPT !.app.listening = FALSE]
    OBVIOUS
  <2>i. PICK i : i = Invalidate(l, "ListenerStopped")
    OBVIOUS
  <2>f. PICK f : f = FinishRecording(i, late)
    OBVIOUS
  <2>v. PICK v : v = [f EXCEPT !.hook.alive = "none"]
    OBVIOUS
  <2>1. Good(b, l) /\ l.hook = w.hook
    BY <2>l, ListeningGood
  <2>2. Tied(l) /\ Recorder(l)
    BY <2>l, FlagFaded, FadedTied DEF Good, Sound, Core
  <2>3. l.hook.hold # "held"
    BY <1>2, <2>1, <2>2 DEF Tied, Base, Holding
  <2>4. Good(b, i)
    BY <2>1, <2>i, InvalidateGood
  <2>5. Tied(i) /\ Recorder(i) /\ i.hook.alive = l.hook.alive
    BY <2>1, <2>2, <2>3, <2>i, InvalidateTied DEF Tied
  <2>6. /\ Good(b, f) /\ Tied(f) /\ ~Recording(f) /\ f.hook.alive = i.hook.alive
    BY <2>4, <2>5, <2>f, FinishRecordingTied
  <2>7. f.hook.hold = "none"
    BY <1>2, <2>1, <2>5, <2>6 DEF Tied, Base, Holding
  <2>8. /\ v.app = f.app /\ v.tr = f.tr /\ v.seen = f.seen /\ v.batch = f.batch
        /\ v.hook.events = f.hook.events /\ v.hook.hold = f.hook.hold
    BY <2>6, <2>v DEF Good, Sound, Core, Worlds, Hooks
  <2>9. Base(v) /\ (Excused(f) => Excused(v)) /\ Seen(v.app, v.tr)
    BY <2>6, <2>7, <2>8 DEF Tied, Base, Queued, Holding, Excused
  <2>10. (InSession(f) => InSession(v)) /\ (Closing(f) => Closing(v))
    BY <2>8 DEF InSession, Closing, Coming
  <2>11. Recorder(v)
    BY <2>6, <2>8 DEF Recorder, Recording
  <2>12. NoticeInput(w, late) = v
    BY <1>2, <2>l, <2>i, <2>f, <2>v DEF NoticeInput
  <2>13. QED
    BY <2>6, <2>9, <2>10, <2>11, <2>12 DEF Tied
<1>3. QED
  BY <1>1, <1>2

\* NoticeWindow: a recording that starts was announced to the router before.
LEMMA NoticeWindowTied ==
  ASSUME NEW b \in Bounds, NEW w, Good(b, w), Tied(w), Recorder(w),
         NEW foreground, NEW keys, NEW late
  PROVE  LET v == NoticeWindow(w, foreground, keys, late) IN
         Tied(v) /\ Recorder(v)
<1>l. PICK l : l = IF foreground THEN w ELSE FinishRecording(w, late)
  OBVIOUS
<1>d. PICK d : d = Discard(l, late)
  OBVIOUS
<1>r. PICK r : r = [d EXCEPT !.app.capture = "recording"]
  OBVIOUS
<1>n. PICK n : n = NewEpoch(r)
  OBVIOUS
<1>1. Good(b, l) /\ Tied(l) /\ Recorder(l)
  BY <1>l, FinishRecordingTied
<1>2. Good(b, d) /\ Tied(d) /\ Recorder(d) /\ (Recording(d) <=> Recording(l))
  BY <1>1, <1>d, DiscardTied
<1>3. r \in Worlds(b) /\ d \in Worlds(b)
  BY <1>2, <1>r, CaptureGood DEF Good, Sound, Core
<1>4. /\ r.tr = d.tr /\ r.hook = d.hook /\ r.batch = d.batch /\ r.seen = d.seen
      /\ SameShown(d.app, r.app)
  BY <1>3, <1>r DEF Worlds, Apps, SameShown
<1>5. Tied(r)
  BY <1>2, <1>4, FlagsTied
<1>6. ASSUME l.app.capture = "waiting"
      PROVE  Recorder(r)
  <2>1. Recording(d)
    BY <1>2, <1>6 DEF Recording
  <2>2. QED
    BY <1>2, <1>4, <2>1 DEF Recorder
<1>7. Tied(n) /\ (Recorder(r) => Recorder(n))
  BY <1>3, <1>5, <1>n, NewEpochFaded, FadedTied
<1>8. NoticeWindow(w, foreground, keys, late)
      = IF l.app.capture = "waiting" /\ ~keys THEN n ELSE l
  BY <1>l, <1>d, <1>r, <1>n DEF NoticeWindow
<1>9. QED
  BY <1>1, <1>6, <1>7, <1>8

-----------------------------------------------------------------------------
(* No call of a tick before the batch takes anything from it or adds to it. *)

\* Replace leaves the batch alone.
LEMMA ReplaceBatch ==
  ASSUME NEW b \in Bounds, NEW w \in Worlds(b), NEW switching \in BOOLEAN, NEW full \in BOOLEAN
  PROVE  Replace(w, switching, full).batch = w.batch
<1>a. PICK a : a = Answer(w, w.tr.pending, "refused")
  OBVIOUS
<1>n. PICK n : n = NextRevision(a)
  OBVIOUS
<1>u. PICK u : u = [n EXCEPT !.tr.native = "none", !.tr.switching = switching, !.tr.full = full,
                             !.tr.ready = FALSE, !.tr.held = FALSE]
  OBVIOUS
<1>s. PICK s : s = Revised(a.tr.control)
  OBVIOUS
<1>0. w.tr.pending \in SUBSET Nat
  BY DEF Worlds, Transports
<1>1. a \in Worlds(b) /\ a.batch = w.batch
  BY <1>0, <1>a, AnswerTyped, AnswerFaded
<1>2. s \in Seq(Commands)
  <2>1. a.tr.control \in Seq(Commands)
    BY <1>1 DEF Worlds, Transports
  <2>2. QED
    BY <1>s, <2>1, RevisedCommands
<1>3. n = [a EXCEPT !.app.now = FALSE, !.tr.snapshot.now = FALSE, !.tr.control = s]
  BY <1>n, <1>s DEF NextRevision
<1>4. n \in Worlds(b) /\ n.batch = a.batch
  <2>1. n \in Worlds(b)
    BY <1>1, <1>2, <1>3 DEF Worlds, Apps, Transports, Snapshots
  <2>2. n.batch = a.batch
    BY <1>1, <1>3 DEF Worlds
  <2>3. QED
    BY <2>1, <2>2
<1>5. u \in Worlds(b) /\ u.batch = n.batch
  <2>1. u \in Worlds(b)
    BY <1>4, <1>u DEF Worlds, Transports
  <2>2. u.batch = n.batch
    BY <1>4, <1>u DEF Worlds
  <2>3. QED
    BY <2>1, <2>2
<1>6. Publish(u).batch = u.batch
  BY <1>5 DEF Publish, Worlds
<1>7. Replace(w, switching, full) = Publish(u)
  BY <1>a, <1>n, <1>u DEF Replace
<1>8. QED
  BY <1>1, <1>4, <1>5, <1>6, <1>7

\* Start leaves the batch alone.
LEMMA StartBatch ==
  ASSUME NEW b \in Bounds, NEW w, Good(b, w), NEW made \in BOOLEAN
  PROVE  SameBatch(w, Start(w, made))
<1>1. w \in Worlds(b)
  BY DEF Good, Sound, Core
<1>p. PICK p : p = [w EXCEPT !.app.ready = FALSE, !.app.selected = None]
  OBVIOUS
<1>i. PICK i : i = Invalidate(p, "SessionChanged")
  OBVIOUS
<1>o. PICK o : o = SessionOver(i)
  OBVIOUS
<1>2. /\ p \in Worlds(b)
      /\ p.hook = w.hook /\ p.seen = w.seen /\ p.batch = w.batch /\ p.tr = w.tr
      /\ p.app.test = w.app.test /\ p.app.tests = w.app.tests /\ p.app.receipt = w.app.receipt
      /\ p.app.ready = FALSE /\ p.app.selected = None
      /\ p.app.restore = w.app.restore /\ p.app.remembered = w.app.remembered
  BY <1>1, <1>p DEF Worlds, Apps, Receivers
<1>3. AppGood(b, p.app, p.tr) /\ ChoiceGood(p.app, p.seen) /\ Owed(p.app, p.tr)
  BY <1>2 DEF Good, Sound, Core, AppGood, ChoiceGood, Owed
<1>4. Good(b, p)
  BY <1>2, <1>3 DEF Good, Sound, Core
<1>5. Good(b, i) /\ Still(i) /\ SameBatch(p, i)
  BY <1>4, <1>i, InvalidateGood
<1>6. Sound(b, o) /\ o.batch = i.batch
  BY <1>5, <1>o, SessionOverSound DEF Good
<1>n. PICK n : n.batch = o.batch /\ n \in Worlds(b) /\ Start(w, made) = [n EXCEPT !.seen.chosen = w.app.restore]
  <2>1. CASE o.tr.life = "up"
    <3>c. PICK c : c = Change(o, "Restart", None)
      OBVIOUS
    <3>r. PICK r : r = Require(c)
      OBVIOUS
    <3>1. Sound(b, c) /\ c.batch = o.batch
      BY <1>6, <2>1, <3>c, ChangeSound DEF Receivers
    <3>2. Sound(b, r) /\ r.batch = c.batch
      BY <3>1, <3>r, RequireSound
    <3>3. Start(w, made) = [(IF CanRequest(o) THEN r ELSE c) EXCEPT !.seen.chosen = w.app.restore]
      BY <1>p, <1>i, <1>o, <2>1, <3>c, <3>r DEF Start
    <3>4. c \in Worlds(b) /\ r \in Worlds(b)
      BY <3>1, <3>2 DEF Sound, Core
    <3>5. QED
      BY <3>1, <3>2, <3>3, <3>4
  <2>2. CASE o.tr.life # "up" /\ made
    <3>t. PICK t : t = [NoTransport EXCEPT !.life = "up", !.remembered = o.app.restore]
      OBVIOUS
    <3>u. PICK u : u = [o EXCEPT !.tr = t, !.app.now = FALSE]
      OBVIOUS
    <3>n. PICK n : n = NewTransport(o)
      OBVIOUS
    <3>1. o \in Worlds(b) /\ o.app = i.app /\ i.app.test = 0
      BY <1>4, <1>5, <1>6, <1>i, <1>o, InvalidateGood, SessionOverSound DEF Good, Sound, Core
    <3>2. Good(b, n) /\ n \in Worlds(b)
      BY <1>6, <3>1, <3>n, NewTransportGood DEF Good, Sound, Core
    <3>3. t \in Transports
      <4>1. o.app.restore \in Receivers
        BY <3>1 DEF Worlds, Apps
      <4>2. QED
        BY <3>t, <4>1, NoTransportTyped DEF Transports
    <3>4. u \in Worlds(b) /\ u.batch = o.batch /\ u.hook = o.hook /\ u.seen = o.seen
      BY <3>1, <3>3, <3>u DEF Worlds, Apps
    <3>5. n = Replace(u, FALSE, FALSE)
      BY <3>t, <3>u, <3>n DEF NewTransport
    <3>6. n.batch = u.batch
      BY <3>4, <3>5, ReplaceBatch
    <3>7. Start(w, made) = [n EXCEPT !.seen.chosen = w.app.restore]
      BY <1>p, <1>i, <1>o, <2>2, <3>n DEF Start
    <3>8. QED
      BY <3>2, <3>4, <3>6, <3>7
  <2>3. CASE o.tr.life # "up" /\ ~made
    <3>n. PICK n : n = [o EXCEPT !.tr = NoTransport, !.app.now = FALSE]
      OBVIOUS
    <3>1. NoTransport \in Transports
      BY NoTransportTyped
    <3>2. n \in Worlds(b) /\ n.batch = o.batch
      BY <1>6, <3>1, <3>n DEF Sound, Core, Worlds, Apps
    <3>3. Start(w, made) = [n EXCEPT !.seen.chosen = w.app.restore]
      BY <1>p, <1>i, <1>o, <2>3, <3>n DEF Start
    <3>4. QED
      BY <3>2, <3>3
  <2>4. QED
    BY <2>1, <2>2, <2>3
<1>v. PICK v : v = [n EXCEPT !.seen.chosen = w.app.restore]
  OBVIOUS
<1>7. v.batch = n.batch
  BY <1>n, <1>v DEF Worlds
<1>8. QED
  BY <1>2, <1>5, <1>6, <1>7, <1>n, <1>v DEF SameBatch

\* The calls in their order.
LEMMA SyncedBatch ==
  ASSUME NEW b \in Bounds, NEW w, Good(b, w), NEW due \in BOOLEAN, NEW made \in BOOLEAN,
         NEW fault, NEW foreground, NEW keys, NEW late
  PROVE  /\ SameBatch(w, TakeSnapshot(w))
         /\ SameBatch(w, Retry(w, due, made))
         /\ SameBatch(w, NoticeLoss(w))
         /\ SameBatch(w, ConfigureInput(w, fault))
         /\ SameBatch(w, NoticeInput(w, late))
         /\ SameBatch(w, NoticeWindow(w, foreground, keys, late))
<1>0. w \in Worlds(b) /\ SameBatch(w, w)
  BY DEF Good, Sound, Core, SameBatch
<1>1. SameBatch(w, TakeSnapshot(w))
  <2>r. PICK r : r = [w EXCEPT !.tr.unread = FALSE, !.tr.snapshot = NoSnapshot]
    OBVIOUS
  <2>1. r.batch = w.batch /\ r.app = w.app
    BY <1>0, <2>r DEF Worlds
  <2>2. CASE TakeSnapshot(w) = r
    BY <2>1, <2>2 DEF SameBatch
  <2>3. ASSUME TakeSnapshot(w) # r
        PROVE  TakeSnapshot(w).batch = r.batch
    <3>s. PICK s : s = w.tr.snapshot
      OBVIOUS
    <3>y. PICK y : y = (s.ready /\ s.selected # None /\ w.tr.life # "stopped")
      OBVIOUS
    <3>m. PICK m : m = IF y THEN s.selected ELSE r.app.remembered
      OBVIOUS
    <3>o. PICK o : o = IF y THEN None ELSE r.app.restore
      OBVIOUS
    <3>a. PICK a : a = [r.app EXCEPT !.now = s.now /\ y, !.selected = s.selected, !.ready = y,
                                     !.switching = s.switching, !.remembered = m, !.restore = o]
      OBVIOUS
    <3>1. TakeSnapshot(w) = [r EXCEPT !.app.now        = s.now /\ y,
                                      !.app.selected   = s.selected,
                                      !.app.ready      = y,
                                      !.app.switching  = s.switching,
                                      !.app.remembered = IF y THEN s.selected ELSE @,
                                      !.app.restore    = IF y THEN None ELSE @]
      BY <2>3, <2>r, <3>s, <3>y DEF TakeSnapshot
    <3>2. QED
      BY <1>0, <2>1, <2>r, <3>1 DEF Worlds
  <2>4. QED
    BY <2>1, <2>2, <2>3 DEF SameBatch
<1>2. SameBatch(w, Retry(w, due, made))
  BY <1>0, StartBatch DEF Retry
<1>3. SameBatch(w, NoticeLoss(w))
  <2>i. PICK i : i = Invalidate(w, "TransportLost")
    OBVIOUS
  <2>o. PICK o : o = SessionOver(i)
    OBVIOUS
  <2>u. PICK u : u = IF w.app.lastReady /\ ~w.app.ready /\ ~w.app.switching THEN o ELSE w
    OBVIOUS
  <2>v. PICK v : v = [u EXCEPT !.app.lastReady = w.app.ready]
    OBVIOUS
  <2>1. Good(b, i) /\ Still(i) /\ SameBatch(w, i)
    BY <2>i, InvalidateGood
  <2>2. Sound(b, o) /\ o.batch = i.batch
    BY <2>1, <2>o, SessionOverSound DEF Good
  <2>3. u \in Worlds(b) /\ SameBatch(w, u)
    BY <1>0, <2>1, <2>2, <2>u DEF Sound, Core, SameBatch
  <2>4. v.batch = u.batch
    BY <2>3, <2>v DEF Worlds
  <2>5. NoticeLoss(w) = v
    BY <2>i, <2>o, <2>u, <2>v DEF NoticeLoss
  <2>6. QED
    BY <2>3, <2>4, <2>5 DEF SameBatch
<1>4. SameBatch(w, ConfigureInput(w, fault))
  <2>x. PICK x \in BOOLEAN : x = (w.hook.alive = "up")
    OBVIOUS
  <2>a. PICK a : a = [w EXCEPT !.app.input = x]
    OBVIOUS
  <2>l. PICK l : l = [a EXCEPT !.app.listening = FALSE]
    OBVIOUS
  <2>i. PICK i : i = Invalidate(l, "TransportLost")
    OBVIOUS
  <2>1. Good(b, a) /\ a.batch = w.batch
    BY <2>a, InputGood
  <2>2. Good(b, l) /\ l.batch = a.batch
    BY <2>1, <2>l, ListeningGood
  <2>3. Good(b, i) /\ SameBatch(l, i)
    BY <2>2, <2>i, InvalidateGood
  <2>k. PICK k : k = IF fault /\ w.hook.alive # "none" THEN i ELSE a
    OBVIOUS
  <2>4. Good(b, k) /\ SameBatch(w, k)
    BY <2>1, <2>2, <2>3, <2>k DEF SameBatch
  <2>5. ConfigureInput(w, fault) = Configure(k)
    BY <2>x, <2>a, <2>l, <2>i, <2>k DEF ConfigureInput
  <2>6. QED
    BY <2>4, <2>5, ConfigureGood DEF SameBatch
<1>5. SameBatch(w, NoticeInput(w, late))
  <2>1. CASE w.hook.alive # "down"
    BY <1>0, <2>1 DEF NoticeInput
  <2>2. CASE w.hook.alive = "down"
    <3>l. PICK l : l = [w EXCEPT !.app.listening = FALSE]
      OBVIOUS
    <3>i. PICK i : i = Invalidate(l, "ListenerStopped")
      OBVIOUS
    <3>f. PICK f : f = FinishRecording(i, late)
      OBVIOUS
    <3>v. PICK v : v = [f EXCEPT !.hook.alive = "none"]
      OBVIOUS
    <3>1. Good(b, l) /\ l.batch = w.batch
      BY <3>l, ListeningGood
    <3>2. Good(b, i) /\ SameBatch(l, i)
      BY <3>1, <3>i, InvalidateGood
    <3>3. Good(b, f) /\ SameBatch(i, f)
      BY <3>2, <3>f, FinishRecordingGood
    <3>4. v.batch = f.batch
      BY <3>3, <3>v DEF Good, Sound, Core, Worlds
    <3>5. NoticeInput(w, late) = v
      BY <2>2, <3>l, <3>i, <3>f, <3>v DEF NoticeInput
    <3>6. QED
      BY <3>1, <3>2, <3>3, <3>4, <3>5 DEF SameBatch
  <2>3. QED
    BY <2>1, <2>2
<1>6. SameBatch(w, NoticeWindow(w, foreground, keys, late))
  <2>l. PICK l : l = IF foreground THEN w ELSE FinishRecording(w, late)
    OBVIOUS
  <2>d. PICK d : d = Discard(l, late)
    OBVIOUS
  <2>r. PICK r : r = [d EXCEPT !.app.capture = "recording"]
    OBVIOUS
  <2>n. PICK n : n = NewEpoch(r)
    OBVIOUS
  <2>1. Good(b, l) /\ SameBatch(w, l)
    BY <1>0, <2>l, FinishRecordingGood
  <2>2. Good(b, d) /\ SameBatch(l, d)
    BY <2>1, <2>d, DiscardGood
  <2>3. Good(b, r) /\ r.batch = d.batch
    BY <2>2, <2>r, CaptureGood
  <2>4. SameBatch(r, n)
    BY <2>3, <2>n, NewEpochGood
  <2>5. NoticeWindow(w, foreground, keys, late)
        = IF l.app.capture = "waiting" /\ ~keys THEN n ELSE l
    BY <2>l, <2>d, <2>r, <2>n DEF NoticeWindow
  <2>6. QED
    BY <2>1, <2>2, <2>3, <2>4, <2>5 DEF SameBatch
<1>7. QED
  BY <1>1, <1>2, <1>3, <1>4, <1>5, <1>6

-----------------------------------------------------------------------------
(* The batch of events.                                                     *)

\* What holds from one event of the batch to the next.
Handled(w) == Tied(w) /\ Batched(w) /\ Recorder(w)

\* An event that is too old: only a release is noticed as lost.
LEMMA ForgottenTied ==
  ASSUME NEW b \in Bounds, NEW r \in Worlds(b), NEW e \in Events, NEW y \in BOOLEAN,
         MediaReady(r, e), e.kind # "release" => Tied(r), Batched(r), Recorder(r),
         y <=> r.seen.lost \/ e.kind = "release"
  PROVE  Handled([r EXCEPT !.seen.lost = y])
<1>u. PICK u : u = [r EXCEPT !.seen.lost = y]
  OBVIOUS
<1>1. /\ u.app = r.app /\ u.tr = r.tr /\ u.hook = r.hook /\ u.batch = r.batch /\ u.seen.lost = y
  BY <1>u DEF Worlds, Observers
<1>2. Linked(u.tr) /\ Holding(u.hook) /\ Seen(u.app, u.tr)
  BY <1>1 DEF MediaReady, Base
<1>3. Queued(u) /\ (Excused(r) => Excused(u))
  BY <1>1 DEF MediaReady, Base, Queued, Excused
<1>4. Tied(u)
  <2>1. CASE e.kind = "release"
    BY <1>1, <1>2, <1>3, <2>1 DEF Tied, Base, Excused
  <2>2. CASE e.kind # "release"
    <3>1. (InSession(r) => InSession(u)) /\ (Closing(r) => Closing(u))
      BY <1>1 DEF InSession, Closing, Coming
    <3>2. QED
      BY <1>2, <1>3, <2>2, <3>1 DEF Tied, Base
  <2>3. QED
    BY <2>1, <2>2
<1>5. Batched(u)
  BY <1>1 DEF Batched
<1>6. Recorder(u)
  BY <1>1 DEF Recorder, Recording
<1>7. QED
  BY <1>4, <1>5, <1>6, <1>u DEF Handled

\* One event of the batch.
LEMMA HandleNextTied ==
  ASSUME NEW b \in Bounds, NEW v, Good(b, v), Handled(v), NEW late, NEW ends, Len(v.batch) > 0
  PROVE  Handled(HandleNext(v, late, ends))
<1>1. /\ v \in Worlds(b) /\ v.batch \in Seq(Events) /\ Timely(v.batch)
      /\ v.seen.lost \in BOOLEAN
  BY DEF Good, Sound, Core, Worlds, Observers
<1>0. Tied(v) /\ Batched(v) /\ Recorder(v)
  BY DEF Handled
<1>e. PICK e : e = Head(v.batch)
  OBVIOUS
<1>x. PICK x : x = Tail(v.batch)
  OBVIOUS
<1>2. /\ x \in Seq(Events) /\ Timely(x) /\ e \in Events
  BY <1>1, <1>e, <1>x, TailTimely
<1>3. /\ Paired(v.batch) => Paired(x)
      /\ Paired(v.batch) /\ e.kind = "press" /\ e.fresh => Releases(x)
      /\ Releases(v.batch) /\ e.kind # "release" => Releases(x)
      /\ ~Released(v.batch) => ~Released(x) /\ ~(e.kind = "release" /\ e.fresh /\ ~e.ordered)
  BY <1>1, <1>e, <1>x, TailEvents
<1>r. PICK r : r = [v EXCEPT !.batch = x]
  OBVIOUS
<1>4. /\ r \in Worlds(b)
      /\ r.app = v.app /\ r.tr = v.tr /\ r.seen = v.seen /\ r.hook = v.hook /\ r.batch = x
  BY <1>1, <1>2, <1>r DEF Worlds
<1>5. Good(b, r)
  BY <1>2, <1>r, BatchGood
<1>6. /\ Queued(r) /\ SameRouter(v.hook, r.hook)
      /\ e.kind # "release" /\ Coming(v) => Coming(r)
      /\ e.kind = "press" /\ e.fresh => Excused(v) \/ Coming(r)
  <2>1. Queued(r) /\ SameRouter(v.hook, r.hook)
    BY <1>0, <1>4 DEF Tied, Base, Queued, SameRouter
  <2>2. e.kind # "release" /\ Coming(v) => Coming(r)
    BY <1>3, <1>4 DEF Coming
  <2>3. e.kind = "press" /\ e.fresh => Excused(v) \/ Coming(r)
    BY <1>0, <1>3, <1>4 DEF Batched, Excused, Coming
  <2>4. QED
    BY <2>1, <2>2, <2>3
<1>7. MediaReady(r, e) /\ (e.kind # "release" => Tied(r))
  BY <1>0, <1>4, <1>6, TakenTied
<1>8. Batched(r)
  BY <1>0, <1>3, <1>4 DEF Batched
<1>9. Recorder(r) /\ (Recording(r) => ~(e.kind = "release" /\ e.fresh /\ ~e.ordered))
  BY <1>0, <1>3, <1>4 DEF Recorder, Recording
<1>u. PICK u : u = Handle(r, e, late, ends)
  OBVIOUS
<1>g. HandleNext(v, late, ends) = u
  BY <1>e, <1>x, <1>r, <1>u DEF HandleNext
<1>10. ASSUME u = Apply(r, e, late)
       PROVE  Handled(u)
  BY <1>2, <1>5, <1>7, <1>8, <1>9, <1>10, ApplyTied DEF Handled
<1>11. ASSUME e.ordered \/ (~e.ordered /\ e.fresh /\ ~Recording(r) /\ Allowed(e))
       PROVE  Handled(u)
  <2>1. u = Apply(r, e, late)
    BY <1>u, <1>11 DEF Handle
  <2>2. QED
    BY <1>10, <2>1
<1>12. ASSUME ~e.ordered /\ ~e.fresh
       PROVE  Handled(u)
  <2>y. PICK y \in BOOLEAN : y = (r.seen.lost \/ e.kind = "release")
    BY <1>1, <1>4
  <2>1. u = [r EXCEPT !.seen.lost = y]
    BY <1>u, <1>12, <2>y DEF Handle
  <2>2. QED
    BY <1>2, <1>4, <1>7, <1>8, <1>9, <2>y, <2>1, ForgottenTied
<1>13. ASSUME ~e.ordered /\ e.fresh /\ Recording(r)
       PROVE  Handled(u)
  <2>1. u = Recorded(r, ends, late)
    BY <1>u, <1>13 DEF Handle
  <2>2. Tied(r)
    BY <1>7, <1>9, <1>13
  <2>3. QED
    BY <1>5, <1>8, <1>9, <2>1, <2>2, RecordedTied DEF Handled
<1>14. ASSUME ~e.ordered /\ e.fresh /\ ~Recording(r) /\ ~Allowed(e)
       PROVE  Handled(u)
  <2>1. u = r
    BY <1>u, <1>14 DEF Handle
  <2>2. e.kind # "release"
    BY <1>14 DEF Allowed
  <2>3. QED
    BY <1>7, <1>8, <1>9, <2>1, <2>2 DEF Handled
<1>15. Handled(u)
  BY <1>11, <1>12, <1>13, <1>14
<1>16. QED
  BY <1>g, <1>15

\* The batch is taken from the channel with the releases that are in it.
LEMMA BatchTakenTied ==
  ASSUME NEW b \in Bounds, NEW w, Good(b, w), Tied(w), Recorder(w), w.batch = <<>>
  PROVE  Handled(Taken(w))
<1>1. w \in Worlds(b)
  BY DEF Good, Sound, Core
<1>v. PICK v : v = Taken(w)
  OBVIOUS
<1>2. /\ v.app = w.app /\ v.tr = w.tr /\ v.seen = w.seen
      /\ v.batch = w.hook.events /\ v.hook.events = <<>>
      /\ SameRouter(w.hook, v.hook)
  BY <1>1, <1>v DEF Taken, Worlds, Hooks, SameRouter
<1>3. DOMAIN (<<>>) = {}
  OBVIOUS
<1>4. ~Releases(<<>>) /\ Paired(<<>>) /\ ~Released(<<>>)
  BY <1>3 DEF Releases, Paired, Released
<1>5. Coming(v) <=> Coming(w)
  BY <1>2, <1>4 DEF Coming, SameRouter
<1>6. Base(v) /\ Seen(v.app, v.tr) /\ (Excused(w) => Excused(v))
  BY <1>2, <1>4 DEF Tied, Base, Holding, Queued, Excused, SameRouter
<1>7. (InSession(w) => InSession(v)) /\ (Closing(w) => Closing(v))
  BY <1>2, <1>5 DEF InSession, Closing
<1>8. Tied(v)
  BY <1>6, <1>7 DEF Tied
<1>9. Batched(v)
  BY <1>2 DEF Tied, Base, Queued, Batched, SameRouter
<1>10. Recorder(v)
  BY <1>2, <1>4 DEF Recorder, Recording, SameRouter
<1>11. QED
  BY <1>8, <1>9, <1>10, <1>v DEF Handled

\* The whole batch.
LEMMA HandleEventsTied ==
  ASSUME NEW b \in Bounds, NEW w, Good(b, w), Tied(w), Recorder(w), w.batch = <<>>,
         NEW late, NEW ends
  PROVE  Tied(HandleEvents(w, late, ends)) /\ Recorder(HandleEvents(w, late, ends))
<1>C. PICK C : C = {v \in Worlds(b) : Handled(v)}
  OBVIOUS
<1>1. Taken(w) \in C
  <2>1. Handled(Taken(w))
    BY BatchTakenTied
  <2>2. Taken(w) \in Worlds(b)
    BY TakenGood DEF Good, Sound, Core
  <2>3. QED
    BY <1>C, <2>1, <2>2
<1>2. ASSUME NEW v \in C, Good(b, v), Len(v.batch) > 0
      PROVE  HandleNext(v, late, ends) \in C
  <2>1. Handled(v)
    BY <1>C
  <2>2. Handled(HandleNext(v, late, ends))
    BY <1>2, <2>1, HandleNextTied
  <2>3. HandleNext(v, late, ends) \in Worlds(b)
    BY <1>2, HandleNextGood DEF Good, Sound, Core
  <2>4. QED
    BY <1>C, <2>2, <2>3
<1>3. HandleEvents(w, late, ends) \in C
  BY <1>1, <1>2, HandleEventsStays
<1>4. QED
  BY <1>C, <1>3 DEF Handled

-----------------------------------------------------------------------------
(* The receipts, the bound on the environment and the whole tick.           *)

\* An answer that was read is no matter of the session.
LEMMA SettleTied ==
  ASSUME NEW b \in Bounds, NEW w, Good(b, w), Tied(w), Recorder(w), NEW t \in 1 .. b.tests
  PROVE  Tied(Settle(w, t)) /\ Recorder(Settle(w, t))
<1>1. w \in Worlds(b) /\ w.app.test \in Nat
  BY DEF Good, Sound, Core, Worlds, Apps
<1>x. PICK x \in Nat : x = IF w.app.test = t THEN 0 ELSE w.app.test
  BY <1>1
<1>r. PICK r : r = [w.app.receipt EXCEPT ![t] = [answer |-> "none", fresh |-> FALSE]]
  OBVIOUS
<1>v. PICK v : v = [w EXCEPT !.app.test = x, !.app.receipt = r]
  OBVIOUS
<1>2. Settle(w, t) = v
  BY <1>1, <1>x, <1>r, <1>v DEF Settle
<1>3. /\ v.hook = w.hook /\ v.tr = w.tr /\ v.seen = w.seen /\ v.batch = w.batch
      /\ SameShown(w.app, v.app) /\ v.app.capture = w.app.capture
  BY <1>1, <1>v DEF Worlds, Apps, SameShown
<1>4. Faded(w, v)
  BY <1>3, OtherFaded DEF Recording
<1>5. QED
  BY <1>2, <1>4, FadedTied

\* ReadReceipts
LEMMA ReadReceiptsTied ==
  ASSUME NEW b \in Bounds, NEW w, Good(b, w), Tied(w), Recorder(w)
  PROVE  Tied(ReadReceipts(w)) /\ Recorder(ReadReceipts(w))
<1>C. PICK C : C = {v \in Worlds(b) : Tied(v) /\ Recorder(v)}
  OBVIOUS
<1>1. w \in C
  BY <1>C DEF Good, Sound, Core
<1>2. ASSUME NEW v \in C, NEW t \in 1 .. b.tests, Good(b, v)
      PROVE  Settle(v, t) \in C
  <2>1. Tied(v) /\ Recorder(v)
    BY <1>C
  <2>2. Tied(Settle(v, t)) /\ Recorder(Settle(v, t))
    BY <1>2, <2>1, SettleTied
  <2>3. Settle(v, t) \in Worlds(b)
    BY <1>2, SettleGood DEF Good, Sound, Core
  <2>4. QED
    BY <1>C, <2>2, <2>3
<1>3. ReadReceipts(w) \in C
  BY <1>1, <1>2, ReadReceiptsStays
<1>4. QED
  BY <1>C, <1>3

\* The bound on the environment only counts.
LEMMA DisturbedTied ==
  ASSUME NEW b \in Bounds, NEW w \in Worlds(b), Tied(w), Recorder(w)
  PROVE  /\ Tied(Disturbed(w)) /\ Recorder(Disturbed(w))
         /\ Disturbed(w).batch = w.batch
<1>v. PICK v : v = Disturbed(w)
  OBVIOUS
<1>1. /\ v.app = w.app /\ v.hook = w.hook /\ v.tr = w.tr /\ v.batch = w.batch
      /\ v.seen.lost = w.seen.lost
  BY <1>v DEF Disturbed, Worlds, Observers
<1>2. Faded(w, v)
  BY <1>1, OtherFaded DEF SameShown, Recording
<1>3. QED
  BY <1>1, <1>2, <1>v, FadedTied

\* No call before the batch finds or leaves a batch.
LEMMA EmptyStays ==
  ASSUME NEW b \in Bounds, NEW w \in Worlds(b), w.batch = <<>>,
         NEW v \in Worlds(b), SameBatch(w, v)
  PROVE  v.batch = <<>>
<1>1. v.batch \in Seq(Events) /\ Len(v.batch) = 0
  BY DEF SameBatch, Worlds
<1>2. QED
  BY <1>1

\* A tick, call by call.
LEMMA TickedTied ==
  ASSUME NEW b \in Bounds, NEW w, Good(b, w), Tied(w), Recorder(w), w.batch = <<>>,
         NEW due \in BOOLEAN, NEW made \in BOOLEAN,
         NEW fault, NEW foreground, NEW keys, NEW late, NEW ends
  PROVE  LET v == Ticked(w, due, made, fault, foreground, keys, late, ends) IN
         Tied(v) /\ Recorder(v) /\ v.batch = <<>>
<1>s. PICK s : s = TakeSnapshot(w)
  OBVIOUS
<1>r. PICK r : r = Retry(s, due, made)
  OBVIOUS
<1>l. PICK l : l = NoticeLoss(r)
  OBVIOUS
<1>c. PICK c : c = ConfigureInput(l, fault)
  OBVIOUS
<1>i. PICK i : i = NoticeInput(c, late)
  OBVIOUS
<1>f. PICK f : f = NoticeWindow(i, foreground, keys, late)
  OBVIOUS
<1>h. PICK h : h = HandleEvents(f, late, ends)
  OBVIOUS
<1>d. PICK d : d = ReadReceipts(h)
  OBVIOUS
<1> DEFINE Fine(v) == Good(b, v) /\ Tied(v) /\ Recorder(v) /\ v.batch = <<>>
<1>0. \A p, q : Fine(p) /\ Good(b, q) /\ SameBatch(p, q) => q.batch = <<>>
  BY EmptyStays DEF Good, Sound, Core
<1>1. Fine(s)
  <2>1. Good(b, s) /\ Tied(s) /\ Recorder(s)
    BY <1>s, TakeSnapshotGood, TakeSnapshotTied
  <2>2. SameBatch(w, s)
    BY <1>s, SyncedBatch
  <2>3. QED
    BY <1>0, <2>1, <2>2
<1>2. Fine(r)
  <2>1. Good(b, r) /\ Tied(r) /\ Recorder(r)
    BY <1>1, <1>r, RetryGood, RetryTied
  <2>2. SameBatch(s, r)
    BY <1>1, <1>r, SyncedBatch
  <2>3. QED
    BY <1>0, <1>1, <2>1, <2>2
<1>3. Fine(l)
  <2>1. Good(b, l) /\ Tied(l) /\ Recorder(l)
    BY <1>2, <1>l, NoticeLossGood, NoticeLossTied
  <2>2. SameBatch(r, l)
    BY <1>2, <1>l, SyncedBatch
  <2>3. QED
    BY <1>0, <1>2, <2>1, <2>2
<1>4. Fine(c)
  <2>1. Good(b, c) /\ Tied(c) /\ Recorder(c)
    BY <1>3, <1>c, ConfigureInputGood, ConfigureInputTied
  <2>2. SameBatch(l, c)
    BY <1>3, <1>c, SyncedBatch
  <2>3. QED
    BY <1>0, <1>3, <2>1, <2>2
<1>5. Fine(i)
  <2>1. Good(b, i) /\ Tied(i) /\ Recorder(i)
    BY <1>4, <1>i, NoticeInputGood, NoticeInputTied
  <2>2. SameBatch(c, i)
    BY <1>4, <1>i, SyncedBatch
  <2>3. QED
    BY <1>0, <1>4, <2>1, <2>2
<1>6. Fine(f)
  <2>1. Good(b, f) /\ Tied(f) /\ Recorder(f)
    BY <1>5, <1>f, NoticeWindowGood, NoticeWindowTied
  <2>2. SameBatch(i, f)
    BY <1>5, <1>f, SyncedBatch
  <2>3. QED
    BY <1>0, <1>5, <2>1, <2>2
<1>7. Fine(h)
  BY <1>6, <1>h, HandleEventsGood, HandleEventsTied
<1>8. Fine(d)
  BY <1>7, <1>d, ReadReceiptsGood, ReadReceiptsTied
<1>9. Tied(Disturbed(d)) /\ Recorder(Disturbed(d)) /\ Disturbed(d).batch = <<>>
  <2>1. d \in Worlds(b)
    BY <1>8 DEF Good, Sound, Core
  <2>2. QED
    BY <1>8, <2>1, DisturbedTied
<1>10. Ticked(w, due, made, fault, foreground, keys, late, ends)
       = IF fault \/ late THEN Disturbed(d) ELSE d
  BY <1>s, <1>r, <1>l, <1>c, <1>i, <1>f, <1>h, <1>d DEF Ticked
<1>11. QED
  BY <1>8, <1>9, <1>10

-----------------------------------------------------------------------------
(* A world that becomes the next state.                                     *)

\* A lost release is forgotten when there is no press left that it could end.
LEMMA BecomesTied ==
  ASSUME NEW b \in Bounds, NEW w, Good(b, w), Tied(w), Recorder(w), w.batch = <<>>, Becomes(w)
  PROVE  HInv'
<1>1. w \in Worlds(b)
  BY DEF Good, Sound, Core
<1>x. PICK x \in BOOLEAN : x = (w.app.now /\ w.app.ready)
  BY <1>1 DEF Worlds, Apps
<1>y. PICK y \in BOOLEAN : y = (w.seen.lost /\ Pressing(w))
  OBVIOUS
<1>a. PICK a : a = [w.app EXCEPT !.now = x]
  OBVIOUS
<1>s. PICK s : s = [w.seen EXCEPT !.lost = y]
  OBVIOUS
<1>h. PICK h : h = w.hook
  OBVIOUS
<1>t. PICK t : t = w.tr
  OBVIOUS
<1>v. PICK v : v = [app |-> a, hook |-> h, tr |-> t, seen |-> s, batch |-> <<>>]
  OBVIOUS
<1>2. app' = a /\ hook' = h /\ tr' = t /\ seen' = s
  BY <1>1, <1>x, <1>y, <1>a, <1>s, <1>h, <1>t DEF Becomes
<1>3. /\ a.now = x /\ a.ready = w.app.ready /\ a.selected = w.app.selected
      /\ a.capture = w.app.capture /\ s.lost = y
  BY <1>1, <1>a, <1>s DEF Worlds, Apps, Observers
<1>4. v.app = a /\ v.hook = w.hook /\ v.tr = w.tr /\ v.seen = s /\ v.batch = w.batch
  BY <1>h, <1>t, <1>v
<1>5. Linked(v.tr) /\ Holding(v.hook)
  BY <1>4 DEF Tied, Base
<1>6. Seen(v.app, v.tr)
  BY <1>3, <1>4, <1>x DEF Tied, Seen
<1>7. (InSession(w) => InSession(v)) /\ (Closing(w) => Closing(v))
  <2>1. InSession(w) => InSession(v)
    BY <1>3, <1>4, <1>x DEF InSession
  <2>2. Closing(w) => Closing(v)
    BY <1>4 DEF Closing, Coming
  <2>3. QED
    BY <2>1, <2>2
<1>8. Kills(w.tr) => Excused(v)
  BY <1>4 DEF Excused
<1>9. Recorder(v)
  BY <1>3, <1>4 DEF Recorder, Recording
<1>10. Queued(v) /\ (Excused(v) \/ (InSession(v) /\ Closing(v)))
  <2>1. CASE y
    BY <1>3, <1>4, <2>1 DEF Queued, Excused
  <2>2. CASE ~w.seen.lost
    BY <1>4, <1>7, <1>8, <2>2 DEF Tied, Base, Queued, Excused
  <2>3. CASE w.seen.lost /\ ~y
    <3>1. ~Pressing(w)
      BY <1>y, <2>3
    <3>2. /\ ~w.tr.held
          /\ \A i \in DOMAIN w.hook.events : w.hook.events[i].kind # "press"
          /\ \A i \in DOMAIN w.tr.control : w.tr.control[i].kind # "press"
      BY <3>1 DEF Pressing
    <3>3. Queued(v)
      BY <1>4, <3>2 DEF Queued, Paired
    <3>4. InSession(v) /\ Closing(v)
      BY <1>4, <3>2 DEF InSession, Closing, LivePress
    <3>5. QED
      BY <3>3, <3>4
  <2>4. QED
    BY <1>y, <2>1, <2>2, <2>3
<1>11. Tied(v)
  BY <1>5, <1>6, <1>10 DEF Tied, Base
<1>12. world' = v
  BY <1>2, <1>v DEF world
<1>13. Tied(world') /\ Recorder(world')
  BY <1>9, <1>11, <1>12
<1>14. IInv'
  BY BecomesGood
<1>15. QED
  BY <1>13, <1>14 DEF HInv, Tied, Recorder, Base, Seen, Excused, InSession, Closing, Holding,
                     Linked, Queued, Coming, Kills, Lasting, Recording
-----------------------------------------------------------------------------
(* The actions of the user.                                                 *)

\* What the invariant says of the state before a step.
LEMMA Here ==
  ASSUME HInv, NEW b, b = seen.bound, NEW w, w = world
  PROVE  /\ b \in Bounds /\ Good(b, w) /\ w \in Worlds(b)
         /\ Tied(w) /\ Recorder(w) /\ w.batch = <<>>
<1>1. b \in Bounds /\ Good(b, w)
  BY DEF HInv, IInv
<1>2. w \in Worlds(b)
  BY <1>1 DEF Good, Sound, Core
<1>3. Tied(w) /\ Recorder(w)
  BY DEF HInv
<1>4. w.batch = <<>>
  BY DEF world
<1>5. QED
  BY <1>1, <1>2, <1>3, <1>4

\* What a step has to show of the state after it.
LEMMA StepTied ==
  ASSUME NEW b \in Bounds, NEW w \in Worlds(b), w.batch = <<>>,
         NEW s, Good(b, s), Tied(s), Recorder(s), SameBatch(w, s)
  PROVE  /\ Becomes(s) => HInv'
         /\ Becomes(Disturbed(s)) => HInv'
<1>1. s \in Worlds(b)
  BY DEF Good, Sound, Core
<1>2. s.batch = <<>>
  BY <1>1, EmptyStays
<1>3. Becomes(s) => HInv'
  BY <1>2, BecomesTied
<1>d. PICK d : d = Disturbed(s)
  OBVIOUS
<1>4. Good(b, d) /\ Tied(d) /\ Recorder(d) /\ d.batch = <<>>
  BY <1>1, <1>2, <1>d, DisturbedGood, DisturbedTied
<1>5. Becomes(d) => HInv'
  BY <1>4, BecomesTied
<1>6. QED
  BY <1>3, <1>5, <1>d

\* tick
LEMMA TickTied ==
  ASSUME HInv, Tick
  PROVE  HInv'
<1>b. PICK b : b = seen.bound
  OBVIOUS
<1>w. PICK w : w = world
  OBVIOUS
<1>1. /\ b \in Bounds /\ Good(b, w) /\ w \in Worlds(b)
      /\ Tied(w) /\ Recorder(w) /\ w.batch = <<>>
  BY <1>b, <1>w, Here
<1>2. PICK due \in BOOLEAN, made \in BOOLEAN, fault \in BOOLEAN, foreground \in BOOLEAN,
           keys \in BOOLEAN, late \in BOOLEAN, ends \in BOOLEAN :
        TickReads(due, made, fault, foreground, keys, late, ends)
  BY DEF Tick, TickReads
<1>t. Becomes(Ticked(world, due, made, fault, foreground, keys, late, ends))
  BY <1>2 DEF TickReads, Ticked
<1>x. PICK x : x = Ticked(world, due, made, fault, foreground, keys, late, ends)
  OBVIOUS
<1>3. Becomes(x)
  BY <1>t, <1>x DEF Becomes
<1>4. x = Ticked(w, due, made, fault, foreground, keys, late, ends)
  BY <1>w, <1>x
<1>5. Good(b, x)
  BY <1>1, <1>4, TickedGood
<1>6. Tied(x) /\ Recorder(x) /\ x.batch = <<>>
  BY <1>1, <1>4, TickedTied
<1>7. QED
  BY <1>1, <1>3, <1>5, <1>6, BecomesTied

\* start_bluetooth, choose and disconnect
LEMMA UserSessionTied ==
  ASSUME HInv, UserStart \/ UserChoose \/ UserDisconnect
  PROVE  HInv'
<1>b. PICK b : b = seen.bound
  OBVIOUS
<1>w. PICK w : w = world
  OBVIOUS
<1>1. /\ b \in Bounds /\ Good(b, w) /\ w \in Worlds(b)
      /\ Tied(w) /\ Recorder(w) /\ w.batch = <<>>
  BY <1>b, <1>w, Here
<1>2. CASE UserStart
  <2>1. PICK made \in BOOLEAN : Becomes(Disturbed(Start(world, made)))
    BY <1>2 DEF UserStart
  <2>s. PICK s : s = Start(w, made)
    OBVIOUS
  <2>2. Becomes(Disturbed(s))
    BY <2>1, <2>s, <1>w DEF Becomes
  <2>3. Good(b, s) /\ Tied(s) /\ Recorder(s) /\ SameBatch(w, s)
    BY <1>1, <2>s, StartGood, StartTied, StartBatch DEF Tied
  <2>4. QED
    BY <1>1, <2>2, <2>3, StepTied
<1>3. CASE UserChoose
  <2>1. PICK d \in Device : Becomes(Disturbed(Choose(world, d)))
    BY <1>3 DEF UserChoose
  <2>s. PICK s : s = Choose(w, d)
    OBVIOUS
  <2>2. Becomes(Disturbed(s))
    BY <2>1, <2>s, <1>w DEF Becomes
  <2>3. Good(b, s) /\ Tied(s) /\ Recorder(s) /\ SameBatch(w, s)
    BY <1>1, <2>s, ChooseGood, ChooseTied
  <2>4. QED
    BY <1>1, <2>2, <2>3, StepTied
<1>4. CASE UserDisconnect
  <2>s. PICK s : s = Disconnect(w)
    OBVIOUS
  <2>2. Becomes(Disturbed(s))
    BY <1>4, <2>s, <1>w DEF UserDisconnect, Becomes
  <2>3. Good(b, s) /\ Tied(s) /\ Recorder(s) /\ SameBatch(w, s)
    BY <1>1, <2>s, DisconnectGood, DisconnectTied
  <2>4. QED
    BY <1>1, <2>2, <2>3, StepTied
<1>5. QED
  BY <1>2, <1>3, <1>4

\* Listening, recording, and the input of the configuration window.
LEMMA UserCallsTied ==
  ASSUME HInv, UserListening \/ UserCapture \/ UserInput
  PROVE  HInv'
<1>b. PICK b : b = seen.bound
  OBVIOUS
<1>w. PICK w : w = world
  OBVIOUS
<1>1. /\ b \in Bounds /\ Good(b, w) /\ w \in Worlds(b)
      /\ Tied(w) /\ Recorder(w) /\ w.batch = <<>>
  BY <1>b, <1>w, Here
<1>u. PICK u : u = ConsumeUi(w)
  OBVIOUS
<1>2. Good(b, u) /\ Tied(u) /\ Recorder(u) /\ SameBatch(w, u)
  <2>1. Good(b, u)
    BY <1>1, <1>u, ConsumeUiGood
  <2>2. Tied(u) /\ Recorder(u)
    BY <1>1, <1>u, ConsumeUiFaded, FadedTied
  <2>3. u.batch = w.batch
    BY <1>1, <1>u DEF ConsumeUi, Worlds
  <2>4. QED
    BY <2>1, <2>2, <2>3 DEF SameBatch
<1>3. CASE UserListening
  <2>1. PICK on \in BOOLEAN : Becomes(SetListening(world, on, FALSE))
    BY <1>3 DEF UserListening
  <2>s. PICK s : s = SetListening(w, on, FALSE)
    OBVIOUS
  <2>2. Becomes(s)
    BY <2>1, <2>s, <1>w DEF Becomes
  <2>3. Good(b, s) /\ Tied(s) /\ Recorder(s) /\ SameBatch(w, s)
    BY <1>1, <2>s, SetListeningGood, SetListeningTied
  <2>4. QED
    BY <1>1, <2>2, <2>3, StepTied
<1>4. CASE Becomes(Disturbed(Record(world, FALSE)))
  <2>s. PICK s : s = Record(w, FALSE)
    OBVIOUS
  <2>2. Becomes(Disturbed(s))
    BY <1>4, <2>s, <1>w DEF Becomes
  <2>3. Good(b, s) /\ Tied(s) /\ Recorder(s) /\ SameBatch(w, s)
    BY <1>1, <2>s, RecordGood, RecordTied
  <2>4. QED
    BY <1>1, <2>2, <2>3, StepTied
<1>5. CASE Becomes(FinishRecording(ConsumeUi(world), FALSE))
  <2>s. PICK s : s = FinishRecording(u, FALSE)
    OBVIOUS
  <2>2. Becomes(s)
    BY <1>5, <1>u, <2>s, <1>w DEF Becomes
  <2>3. Good(b, s) /\ Tied(s) /\ Recorder(s) /\ SameBatch(u, s)
    BY <1>1, <1>2, <2>s, FinishRecordingGood, FinishRecordingTied
  <2>4. SameBatch(w, s)
    BY <1>2, <2>3 DEF SameBatch
  <2>5. QED
    BY <1>1, <2>2, <2>3, <2>4, StepTied
<1>6. CASE UserInput
  <2>1. Becomes(u)
    BY <1>6, <1>w, <1>u DEF UserInput, Becomes
  <2>2. QED
    BY <1>1, <1>2, <2>1, StepTied
<1>7. QED
  BY <1>3, <1>4, <1>5, <1>6 DEF UserCapture

\* The world in which a test has been sent.
Tested(w, t) ==
  [Enqueue(w, Event(FALSE, "tap", TRUE, TRUE), t) EXCEPT
     !.app.tests = t, !.app.test = t,
     !.app.receipt[t] = [answer |-> "waiting", fresh |-> TRUE]]

\* A test is a tap: nothing has to release it.
LEMMA TestedTied ==
  ASSUME NEW b \in Bounds, NEW w \in Worlds(b), Tied(w), Recorder(w), NEW t \in Nat,
         CanEnqueue(w, Event(FALSE, "tap", TRUE, TRUE))
  PROVE  LET v == Tested(w, t) IN Tied(v) /\ Recorder(v) /\ SameBatch(w, v)
<1>e. PICK e : e = Event(FALSE, "tap", TRUE, TRUE)
  OBVIOUS
<1>1. e \in Events /\ e.kind = "tap"
  BY <1>e DEF Event, Events
<1>q. PICK q : q = Enqueue(w, e, t)
  OBVIOUS
<1>2. /\ Tied(q) /\ q.hook = w.hook /\ q.batch = w.batch /\ q.app = w.app /\ q.seen = w.seen
  <2>1. CanEnqueue(w, e) /\ Base(w) /\ Seen(w.app, w.tr)
        /\ (Excused(w) \/ (InSession(w) /\ Closing(w)))
    BY <1>e DEF Tied
  <2>2. QED
    BY <1>1, <1>q, <2>1, EnqueueTied
<1>3. Recorder(q)
  BY <1>2 DEF Recorder, Recording
<1>r. PICK r : r = [q.app.receipt EXCEPT ![t] = [answer |-> "waiting", fresh |-> TRUE]]
  OBVIOUS
<1>v. PICK v : v = Tested(w, t)
  OBVIOUS
<1>4. v = [q EXCEPT !.app.tests = t, !.app.test = t,
                    !.app.receipt[t] = [answer |-> "waiting", fresh |-> TRUE]]
  BY <1>e, <1>q, <1>v DEF Tested
<1>5. /\ v.hook = q.hook /\ v.tr = q.tr /\ v.seen = q.seen /\ v.batch = q.batch
      /\ v.app.now = q.app.now /\ v.app.ready = q.app.ready /\ v.app.selected = q.app.selected
      /\ v.app.capture = q.app.capture
  <2>1. q = [w EXCEPT !.tr.control = q.tr.control]
    BY <1>q DEF Enqueue, Worlds, Transports
  <2>2. DOMAIN q = {"app", "hook", "tr", "seen", "batch"} /\ q.app \in Apps(b)
    BY <1>2, <2>1 DEF Worlds
  <2>3. QED
    BY <1>4, <2>2 DEF Apps
<1>6. Faded(q, v)
  BY <1>5, OtherFaded DEF SameShown, Recording
<1>7. QED
  BY <1>2, <1>3, <1>5, <1>6, <1>v, FadedTied DEF SameBatch

\* send
LEMMA UserTestTied ==
  ASSUME HInv, UserTest
  PROVE  HInv'
<1>b. PICK b : b = seen.bound
  OBVIOUS
<1>w. PICK w : w = world
  OBVIOUS
<1>1. /\ b \in Bounds /\ Good(b, w) /\ w \in Worlds(b)
      /\ Tied(w) /\ Recorder(w) /\ w.batch = <<>>
  BY <1>b, <1>w, Here
<1>t. PICK t : t = app.tests + 1
  OBVIOUS
<1>2. t = w.app.tests + 1 /\ w.app.tests < b.tests
  BY <1>b, <1>w, <1>t DEF UserTest, world
<1>3. t \in Nat
  BY <1>1, <1>2 DEF Worlds, Apps
<1>4. CanEnqueue(w, Event(FALSE, "tap", TRUE, TRUE))
  BY <1>w DEF UserTest
<1>x. PICK x : x = Tested(w, t)
  OBVIOUS
<1>5. Becomes(x)
  BY <1>w, <1>t, <1>x DEF UserTest, Tested, Becomes
<1>6. Good(b, x)
  BY <1>1, <1>2, <1>4, <1>x, TestedGood DEF Tested
<1>7. Tied(x) /\ Recorder(x) /\ SameBatch(w, x)
  BY <1>1, <1>3, <1>4, <1>x, TestedTied
<1>8. QED
  BY <1>1, <1>5, <1>6, <1>7, StepTied

-----------------------------------------------------------------------------
(* The listener thread.                                                     *)

\* What the listener has to keep when it changes its own state.
LEMMA HookTied ==
  ASSUME NEW w, NEW v, Tied(w),
         v.app = w.app, v.tr = w.tr, v.seen = w.seen, v.batch = w.batch,
         Holding(v.hook), Queued(v), Coming(w) => Coming(v)
  PROVE  Tied(v)
<1>1. Base(v) /\ Seen(v.app, v.tr) /\ (Excused(w) => Excused(v))
  BY DEF Tied, Base, Excused
<1>2. (InSession(w) => InSession(v)) /\ (Closing(w) => Closing(v))
  BY DEF InSession, Closing
<1>3. QED
  BY <1>1, <1>2 DEF Tied

\* Emits adds one event to the others.
LEMMA EmitsBatch ==
  ASSUME NEW b \in Bounds, NEW w \in Worlds(b), NEW e \in Events
  PROVE  LET v == Emits(w, e) IN
         /\ v.app = w.app /\ v.tr = w.tr /\ v.seen = w.seen /\ v.batch = w.batch
         /\ SameRouter(w.hook, v.hook)
         /\ v.hook.events = Append(w.hook.events, e)
         /\ w.hook.events \in Seq(Events)
<1>1. w.hook.events \in Seq(Events)
  BY DEF Worlds, Hooks
<1>x. PICK x : x = Append(w.hook.events, e)
  OBVIOUS
<1>v. PICK v : v = [w EXCEPT !.hook.events = x]
  OBVIOUS
<1>2. Emits(w, e) = v
  BY <1>x, <1>v DEF Emits
<1>3. /\ v.app = w.app /\ v.tr = w.tr /\ v.seen = w.seen /\ v.batch = w.batch
      /\ SameRouter(w.hook, v.hook) /\ v.hook.events = x
  BY <1>v DEF Worlds, Hooks, SameRouter
<1>4. QED
  BY <1>1, <1>2, <1>3, <1>x

\* What is emitted is no release of a seek that nobody reads as one.
LEMMA EmitsTied ==
  ASSUME NEW b \in Bounds, NEW w \in Worlds(b), Tied(w), Recorder(w), NEW e \in Events,
         e.kind # "press",
         e.kind = "release" /\ ~e.ordered => ~Recording(w)
  PROVE  LET v == Emits(w, e) IN
         /\ Tied(v) /\ Recorder(v) /\ v.batch = w.batch
         /\ e.kind = "release" => Releases(v.hook.events) /\ Paired(v.hook.events)
<1>v. PICK v : v = Emits(w, e)
  OBVIOUS
<1>s. PICK s : s = w.hook.events
  OBVIOUS
<1>x. PICK x : x = Append(s, e)
  OBVIOUS
<1>1. /\ v.app = w.app /\ v.tr = w.tr /\ v.seen = w.seen /\ v.batch = w.batch
      /\ SameRouter(w.hook, v.hook) /\ v.hook.events = x /\ s \in Seq(Events)
  BY <1>v, <1>s, <1>x, EmitsBatch
<1>2. /\ Releases(s) => Releases(x)
      /\ e.kind = "release" => Releases(x) /\ Paired(x)
      /\ e.kind # "press" /\ Paired(s) => Paired(x)
      /\ ~Released(s) /\ ~(e.kind = "release" /\ e.fresh /\ ~e.ordered) => ~Released(x)
  BY <1>1, <1>x, AppendedEvents
<1>3. Holding(v.hook)
  BY <1>1 DEF Tied, Base, Holding, SameRouter
<1>4. Queued(v)
  BY <1>1, <1>2, <1>s DEF Tied, Base, Queued, SameRouter
<1>5. Coming(w) => Coming(v)
  BY <1>1, <1>2, <1>s DEF Coming, SameRouter
<1>6. Tied(v)
  BY <1>1, <1>3, <1>4, <1>5, HookTied
<1>7. Recorder(v)
  BY <1>1, <1>2, <1>s DEF Recorder, Recording, SameRouter
<1>8. QED
  BY <1>1, <1>2, <1>6, <1>7, <1>v

\* A router gives up what it captured when its release is in the channel.
LEMMA TerminatedTied ==
  ASSUME NEW b \in Bounds, NEW w \in Worlds(b), Tied(w), Recorder(w),
         w.hook.hold = "held" => Releases(w.hook.events) /\ Paired(w.hook.events)
  PROVE  LET v == Terminated(w) IN
         /\ Tied(v) /\ Recorder(v) /\ v.batch = w.batch
         /\ v.hook.hold = "none" /\ v.hook.events = w.hook.events /\ v.app = w.app
<1>v. PICK v : v = Terminated(w)
  OBVIOUS
<1>1. /\ v.app = w.app /\ v.tr = w.tr /\ v.seen = w.seen /\ v.batch = w.batch
      /\ v.hook.hold = "none" /\ v.hook.events = w.hook.events
      /\ v.hook.alive = w.hook.alive /\ v.hook.recording = w.hook.recording
  BY <1>v DEF Terminated, Worlds, Hooks
<1>2. Holding(v.hook)
  BY <1>1 DEF Holding
<1>3. Queued(v)
  BY <1>1 DEF Tied, Base, Queued
<1>4. Coming(w) => Coming(v)
  BY <1>1 DEF Coming
<1>5. Tied(v)
  BY <1>1, <1>2, <1>3, <1>4, HookTied
<1>6. Recorder(v)
  BY <1>1 DEF Recorder, Recording
<1>7. QED
  BY <1>1, <1>5, <1>6, <1>v

\* A key that goes down holds nothing yet.
LEMMA KeyDownTied ==
  ASSUME HInv, KeyDown
  PROVE  HInv'
<1>b. PICK b : b = seen.bound
  OBVIOUS
<1>w. PICK w : w = world
  OBVIOUS
<1>1. /\ b \in Bounds /\ Good(b, w) /\ w \in Worlds(b)
      /\ Tied(w) /\ Recorder(w) /\ w.batch = <<>>
  BY <1>b, <1>w, Here
<1>2. w.hook.alive = "up" /\ w.hook.listening /\ ~w.hook.recording /\ w.hook.hold = "none"
  BY <1>w DEF KeyDown, world
<1>x. PICK x : x = [w EXCEPT !.hook.hold = "down", !.hook.fresh = TRUE, !.hook.current = TRUE]
  OBVIOUS
<1>3. Becomes(x)
  BY <1>w, <1>x DEF KeyDown, Becomes
<1>4. /\ x \in Worlds(b)
      /\ x.app = w.app /\ x.tr = w.tr /\ x.seen = w.seen /\ x.batch = w.batch
      /\ x.hook.alive = w.hook.alive /\ x.hook.current /\ x.hook.events = w.hook.events
      /\ x.hook.hold = "down" /\ x.hook.listening = w.hook.listening
      /\ x.hook.recording = w.hook.recording
  BY <1>1, <1>x DEF Worlds, Hooks
<1>5. HookGood(x.hook)
  BY <1>1, <1>2, <1>4 DEF Good, Sound, Core, HookGood
<1>6. Good(b, x)
  BY <1>1, <1>4, <1>5, HookChanged
<1>7. Holding(x.hook) /\ Queued(x) /\ (Coming(w) => Coming(x))
  BY <1>1, <1>2, <1>4 DEF Tied, Base, Holding, Queued, Coming
<1>8. Tied(x)
  BY <1>1, <1>4, <1>7, HookTied
<1>9. Recorder(x) /\ SameBatch(w, x)
  BY <1>1, <1>4 DEF Recorder, Recording, SameBatch
<1>10. QED
  BY <1>1, <1>3, <1>6, <1>8, <1>9, StepTied

\* A press is sent while the keyboard holds its release.
LEMMA HoldDueTied ==
  ASSUME HInv, HoldDue
  PROVE  HInv'
<1>b. PICK b : b = seen.bound
  OBVIOUS
<1>w. PICK w : w = world
  OBVIOUS
<1>1. /\ b \in Bounds /\ Good(b, w) /\ w \in Worlds(b)
      /\ Tied(w) /\ Recorder(w) /\ w.batch = <<>>
  BY <1>b, <1>w, Here
<1>2. w.hook.alive = "up" /\ w.hook.hold = "down" /\ hook.current = w.hook.current
  BY <1>w DEF HoldDue, world
<1>3. w.hook.current /\ w.hook.current \in BOOLEAN
  BY <1>1, <1>2 DEF Good, Sound, Core, HookGood, Worlds, Hooks
<1>e. PICK e : e = Event(TRUE, "press", TRUE, w.hook.current)
  OBVIOUS
<1>4. e \in Events /\ e.current /\ e.kind = "press"
  BY <1>3, <1>e DEF Event, Events
<1>v. PICK v : v = [w EXCEPT !.hook.hold = "held"]
  OBVIOUS
<1>5. /\ v \in Worlds(b)
      /\ v.app = w.app /\ v.tr = w.tr /\ v.seen = w.seen /\ v.batch = w.batch
      /\ v.hook.alive = w.hook.alive /\ v.hook.current = w.hook.current
      /\ v.hook.events = w.hook.events /\ v.hook.hold = "held"
      /\ v.hook.listening = w.hook.listening /\ v.hook.recording = w.hook.recording
  BY <1>1, <1>v DEF Worlds, Hooks
<1>6. HookGood(v.hook)
  BY <1>1, <1>2, <1>3, <1>5 DEF Good, Sound, Core, HookGood
<1>7. Good(b, v)
  BY <1>1, <1>5, <1>6, HookChanged
<1>x. PICK x : x = Emits(v, e)
  OBVIOUS
<1>8. Good(b, x)
  BY <1>1, <1>4, <1>7, <1>x, EmitsGood
<1>9. Becomes(x)
  BY <1>2, <1>w, <1>e, <1>v, <1>x DEF HoldDue, Becomes
<1>s. PICK s : s = Append(v.hook.events, e)
  OBVIOUS
<1>10. /\ x.app = v.app /\ x.tr = v.tr /\ x.seen = v.seen /\ x.batch = v.batch
       /\ SameRouter(v.hook, x.hook) /\ x.hook.events = s /\ v.hook.events \in Seq(Events)
  BY <1>1, <1>4, <1>5, <1>x, <1>s, EmitsBatch
<1>11. ~Released(v.hook.events) => ~Released(s)
  BY <1>4, <1>10, <1>s, AppendedEvents
<1>12. Holding(x.hook) /\ Queued(x) /\ Coming(x)
  BY <1>1, <1>2, <1>5, <1>10 DEF Tied, Base, Holding, Queued, Coming, SameRouter
<1>13. Tied(x)
  BY <1>1, <1>5, <1>10, <1>12, HookTied
<1>14. Recorder(x) /\ SameBatch(w, x)
  BY <1>1, <1>5, <1>10, <1>11 DEF Recorder, Recording, SameRouter, SameBatch
<1>15. QED
  BY <1>1, <1>8, <1>9, <1>13, <1>14, StepTied

\* A release enters the channel when the keyboard gives it up.
LEMMA KeyUpTied ==
  ASSUME HInv, KeyUp
  PROVE  HInv'
<1>b. PICK b : b = seen.bound
  OBVIOUS
<1>w. PICK w : w = world
  OBVIOUS
<1>1. /\ b \in Bounds /\ Good(b, w) /\ w \in Worlds(b)
      /\ Tied(w) /\ Recorder(w) /\ w.batch = <<>>
  BY <1>b, <1>w, Here
<1>2. /\ w.hook.hold # "none" /\ hook.current = w.hook.current /\ hook.hold = w.hook.hold
      /\ w.hook.alive = "up"
  BY <1>w DEF KeyUp, world
<1>3. w.hook.current /\ w.hook.current \in BOOLEAN
  BY <1>1, <1>2 DEF Good, Sound, Core, HookGood, Worlds, Hooks
<1>e. PICK e : e = IF w.hook.hold = "held" THEN Event(FALSE, "release", TRUE, TRUE)
                   ELSE Event(FALSE, "tap", TRUE, w.hook.current)
  OBVIOUS
<1>4. /\ e \in Events /\ e.current /\ e.kind # "press"
      /\ w.hook.hold = "held" => e.kind = "release"
  BY <1>3, <1>e DEF Event, Events
<1>5. ~Recording(w)
  BY <1>1, <1>2 DEF Recorder, Tied, Base, Holding
<1>v. PICK v : v = Terminated(w)
  OBVIOUS
<1>6. Good(b, v) /\ v \in Worlds(b)
  BY <1>1, <1>v, TerminatedSound DEF Good, Sound, Core
<1>x. PICK x : x = Emits(v, e)
  OBVIOUS
<1>7. Good(b, x)
  BY <1>1, <1>4, <1>6, <1>x, EmitsGood
<1>8. Becomes(x)
  BY <1>2, <1>w, <1>e, <1>v, <1>x DEF KeyUp, Becomes
<1>s. PICK s : s = w.hook.events
  OBVIOUS
<1>9. /\ v.app = w.app /\ v.tr = w.tr /\ v.seen = w.seen /\ v.batch = w.batch
      /\ v.hook.hold = "none" /\ v.hook.events = s
  BY <1>1, <1>v, <1>s DEF Terminated, Worlds, Hooks
<1>10. /\ x.app = w.app /\ x.tr = w.tr /\ x.seen = w.seen /\ x.batch = w.batch
       /\ SameRouter(v.hook, x.hook) /\ x.hook.events = Append(s, e) /\ s \in Seq(Events)
  BY <1>1, <1>4, <1>6, <1>9, <1>x, EmitsBatch
<1>r. PICK r : r = Append(s, e)
  OBVIOUS
<1>11. /\ Releases(s) => Releases(r)
       /\ e.kind = "release" => Releases(r) /\ Paired(r)
       /\ e.kind # "press" /\ Paired(s) => Paired(r)
  BY <1>4, <1>10, <1>r, AppendedEvents
<1>12. Holding(x.hook)
  BY <1>9, <1>10 DEF Holding, SameRouter
<1>13. Queued(x)
  BY <1>1, <1>4, <1>10, <1>11, <1>r, <1>s DEF Tied, Base, Queued
<1>14. Coming(w) => Coming(x)
  BY <1>4, <1>10, <1>11, <1>r, <1>s DEF Coming
<1>15. Tied(x)
  BY <1>1, <1>10, <1>12, <1>13, <1>14, HookTied
<1>16. Recorder(x) /\ SameBatch(w, x)
  BY <1>1, <1>5, <1>10 DEF Recorder, Recording, SameBatch
<1>17. QED
  BY <1>1, <1>7, <1>8, <1>15, <1>16, StepTied

\* A key of another kind is neither a press nor a release.
LEMMA OtherKeysTied ==
  ASSUME HInv, ToggleKey \/ RecordedKey
  PROVE  HInv'
<1>b. PICK b : b = seen.bound
  OBVIOUS
<1>w. PICK w : w = world
  OBVIOUS
<1>1. /\ b \in Bounds /\ Good(b, w) /\ w \in Worlds(b)
      /\ Tied(w) /\ Recorder(w) /\ w.batch = <<>>
  BY <1>b, <1>w, Here
<1>2. PICK kind \in {"toggle", "key"} : Becomes(Emits(world, Event(FALSE, kind, TRUE, TRUE)))
  BY DEF ToggleKey, RecordedKey
<1>e. PICK e : e = Event(FALSE, kind, TRUE, TRUE)
  OBVIOUS
<1>3. e \in Events /\ e.current /\ e.kind # "press" /\ e.kind # "release"
  BY <1>e DEF Event, Events
<1>x. PICK x : x = Emits(w, e)
  OBVIOUS
<1>4. Good(b, x)
  BY <1>1, <1>3, <1>x, EmitsGood
<1>5. Becomes(x)
  BY <1>2, <1>w, <1>e, <1>x DEF Becomes
<1>6. Tied(x) /\ Recorder(x) /\ SameBatch(w, x)
  BY <1>1, <1>3, <1>x, EmitsTied DEF SameBatch
<1>7. QED
  BY <1>1, <1>4, <1>5, <1>6, StepTied

\* A listener that ends has put the release of what it held into the channel.
LEMMA ListenerEndsTied ==
  ASSUME HInv, ListenerEnds
  PROVE  HInv'
<1>b. PICK b : b = seen.bound
  OBVIOUS
<1>w. PICK w : w = world
  OBVIOUS
<1>1. /\ b \in Bounds /\ Good(b, w) /\ w \in Worlds(b)
      /\ Tied(w) /\ Recorder(w) /\ w.batch = <<>>
  BY <1>b, <1>w, Here
<1>2. w.hook.alive = "up"
  BY <1>w DEF ListenerEnds, world
<1>e. PICK e : e = HeldRelease(w)
  OBVIOUS
<1>3. e.kind = "release" /\ e.ordered
  BY <1>e DEF HeldRelease, Event
<1>h. PICK h : h = IF HoldsSeek(w) THEN Emits(w, HeldRelease(w)) ELSE w
  OBVIOUS
<1>t. PICK t : t = Terminated(h)
  OBVIOUS
<1>v. PICK v : v = [t EXCEPT !.hook.alive = "down"]
  OBVIOUS
<1>4. /\ Good(b, h) /\ h \in Worlds(b) /\ Tied(h) /\ Recorder(h) /\ h.batch = w.batch
      /\ h.hook.hold = "held" => Releases(h.hook.events) /\ Paired(h.hook.events)
  <2>1. CASE HoldsSeek(w)
    <3>1. e \in Events /\ (IsPress(e) /\ e.fresh => e.current)
      BY <1>1, <1>e, HeldReleaseTyped
    <3>2. h = Emits(w, e)
      BY <1>e, <1>h, <2>1
    <3>3. Good(b, h) /\ h \in Worlds(b)
      BY <1>1, <3>1, <3>2, EmitsGood DEF Good, Sound, Core
    <3>4. QED
      BY <1>1, <1>3, <3>1, <3>2, <3>3, EmitsTied
  <2>2. CASE ~HoldsSeek(w)
    BY <1>1, <1>2, <1>h, <2>2 DEF HoldsSeek
  <2>3. QED
    BY <2>1, <2>2
<1>5. Good(b, t) /\ t \in Worlds(b)
  BY <1>1, <1>4, <1>t, TerminatedSound DEF Good, Sound, Core
<1>6. Tied(t) /\ Recorder(t) /\ t.batch = h.batch /\ t.hook.hold = "none"
  BY <1>1, <1>4, <1>t, TerminatedTied
<1>7. /\ v \in Worlds(b)
      /\ v.app = t.app /\ v.tr = t.tr /\ v.seen = t.seen /\ v.batch = t.batch
      /\ v.hook.hold = t.hook.hold /\ v.hook.events = t.hook.events /\ v.hook.alive = "down"
  BY <1>5, <1>v DEF Worlds, Hooks
<1>8. HookGood(v.hook)
  BY <1>5, <1>6, <1>7 DEF Good, Sound, Core, HookGood
<1>9. Good(b, v)
  BY <1>1, <1>5, <1>7, <1>8, HookChanged
<1>10. Holding(v.hook) /\ Queued(v) /\ (Coming(t) => Coming(v))
  BY <1>6, <1>7 DEF Tied, Base, Holding, Queued, Coming
<1>11. Tied(v)
  BY <1>6, <1>7, <1>10, HookTied
<1>12. Recorder(v) /\ SameBatch(w, v)
  BY <1>4, <1>6, <1>7 DEF Recorder, Recording, SameBatch
<1>13. Becomes(Disturbed(v))
  BY <1>w, <1>h, <1>t, <1>v DEF ListenerEnds, Becomes
<1>14. QED
  BY <1>1, <1>9, <1>11, <1>12, <1>13, StepTied

-----------------------------------------------------------------------------
(* The supervisor thread and its worker.                                    *)

\* A command is taken from the channel and carried out.
LEMMA SuperviseTied ==
  ASSUME HInv, Supervise
  PROVE  HInv'
<1>b. PICK b : b = seen.bound
  OBVIOUS
<1>w. PICK w : w = world
  OBVIOUS
<1>1. /\ b \in Bounds /\ Good(b, w) /\ w \in Worlds(b)
      /\ Tied(w) /\ Recorder(w) /\ w.batch = <<>>
  BY <1>b, <1>w, Here
<1>2. w.tr.life = "up" /\ w.tr.control # <<>> /\ tr.control = w.tr.control
  BY <1>w DEF Supervise, world
<1>x. PICK x : x = Control([w EXCEPT !.tr.control = Tail(@)], Head(w.tr.control))
  OBVIOUS
<1>3. Good(b, x)
  BY <1>1, <1>2, <1>x, ControlGood
<1>4. Tied(x) /\ Recorder(x) /\ SameBatch(w, x)
  BY <1>1, <1>2, <1>x, ControlTied DEF SameBatch
<1>5. Becomes(x)
  BY <1>2, <1>w, <1>x DEF Supervise, Becomes
<1>6. QED
  BY <1>1, <1>3, <1>4, <1>5, StepTied

\* Whoever is told of a readiness shows no session yet, and no command of an
\* earlier one is left.
LEMMA ReportsNew ==
  ASSUME NEW b \in Bounds, NEW w \in Worlds(b), Tied(w), w.tr.life = "up", NEW new \in BOOLEAN,
         new \/ (w.tr.native = "open" /\ ~w.tr.ready)
  PROVE  LET n == IF new THEN NextRevision(w) ELSE w IN
         /\ n \in Worlds(b) /\ ~n.app.now
         /\ \A i \in DOMAIN n.tr.control : ~Live(n.tr.control[i])
         /\ new \/ ~n.tr.held
         /\ n.hook = w.hook /\ n.seen = w.seen /\ n.batch = w.batch
         /\ n.app.capture = w.app.capture /\ n.tr.life = w.tr.life
         /\ Excused(w) => Excused(n)
<1>n. PICK n : n = IF new THEN NextRevision(w) ELSE w
  OBVIOUS
<1>1. CASE new
  <2>s. PICK s : s = Revised(w.tr.control)
    OBVIOUS
  <2>0. w.tr.control \in Seq(Commands)
    BY DEF Worlds, Transports
  <2>1. /\ s \in Seq(Commands) /\ DOMAIN s = DOMAIN w.tr.control
        /\ \A i \in DOMAIN s : ~Live(s[i])
    BY <2>s, <2>0, RevisedDead, RevisedCommands
  <2>2. n = [w EXCEPT !.app.now = FALSE, !.tr.snapshot.now = FALSE, !.tr.control = s]
    BY <1>n, <1>1, <2>s DEF NextRevision
  <2>3. n \in Worlds(b)
    BY <2>1, <2>2 DEF Worlds, Apps, Transports, Snapshots
  <2>4. /\ n.app.now = FALSE /\ n.tr.control = s
        /\ n.hook = w.hook /\ n.seen = w.seen /\ n.batch = w.batch
        /\ n.app.capture = w.app.capture /\ n.tr.life = w.tr.life
    BY <2>2 DEF Worlds, Apps, Transports, Snapshots
  <2>5. Excused(w) => Excused(n)
    <3>1. \A i \in DOMAIN s : s[i].kind = w.tr.control[i].kind
      BY <2>0, <2>s, RevisedDead
    <3>2. QED
      BY <2>1, <2>4, <3>1 DEF Excused, Kills
  <2>6. QED
    BY <1>1, <1>n, <2>1, <2>3, <2>4, <2>5
<1>2. CASE ~new
  <2>1. w.tr.native = "open" /\ ~w.tr.ready /\ ~Lasting(w.tr)
    BY <1>2 DEF Lasting
  <2>2. ~w.tr.held /\ \A i \in DOMAIN w.tr.control : ~Live(w.tr.control[i])
    BY <2>1 DEF Tied, Base, Linked
  <2>3. ~w.app.now
    BY <2>1 DEF Tied, Seen
  <2>4. QED
    BY <1>2, <1>n, <2>2, <2>3
<1>3. QED
  BY <1>1, <1>2

\* Then a new session starts with nothing held.
LEMMA ReportedTied ==
  ASSUME NEW b \in Bounds, NEW w \in Worlds(b), Tied(w), Recorder(w), w.tr.life = "up",
         NEW new \in BOOLEAN, NEW ready \in BOOLEAN, NEW t, t = w.tr,
         new \/ (w.tr.native = "open" /\ ~w.tr.ready)
  PROVE  LET v == Reported(w, t, new, ready) IN
         Tied(v) /\ Recorder(v) /\ SameBatch(w, v)
<1>n. PICK n : n = IF new THEN NextRevision(w) ELSE w
  OBVIOUS
<1>1. /\ n \in Worlds(b) /\ ~n.app.now
      /\ \A i \in DOMAIN n.tr.control : ~Live(n.tr.control[i])
      /\ new \/ ~n.tr.held
      /\ n.hook = w.hook /\ n.seen = w.seen /\ n.batch = w.batch
      /\ n.app.capture = w.app.capture /\ n.tr.life = w.tr.life
      /\ Excused(w) => Excused(n)
  BY <1>n, ReportsNew
<1>o. PICK o \in Receivers : o = IF t.selected = None THEN t.remembered ELSE t.selected
  BY DEF Worlds, Transports
<1>s. PICK s \in Receivers : s = IF ready THEN o ELSE n.tr.selected
  BY <1>1 DEF Worlds, Transports
<1>y. PICK y \in BOOLEAN : y = (n.tr.switching /\ (t.full \/ ~ready))
  BY <1>1 DEF Worlds, Transports
<1>z. PICK z \in BOOLEAN : z = (n.tr.held /\ ~new)
  BY <1>1 DEF Worlds, Transports
<1>v. PICK v : v = [n EXCEPT !.tr.native = "open", !.tr.selected = s, !.tr.ready = ready,
                             !.tr.switching = y, !.tr.held = z]
  OBVIOUS
<1>2. /\ v \in Worlds(b)
      /\ v.app = n.app /\ v.hook = n.hook /\ v.seen = n.seen /\ v.batch = n.batch
  BY <1>1, <1>v DEF Worlds, Transports
<1>3. /\ v.tr.life = n.tr.life /\ v.tr.control = n.tr.control
      /\ v.tr.native = "open" /\ v.tr.ready = ready /\ v.tr.held = z
  BY <1>1, <1>v DEF Worlds, Transports
<1>4. ~z
  BY <1>1, <1>z
<1>5. Unpublished(v.tr)
  BY <1>1, <1>3, <1>4 DEF Unpublished
<1>p. PICK p : p = Publish(v)
  OBVIOUS
<1>6. /\ Linked(p.tr)
      /\ p.app = v.app /\ p.hook = v.hook /\ p.seen = v.seen /\ p.batch = v.batch
      /\ p.tr.control = v.tr.control /\ p.tr.held = v.tr.held
  BY <1>2, <1>5, <1>p, PublishLinked
<1>7. Base(p)
  BY <1>1, <1>2, <1>6 DEF Tied, Base, Queued
<1>8. Seen(p.app, p.tr)
  BY <1>1, <1>2, <1>6 DEF Seen
<1>9. InSession(p) /\ Closing(p)
  BY <1>1, <1>3, <1>4, <1>6 DEF InSession, Closing, LivePress, Live, IsSend, IsPress
<1>10. Tied(p) /\ Recorder(p) /\ p.batch = w.batch
  BY <1>1, <1>2, <1>6, <1>7, <1>8, <1>9 DEF Tied, Recorder, Recording
<1>11. p \in Worlds(b)
  <2>1. PICK q : q = [now |-> TRUE, early |-> FALSE, selected |-> v.tr.selected,
                      ready |-> v.tr.ready, switching |-> v.tr.switching]
    OBVIOUS
  <2>2. q \in Snapshots
    BY <1>2, <2>1 DEF Worlds, Transports, Snapshots
  <2>3. p = [v EXCEPT !.tr.unread = TRUE, !.tr.snapshot = q]
    BY <1>p, <2>1 DEF Publish
  <2>4. QED
    BY <1>2, <2>2, <2>3 DEF Worlds, Transports
<1>12. v = [n EXCEPT !.tr.native    = "open",
                     !.tr.selected  = IF ready THEN o ELSE @,
                     !.tr.ready     = ready,
                     !.tr.switching = @ /\ (t.full \/ ~ready),
                     !.tr.held      = @ /\ ~new]
  BY <1>1, <1>s, <1>y, <1>z, <1>v DEF Worlds, Transports
<1>13. Reported(w, t, new, ready) = IF new /\ t.ready THEN Disturbed(p) ELSE p
  BY <1>n, <1>o, <1>p, <1>12 DEF Reported
<1>14. Tied(Disturbed(p)) /\ Recorder(Disturbed(p)) /\ Disturbed(p).batch = p.batch
  BY <1>10, <1>11, DisturbedTied
<1>15. QED
  BY <1>10, <1>13, <1>14 DEF SameBatch

\* A status of the worker.
LEMMA StatusTied ==
  ASSUME HInv, Status
  PROVE  HInv'
<1>b. PICK b : b = seen.bound
  OBVIOUS
<1>w. PICK w : w = world
  OBVIOUS
<1>1. /\ b \in Bounds /\ Good(b, w) /\ w \in Worlds(b)
      /\ Tied(w) /\ Recorder(w) /\ w.batch = <<>>
  BY <1>b, <1>w, Here
<1>2. w.tr.life = "up" /\ tr = w.tr
  BY <1>w DEF Status, world
<1>3. PICK new \in BOOLEAN, ready \in BOOLEAN : StatusReads(new, ready)
  BY DEF Status, StatusReads
<1>4. Becomes(Reported(world, tr, new, ready))
  BY <1>3 DEF StatusReads, Reported
<1>x. PICK x : x = Reported(world, tr, new, ready)
  OBVIOUS
<1>5. Becomes(x)
  BY <1>4, <1>x DEF Becomes
<1>t. PICK t : t = tr
  OBVIOUS
<1>6. x = Reported(w, t, new, ready) /\ t = w.tr
  BY <1>2, <1>w, <1>t, <1>x
<1>7. new \/ (w.tr.native = "open" /\ ~w.tr.ready)
  BY <1>2, <1>3 DEF StatusReads
<1>8. Good(b, x)
  BY <1>1, <1>2, <1>6, ReportedSound
<1>9. Tied(x) /\ Recorder(x) /\ SameBatch(w, x)
  BY <1>1, <1>2, <1>6, <1>7, ReportedTied
<1>10. QED
  BY <1>1, <1>5, <1>8, <1>9, StepTied

\* A switch of the profile, or one that takes too long, ends the session; one
\* that is over changes nothing of it.
LEMMA SwitchTied ==
  ASSUME HInv, SwitchProfile \/ Armed \/ SwitchExpires
  PROVE  HInv'
<1>b. PICK b : b = seen.bound
  OBVIOUS
<1>w. PICK w : w = world
  OBVIOUS
<1>1. /\ b \in Bounds /\ Good(b, w) /\ w \in Worlds(b)
      /\ Tied(w) /\ Recorder(w) /\ w.batch = <<>>
  BY <1>b, <1>w, Here
<1>2. w.tr.life = "up" /\ tr = w.tr /\ w.tr.full \in BOOLEAN
  BY <1>1, <1>w DEF Worlds, Transports, SwitchProfile, Armed, SwitchExpires, world
<1>f. PICK f \in BOOLEAN : f = ~w.tr.full
  OBVIOUS
<1>v. PICK v : v = [w EXCEPT !.tr.switching = FALSE]
  OBVIOUS
<1>3. /\ v \in Worlds(b)
      /\ v.app = w.app /\ v.hook = w.hook /\ v.seen = w.seen /\ v.batch = w.batch
      /\ v.tr.life = w.tr.life /\ v.tr.control = w.tr.control /\ v.tr.pending = w.tr.pending
      /\ v.tr.snapshot = w.tr.snapshot
  BY <1>1, <1>v DEF Worlds, Transports
<1>4. /\ v.tr.ready = w.tr.ready /\ v.tr.held = w.tr.held /\ v.tr.unread = w.tr.unread
      /\ v.tr.native = w.tr.native /\ v.tr.selected = w.tr.selected /\ ~v.tr.switching
  BY <1>1, <1>v DEF Worlds, Transports
<1>5. Tied(v) /\ Recorder(v)
  <2>1. Lasting(v.tr) <=> Lasting(w.tr)
    BY <1>3, <1>4 DEF Lasting
  <2>2. Linked(v.tr) /\ Seen(v.app, v.tr)
    BY <1>1, <1>3, <1>4, <2>1 DEF Tied, Base, Linked, Seen
  <2>3. Base(v) /\ (Excused(w) => Excused(v))
    BY <1>1, <1>3, <2>2 DEF Tied, Base, Queued, Excused, Kills
  <2>4. (InSession(w) => InSession(v)) /\ (Closing(w) => Closing(v))
    BY <1>3, <1>4 DEF InSession, Closing, Coming
  <2>5. Recorder(v)
    BY <1>1, <1>3 DEF Recorder, Recording
  <2>6. QED
    BY <1>1, <2>2, <2>3, <2>4, <2>5 DEF Tied
<1>p. PICK p : p = Publish(v)
  OBVIOUS
<1>r. PICK r : r = Replace(w, TRUE, f)
  OBVIOUS
<1>e. PICK e : e = Replace(w, TRUE, FALSE)
  OBVIOUS
<1>6. Good(b, p) /\ Tied(p) /\ Recorder(p) /\ SameBatch(w, p)
  <2>1. Good(b, p)
    BY <1>1, <1>2, <1>3, <1>p, ReportedGood
  <2>2. Tied(p) /\ Recorder(p)
    BY <1>1, <1>3, <1>5, <1>p, PublishTied
  <2>3. p.batch = v.batch
    BY <1>3, <1>p DEF Publish, Worlds
  <2>4. QED
    BY <1>3, <2>1, <2>2, <2>3 DEF SameBatch
<1>7. /\ Good(b, r) /\ Tied(r) /\ Recorder(r) /\ SameBatch(w, r)
      /\ Good(b, e) /\ Tied(e) /\ Recorder(e) /\ SameBatch(w, e)
  <2>1. Good(b, r) /\ Good(b, e)
    BY <1>1, <1>2, <1>r, <1>e, ReplaceGood DEF Good
  <2>2. Holding(w.hook) /\ Queued(w)
    BY <1>1 DEF Tied, Base
  <2>3. QED
    BY <1>1, <1>r, <1>e, <2>1, <2>2, ReplaceTied DEF SameBatch
<1>8. CASE SwitchProfile
  <2>1. Becomes(Disturbed(r))
    BY <1>2, <1>8, <1>w, <1>f, <1>r DEF SwitchProfile, Becomes
  <2>2. QED
    BY <1>1, <1>7, <2>1, StepTied
<1>9. CASE Armed
  <2>1. Becomes(p)
    BY <1>9, <1>w, <1>v, <1>p DEF Armed, Becomes
  <2>2. QED
    BY <1>1, <1>6, <2>1, StepTied
<1>10. CASE SwitchExpires
  <2>1. Becomes(e) \/ Becomes(p)
    BY <1>10, <1>w, <1>v, <1>p, <1>e DEF SwitchExpires, Becomes
  <2>2. QED
    BY <1>1, <1>6, <1>7, <2>1, StepTied
<1>11. QED
  BY <1>8, <1>9, <1>10

\* The worker answers a test.
LEMMA ReplyTied ==
  ASSUME HInv, Reply
  PROVE  HInv'
<1>b. PICK b : b = seen.bound
  OBVIOUS
<1>w. PICK w : w = world
  OBVIOUS
<1>1. /\ b \in Bounds /\ Good(b, w) /\ w \in Worlds(b)
      /\ Tied(w) /\ Recorder(w) /\ w.batch = <<>>
  BY <1>b, <1>w, Here
<1>2. tr = w.tr /\ w.tr.pending \in SUBSET Nat
  BY <1>1, <1>w DEF Worlds, Transports, world
<1>3. PICK t \in w.tr.pending, answer \in {"done", "refused"} : Becomes(Answer(world, {t}, answer))
  BY <1>2 DEF Reply
<1>x. PICK x : x = Answer(w, {t}, answer)
  OBVIOUS
<1>4. Becomes(x)
  BY <1>3, <1>w, <1>x DEF Becomes
<1>5. {t} \in SUBSET Nat /\ Unanswered(b, w, {t})
  BY <1>1, <1>2, SoundUnanswered DEF Good
<1>6. Sound(b, x) /\ x.tr.control = w.tr.control
  BY <1>1, <1>5, <1>x, AnswerSound
<1>7. Good(b, x)
  BY <1>1, <1>6 DEF Good
<1>8. Faded(w, x) /\ x.batch = w.batch
  BY <1>1, <1>5, <1>x, AnswerFaded
<1>9. Tied(x) /\ Recorder(x) /\ SameBatch(w, x)
  BY <1>1, <1>8, FadedTied DEF SameBatch
<1>10. QED
  BY <1>1, <1>4, <1>7, <1>9, StepTied

\* A supervisor that ends has no session.
LEMMA FinishedTied ==
  ASSUME NEW b \in Bounds, NEW w \in Worlds(b), Tied(w), Recorder(w), NEW ids \in SUBSET Nat
  PROVE  LET v == Finished(w, ids) IN
         Tied(v) /\ Recorder(v) /\ SameBatch(w, v)
<1>a. PICK a : a = Answer(w, ids, "refused")
  OBVIOUS
<1>1. a \in Worlds(b) /\ Faded(w, a) /\ a.hook = w.hook /\ a.batch = w.batch
  BY <1>a, AnswerTyped, AnswerFaded
<1>2. Tied(a) /\ Recorder(a)
  BY <1>1, FadedTied
<1>m. PICK m : m = [a EXCEPT !.tr.selected = None, !.tr.ready = FALSE, !.tr.switching = FALSE]
  OBVIOUS
<1>3. /\ m.app = a.app /\ m.hook = a.hook /\ m.seen = a.seen /\ m.batch = a.batch
      /\ m.tr.ready = FALSE
  BY <1>1, <1>m DEF Worlds, Transports
<1>4. m \in Worlds(b)
  BY <1>1, <1>m DEF Worlds, Transports, Receivers
<1>p. PICK p : p = Publish(m)
  OBVIOUS
<1>q. PICK q : q = [now |-> TRUE, early |-> FALSE, selected |-> m.tr.selected,
                    ready |-> m.tr.ready, switching |-> m.tr.switching]
  OBVIOUS
<1>5. p = [m EXCEPT !.tr.unread = TRUE, !.tr.snapshot = q]
  BY <1>p, <1>q DEF Publish
<1>6. q \in Snapshots
  BY <1>4, <1>q DEF Worlds, Transports, Snapshots
<1>7. /\ p \in Worlds(b) /\ p.app = m.app /\ p.hook = m.hook /\ p.seen = m.seen /\ p.batch = m.batch
      /\ p.tr.ready = m.tr.ready
  BY <1>4, <1>5, <1>6 DEF Worlds, Transports
<1>e. PICK e : e = <<>>
  OBVIOUS
<1>z. PICK z : z = [p EXCEPT !.tr.life = "stopped", !.tr.control = e, !.tr.held = FALSE]
  OBVIOUS
<1>8. /\ z.app = p.app /\ z.hook = p.hook /\ z.seen = p.seen /\ z.batch = p.batch
      /\ z.tr.life = "stopped" /\ z.tr.control = e /\ z.tr.held = FALSE /\ z.tr.ready = p.tr.ready
  BY <1>7, <1>z DEF Worlds, Transports
<1>9. DOMAIN z.tr.control = {}
  BY <1>8, <1>e
<1>10. Linked(z.tr)
  BY <1>3, <1>7, <1>8, <1>9 DEF Linked
<1>11. Base(z)
  BY <1>2, <1>3, <1>7, <1>8, <1>10 DEF Tied, Base, Queued
<1>12. Tied(z)
  BY <1>8, <1>11, DownTied
<1>13. Recorder(z) /\ SameBatch(w, z)
  BY <1>1, <1>2, <1>3, <1>7, <1>8 DEF Recorder, Recording, SameBatch
<1>14. Finished(w, ids) = z
  BY <1>a, <1>m, <1>p, <1>e, <1>z DEF Finished
<1>15. QED
  BY <1>12, <1>13, <1>14

\* finish
LEMMA SupervisorEndsTied ==
  ASSUME HInv, SupervisorEnds
  PROVE  HInv'
<1>b. PICK b : b = seen.bound
  OBVIOUS
<1>w. PICK w : w = world
  OBVIOUS
<1>1. /\ b \in Bounds /\ Good(b, w) /\ w \in Worlds(b)
      /\ Tied(w) /\ Recorder(w) /\ w.batch = <<>>
  BY <1>b, <1>w, Here
<1>2. w.tr.life = "up" /\ tr = w.tr
  BY <1>w DEF SupervisorEnds, world
<1>i. PICK ids : ids = tr.pending \union ({tr.control[i].id : i \in DOMAIN tr.control} \ {0})
  OBVIOUS
<1>3. Becomes(Disturbed(Finished(world, ids)))
  BY <1>i DEF SupervisorEnds, Finished
<1>f. PICK f : f = Finished(w, ids)
  OBVIOUS
<1>4. Becomes(Disturbed(f))
  BY <1>3, <1>w, <1>f DEF Becomes
<1>5. ids = w.tr.pending \union ({w.tr.control[i].id : i \in DOMAIN w.tr.control} \ {0})
  BY <1>2, <1>i
<1>6. ids \in SUBSET Nat
  <2>1. w.tr.pending \in SUBSET Nat /\ w.tr.control \in Seq(Commands)
    BY <1>1 DEF Worlds, Transports
  <2>2. \A i \in DOMAIN w.tr.control : w.tr.control[i] \in Commands
    BY <2>1
  <2>3. \A i \in DOMAIN w.tr.control : w.tr.control[i].id \in Nat
    BY <2>2 DEF Commands
  <2>4. QED
    BY <1>5, <2>1, <2>3
<1>7. Good(b, f)
  BY <1>1, <1>2, <1>5, <1>f, FinishedGood
<1>8. Tied(f) /\ Recorder(f) /\ SameBatch(w, f)
  BY <1>1, <1>6, <1>f, FinishedTied
<1>9. QED
  BY <1>1, <1>4, <1>7, <1>8, StepTied


-----------------------------------------------------------------------------
(* The theorem.                                                             *)

\* The window starts Bluetooth: nothing is held.
LEMMA InitTied ==
  ASSUME Init
  PROVE  HInv
<1>1. PICK saved \in Receivers, made \in BOOLEAN, b \in Bounds :
        LET w == Start(Created(saved, b), made) IN
        app = w.app /\ hook = w.hook /\ tr = w.tr /\ seen = w.seen
  BY DEF Init, Receivers
<1>c. PICK c : c = Created(saved, b)
  OBVIOUS
<1>w. PICK w : w = Start(c, made)
  OBVIOUS
<1>2. Good(b, c) /\ c \in Worlds(b)
  BY <1>c, CreatedGood DEF Good, Sound, Core
<1>3. /\ c.hook.hold = "none" /\ c.hook.events = <<>> /\ c.batch = <<>>
      /\ c.tr = NoTransport /\ c.app.capture = "none"
  BY <1>c DEF Created
<1>4. Base(c) /\ Recorder(c)
  BY <1>3, NoTransportLinked DEF Base, Holding, Queued, Paired, Recorder, Recording
<1>5. Good(b, w) /\ w \in Worlds(b)
  BY <1>2, <1>w, StartGood DEF Good, Sound, Core
<1>6. Tied(w) /\ Recorder(w)
  BY <1>2, <1>4, <1>w, StartTied
<1>7. w.batch = <<>>
  BY <1>2, <1>3, <1>5, <1>w, StartBatch, EmptyStays
<1>u. PICK u : u = world
  OBVIOUS
<1>8. u.app = w.app /\ u.hook = w.hook /\ u.tr = w.tr /\ u.seen = w.seen /\ u.batch = w.batch
  BY <1>1, <1>c, <1>w, <1>7, <1>u DEF world
<1>9. Holding(u.hook) /\ Queued(u) /\ (Coming(w) => Coming(u))
  BY <1>6, <1>8 DEF Tied, Base, Queued, Coming
<1>10. Tied(u)
  BY <1>6, <1>8, <1>9, HookTied
<1>11. Recorder(u)
  BY <1>6, <1>8 DEF Recorder, Recording
<1>12. QED
  BY <1>10, <1>11, <1>u, InitGood DEF HInv

\* Every step of the system keeps it.
LEMMA NextTied ==
  ASSUME HInv, [Next]_vars
  PROVE  HInv'
<1>1. CASE Tick
  BY <1>1, TickTied
<1>2. CASE User
  BY <1>2, UserSessionTied, UserCallsTied, UserTestTied DEF User
<1>3. CASE Listener
  BY <1>3, KeyDownTied, HoldDueTied, KeyUpTied, OtherKeysTied, ListenerEndsTied DEF Listener
<1>4. CASE Worker
  BY <1>4, SuperviseTied, StatusTied, SwitchTied, ReplyTied, SupervisorEndsTied DEF Worker
<1>5. CASE UNCHANGED vars
  BY <1>5 DEF HInv, IInv, world, vars
<1>6. QED
  BY <1>1, <1>2, <1>3, <1>4, <1>5 DEF Next

\* Between two calls, a key that the receiver holds has its release on the way.
LEMMA HeldHasRelease ==
  ASSUME HInv
  PROVE  HeldUnlessDiscarded
<1>b. PICK b : b = seen.bound
  OBVIOUS
<1>w. PICK w : w = world
  OBVIOUS
<1>1. /\ b \in Bounds /\ Good(b, w) /\ w \in Worlds(b)
      /\ Tied(w) /\ Recorder(w) /\ w.batch = <<>>
  BY <1>b, <1>w, Here
<1>2. hook = w.hook /\ tr = w.tr /\ seen = w.seen
  BY <1>w DEF world
<1>3. SUFFICES ASSUME w.tr.held
               PROVE  w.seen.lost \/ ReleaseComes
  BY <1>2 DEF HeldUnlessDiscarded
<1>4. CASE Excused(w)
  BY <1>2, <1>4 DEF Excused, Kills, ReleaseComes, Ends
<1>5. CASE Closing(w)
  <2>1. CASE Coming(w)
    BY <1>1, <1>2, <2>1 DEF Coming, Releases, ReleaseComes
  <2>2. CASE \E j \in DOMAIN w.tr.control : LiveRelease(w.tr.control[j])
    <3>1. PICK j \in DOMAIN w.tr.control : LiveRelease(w.tr.control[j])
      BY <2>2
    <3>2. w.tr.control[j].now /\ w.tr.control[j].kind = "release"
      BY <3>1 DEF LiveRelease
    <3>3. w.tr.control[j].dev = w.tr.selected
      BY <1>1, <3>2 DEF Tied, Base, Linked, Live, IsSend
    <3>4. QED
      BY <1>2, <3>1, <3>2, <3>3 DEF ReleaseComes, Ends
  <2>3. QED
    BY <1>3, <1>5, <2>1, <2>2 DEF Closing
<1>6. QED
  BY <1>1, <1>4, <1>5 DEF Tied

\* A seek that the receiver holds is still held at the keyboard, or its release
\* is among the events or commands, or a command that ends the session is,
\* unless the runtime dropped a release by its age or found no room for it
\* (runtime.rs handle_events, input_router.rs terminate, supervisor.rs).
THEOREM ReleasesCome == Spec => []HeldUnlessDiscarded
BY InitTied, NextTied, HeldHasRelease, PTL DEF Spec
=============================================================================
