----------------------- MODULE SupervisorAgreementProofs -----------------------
(***************************************************************************)
(* SettledAgreement, for every value of the constants: once everything     *)
(* that was written has been read, a supervisor that is armed agrees with  *)
(* its worker.  The invariant says what the two lines between them may     *)
(* hold: the last status that is under way is what the worker reported     *)
(* last (Follows), and a change of the profile that is under way is read   *)
(* before any Arm that could still be accepted (Fenced).                   *)
(*                                                                         *)
(* Then AdmissionIsArmed: the input thread agrees with the supervisor.     *)
(***************************************************************************)
EXTENDS SupervisorProofs

\* No element of s after place i is of kind k.
Quiet(s, k, i) == \A j \in DOMAIN s : j > i => s[j].kind # k

Accepted(m) == m.kind = "armed" /\ m.accepted

Serves(status, n) == status.kind = "status" /\ status.input /\ status.generation = n

Told == child.reported.kind = "status"

Generations ==
  /\ native <= child.shown /\ child.shown <= child.generation
  /\ Told => /\ native <= child.reported.generation /\ child.reported.generation <= child.shown
             /\ child.reported.profile = child.profile
  /\ ~Told => native = 0

\* s: what the worker has written; status: what it reported last
Bounded(s, status) ==
  \A m \in ToSet(s) :
    m.kind = "status" => status.kind = "status" /\ m.generation <= status.generation

Follows(s, status, ar, n) ==
  /\ \A i \in DOMAIN s : Quiet(s, "status", i) =>
       /\ s[i].kind = "status" => s[i] = status
       /\ Accepted(s[i]) => Serves(status, s[i].generation)
  /\ (ar # NotArmed /\ Quiet(s, "status", 0)) => Serves(status, n)

Early(cs, s, n) ==
  /\ \A c \in ToSet(cs) : c.kind = "arm" => c.generation <= n
  /\ \A m \in ToSet(s) : Accepted(m) => m.generation <= n

Mapped ==
  /\ \A m \in ToSet(messages) : (Accepted(m) /\ m.generation = child.generation) => child.mapping
  /\ (IsArmed /\ native = child.generation) => child.mapping

ArmIsNative == arm = NoArm \/ arm[1] = native

\* The profile that the worker has when it has read cs
Routed(cs, now, p) ==
  /\ Quiet(cs, "set_profile", 0) => now = p
  /\ \A i \in DOMAIN cs : (cs[i].kind = "set_profile" /\ Quiet(cs, "set_profile", i)) => cs[i].profile = p

Fenced(cs, s, n) ==
  \A i \in DOMAIN cs : cs[i].kind = "set_profile" =>
    /\ \A m \in ToSet(s) : Accepted(m) => m.generation # n
    /\ \A j \in DOMAIN cs : (j < i /\ cs[j].kind = "arm") => cs[j].generation # n

Routing ==
  /\ Routed(commands, child.profile, profile)
  /\ IsArmed => Quiet(commands, "set_profile", 0)
  /\ (arm = NoArm /\ blocked = native) \/ Fenced(commands, messages, native)


\* A supervisor that goes on with this worker
Serving == child.alive /\ phase \notin Over

Lines ==
  /\ Generations /\ Bounded(messages, child.reported)
  /\ Follows(messages, child.reported, armed, native)
  /\ Early(commands, messages, native) /\ Mapped /\ ArmIsNative
  /\ live => Routing

PipeInv == Serving => Lines
-----------------------------------------------------------------------------
\* Places in a sequence to which an element is added, or whose head is taken

LEMMA PlacesAppended ==
  ASSUME NEW S, NEW s \in Seq(S), NEW e \in S
  PROVE  /\ Len(s) \in Nat /\ DOMAIN s = 1..Len(s) /\ DOMAIN Append(s, e) = 1..(Len(s) + 1)
         /\ \A i \in 1..Len(s) : Append(s, e)[i] = s[i]
         /\ Append(s, e)[Len(s) + 1] = e
OBVIOUS

LEMMA PlacesLeft ==
  ASSUME NEW S, NEW s \in Seq(S), s # << >>
  PROVE  /\ Len(s) \in Nat /\ Len(s) > 0 /\ DOMAIN s = 1..Len(s)
         /\ DOMAIN Tail(s) = 1..(Len(s) - 1) /\ Head(s) = s[1]
         /\ \A i \in 1..(Len(s) - 1) : Tail(s)[i] = s[i + 1]
OBVIOUS

LEMMA QuietAppended ==
  ASSUME NEW S, NEW s \in Seq(S), NEW e \in S, NEW k, NEW i \in Nat
  PROVE  /\ Quiet(Append(s, e), k, i) => (Quiet(s, k, i) /\ (i <= Len(s) => e.kind # k))
         /\ (Quiet(s, k, i) /\ e.kind # k) => Quiet(Append(s, e), k, i)
<1>1. ASSUME Quiet(Append(s, e), k, i)
      PROVE  Quiet(s, k, i) /\ (i <= Len(s) => e.kind # k)
  <2>1. \A j \in 1..Len(s) : j > i => s[j].kind # k
    BY <1>1, PlacesAppended DEF Quiet
  <2>2. i <= Len(s) => Len(s) + 1 > i /\ Len(s) + 1 \in 1..(Len(s) + 1)
    BY PlacesAppended
  <2>3. QED
    BY <1>1, <2>1, <2>2, PlacesAppended DEF Quiet
<1>2. ASSUME Quiet(s, k, i), e.kind # k
      PROVE  Quiet(Append(s, e), k, i)
  <2>1. \A j \in 1..(Len(s) + 1) : j \in 1..Len(s) \/ j = Len(s) + 1
    BY PlacesAppended
  <2>2. QED
    BY <1>2, <2>1, PlacesAppended DEF Quiet
<1>3. QED
  BY <1>1, <1>2

LEMMA QuietLeft ==
  ASSUME NEW S, NEW s \in Seq(S), s # << >>, NEW k, NEW i \in Nat, Quiet(Tail(s), k, i)
  PROVE  Quiet(s, k, i + 1) /\ (i = 0 /\ Head(s).kind # k => Quiet(s, k, 0))
<1>1. \A j \in 1..Len(s) : j > i + 1 => s[j].kind # k
  <2>1. TAKE j \in 1..Len(s)
  <2>2. HAVE j > i + 1
  <2>3. /\ j - 1 \in 1..(Len(s) - 1) /\ j - 1 > i /\ (j - 1) + 1 = j
    BY <2>2, PlacesLeft
  <2>4. Tail(s)[j - 1] = s[j]
    BY <2>3, PlacesLeft
  <2>5. QED
    BY <2>3, <2>4, PlacesLeft DEF Quiet
<1>2. ASSUME i = 0, Head(s).kind # k
      PROVE  Quiet(s, k, 0)
  <2>1. \A j \in 1..Len(s) : j = 1 \/ j > i + 1
    BY <1>2, PlacesLeft
  <2>2. QED
    BY <1>1, <1>2, <2>1, PlacesLeft DEF Quiet
<1>3. QED
  BY <1>1, <1>2, PlacesLeft DEF Quiet

-----------------------------------------------------------------------------
\* What the worker has written

LEMMA BoundedOther ==
  ASSUME NEW s \in Seq(MessageType), NEW e \in MessageType, e.kind # "status", NEW r, Bounded(s, r)
  PROVE  Bounded(Append(s, e), r)
BY AppendedElements DEF Bounded

LEMMA BoundedStatus ==
  ASSUME NEW s \in Seq(MessageType), NEW t \in StatusType, NEW r \in StatusType \cup {NoStatus},
         Bounded(s, r), r.kind = "status" => r.generation <= t.generation
  PROVE  Bounded(Append(s, t), t)
<1>1. t \in MessageType /\ t.kind = "status" /\ t.generation \in Nat
  BY DEF MessageType, StatusType
<1>2. \A m \in ToSet(s) : m \in MessageType
  BY ElementTypes
<1>3. \A m \in MessageType : m.kind = "status" => m.generation \in Nat
  BY DEF MessageType, StatusType
<1>4. r.kind = "status" => r.generation \in Nat
  BY DEF StatusType, NoStatus
<1>5. \A m \in ToSet(s) : m.kind = "status" => m.generation <= t.generation
  BY <1>1, <1>2, <1>3, <1>4 DEF Bounded
<1>6. QED
  BY <1>1, <1>5, AppendedElements DEF Bounded

LEMMA BoundedLeft ==
  ASSUME NEW s \in Seq(MessageType), s # << >>, NEW r, Bounded(s, r)
  PROVE  Bounded(Tail(s), r)
BY RemainingElements DEF Bounded

\* A status is the last one, and nothing that was written before it matters.
LEMMA FollowsStatus ==
  ASSUME NEW s \in Seq(MessageType), NEW t \in StatusType, NEW ar, NEW n
  PROVE  Follows(Append(s, t), t, ar, n)
<1>1. t \in MessageType /\ t.kind = "status" /\ ~Accepted(t)
  BY DEF MessageType, StatusType, Accepted
<1>2. \A i \in Nat : Quiet(Append(s, t), "status", i) => ~(i <= Len(s))
  BY <1>1, QuietAppended
<1>3. \A i \in 1..(Len(s) + 1) : i \in Nat /\ (~(i <= Len(s)) => i = Len(s) + 1)
  BY <1>1, PlacesAppended
<1>4. 0 \in Nat /\ 0 <= Len(s)
  BY PlacesAppended
<1>5. QED
  BY <1>1, <1>2, <1>3, <1>4, PlacesAppended DEF Follows

LEMMA FollowsOther ==
  ASSUME NEW s \in Seq(MessageType), NEW e \in MessageType, e.kind # "status", NEW r, NEW ar, NEW n,
         Follows(s, r, ar, n), Accepted(e) => Serves(r, e.generation)
  PROVE  Follows(Append(s, e), r, ar, n)
<1>1. \A i \in Nat : Quiet(Append(s, e), "status", i) => Quiet(s, "status", i)
  BY QuietAppended
<1>2. \A i \in 1..(Len(s) + 1) : i \in Nat /\ (i \in 1..Len(s) \/ i = Len(s) + 1)
  BY PlacesAppended
<1>3. ASSUME NEW i \in 1..(Len(s) + 1), Quiet(Append(s, e), "status", i)
      PROVE  /\ Append(s, e)[i].kind = "status" => Append(s, e)[i] = r
             /\ Accepted(Append(s, e)[i]) => Serves(r, Append(s, e)[i].generation)
  <2>1. CASE i \in 1..Len(s)
    BY <1>1, <1>2, <1>3, <2>1, PlacesAppended DEF Follows
  <2>2. CASE i = Len(s) + 1
    BY <2>2, PlacesAppended
  <2>3. QED
    BY <1>2, <2>1, <2>2
<1>4. QED
  BY <1>1, <1>3, PlacesAppended DEF Follows

LEMMA FollowsLeft ==
  ASSUME NEW s \in Seq(MessageType), s # << >>, NEW r, NEW ar, NEW n, NEW ar2, NEW n2,
         Follows(s, r, ar, n), (ar2 # NotArmed /\ Quiet(s, "status", 1)) => Serves(r, n2)
  PROVE  Follows(Tail(s), r, ar2, n2)
<1>1. \A i \in Nat : Quiet(Tail(s), "status", i) => Quiet(s, "status", i + 1)
  BY QuietLeft
<1>2. \A i \in 1..(Len(s) - 1) : i \in Nat /\ i + 1 \in 1..Len(s)
  BY PlacesLeft
<1>3. ASSUME NEW i \in 1..(Len(s) - 1), Quiet(Tail(s), "status", i)
      PROVE  /\ Tail(s)[i].kind = "status" => Tail(s)[i] = r
             /\ Accepted(Tail(s)[i]) => Serves(r, Tail(s)[i].generation)
  BY <1>1, <1>2, <1>3, PlacesLeft DEF Follows
<1>4. Quiet(Tail(s), "status", 0) => Quiet(s, "status", 1)
  BY <1>1
<1>5. QED
  BY <1>3, <1>4, PlacesLeft DEF Follows

-----------------------------------------------------------------------------
\* What the worker has yet to read

LEMMA RoutedOther ==
  ASSUME NEW cs \in Seq(CommandType), NEW e \in CommandType, e.kind # "set_profile", NEW now, NEW p,
         Routed(cs, now, p)
  PROVE  Routed(Append(cs, e), now, p)
<1>1. \A i \in Nat : Quiet(Append(cs, e), "set_profile", i) => Quiet(cs, "set_profile", i)
  BY QuietAppended
<1>2. \A i \in 1..(Len(cs) + 1) : i \in Nat /\ (i \in 1..Len(cs) \/ i = Len(cs) + 1)
  BY PlacesAppended
<1>3. ASSUME NEW i \in 1..(Len(cs) + 1), Append(cs, e)[i].kind = "set_profile",
             Quiet(Append(cs, e), "set_profile", i)
      PROVE  Append(cs, e)[i].profile = p
  BY <1>1, <1>2, <1>3, PlacesAppended DEF Routed
<1>4. QED
  BY <1>1, <1>3, PlacesAppended DEF Routed

LEMMA RoutedSwitch ==
  ASSUME NEW cs \in Seq(CommandType), NEW e \in CommandType, e.kind = "set_profile", NEW now
  PROVE  Routed(Append(cs, e), now, e.profile)
<1>1. \A i \in Nat : Quiet(Append(cs, e), "set_profile", i) => ~(i <= Len(cs))
  BY QuietAppended
<1>2. \A i \in 1..(Len(cs) + 1) : i \in Nat /\ (~(i <= Len(cs)) => i = Len(cs) + 1)
  BY PlacesAppended
<1>3. 0 \in Nat /\ 0 <= Len(cs)
  BY PlacesAppended
<1>4. QED
  BY <1>1, <1>2, <1>3, PlacesAppended DEF Routed

LEMMA RoutedLeft ==
  ASSUME NEW cs \in Seq(CommandType), cs # << >>, NEW now, NEW p, Routed(cs, now, p)
  PROVE  /\ Head(cs).kind # "set_profile" => Routed(Tail(cs), now, p)
         /\ Head(cs).kind = "set_profile" => Routed(Tail(cs), Head(cs).profile, p)
<1>1. \A i \in Nat : Quiet(Tail(cs), "set_profile", i) => Quiet(cs, "set_profile", i + 1)
  BY QuietLeft
<1>2. \A i \in 1..(Len(cs) - 1) : i \in Nat /\ i + 1 \in 1..Len(cs)
  BY PlacesLeft
<1>3. ASSUME NEW i \in 1..(Len(cs) - 1), Tail(cs)[i].kind = "set_profile",
             Quiet(Tail(cs), "set_profile", i)
      PROVE  Tail(cs)[i].profile = p
  BY <1>1, <1>2, <1>3, PlacesLeft DEF Routed
<1>4. Quiet(Tail(cs), "set_profile", 0) => Quiet(cs, "set_profile", 1)
  BY <1>1
<1>5. Quiet(Tail(cs), "set_profile", 0) /\ Head(cs).kind # "set_profile" => Quiet(cs, "set_profile", 0)
  BY QuietLeft
<1>6. 1 \in DOMAIN cs /\ Head(cs) = cs[1]
  BY PlacesLeft
<1>7. QED
  BY <1>3, <1>4, <1>5, <1>6, PlacesLeft DEF Routed

\* What follows the switches does not matter to the fence.
LEMMA FencedAppended ==
  ASSUME NEW cs \in Seq(CommandType), NEW e \in CommandType, e.kind # "set_profile",
         NEW s, NEW n, Fenced(cs, s, n)
  PROVE  Fenced(Append(cs, e), s, n)
<1>1. \A i \in 1..(Len(cs) + 1) : i \in 1..Len(cs) \/ i = Len(cs) + 1
  BY PlacesAppended
<1>2. \A i \in 1..Len(cs), j \in 1..(Len(cs) + 1) : j < i => j \in 1..Len(cs)
  BY PlacesAppended
<1>3. ASSUME NEW i \in 1..(Len(cs) + 1), Append(cs, e)[i].kind = "set_profile"
      PROVE  /\ \A m \in ToSet(s) : Accepted(m) => m.generation # n
             /\ \A j \in 1..(Len(cs) + 1) :
                  (j < i /\ Append(cs, e)[j].kind = "arm") => Append(cs, e)[j].generation # n
  <2>1. i \in 1..Len(cs) /\ cs[i].kind = "set_profile"
    BY <1>1, <1>3, PlacesAppended
  <2>2. QED
    BY <1>2, <2>1, PlacesAppended DEF Fenced
<1>4. QED
  BY <1>3, PlacesAppended DEF Fenced

LEMMA FencedLeft ==
  ASSUME NEW cs \in Seq(CommandType), cs # << >>, NEW s, NEW s2, NEW n, Fenced(cs, s, n),
         \A m \in ToSet(s2) : Accepted(m) => \/ m \in ToSet(s)
                                             \/ Head(cs).kind = "arm" /\ m.generation = Head(cs).generation
  PROVE  Fenced(Tail(cs), s2, n)
<1>1. \A i \in 1..(Len(cs) - 1) : i + 1 \in 1..Len(cs) /\ 1 < i + 1
  BY PlacesLeft
<1>2. \A i, j \in 1..(Len(cs) - 1) : j < i => j + 1 < i + 1
  BY PlacesLeft
<1>3. ASSUME NEW i \in 1..(Len(cs) - 1), Tail(cs)[i].kind = "set_profile"
      PROVE  /\ \A m \in ToSet(s2) : Accepted(m) => m.generation # n
             /\ \A j \in 1..(Len(cs) - 1) :
                  (j < i /\ Tail(cs)[j].kind = "arm") => Tail(cs)[j].generation # n
  <2>1. i + 1 \in DOMAIN cs /\ cs[i + 1].kind = "set_profile" /\ 1 < i + 1 /\ 1 \in DOMAIN cs
    BY <1>1, <1>3, PlacesLeft
  <2>2. Head(cs).kind = "arm" => Head(cs).generation # n
    BY <2>1, PlacesLeft DEF Fenced
  <2>3. \A m \in ToSet(s) : Accepted(m) => m.generation # n
    BY <2>1 DEF Fenced
  <2>4. ASSUME NEW j \in 1..(Len(cs) - 1), j < i, Tail(cs)[j].kind = "arm"
        PROVE  Tail(cs)[j].generation # n
    <3>1. j + 1 \in DOMAIN cs /\ j + 1 < i + 1 /\ cs[j + 1].kind = "arm" /\ Tail(cs)[j] = cs[j + 1]
      BY <1>1, <1>2, <2>4, PlacesLeft
    <3>2. QED
      BY <2>1, <3>1 DEF Fenced
  <2>5. QED
    BY <2>2, <2>3, <2>4
<1>4. QED
  BY <1>3, PlacesLeft DEF Fenced

\* Whatever was sent or accepted for earlier generations does not matter.
LEMMA FencedLater ==
  ASSUME NEW cs \in Seq(CommandType), NEW s \in Seq(MessageType), NEW n \in Nat, NEW n2 \in Nat,
         Early(cs, s, n), n < n2
  PROVE  Fenced(cs, s, n2)
<1>1. \A c \in CommandType : c.kind = "arm" => c.generation \in Nat
  BY DEF CommandType, MediaType
<1>2. \A m \in MessageType : Accepted(m) => m.generation \in Nat
  BY DEF MessageType, StatusType, Accepted
<1>3. \A j \in DOMAIN cs : cs[j] \in ToSet(cs) /\ cs[j] \in CommandType
  BY DEF ToSet
<1>4. \A m \in ToSet(s) : Accepted(m) => m.generation # n2
  BY <1>2, ElementTypes DEF Early
<1>5. \A j \in DOMAIN cs : cs[j].kind = "arm" => cs[j].generation # n2
  BY <1>1, <1>3 DEF Early
<1>6. QED
  BY <1>4, <1>5 DEF Fenced

-----------------------------------------------------------------------------
\* A step of the worker

\* A status is written if it differs from the one before.
LEMMA ReportWritten ==
  ASSUME NEW s \in Seq(MessageType), NEW s2, NEW r \in StatusType \cup {NoStatus}, NEW t \in StatusType,
         NEW ar, NEW n,
         Bounded(s, r), r.kind = "status" => r.generation <= t.generation,
         r = t => Follows(s, t, ar, n),
         (r = t /\ s2 = s) \/ (r # t /\ s2 = Append(s, t))
  PROVE  Bounded(s2, t) /\ Follows(s2, t, ar, n)
<1>1. CASE r = t
  <2>1. s2 = s
    BY <1>1
  <2>2. Follows(s, t, ar, n) /\ Bounded(s, t)
    BY <1>1
  <2>3. QED
    BY <2>1, <2>2
<1>2. CASE r # t
  <2>1. s2 = Append(s, t)
    BY <1>2
  <2>2. Bounded(Append(s, t), t)
    BY BoundedStatus
  <2>3. Follows(Append(s, t), t, ar, n)
    BY FollowsStatus
  <2>4. QED
    BY <2>1, <2>2, <2>3
<1>3. QED
  BY <1>1, <1>2

\* c is what a step makes of the worker before it reports: routing ends with a generation.
Succeeds(c) ==
  /\ c.reported = child.reported /\ child.shown <= c.shown /\ c.shown <= c.generation
  /\ \/ c.generation > child.generation
     \/ c.generation = child.generation /\ (child.mapping => c.mapping)

LEMMA LaterMapped ==
  ASSUME TypeInv, Lines, NEW c \in ChildType, Succeeds(c),
         child'.generation = c.generation, child'.mapping = c.mapping, UNCHANGED <<native, armed>>,
         \A m \in ToSet(messages') : Accepted(m) => m \in ToSet(messages) \/ c.mapping
  PROVE  Mapped'
<1>1. /\ native \in Nat /\ child.generation \in Nat /\ child.shown \in Nat /\ c.generation \in Nat
      /\ messages \in Seq(MessageType) /\ native <= child.generation
  BY DEF TypeInv, StateOK, WorkerOK, ChildType, Lines, Generations
<1>2. ASSUME NEW m \in ToSet(messages'), Accepted(m), m.generation = c.generation
      PROVE  c.mapping
  <2>1. CASE m \in ToSet(messages)
    <3>1. m.generation <= native /\ (m.generation = child.generation => child.mapping)
      BY <1>2, <2>1 DEF Lines, Early, Mapped
    <3>2. ~(c.generation > child.generation)
      BY <1>1, <1>2, <3>1
    <3>3. QED
      BY <1>2, <3>1, <3>2 DEF Succeeds
  <2>2. QED
    BY <1>2, <2>1
<1>3. ASSUME IsArmed, native = c.generation
      PROVE  c.mapping
  <2>1. ~(c.generation > child.generation)
    BY <1>1, <1>3
  <2>2. QED
    BY <1>3, <2>1 DEF Lines, Mapped, Succeeds
<1>4. QED
  BY <1>2, <1>3 DEF Mapped, IsArmed

\* What an iteration may write besides the status
Answer(c, e) ==
  /\ e.kind # "status"
  /\ Accepted(e) => Serves(StatusOf(c), e.generation) /\ e.generation <= native /\ c.mapping

LEMMA IterationLines ==
  ASSUME TypeInv, Lines, NEW c \in ChildType, Succeeds(c), NEW out \in Seq(MessageType),
         Iterated(c, out),
         out = << >> \/ \E e \in MessageType : out = <<e>> /\ Answer(c, e),
         ToSet(commands') \subseteq ToSet(commands), UNCHANGED <<native, armed, arm>>
  PROVE  /\ Generations' /\ Bounded(messages', child'.reported)
         /\ Follows(messages', child'.reported, armed', native')
         /\ Early(commands', messages', native') /\ Mapped' /\ ArmIsNative'
<1>0. /\ WorkerOK /\ native \in Nat /\ child \in ChildType
      /\ child.reported \in StatusType \cup {NoStatus}
  BY DEF TypeInv, StateOK, WorkerOK, ChildType
<1>1. PICK t \in StatusType : t = StatusOf(c)
  BY StatusOfType
<1>2. PICK r \in StatusType \cup {NoStatus} : r = child.reported
  BY <1>0
<1>3. PICK s \in Seq(MessageType) : s = messages
  BY <1>0 DEF WorkerOK
<1>4. PICK before \in Seq(MessageType) : before = messages \o out
  BY <1>0, Written
<1>5. /\ child' = [c EXCEPT !.reported = t]
      /\ (r = t /\ messages' = before) \/ (r # t /\ messages' = Append(before, t))
  BY <1>0, <1>1, <1>2, <1>4, Written DEF Succeeds
<1>6. /\ child'.reported = t /\ child'.profile = c.profile /\ child'.generation = c.generation
      /\ child'.shown = c.shown /\ child'.mapping = c.mapping
  BY <1>5 DEF ChildType
<1>7. /\ t.kind = "status" /\ t.generation = c.shown /\ t.profile = c.profile
      /\ t.input = c.admitted
  BY <1>1 DEF StatusOf
<1>8. /\ native <= child.shown /\ child.shown <= c.shown /\ c.shown <= c.generation
      /\ native \in Nat /\ child.shown \in Nat /\ c.shown \in Nat /\ c.generation \in Nat
  BY <1>0 DEF Lines, Generations, Succeeds, ChildType
<1>9. Generations'
  <2>1. native <= c.shown
    BY <1>8
  <2>2. QED
    BY <1>6, <1>7, <1>8, <2>1 DEF Generations, Told
<1>10. r.kind = "status" => r.generation <= t.generation
  <2>1. r.kind = "status" => r.generation <= child.shown /\ r.generation \in Nat
    BY <1>2 DEF Lines, Generations, Told, StatusType, NoStatus
  <2>2. QED
    BY <1>7, <1>8, <2>1
<1>11. Bounded(s, r) /\ Follows(s, r, armed, native)
  BY <1>2, <1>3 DEF Lines
<1>12. Bounded(before, r) /\ (r = t => Follows(before, t, armed, native))
  <2>1. CASE out = << >>
    <3>1. before = s
      BY <1>3, <1>4, <2>1, ConcatProperties
    <3>2. QED
      BY <1>11, <3>1
  <2>2. ASSUME NEW e \in MessageType, out = <<e>>, Answer(c, e)
        PROVE  Bounded(before, r) /\ (r = t => Follows(before, t, armed, native))
    <3>1. before = Append(s, e)
      BY <1>3, <1>4, <2>2, ConcatOne
    <3>2. e.kind # "status" /\ (Accepted(e) => Serves(t, e.generation))
      BY <1>1, <2>2 DEF Answer
    <3>3. Bounded(Append(s, e), r)
      BY <1>11, <3>2, BoundedOther
    <3>4. ASSUME r = t
          PROVE  Follows(Append(s, e), t, armed, native)
      BY <1>11, <3>2, <3>4, FollowsOther
    <3>5. QED
      BY <3>1, <3>3, <3>4
  <2>3. QED
    BY <2>1, <2>2
<1>13. Bounded(messages', t) /\ Follows(messages', t, armed, native)
  <2>1. PICK n \in Nat, ar \in Nat : n = native /\ ar = armed
    BY DEF TypeInv, StateOK
  <2>2. \A s2 : ((r = t /\ s2 = before) \/ (r # t /\ s2 = Append(before, t)))
                  => Bounded(s2, t) /\ Follows(s2, t, ar, n)
    BY <1>10, <1>12, <2>1, ReportWritten
  <2>3. QED
    BY <1>5, <2>1, <2>2
<1>14. \A m \in ToSet(messages') :
          Accepted(m) => m \in ToSet(messages) \/ (c.mapping /\ m.generation <= native)
  <2>1. \A m \in ToSet(messages') : m \in ToSet(messages) \/ m \in ToSet(out) \/ m.kind = "status"
    BY <1>0, WrittenElements
  <2>2. \A m \in ToSet(out) : Answer(c, m)
    BY NoElements DEF ToSet
  <2>3. QED
    BY <2>1, <2>2 DEF Answer, Accepted
<1>15. Mapped'
  BY <1>6, <1>14, LaterMapped
<1>16. Early(commands', messages', native')
  BY <1>14 DEF Early, Lines
<1>17. ArmIsNative'
  BY DEF ArmIsNative, Lines
<1>18. QED
  BY <1>6, <1>9, <1>13, <1>15, <1>16, <1>17

\* The worker reads a command that is no switch, or none.
LEMMA ReadRouting ==
  ASSUME TypeInv, Routing, child'.profile = child.profile,
         UNCHANGED <<profile, arm, armed, blocked, native>>,
         \/ UNCHANGED commands /\ \A m \in ToSet(messages') : Accepted(m) => m \in ToSet(messages)
         \/ /\ commands # << >> /\ commands' = Tail(commands) /\ Head(commands).kind # "set_profile"
            /\ \A m \in ToSet(messages') :
                 Accepted(m) => \/ m \in ToSet(messages)
                                \/ Head(commands).kind = "arm" /\ m.generation = Head(commands).generation
  PROVE  Routing'
<1>1. PICK cs \in Seq(CommandType) : cs = commands
  BY DEF TypeInv, WorkerOK
<1>2. CASE UNCHANGED commands /\ \A m \in ToSet(messages') : Accepted(m) => m \in ToSet(messages)
  <2>1. Fenced(commands, messages, native) => Fenced(commands', messages', native')
    BY <1>2 DEF Fenced
  <2>2. QED
    BY <1>2, <2>1 DEF Routing, IsArmed
<1>3. CASE /\ commands # << >> /\ commands' = Tail(commands) /\ Head(commands).kind # "set_profile"
           /\ \A m \in ToSet(messages') :
                Accepted(m) => \/ m \in ToSet(messages)
                               \/ Head(commands).kind = "arm" /\ m.generation = Head(commands).generation
  <2>1. Routed(Tail(cs), child.profile, profile)
    BY <1>1, <1>3, RoutedLeft DEF Routing
  <2>2. Quiet(cs, "set_profile", 0) => Quiet(Tail(cs), "set_profile", 0)
    <3>1. \A j \in 1..(Len(cs) - 1) : j + 1 \in 1..Len(cs) /\ j + 1 > 0
      BY <1>1, <1>3, PlacesLeft
    <3>2. QED
      BY <1>1, <1>3, <3>1, PlacesLeft DEF Quiet
  <2>3. Fenced(commands, messages, native) => Fenced(commands', messages', native')
    <3>1. PICK s : s = messages
      OBVIOUS
    <3>2. PICK n : n = native
      OBVIOUS
    <3>3. PICK s2 : s2 = messages'
      OBVIOUS
    <3>4. \A m \in ToSet(s2) : Accepted(m) => 
            (m \in ToSet(s) \/ (Head(cs).kind = "arm" /\ m.generation = Head(cs).generation))
      BY <1>1, <1>3, <3>1, <3>3
    <3>5. Fenced(cs, s, n) => Fenced(Tail(cs), s2, n)
      BY <1>1, <1>3, <3>4, FencedLeft
    <3>6. commands' = Tail(cs) /\ native' = n /\ commands = cs
      BY <1>1, <1>3, <3>2
    <3>7. QED
      BY <3>1, <3>2, <3>3, <3>5, <3>6
  <2>4. QED
    BY <1>1, <1>3, <2>1, <2>2, <2>3 DEF Routing, IsArmed
<1>4. QED
  BY <1>2, <1>3

LEMMA WorkerLines ==
  ASSUME TypeInv, PipeInv, Worker
  PROVE  PipeInv'
<1>0. /\ child \in ChildType /\ commands \in Seq(CommandType) /\ messages \in Seq(MessageType)
      /\ WorkerOK /\ << >> \in Seq(MessageType) /\ native \in Nat /\ armed \in Nat
      /\ child.generation \in Nat /\ child.shown \in Nat
  BY DEF TypeInv, StateOK, WorkerOK, ChildType
<1>1. UNCHANGED <<phase, profile, live, native, blocked, arm, armed>> /\ child.alive
  BY DEF Worker, intent, session
<1> SUFFICES ASSUME Lines
             PROVE  Lines' \/ ~Serving'
  BY <1>1 DEF PipeInv, Serving
<1>3. child.shown <= child.generation /\ (live => Routing)
  BY DEF Lines, Generations
<1>4. ASSUME NEW kind, Received(kind)
      PROVE  /\ commands # << >> /\ commands' = Tail(commands)
             /\ ToSet(commands') \subseteq ToSet(commands) /\ Head(commands) \in ToSet(commands)
             /\ Head(commands) \in CommandType /\ Head(commands).kind = kind
  BY <1>0, <1>4, RemainingElements, ElementTypes DEF Received
\* A step in which the worker stays as it is, but for what it sends or admits
<1>5. ASSUME NEW c \in ChildType, c.reported = child.reported, c.shown = child.shown,
             c.generation = child.generation, child.mapping => c.mapping, c.profile = child.profile,
             NEW out \in Seq(MessageType), Iterated(c, out),
             out = << >> \/ \E e \in MessageType : out = <<e>> /\ Answer(c, e) /\ ~Accepted(e),
             \/ UNCHANGED commands
             \/ \E kind : Received(kind) /\ kind # "set_profile"
      PROVE  Lines'
  <2>1. Succeeds(c)
    BY <1>0, <1>3, <1>5 DEF Succeeds
  <2>2. ToSet(commands') \subseteq ToSet(commands)
    BY <1>4, <1>5
  <2>3. /\ Generations' /\ Bounded(messages', child'.reported)
        /\ Follows(messages', child'.reported, armed', native')
        /\ Early(commands', messages', native') /\ Mapped' /\ ArmIsNative'
    BY <1>1, <1>5, <2>1, <2>2, IterationLines
  <2>4. child'.profile = child.profile
    <3>1. PICK t \in StatusType : t = StatusOf(c)
      BY StatusOfType
    <3>2. child' = [c EXCEPT !.reported = t]
      BY <1>0, <1>5, <3>1, Written
    <3>3. QED
      BY <1>5, <3>2 DEF ChildType
  <2>5. \A m \in ToSet(messages') : Accepted(m) => m \in ToSet(messages)
    <3>1. \A m \in ToSet(messages') : m \in ToSet(messages) \/ m \in ToSet(out) \/ m.kind = "status"
      BY <1>0, <1>5, WrittenElements
    <3>2. \A m \in ToSet(out) : ~Accepted(m)
      BY <1>5, NoElements DEF ToSet
    <3>3. QED
      BY <3>1, <3>2 DEF Accepted
  <2>6. live => Routing'
    <3>1. \/ UNCHANGED commands
          \/ commands # << >> /\ commands' = Tail(commands) /\ Head(commands).kind # "set_profile"
      BY <1>4, <1>5
    <3>2. QED
      BY <1>1, <1>3, <2>4, <2>5, <3>1, ReadRouting
  <2>7. QED
    BY <1>1, <2>3, <2>6 DEF Lines
<1>6. CASE SetProfile
  <2>1. /\ commands # << >> /\ commands' = Tail(commands)
        /\ ToSet(commands') \subseteq ToSet(commands)
        /\ Head(commands) \in CommandType /\ Head(commands).kind = "set_profile"
    BY <1>4, <1>6 DEF SetProfile
  <2>2. PICK p \in Profiles : p = Head(commands).profile
    BY <2>1 DEF CommandType, MediaType
  <2>3. PICK c \in ChildType :
          c = [Revoke(child) EXCEPT !.profile = p, !.ready = FALSE, !.mapping = FALSE,
                                    !.shown = child.generation + 1]
    BY <1>0, SetProfileType
  <2>4. /\ c.reported = child.reported /\ c.profile = p
        /\ c.generation = child.generation + 1 /\ c.shown = child.generation + 1
    <3>1. PICK d \in ChildType : d = Revoke(child)
      BY <1>0, RevokeType
    <3>2. d.reported = child.reported /\ d.generation = child.generation + 1
      BY <1>0, <3>1 DEF Revoke, ChildType
    <3>3. PICK n \in Nat : n = child.generation + 1
      BY <1>0
    <3>4. PICK d1 \in ChildType : d1 = [d EXCEPT !.profile = p]
      BY ChildTypes
    <3>5. d1.reported = d.reported /\ d1.generation = d.generation /\ d1.profile = p
      BY <3>4 DEF ChildType
    <3>6. PICK d2 \in ChildType : d2 = [d1 EXCEPT !.ready = FALSE]
      BY ChildTypes
    <3>7. d2.reported = d1.reported /\ d2.generation = d1.generation /\ d2.profile = d1.profile
      BY <3>6 DEF ChildType
    <3>8. PICK d3 \in ChildType : d3 = [d2 EXCEPT !.mapping = FALSE]
      BY ChildTypes
    <3>9. d3.reported = d2.reported /\ d3.generation = d2.generation /\ d3.profile = d2.profile
      BY <3>8 DEF ChildType
    <3>10. c = [d3 EXCEPT !.shown = n]
      BY <2>3, <3>1, <3>3, <3>4, <3>6, <3>8
    <3>11. c.reported = d3.reported /\ c.generation = d3.generation /\ c.profile = d3.profile
             /\ c.shown = n
      BY <3>10 DEF ChildType
    <3>12. QED
      BY <3>2, <3>3, <3>5, <3>7, <3>9, <3>11
  <2>5. Iterated(c, << >>)
    BY <1>6, <2>2, <2>3 DEF SetProfile
  <2>6. Succeeds(c)
    BY <1>0, <1>3, <2>4 DEF Succeeds
  <2>7. /\ Generations' /\ Bounded(messages', child'.reported)
        /\ Follows(messages', child'.reported, armed', native')
        /\ Early(commands', messages', native') /\ Mapped' /\ ArmIsNative'
    BY <1>0, <1>1, <2>1, <2>5, <2>6, IterationLines
  <2>8. child'.profile = p
    <3>1. PICK t \in StatusType : t = StatusOf(c)
      BY StatusOfType
    <3>2. child' = [c EXCEPT !.reported = t]
      BY <1>0, <2>5, <3>1, Written
    <3>3. QED
      BY <2>4, <3>2 DEF ChildType
  <2>9. ASSUME live
        PROVE  Routing'
    <3>1. PICK cs \in Seq(CommandType) : cs = commands
      BY <1>0
    <3>2. Routed(Tail(cs), p, profile)
      <4>1. Routed(cs, child.profile, profile)
        BY <1>3, <2>9, <3>1 DEF Routing
      <4>2. QED
        BY <2>1, <2>2, <3>1, <4>1, RoutedLeft
    <3>3. ~IsArmed
      <4>1. ~Quiet(cs, "set_profile", 0)
        BY <2>1, <3>1, PlacesLeft DEF Quiet
      <4>2. QED
        BY <1>3, <2>9, <3>1, <4>1 DEF Routing
    <3>4. Fenced(commands, messages, native) => Fenced(commands', messages', native')
      <4>1. PICK s : s = messages
        OBVIOUS
      <4>2. PICK n : n = native
        OBVIOUS
      <4>3. PICK s2 : s2 = messages'
        OBVIOUS
      <4>4. \A m \in ToSet(s2) : Accepted(m) => m \in ToSet(s)
        <5>1. \A m \in ToSet(messages') :
                 m \in ToSet(messages) \/ m \in ToSet(<< >>) \/ m.kind = "status"
          BY <1>0, <2>5, WrittenElements
        <5>2. QED
          BY <4>1, <4>3, <5>1, NoElements DEF Accepted
      <4>5. Fenced(cs, s, n) => Fenced(Tail(cs), s2, n)
        BY <2>1, <3>1, <4>4, FencedLeft
      <4>6. QED
        BY <1>1, <2>1, <3>1, <4>1, <4>2, <4>3, <4>5
    <3>5. QED
      BY <1>1, <1>3, <2>1, <2>8, <2>9, <3>1, <3>2, <3>3, <3>4 DEF Routing, IsArmed
  <2>10. QED
    BY <1>1, <2>7, <2>9 DEF Lines
<1>7. CASE InvalidateCommands
  <2>1. PICK c \in ChildType : c = [Revoke(child) EXCEPT !.mapping = FALSE]
    BY <1>0, RevokeType, ChildTypes
  <2>2. /\ c.reported = child.reported /\ c.shown = child.shown /\ c.profile = child.profile
        /\ c.generation = child.generation + 1
    <3>1. PICK d \in ChildType : d = Revoke(child)
      BY <1>0, RevokeType
    <3>2. /\ d.reported = child.reported /\ d.generation = child.generation + 1
          /\ d.shown = child.shown /\ d.profile = child.profile
      BY <1>0, <3>1 DEF Revoke, ChildType
    <3>3. /\ c.reported = d.reported /\ c.generation = d.generation
          /\ c.shown = d.shown /\ c.profile = d.profile
      BY <2>1, <3>1 DEF ChildType
    <3>4. QED
      BY <3>2, <3>3
  <2>3. Succeeds(c)
    BY <1>0, <1>3, <2>2 DEF Succeeds
  <2>4. /\ Iterated(c, << >>) /\ commands # << >> /\ commands' = Tail(commands)
        /\ ToSet(commands') \subseteq ToSet(commands) /\ Head(commands).kind = "invalidate"
    BY <1>4, <1>7, <2>1 DEF InvalidateCommands
  <2>5. /\ Generations' /\ Bounded(messages', child'.reported)
        /\ Follows(messages', child'.reported, armed', native')
        /\ Early(commands', messages', native') /\ Mapped' /\ ArmIsNative'
    BY <1>0, <1>1, <2>3, <2>4, IterationLines
  <2>6. child'.profile = child.profile
    <3>1. PICK t \in StatusType : t = StatusOf(c)
      BY StatusOfType
    <3>2. child' = [c EXCEPT !.reported = t]
      BY <1>0, <2>4, <3>1, Written
    <3>3. QED
      BY <2>2, <3>2 DEF ChildType
  <2>7. \A m \in ToSet(messages') : Accepted(m) => m \in ToSet(messages)
    <3>1. \A m \in ToSet(messages') :
             m \in ToSet(messages) \/ m \in ToSet(<< >>) \/ m.kind = "status"
      BY <1>0, <2>4, WrittenElements
    <3>2. QED
      BY <3>1, NoElements DEF Accepted
  <2>8. live => Routing'
    BY <1>1, <1>3, <2>4, <2>6, <2>7, ReadRouting
  <2>9. QED
    BY <1>1, <2>5, <2>8 DEF Lines
<1>8. CASE Arm
  <2>1. /\ commands # << >> /\ commands' = Tail(commands)
        /\ ToSet(commands') \subseteq ToSet(commands) /\ Head(commands) \in ToSet(commands)
        /\ Head(commands) \in CommandType /\ Head(commands).kind = "arm"
    BY <1>4, <1>8 DEF Arm
  <2>2. PICK g \in Nat : g = Head(commands).generation
    BY <2>1 DEF CommandType, MediaType
  <2>3. g <= native
    BY <2>1, <2>2 DEF Lines, Early
  <2>4. PICK accepted \in BOOLEAN : accepted = (g = child.generation /\ child.admitted)
    OBVIOUS
  <2>5. PICK mapping \in BOOLEAN : mapping = (child.mapping \/ accepted)
    OBVIOUS
  <2>6. PICK c \in ChildType : c = [child EXCEPT !.mapping = mapping]
    BY <1>0, ChildTypes
  <2>7. /\ c.reported = child.reported /\ c.shown = child.shown /\ c.profile = child.profile
        /\ c.generation = child.generation /\ c.mapping = mapping /\ c.admitted = child.admitted
    BY <1>0, <2>6 DEF ChildType
  <2>8. PICK m \in MessageType : m = [kind |-> "armed", generation |-> g, accepted |-> accepted]
    BY DEF MessageType
  <2>9. m.kind = "armed" /\ m.generation = g /\ m.accepted = accepted
    BY <2>8
  <2>10. <<m>> \in Seq(MessageType) /\ ToSet(<<m>>) = {m}
    BY DEF ToSet
  <2>11. Iterated(c, <<m>>)
    BY <1>0, <1>8, <2>2, <2>4, <2>5, <2>6, <2>8 DEF Arm, ChildType
  <2>12. Succeeds(c)
    <3>1. child.mapping => c.mapping
      BY <2>5, <2>7, Zenon
    <3>2. QED
      BY <1>0, <1>3, <2>7, <3>1 DEF Succeeds
  <2>13. Answer(c, m)
    <3>1. ASSUME accepted
          PROVE  Serves(StatusOf(c), m.generation) /\ m.generation <= native /\ c.mapping
      <4>1. g = child.shown /\ child.admitted
        <5>1. g = child.generation /\ child.admitted
          BY <2>4, <3>1
        <5>2. native <= child.shown /\ child.shown <= child.generation
          BY DEF Lines, Generations
        <5>3. QED
          BY <1>0, <2>3, <5>1, <5>2
      <4>2. /\ StatusOf(c).kind = "status" /\ StatusOf(c).generation = c.shown
            /\ StatusOf(c).input = c.admitted
        BY DEF StatusOf
      <4>3. Serves(StatusOf(c), m.generation)
        BY <2>7, <2>9, <4>1, <4>2 DEF Serves
      <4>4. QED
        BY <2>3, <2>5, <2>7, <2>9, <3>1, <4>3
    <3>2. QED
      BY <2>9, <3>1 DEF Answer, Accepted
  <2>14. /\ Generations' /\ Bounded(messages', child'.reported)
         /\ Follows(messages', child'.reported, armed', native')
         /\ Early(commands', messages', native') /\ Mapped' /\ ArmIsNative'
    BY <1>0, <1>1, <2>1, <2>10, <2>11, <2>12, <2>13, IterationLines
  <2>15. child'.profile = child.profile
    <3>1. PICK t \in StatusType : t = StatusOf(c)
      BY StatusOfType
    <3>2. child' = [c EXCEPT !.reported = t]
      BY <1>0, <2>10, <2>11, <3>1, Written
    <3>3. QED
      BY <2>7, <3>2 DEF ChildType
  <2>16. \A x \in ToSet(messages') :
            Accepted(x) => x \in ToSet(messages) \/ x.generation = Head(commands).generation
    <3>1. \A x \in ToSet(messages') : x \in ToSet(messages) \/ x \in {m} \/ x.kind = "status"
      BY <1>0, <2>10, <2>11, WrittenElements
    <3>2. QED
      BY <2>2, <2>9, <3>1 DEF Accepted
  <2>17. live => Routing'
    BY <1>1, <1>3, <2>1, <2>15, <2>16, ReadRouting
  <2>18. QED
    BY <1>1, <2>14, <2>17 DEF Lines
<1>9. CASE HandleRequest \/ HandleInput \/ Report
  <2>1. Iterated(child, << >>) /\ (UNCHANGED commands \/ Received("request") \/ Received("input"))
    BY <1>9 DEF HandleRequest, HandleInput, Report
  <2>2. UNCHANGED commands \/ \E kind : Received(kind) /\ kind # "set_profile"
    <3>1. "input" # "set_profile" /\ "request" # "set_profile"
      OBVIOUS
    <3>2. QED
      BY <2>1, <3>1, Zenon
  <2>3. PICK c \in ChildType : c = child
    BY <1>0
  <2>4. /\ c.reported = child.reported /\ c.shown = child.shown /\ c.generation = child.generation
        /\ (child.mapping => c.mapping) /\ c.profile = child.profile /\ Iterated(c, << >>)
    BY <2>1, <2>3
  <2>5. QED
    BY <1>0, <1>5, <2>2, <2>4
<1>10. CASE Media
  <2>1. Received("media") /\ Head(commands) \in CommandType /\ Head(commands).kind = "media"
    BY <1>4, <1>10 DEF Media
  <2>2. PICK cmd \in MediaType : cmd = Head(commands)
    BY <2>1 DEF CommandType, MediaType
  <2>3. CASE Iterated([child EXCEPT !.sending = @ \cup {[id |-> cmd.id, call |-> cmd.call,
                                                         generation |-> cmd.generation]}], << >>)
    <3>1. PICK s \in SendingType : s = [id |-> cmd.id, call |-> cmd.call, generation |-> cmd.generation]
      BY DEF MediaType, SendingType
    <3>2. child.sending \cup {s} \in SUBSET SendingType
      BY <1>0 DEF ChildType
    <3>3. PICK c \in ChildType : c = [child EXCEPT !.sending = child.sending \cup {s}]
      BY <1>0, <3>2, ChildTypes
    <3>4. Iterated(c, << >>)
      BY <1>0, <2>3, <3>1, <3>3 DEF ChildType
    <3>5. /\ c.reported = child.reported /\ c.shown = child.shown /\ c.profile = child.profile
          /\ c.generation = child.generation /\ c.mapping = child.mapping
      BY <1>0, <3>3 DEF ChildType
    <3>6. QED
      BY <1>0, <1>5, <2>1, <3>4, <3>5
  <2>4. CASE Iterated(child, <<[kind |-> "reply", id |-> cmd.id, ok |-> FALSE]>>)
    <3>1. PICK m \in MessageType : m = [kind |-> "reply", id |-> cmd.id, ok |-> FALSE]
      BY DEF MediaType, MessageType
    <3>2. Iterated(child, <<m>>) /\ <<m>> \in Seq(MessageType)
      BY <2>4, <3>1
    <3>3. Answer(child, m) /\ ~Accepted(m)
      BY <3>1 DEF Answer, Accepted
    <3>4. QED
      BY <1>0, <1>5, <2>1, <3>2, <3>3
  <2>5. QED
    BY <1>10, <2>2, <2>3, <2>4 DEF Media
<1>11. CASE Sent
  <2>1. PICK s \in child.sending, ok \in BOOLEAN :
          /\ Iterated([child EXCEPT !.sending = @ \ {s}],
                      <<[kind |-> "reply", id |-> s.id, ok |-> ok]>>)
          /\ UNCHANGED commands
    BY <1>11 DEF Sent
  <2>2. s \in SendingType /\ child.sending \ {s} \in SUBSET SendingType
    BY <1>0 DEF ChildType
  <2>3. PICK c \in ChildType : c = [child EXCEPT !.sending = child.sending \ {s}]
    BY <1>0, <2>2, ChildTypes
  <2>5. PICK m \in MessageType : m = [kind |-> "reply", id |-> s.id, ok |-> ok]
    BY <2>2 DEF SendingType, MessageType
  <2>6. Iterated(c, <<m>>) /\ <<m>> \in Seq(MessageType)
    BY <1>0, <2>1, <2>3, <2>5 DEF ChildType
  <2>7. /\ c.reported = child.reported /\ c.shown = child.shown /\ c.profile = child.profile
        /\ c.generation = child.generation /\ c.mapping = child.mapping
    BY <1>0, <2>3 DEF ChildType
  <2>8. Answer(c, m) /\ ~Accepted(m)
    BY <2>5 DEF Answer, Accepted
  <2>9. QED
    BY <1>5, <2>1, <2>6, <2>7, <2>8
<1>12. CASE OldInput
  <2>1. /\ commands # << >> /\ commands' = Tail(commands)
        /\ ToSet(commands') \subseteq ToSet(commands) /\ Head(commands).kind = "input"
    BY <1>4, <1>12 DEF OldInput
  <2>2. PICK c \in ChildType : c = [child EXCEPT !.admitted = FALSE]
    BY <1>0, ChildTypes
  <2>3. /\ c.reported = child.reported /\ c.shown = child.shown /\ c.profile = child.profile
        /\ c.generation = child.generation /\ c.mapping = child.mapping
    BY <1>0, <2>2 DEF ChildType
  <2>4. PICK t \in StatusType : t = StatusOf(c)
    BY StatusOfType
  <2>5. t.kind = "status" /\ t.generation = c.shown /\ t.profile = c.profile /\ t \in MessageType
    BY <2>4 DEF StatusOf, MessageType
  <2>6. PICK r \in StatusType \cup {NoStatus} : r = child.reported
    BY <1>0 DEF ChildType
  <2>7. PICK s \in Seq(MessageType) : s = messages
    BY <1>0
  <2>8. PICK status \in Seq(MessageType) : status = IF r = t THEN << >> ELSE <<t>>
    <3>1. << >> \in Seq(MessageType) /\ <<t>> \in Seq(MessageType)
      BY <2>5
    <3>2. QED
      BY <3>1, Zenon
  <2>9. PICK f \in MessageType : f = [kind |-> "failure"]
    BY DEF MessageType
  <2>10. child' = [c EXCEPT !.reported = t] /\ messages' = (s \o status) \o <<f>>
    BY <1>12, <2>2, <2>3, <2>4, <2>6, <2>7, <2>8, <2>9 DEF OldInput
  <2>11. /\ child'.reported = t /\ child'.profile = child.profile
         /\ child'.generation = child.generation /\ child'.shown = child.shown
         /\ child'.mapping = child.mapping
    BY <2>3, <2>10 DEF ChildType
  <2>12. PICK s2 \in Seq(MessageType) : s2 = s \o status
    BY ConcatProperties
  <2>13. (r = t /\ s2 = s) \/ (r # t /\ s2 = Append(s, t))
    <3>1. s \o << >> = s /\ s \o <<t>> = Append(s, t)
      BY <2>5, ConcatOne
    <3>2. QED
      BY <2>8, <2>12, <3>1
  <2>14. messages' = Append(s2, f) /\ f.kind = "failure"
    BY <2>9, <2>10, <2>12, ConcatOne
  <2>15. PICK n \in Nat, ar \in Nat : n = native /\ ar = armed
    BY <1>0
  <2>16. Bounded(s, r) /\ Follows(s, r, ar, n)
    BY <2>6, <2>7, <2>15 DEF Lines
  <2>17. r.kind = "status" => r.generation <= t.generation
    BY <2>3, <2>5, <2>6 DEF Lines, Generations, Told
  <2>18. Bounded(s2, t) /\ Follows(s2, t, ar, n)
    BY <2>13, <2>16, <2>17, ReportWritten
  <2>19. Bounded(Append(s2, f), t) /\ Follows(Append(s2, f), t, ar, n)
    BY <2>14, <2>18, BoundedOther, FollowsOther DEF Accepted
  <2>20. \A m \in ToSet(messages') : Accepted(m) => m \in ToSet(messages)
    <3>1. ToSet(Append(s2, f)) = ToSet(s2) \cup {f}
      BY AppendedElements
    <3>2. ToSet(s2) \subseteq ToSet(s) \cup {t}
      <4>1. ToSet(Append(s, t)) = ToSet(s) \cup {t}
        BY <2>5, AppendedElements
      <4>2. QED
        BY <2>13, <4>1
    <3>3. ~Accepted(f) /\ ~Accepted(t)
      BY <2>5, <2>14 DEF Accepted
    <3>4. QED
      BY <2>7, <2>14, <3>1, <3>2, <3>3
  <2>21. Generations'
    <3>1. native <= child.shown /\ child.shown <= child.generation
      BY DEF Lines, Generations
    <3>2. t.generation = child.shown /\ t.profile = child.profile /\ t.kind = "status"
      BY <2>3, <2>5
    <3>3. child.shown <= child.shown
      BY <1>0
    <3>4. QED
      BY <1>1, <2>11, <3>1, <3>2, <3>3 DEF Generations, Told
  <2>22. Early(commands', messages', native') /\ Mapped' /\ ArmIsNative'
    BY <1>1, <2>1, <2>11, <2>20 DEF Lines, Early, Mapped, ArmIsNative, IsArmed
  <2>23. live => Routing'
    BY <1>1, <1>3, <2>1, <2>11, <2>20, ReadRouting
  <2>24. QED
    BY <1>1, <2>11, <2>14, <2>15, <2>19, <2>21, <2>22, <2>23 DEF Lines
<1>13. CASE (NativeShows \/ NativeReady \/ NativeLoss \/ NativeStall \/ Crash)
              /\ UNCHANGED <<pid, commands, messages, executed>>
  <2>1. ASSUME NEW c \in ChildType, child' = c, Succeeds(c), c.profile = child.profile
        PROVE  Lines'
    <3>1. Mapped'
      BY <1>1, <1>13, <2>1, LaterMapped
    <3>2. Generations'
      <4>1. native <= child.shown /\ child.shown <= c.shown /\ c.shown <= c.generation
              /\ c.shown \in Nat
        BY <2>1 DEF Lines, Generations, Succeeds, ChildType
      <4>2. Told => child.reported.generation \in Nat /\ child.reported.generation <= child.shown
        BY <1>0 DEF Lines, Generations, Told, ChildType, StatusType, NoStatus
      <4>3. QED
        BY <1>0, <1>1, <2>1, <4>1, <4>2 DEF Lines, Generations, Told, Succeeds
    <3>3. live => Routing'
      BY <1>1, <1>3, <1>13, <2>1, ReadRouting
    <3>4. QED
      BY <1>1, <1>13, <2>1, <3>1, <3>2, <3>3 DEF Lines, ArmIsNative, Succeeds
  <2>2. CASE NativeShows
    <3>1. PICK d \in ChildType : d = [child EXCEPT !.shown = child.generation]
      BY <1>0, ChildTypes
    <3>2. PICK c \in ChildType : c = [d EXCEPT !.ready = FALSE]
      BY ChildTypes
    <3>3. /\ d.reported = child.reported /\ d.shown = child.generation /\ d.profile = child.profile
          /\ d.generation = child.generation /\ d.mapping = child.mapping
      BY <1>0, <3>1 DEF ChildType
    <3>4. /\ c.reported = d.reported /\ c.shown = d.shown /\ c.profile = d.profile
          /\ c.generation = d.generation /\ c.mapping = d.mapping
      BY <3>2 DEF ChildType
    <3>5. child' = c
      BY <2>2, <3>1, <3>2 DEF NativeShows
    <3>6. Succeeds(c)
      BY <1>0, <1>3, <3>3, <3>4 DEF Succeeds
    <3>7. QED
      BY <2>1, <3>3, <3>4, <3>5, <3>6
  <2>3. CASE NativeReady \/ NativeStall
    <3>1. PICK c \in ChildType :
            /\ c = child'
            /\ \/ c = [child EXCEPT !.ready = TRUE] \/ c = [child EXCEPT !.admitted = TRUE]
               \/ c = [child EXCEPT !.stalled = TRUE]
      BY <1>0, <2>3, ChildTypes DEF NativeReady, NativeStall
    <3>2. /\ c.reported = child.reported /\ c.shown = child.shown /\ c.profile = child.profile
          /\ c.generation = child.generation /\ c.mapping = child.mapping
      BY <1>0, <3>1 DEF ChildType
    <3>3. Succeeds(c)
      BY <1>0, <1>3, <3>2 DEF Succeeds
    <3>4. QED
      BY <2>1, <3>1, <3>2, <3>3
  <2>4. CASE NativeLoss
    <3>1. PICK d \in ChildType : d = Revoke(child)
      BY <1>0, RevokeType
    <3>2. /\ d.reported = child.reported /\ d.generation = child.generation + 1
          /\ d.shown = child.shown /\ d.profile = child.profile
      BY <1>0, <3>1 DEF Revoke, ChildType
    <3>3. PICK mapping \in BOOLEAN : mapping = (d.mapping /\ ~live)
      OBVIOUS
    <3>4. PICK c \in ChildType : c = [d EXCEPT !.mapping = mapping]
      BY ChildTypes
    <3>5. c.reported = d.reported /\ c.generation = d.generation /\ c.shown = d.shown
            /\ c.profile = d.profile
      BY <3>4 DEF ChildType
    <3>6. child' = c
      BY <2>4, <3>1, <3>3, <3>4 DEF NativeLoss, ChildType
    <3>7. Succeeds(c)
      BY <1>0, <1>3, <3>2, <3>5 DEF Succeeds
    <3>8. QED
      BY <2>1, <3>2, <3>5, <3>6, <3>7
  <2>5. CASE Crash
    <3>1. child'.alive = FALSE
      BY <1>0, <2>5 DEF Crash, ChildType
    <3>2. QED
      BY <3>1 DEF Serving
  <2>6. QED
    BY <1>13, <2>2, <2>3, <2>4, <2>5
<1>14. QED
  BY <1>6, <1>7, <1>8, <1>9, <1>10, <1>11, <1>12, <1>13 DEF Worker

-----------------------------------------------------------------------------
\* A step of the supervisor, the runtime or the input thread

LEMMA KeptLines ==
  ASSUME Lines, UNCHANGED <<native, child, messages, commands, armed, arm, live, profile>>,
         blocked' \in {blocked, native}
  PROVE  Lines'
<1>1. /\ Generations' /\ Mapped' /\ ArmIsNative'
  BY DEF Lines, Generations, Told, Mapped, IsArmed, ArmIsNative
<1>2. live => Routing'
  BY DEF Lines, Routing, IsArmed
<1>3. QED
  BY <1>1, <1>2 DEF Lines

\* A command that is neither a switch nor an Arm is sent.
LEMMA SentLines ==
  ASSUME TypeInv, Lines, NEW e \in CommandType, e.kind \notin {"set_profile", "arm"},
         commands' = Append(commands, e), blocked' \in {blocked, native},
         UNCHANGED <<native, child, messages, armed, arm, live, profile>>
  PROVE  Lines'
<1>1. PICK cs \in Seq(CommandType) : cs = commands
  BY DEF TypeInv, WorkerOK
<1>2. /\ Generations' /\ Mapped' /\ ArmIsNative'
  BY DEF Lines, Generations, Told, Mapped, IsArmed, ArmIsNative
<1>3. Early(commands', messages', native')
  <2>1. ToSet(Append(cs, e)) = ToSet(cs) \cup {e}
    BY AppendedElements
  <2>2. QED
    BY <1>1, <2>1 DEF Lines, Early
<1>4. ASSUME live
      PROVE  Routing'
  <2>1. Routed(commands, child.profile, profile) => Routed(Append(cs, e), child.profile, profile)
    BY <1>1, RoutedOther
  <2>2. Quiet(cs, "set_profile", 0) => Quiet(Append(cs, e), "set_profile", 0)
    BY QuietAppended
  <2>3. Fenced(commands, messages, native) => Fenced(Append(cs, e), messages, native)
    BY <1>1, FencedAppended
  <2>4. QED
    BY <1>1, <1>4, <2>1, <2>2, <2>3 DEF Lines, Routing, IsArmed
<1>5. QED
  BY <1>2, <1>3, <1>4 DEF Lines

\* A message is taken, and at most the arm is lost with it.
LEMMA TakenLines ==
  ASSUME TypeInv, Lines, messages # << >>, messages' = Tail(messages), arm' \in {arm, NoArm},
         UNCHANGED <<native, child, commands, armed, live, profile, blocked>>,
         (IsArmed /\ Quiet(messages, "status", 1)) => Serves(child.reported, native)
  PROVE  Lines'
<1>1. PICK s \in Seq(MessageType) : s = messages
  BY DEF TypeInv, WorkerOK
<1>2. ToSet(Tail(s)) \subseteq ToSet(s)
  BY <1>1, RemainingElements
<1>3. Generations' /\ Mapped' /\ ArmIsNative'
  BY <1>1, <1>2 DEF Lines, Generations, Told, Mapped, IsArmed, ArmIsNative
<1>4. Early(commands', messages', native') /\ Bounded(messages', child'.reported)
  BY <1>1, <1>2 DEF Lines, Early, Bounded
<1>5. Follows(messages', child'.reported, armed', native')
  <2>1. PICK r, ar, n : r = child.reported /\ ar = armed /\ n = native
    OBVIOUS
  <2>2. Follows(s, r, ar, n) /\ ((ar # NotArmed /\ Quiet(s, "status", 1)) => Serves(r, n))
    BY <1>1, <2>1 DEF Lines, IsArmed
  <2>3. Follows(Tail(s), r, ar, n)
    BY <1>1, <2>2, FollowsLeft
  <2>4. QED
    BY <1>1, <2>1, <2>3
<1>6. ASSUME live
      PROVE  Routing'
  <2>1. Fenced(commands, messages, native) => Fenced(commands', messages', native')
    BY <1>1, <1>2 DEF Fenced
  <2>2. (arm = NoArm /\ blocked = native) => (arm = NoArm /\ blocked = native)'
    OBVIOUS
  <2>3. QED
    BY <1>6, <2>1, <2>2 DEF Lines, Routing, IsArmed
<1>7. QED
  BY <1>3, <1>4, <1>5, <1>6 DEF Lines

\* If the head is no status, nothing changes for the one that is the last.
LEMMA TakenOther ==
  ASSUME TypeInv, Lines, messages # << >>, Head(messages).kind # "status",
         Quiet(messages, "status", 1), IsArmed
  PROVE  Serves(child.reported, native)
<1>1. PICK s \in Seq(MessageType) : s = messages
  BY DEF TypeInv, WorkerOK
<1>2. \A j \in 1..Len(s) : j > 0 => (j = 1 \/ j > 1)
  BY <1>1, PlacesLeft
<1>3. Quiet(s, "status", 0)
  BY <1>1, <1>2, PlacesLeft DEF Quiet
<1>4. QED
  BY <1>1, <1>3 DEF Lines, Follows, IsArmed

\* If the head is the last status, it is what the worker has reported last.
LEMMA TakenStatus ==
  ASSUME TypeInv, Lines, messages # << >>, Head(messages).kind = "status",
         Quiet(messages, "status", 1)
  PROVE  Head(messages) = child.reported
<1>1. PICK s \in Seq(MessageType) : s = messages
  BY DEF TypeInv, WorkerOK
<1>2. 1 \in DOMAIN s /\ s[1] = Head(s)
  BY <1>1, PlacesLeft
<1>3. QED
  BY <1>1, <1>2 DEF Lines, Follows

\* What the head of the messages says of the worker
LEMMA HeadStatus ==
  ASSUME TypeInv, Lines, messages # << >>, Head(messages).kind = "status"
  PROVE  /\ Head(messages) \in StatusType /\ Told
         /\ Head(messages).generation <= child.reported.generation
         /\ child.reported.generation \in Nat /\ native \in Nat /\ child.shown \in Nat
         /\ child.reported.generation <= child.shown /\ native <= child.reported.generation
<1>1. PICK s \in Seq(MessageType) : s = messages
  BY DEF TypeInv, WorkerOK
<1>2. Head(s) \in ToSet(s) /\ Head(s) \in MessageType
  BY <1>1, RemainingElements, ElementTypes
<1>3. Head(s) \in StatusType
  BY <1>1, <1>2 DEF MessageType
<1>4. Told /\ Head(s).generation <= child.reported.generation
  BY <1>1, <1>2 DEF Lines, Bounded, Told
<1>5. child.reported \in StatusType \cup {NoStatus} /\ child.shown \in Nat /\ native \in Nat
  BY DEF TypeInv, StateOK, WorkerOK, ChildType
<1>6. child.reported.generation \in Nat
  BY <1>4, <1>5 DEF Told, StatusType, NoStatus
<1>7. QED
  BY <1>1, <1>3, <1>4, <1>5, <1>6 DEF Lines, Generations

\* A worker of its own, or none
LEMMA ReplaceLines ==
  ASSUME TypeInv, NEW l, NEW p \in Profiles, NEW pub \in BOOLEAN, NEW sel \in Receivers,
         NEW rem \in Receivers, NEW next, NEW failed \in {"failed", "finishing"},
         Replace(l, p, pub, sel, rem, next, failed)
  PROVE  PipeInv'
<1>1. /\ native' = 0 /\ arm' = NoArm /\ armed' = NotArmed /\ profile' = p /\ UNCHANGED live
      /\ Exchange(p, pub, IF sel # None THEN sel ELSE rem, next, failed)
  BY DEF Replace
<1>2. PICK target \in Receivers : target = IF sel # None THEN sel ELSE rem
  OBVIOUS
<1>3. \/ child' = Fresh(p, pub, target) /\ commands' = << >> /\ messages' = << >>
      \/ child' = NoChild \/ phase' = failed
  BY <1>1, <1>2 DEF Exchange
<1>4. CASE child' = NoChild \/ phase' = failed
  <2>1. ~Serving'
    BY <1>1, <1>4 DEF Serving, Over, NoChild
  <2>2. QED
    BY <2>1 DEF PipeInv
<1>5. CASE child' = Fresh(p, pub, target) /\ commands' = << >> /\ messages' = << >>
  <2>1. PICK c \in ChildType : c = Fresh(p, pub, target)
    BY FreshType
  <2>2. /\ c.profile = p /\ c.generation = 1 /\ c.shown = 1 /\ c.reported = NoStatus
    BY <2>1, FreshType
  <2>3. Generations'
    BY <1>1, <1>5, <2>1, <2>2 DEF Generations, Told, NoStatus
  <2>4. ToSet(commands') = {} /\ ToSet(messages') = {} /\ DOMAIN commands' = {} /\ DOMAIN messages' = {}
    BY <1>5, NoElements
  <2>5. /\ Bounded(messages', child'.reported) /\ Follows(messages', child'.reported, armed', native')
        /\ Early(commands', messages', native')
    BY <1>1, <2>4 DEF Bounded, Follows, Early
  <2>6. Mapped' /\ ArmIsNative'
    BY <1>1, <2>4 DEF Mapped, IsArmed, ArmIsNative
  <2>7. Routing'
    BY <1>1, <1>5, <2>1, <2>2, <2>4 DEF Routing, Routed, Fenced, IsArmed
  <2>8. QED
    BY <2>3, <2>5, <2>6, <2>7 DEF PipeInv, Lines
<1>6. QED
  BY <1>3, <1>4, <1>5

\* The profile changes and the worker stays: the arm is lost, and what the
\* worker says of this generation no longer counts.
LEMMA SwitchLines ==
  ASSUME TypeInv, PipeInv, SwitchInPlace
  PROVE  PipeInv'
<1>1. /\ phase = "control" /\ arm' = NoArm /\ armed' = NotArmed /\ blocked' = native
      /\ UNCHANGED <<native, child, messages, live>>
      /\ profile' = Desired
  BY DEF SwitchInPlace
<1>2. CASE ~CanSend
  <2>1. phase' = "failed"
    BY <1>2 DEF SwitchInPlace
  <2>2. QED
    BY <1>1, <2>1 DEF PipeInv, Serving, Over
<1>3. CASE CanSend /\ child.alive
  <2>1. Lines
    BY <1>1, <1>3 DEF PipeInv, Serving, Over
  <2>2. PICK p \in Profiles : p = Desired
    BY DEF Desired, Profiles
  <2>3. PICK e \in CommandType : e = [kind |-> "set_profile", profile |-> p]
    BY DEF CommandType
  <2>4. commands' = Append(commands, e) /\ e.kind = "set_profile" /\ e.profile = p
    BY <1>3, <2>2, <2>3 DEF SwitchInPlace
  <2>5. PICK cs \in Seq(CommandType) : cs = commands
    BY DEF TypeInv, WorkerOK
  <2>6. Generations' /\ Mapped' /\ ArmIsNative' /\ Bounded(messages', child'.reported)
    BY <1>1, <2>1 DEF Lines, Generations, Told, Mapped, IsArmed, ArmIsNative
  <2>7. Follows(messages', child'.reported, armed', native')
    BY <1>1, <2>1 DEF Lines, Follows
  <2>8. Early(commands', messages', native')
    <3>1. ToSet(Append(cs, e)) = ToSet(cs) \cup {e}
      BY AppendedElements
    <3>2. QED
      BY <1>1, <2>1, <2>4, <2>5, <3>1 DEF Lines, Early
  <2>9. Routing'
    <3>1. \A now : Routed(Append(cs, e), now, e.profile)
      BY <2>4, RoutedSwitch
    <3>2. QED
      BY <1>1, <2>2, <2>4, <2>5, <3>1 DEF Routing, IsArmed
  <2>10. QED
    BY <2>6, <2>7, <2>8, <2>9 DEF PipeInv, Lines
<1>4. CASE ~child.alive
  BY <1>1, <1>4 DEF PipeInv, Serving
<1>5. QED
  BY <1>2, <1>3, <1>4

\* The worker accepted the last Arm, and nothing came since.
LEMMA ArmedLines ==
  ASSUME TypeInv, PipeInv, Armed
  PROVE  PipeInv'
<1>1. /\ phase = "messages" /\ messages # << >> /\ Head(messages).kind = "armed"
      /\ messages' = Tail(messages) /\ arm' \in {arm, NoArm}
      /\ UNCHANGED <<native, child, commands, live, profile, blocked>>
  BY DEF Armed, Message, intent
<1>2. phase \notin Over
  BY <1>1 DEF Over
<1>3. CASE ~child.alive
  BY <1>1, <1>3 DEF PipeInv, Serving
<1>4. CASE child.alive /\ UNCHANGED armed
  <2>1. Lines
    BY <1>2, <1>4 DEF PipeInv, Serving
  <2>2. (IsArmed /\ Quiet(messages, "status", 1)) => Serves(child.reported, native)
    BY <1>1, <2>1, TakenOther
  <2>3. QED
    BY <1>1, <1>4, <2>1, <2>2, TakenLines DEF PipeInv
<1>5. CASE /\ child.alive
           /\ arm = <<Head(messages).generation, revision>> /\ Head(messages).accepted
  <2>1. Lines
    BY <1>2, <1>5 DEF PipeInv, Serving
  <2>2. PICK s \in Seq(MessageType) : s = messages
    BY DEF TypeInv, WorkerOK
  <2>3. /\ Head(s) \in ToSet(s) /\ 1 \in DOMAIN s /\ s[1] = Head(s) /\ Accepted(Head(s))
        /\ ToSet(Tail(s)) \subseteq ToSet(s)
    BY <1>1, <1>5, <2>2, RemainingElements, PlacesLeft DEF Accepted
  <2>4. arm # NoArm /\ Head(s).generation = native
    <3>1. revision # 0
      BY DEF TypeInv, LinkOK
    <3>2. arm[1] = Head(s).generation /\ arm[2] = revision /\ NoArm[2] = 0
      BY <1>5, <2>2 DEF NoArm
    <3>3. arm # NoArm
      BY <3>1, <3>2
    <3>4. QED
      BY <2>1, <3>2, <3>3 DEF Lines, ArmIsNative
  <2>5. Quiet(s, "status", 1) => Serves(child.reported, native)
    BY <2>1, <2>2, <2>3, <2>4 DEF Lines, Follows
  <2>6. native = child.generation => child.mapping
    BY <2>1, <2>2, <2>3, <2>4 DEF Lines, Mapped
  <2>7. Generations' /\ Bounded(messages', child'.reported) /\ Early(commands', messages', native')
    BY <1>1, <2>1, <2>2, <2>3 DEF Lines, Generations, Told, Bounded, Early
  <2>8. Mapped' /\ ArmIsNative'
    BY <1>1, <2>1, <2>2, <2>3, <2>6 DEF Lines, Mapped, ArmIsNative
  <2>9. Follows(messages', child'.reported, armed', native')
    <3>1. PICK r, ar, n, ar2 : r = child.reported /\ ar = armed /\ n = native /\ ar2 = armed'
      OBVIOUS
    <3>2. Follows(s, r, ar, n) /\ (Quiet(s, "status", 1) => Serves(r, n))
      BY <2>1, <2>2, <2>5, <3>1 DEF Lines
    <3>3. Follows(Tail(s), r, ar2, n)
      BY <1>1, <2>2, <3>2, FollowsLeft
    <3>4. QED
      BY <1>1, <2>2, <3>1, <3>3
  <2>10. ASSUME live
         PROVE  Routing'
    <3>1. Fenced(commands, messages, native)
      BY <2>1, <2>4, <2>10 DEF Lines, Routing
    <3>2. PICK cs \in Seq(CommandType) : cs = commands
      BY DEF TypeInv, WorkerOK
    <3>3. Quiet(cs, "set_profile", 0)
      BY <2>2, <2>3, <2>4, <3>1, <3>2 DEF Fenced, Quiet
    <3>4. Fenced(commands', messages', native')
      BY <1>1, <2>2, <2>3, <3>1 DEF Fenced
    <3>5. QED
      BY <1>1, <2>1, <2>10, <3>2, <3>3, <3>4 DEF Lines, Routing
  <2>11. QED
    BY <1>1, <2>7, <2>8, <2>9, <2>10 DEF PipeInv, Lines
<1>6. QED
  <2>1. UNCHANGED armed \/ (arm = <<Head(messages).generation, revision>> /\ Head(messages).accepted)
    BY DEF Armed
  <2>2. QED
    BY <1>3, <1>4, <1>5, <2>1

\* What the worker has yet to read when it reports
Unread(cs) ==
  /\ \A c \in ToSet(cs) : c.kind = "arm" => c.generation <= native
  /\ live => /\ Routed(cs, child.profile, profile)
             /\ IsArmed => Quiet(cs, "set_profile", 0)
             /\ (arm = NoArm /\ blocked = native) \/ Fenced(cs, messages, native)

\* A request to pair is no switch and no Arm.
LEMMA UnreadRequest ==
  ASSUME NEW cs \in Seq(CommandType), Unread(cs)
  PROVE  Append(cs, NativeRequest) \in Seq(CommandType) /\ Unread(Append(cs, NativeRequest))
<1>1. PICK e \in CommandType : e = NativeRequest /\ e.kind = "request"
  BY NativeRequestType
<1>2. ToSet(Append(cs, e)) = ToSet(cs) \cup {e}
  BY AppendedElements
<1>3. \A c \in ToSet(Append(cs, e)) : c.kind = "arm" => c.generation <= native
  BY <1>1, <1>2 DEF Unread
<1>4. ASSUME live
      PROVE  /\ Routed(Append(cs, e), child.profile, profile)
             /\ IsArmed => Quiet(Append(cs, e), "set_profile", 0)
             /\ (arm = NoArm /\ blocked = native) \/ Fenced(Append(cs, e), messages, native)
  <2>1. Routed(cs, child.profile, profile) => Routed(Append(cs, e), child.profile, profile)
    BY <1>1, RoutedOther
  <2>2. Quiet(cs, "set_profile", 0) => Quiet(Append(cs, e), "set_profile", 0)
    BY <1>1, QuietAppended
  <2>3. Fenced(cs, messages, native) => Fenced(Append(cs, e), messages, native)
    BY <1>1, FencedAppended
  <2>4. QED
    BY <1>4, <2>1, <2>2, <2>3 DEF Unread
<1>5. Append(cs, e) \in Seq(CommandType)
  BY AppendedElements
<1>6. QED
  BY <1>1, <1>3, <1>4, <1>5 DEF Unread

\* The worker reports: a new native generation ends what was armed for the one
\* before it, and so does a report without input.
LEMMA ReportedLines ==
  ASSUME TypeInv, Lines, Message("status"), ~Obsolete(Head(messages)),
         messages' = Tail(messages), UNCHANGED <<live, profile, child>>,
         NEW cs \in Seq(CommandType), Unread(cs), Reported(Head(messages), cs), phase' # "failed"
  PROVE  Lines'
<1> DEFINE m == Head(messages)
<1>1. /\ messages # << >> /\ m.kind = "status" /\ ~Obsolete(m)
      /\ messages' = Tail(messages) /\ native' = m.generation
      /\ blocked' = (IF blocked = m.generation THEN blocked ELSE 0)
      /\ armed' = (IF StillArmed(m) THEN armed ELSE NotArmed)
      /\ UNCHANGED <<live, profile, child>>
  BY DEF Reported, Message
<1>2. /\ m \in StatusType /\ Told /\ m.generation <= child.reported.generation
      /\ child.reported.generation \in Nat /\ native \in Nat /\ child.shown \in Nat
      /\ child.reported.generation <= child.shown
  BY <1>1, HeadStatus
<1>3. PICK g \in Nat : g = m.generation
  BY <1>2 DEF StatusType
<1>4. native <= g /\ g <= child.reported.generation /\ g <= child.shown
  BY <1>1, <1>2, <1>3 DEF Obsolete
<1>5. PICK s \in Seq(MessageType) : s = messages
  BY DEF TypeInv, WorkerOK
<1>6. ToSet(Tail(s)) \subseteq ToSet(s)
  BY <1>1, <1>5, RemainingElements
<1>7. StillArmed(m) => IsArmed /\ g = native /\ m.input
  BY <1>3 DEF StillArmed, Regenerates, Lost
<1>8. IsArmed' => StillArmed(m) /\ armed' = armed
  BY <1>1 DEF IsArmed
<1>9. ArmDue(m) => ~IsArmed'
  BY <1>1 DEF ArmDue, StillArmed, IsArmed
<1>11. \/ /\ ArmDue(m)
          /\ commands' = Append(cs, [kind |-> "arm", generation |-> m.generation])
          /\ arm' = <<m.generation, Current(m)>>
       \/ ~ArmDue(m) /\ arm' = (IF Regenerates(m) THEN NoArm ELSE arm) /\ commands' = cs
  BY DEF Reported
<1>12. PICK e \in CommandType : e = [kind |-> "arm", generation |-> g]
  BY DEF CommandType
<1>13. e.kind = "arm" /\ e.generation = g
  BY <1>12
<1>14. commands' = cs \/ (ArmDue(m) /\ commands' = Append(cs, e) /\ arm'[1] = g)
  BY <1>3, <1>5, <1>11, <1>12
<1>15. Generations'
  BY <1>1, <1>2, <1>3, <1>4 DEF Lines, Generations, Told
<1>16. Bounded(messages', child'.reported)
  BY <1>1, <1>5, <1>6 DEF Lines, Bounded
<1>17. Follows(messages', child'.reported, armed', native')
  <2>1. PICK r, ar, n, ar2 : r = child.reported /\ ar = armed /\ n = native /\ ar2 = armed'
    OBVIOUS
  <2>2. Follows(s, r, ar, n)
    BY <1>5, <2>1 DEF Lines
  <2>3. (ar2 # NotArmed /\ Quiet(s, "status", 1)) => Serves(r, g)
    <3>1. ASSUME ar2 # NotArmed, Quiet(s, "status", 1)
          PROVE  Serves(r, g)
      <4>1. m = child.reported
        BY <1>1, <1>5, <3>1, TakenStatus
      <4>2. m.input
        BY <1>7, <1>8, <2>1, <3>1 DEF IsArmed
      <4>3. QED
        BY <1>1, <1>3, <2>1, <4>1, <4>2 DEF Serves
    <3>2. QED
      BY <3>1
  <2>4. Follows(Tail(s), r, ar2, g)
    BY <1>1, <1>5, <2>2, <2>3, FollowsLeft
  <2>5. QED
    BY <1>1, <1>3, <1>5, <2>1, <2>4
<1>18. Early(commands', messages', native')
  <2>1. \A c \in ToSet(commands') : c.kind = "arm" => c.generation <= g
    <3>1. ToSet(Append(cs, e)) = ToSet(cs) \cup {e}
      BY AppendedElements
    <3>2. \A c \in ToSet(cs) : c.kind = "arm" => c.generation \in Nat /\ c.generation <= native
      <4>1. \A c \in CommandType : c.kind = "arm" => c.generation \in Nat
        BY DEF CommandType, MediaType
      <4>2. QED
        BY <4>1, ElementTypes DEF Unread
    <3>3. \A c \in ToSet(commands') : c \in ToSet(cs) \/ c = e
      BY <1>14, <3>1
    <3>4. QED
      BY <1>2, <1>4, <1>13, <3>2, <3>3
  <2>2. \A x \in ToSet(messages') : Accepted(x) => x.generation <= g
    <3>1. \A x \in ToSet(s) : Accepted(x) => x.generation \in Nat /\ x.generation <= native
      <4>1. \A x \in MessageType : Accepted(x) => x.generation \in Nat
        BY DEF MessageType, StatusType, Accepted
      <4>2. QED
        BY <1>5, <4>1, ElementTypes DEF Lines, Early
    <3>2. QED
      BY <1>1, <1>2, <1>4, <1>5, <1>6, <3>1
  <2>3. QED
    BY <1>1, <1>3, <2>1, <2>2 DEF Early
<1>19. Mapped'
  <2>1. (IsArmed' /\ native' = child.generation) => child.mapping
    BY <1>1, <1>3, <1>7, <1>8 DEF Lines, Mapped
  <2>2. \A x \in ToSet(messages') : (Accepted(x) /\ x.generation = child.generation) => child.mapping
    BY <1>1, <1>5, <1>6 DEF Lines, Mapped
  <2>3. QED
    BY <1>1, <2>1, <2>2 DEF Mapped
<1>20. ArmIsNative'
  BY <1>1, <1>3, <1>11 DEF Lines, ArmIsNative, Regenerates
<1>21. ASSUME live
       PROVE  Routing'
  <2>1. /\ Routed(cs, child.profile, profile)
        /\ IsArmed => Quiet(cs, "set_profile", 0)
        /\ (arm = NoArm /\ blocked = native) \/ Fenced(cs, messages, native)
    BY <1>21 DEF Unread
  <2>2. Routed(commands', child'.profile, profile')
    <3>1. Routed(cs, child.profile, profile) => Routed(Append(cs, e), child.profile, profile)
      BY <1>13, RoutedOther
    <3>2. QED
      BY <1>1, <1>14, <2>1, <3>1
  <2>3. IsArmed' => Quiet(commands', "set_profile", 0)
    BY <1>7, <1>8, <1>9, <1>14, <2>1
  <2>4. (arm = NoArm /\ blocked = native)' \/ Fenced(commands', messages', native')
    <3>1. Fenced(cs, messages', g) => Fenced(commands', messages', native')
      <4>1. \A s2 : Fenced(cs, s2, g) => Fenced(Append(cs, e), s2, g)
        BY <1>13, FencedAppended
      <4>2. QED
        BY <1>1, <1>3, <1>14, <4>1
    <3>2. Fenced(cs, s, g) => Fenced(cs, messages', g)
      BY <1>1, <1>5, <1>6 DEF Fenced
    <3>3. CASE g # native
      <4>1. PICK n \in Nat : n = native
        BY <1>2
      <4>2. Early(cs, s, n) /\ n < g
        BY <1>4, <1>5, <3>3, <4>1 DEF Lines, Early, Unread
      <4>3. Fenced(cs, s, g)
        BY <4>2, FencedLater
      <4>4. QED
        BY <3>1, <3>2, <4>3
    <3>4. CASE g = native
      <4>1. CASE Fenced(cs, messages, native)
        BY <1>5, <3>1, <3>2, <3>4, <4>1
      <4>2. CASE arm = NoArm /\ blocked = native
        <5>1. ~ArmDue(m) /\ ~Regenerates(m)
          BY <1>3, <3>4, <4>2 DEF ArmDue, Unblocked, Regenerates
        <5>2. arm' = arm /\ blocked' = blocked /\ native' = native
          BY <1>1, <1>3, <1>11, <3>4, <4>2, <5>1
        <5>3. QED
          BY <4>2, <5>2 DEF NoArm
      <4>3. QED
        BY <2>1, <4>1, <4>2
    <3>5. QED
      BY <3>3, <3>4
  <2>5. QED
    BY <2>2, <2>3, <2>4 DEF Routing
<1>22. QED
  BY <1>1, <1>15, <1>16, <1>17, <1>18, <1>19, <1>20, <1>21 DEF PipeInv, Lines

LEMMA StatusLines ==
  ASSUME TypeInv, PipeInv, Status
  PROVE  PipeInv'
<1>1. /\ Message("status") /\ ~Obsolete(Head(messages)) /\ messages' = Tail(messages)
      /\ UNCHANGED <<live, profile, child>> /\ phase \notin Over
  BY DEF Status, Message, Over
<1>2. CASE ~child.alive
  BY <1>1, <1>2 DEF PipeInv, Serving
<1>3. CASE phase' = "failed"
  BY <1>3 DEF PipeInv, Serving, Over
<1>4. CASE child.alive /\ phase' # "failed"
  <2>1. Lines
    BY <1>1, <1>4 DEF PipeInv, Serving
  <2>2. PICK cs \in Seq(CommandType) : cs = commands
    BY DEF TypeInv, WorkerOK
  <2>3. Unread(cs)
    BY <2>1, <2>2 DEF Unread, Lines, Early, Routing
  <2>4. PICK cs2 \in Seq(CommandType) : cs2 = Append(cs, NativeRequest) /\ Unread(cs2)
    BY <2>3, UnreadRequest
  <2>5. Reported(Head(messages), cs) \/ Reported(Head(messages), cs2)
    BY <1>4, <2>2, <2>4, StatusCases
  <2>6. Lines'
    BY <1>1, <1>4, <2>1, <2>3, <2>4, <2>5, ReportedLines
  <2>7. QED
    BY <2>6 DEF PipeInv
<1>5. QED
  BY <1>2, <1>3, <1>4

LEMMA SupervisorLines ==
  ASSUME TypeInv, PipeInv, Supervisor
  PROVE  PipeInv'
<1>0. /\ link' \in {link', link} /\ publish \in BOOLEAN /\ selected \in Receivers
      /\ remembered \in Receivers /\ None \in Receivers
      /\ "media" \in Profiles /\ Desired \in Profiles /\ TRUE \in BOOLEAN
  BY DEF TypeInv, StateOK, Receivers, Profiles, Desired
\* Whoever goes on after the step did so before it.
<1>1. ASSUME UNCHANGED child, phase' \in Over \/ phase \notin Over, Lines => Lines'
      PROVE  PipeInv'
  BY <1>1 DEF PipeInv, Serving
<1>2. CASE Select
  <2>1. (Head(control).target # None) \in BOOLEAN /\ Head(control).target \in Receivers
    BY <1>2 DEF Select, Command, TypeInv, CallsOK, CallType
  <2>2. PICK t \in Receivers, pub \in BOOLEAN : t = Head(control).target /\ pub = (t # None)
    BY <2>1
  <2>3. Replace(Ended(link), "media", pub, t, None, "control", "failed")
    BY <1>2, <2>2 DEF Select
  <2>4. QED
    BY <1>0, <2>3, ReplaceLines
<1>3. CASE Restart
  <2>1. Replace(Ended(link), "media", TRUE, None, None, "control", "failed")
    BY <1>3 DEF Restart
  <2>2. QED
    BY <1>0, <2>1, ReplaceLines
<1>4. CASE SwitchWorker
  <2>1. Replace(link, Desired, publish, selected, remembered, "messages", "failed")
    BY <1>4 DEF SwitchWorker
  <2>2. PICK p \in Profiles, pub \in BOOLEAN, sel \in Receivers, rem \in Receivers :
          p = Desired /\ pub = publish /\ sel = selected /\ rem = remembered
    BY <1>0
  <2>3. Replace(link, p, pub, sel, rem, "messages", "failed")
    BY <2>1, <2>2
  <2>4. QED
    BY <2>3, ReplaceLines
<1>5. CASE Stalls \/ FallBack
  <2>1. PICK failed \in {"failed", "finishing"} :
          Replace(Ended(link), "media", publish, selected, remembered, NextStep, failed)
    BY <1>5 DEF Stalls, FallBack
  <2>2. PICK pub \in BOOLEAN, sel \in Receivers, rem \in Receivers :
          pub = publish /\ sel = selected /\ rem = remembered
    BY <1>0
  <2>3. Replace(Ended(link), "media", pub, sel, rem, NextStep, failed)
    BY <2>1, <2>2
  <2>4. QED
    BY <1>0, <2>3, ReplaceLines
<1>6. CASE SwitchInPlace
  BY <1>6, SwitchLines
<1>7. CASE Armed
  BY <1>7, ArmedLines
<1>8. CASE Status
  BY <1>8, StatusLines
<1>9. CASE Invalidate
  <2>1. UNCHANGED <<native, child, messages, armed, arm, live, profile>> /\ blocked' = native
          /\ phase \notin Over
    BY <1>9 DEF Invalidate, Command, intent, Over
  <2>2. CASE CanSend
    <3>1. PICK e \in CommandType : e = [kind |-> "invalidate"]
      BY DEF CommandType
    <3>2. commands' = Append(commands, e) /\ e.kind = "invalidate"
      BY <1>9, <2>2, <3>1 DEF Invalidate
    <3>3. Lines => Lines'
      BY <2>1, <3>2, SentLines
    <3>4. QED
      BY <1>1, <2>1, <3>3
  <2>3. CASE ~CanSend
    <3>1. UNCHANGED commands
      BY <1>9, <2>3 DEF Invalidate
    <3>2. Lines => Lines'
      BY <2>1, <3>1, KeptLines
    <3>3. QED
      BY <1>1, <2>1, <3>2
  <2>4. QED
    BY <2>2, <2>3
<1>10. CASE SendMedia
  <2>1. UNCHANGED <<native, child, messages, armed, arm, live, profile, blocked>>
          /\ phase \notin Over /\ control # << >> /\ Head(control).kind = "send"
    BY <1>10 DEF SendMedia, Command, intent, session, Over
  <2>2. CASE UNCHANGED commands
    <3>1. Lines => Lines'
      BY <2>1, <2>2, KeptLines
    <3>2. QED
      BY <1>1, <2>1, <3>1
  <2>3. CASE commands' = Append(commands, [kind |-> "media", id |-> NextId,
                                          call |-> Head(control).call, generation |-> native])
    <3>1. Head(control) \in CallType /\ NextId \in Nat /\ native \in Nat
      BY <2>1 DEF TypeInv, CallsOK, ReceiptsOK, StateOK, NextId
    <3>2. PICK call \in Calls, id \in Nat, n \in Nat :
            call = Head(control).call /\ id = NextId /\ n = native
      BY <2>1, <3>1 DEF CallType
    <3>3. PICK e \in CommandType : e = [kind |-> "media", id |-> id, call |-> call, generation |-> n]
      BY DEF CommandType, MediaType
    <3>4. commands' = Append(commands, e) /\ e.kind = "media"
      BY <2>3, <3>2, <3>3
    <3>5. Lines => Lines'
      BY <2>1, <3>4, SentLines
    <3>6. QED
      BY <1>1, <2>1, <3>5
  <2>4. QED
    BY <1>10, <2>2, <2>3 DEF SendMedia
<1>11. CASE Forward
  <2>1. UNCHANGED <<native, child, messages, armed, arm, live, profile, blocked>>
          /\ phase \notin Over /\ link.packets # << >>
    BY <1>11 DEF Forward, intent, session, Over
  <2>2. CASE UNCHANGED commands
    <3>1. Lines => Lines'
      BY <2>1, <2>2, KeptLines
    <3>2. QED
      BY <1>1, <2>1, <3>1
  <2>3. CASE commands' = Append(commands, [kind |-> "input", generation |-> native,
                                          session |-> Head(link.packets).session])
    <3>1. Head(link.packets) \in PacketType /\ native \in Nat
      BY <2>1 DEF TypeInv, LinkOK, StateOK, IsLink, LinkType
    <3>2. PICK x \in Nat \X Nat, n \in Nat : x = Head(link.packets).session /\ n = native
      BY <3>1 DEF PacketType
    <3>3. PICK e \in CommandType : e = [kind |-> "input", generation |-> n, session |-> x]
      BY DEF CommandType
    <3>4. commands' = Append(commands, e) /\ e.kind = "input"
      BY <2>3, <3>2, <3>3
    <3>5. Lines => Lines'
      BY <2>1, <3>4, SentLines
    <3>6. QED
      BY <1>1, <2>1, <3>5
  <2>4. QED
    BY <1>11, <2>2, <2>3 DEF Forward
<1>12. CASE Reply \/ Failure \/ StatusIgnored
  <2>1. /\ UNCHANGED <<native, child, commands, armed, arm, live, profile, blocked, phase>>
        /\ phase \notin Over /\ messages # << >> /\ messages' = Tail(messages)
        /\ \/ Head(messages).kind # "status"
           \/ Head(messages).kind = "status" /\ Obsolete(Head(messages))
    BY <1>12 DEF Reply, Failure, StatusIgnored, Message, shared, intent, session, worker, Over
  <2>2. ASSUME Lines, IsArmed, Quiet(messages, "status", 1)
        PROVE  Serves(child.reported, native)
    <3>1. CASE Head(messages).kind # "status"
      BY <2>1, <2>2, <3>1, TakenOther
    <3>2. CASE Head(messages).kind = "status" /\ Obsolete(Head(messages))
      <4>1. Head(messages) = child.reported
        BY <2>1, <2>2, <3>2, TakenStatus
      <4>2. /\ child.reported.generation \in Nat /\ native \in Nat /\ Told
            /\ native <= child.reported.generation
        BY <2>1, <2>2, <3>2, HeadStatus
      <4>3. live /\ child.reported.profile # profile
        BY <3>2, <4>1, <4>2 DEF Obsolete
      <4>4. child.reported.profile = child.profile
        BY <2>2, <4>2 DEF Lines, Generations
      <4>5. child.profile = profile
        BY <2>2, <4>3 DEF Lines, Routing, Routed
      <4>6. QED
        BY <4>3, <4>4, <4>5
    <3>3. QED
      BY <2>1, <3>1, <3>2
  <2>3. Lines => Lines'
    BY <2>1, <2>2, TakenLines
  <2>4. QED
    BY <1>1, <2>1, <2>3
<1>13. CASE \/ KeepProfile \/ Granting \/ Exited \/ MessagesDone \/ PairingExpires
            \/ SwitchExpires \/ TooOld \/ Expire \/ StepDone \/ GiveUp
  <2>1. /\ UNCHANGED <<native, child, messages, commands, armed, arm, live, profile, blocked>>
        /\ phase' \in Over \/ phase \notin Over
    BY <1>13 DEF KeepProfile, Granting, Exited, MessagesDone, PairingExpires,
       SwitchExpires, TooOld, Expire, StepDone, GiveUp, shared, intent, session, worker, Over
  <2>2. Lines => Lines'
    BY <2>1, KeptLines
  <2>3. QED
    BY <1>1, <2>1, <2>2
<1>14. CASE Finish
  <2>1. child' = NoChild
    BY <1>14 DEF Finish
  <2>2. QED
    BY <2>1 DEF PipeInv, Serving, NoChild
<1>15. CASE RefreshTargets \/ PairTarget
  <2>1. /\ UNCHANGED <<native, child, messages, armed, arm, live, profile, blocked>>
        /\ phase \notin Over
    BY <1>15 DEF RefreshTargets, PairTarget, Command, intent, session, Over
  <2>2. CASE UNCHANGED commands
    <3>1. Lines => Lines'
      BY <2>1, <2>2, KeptLines
    <3>2. QED
      BY <1>1, <2>1, <3>1
  <2>3. CASE commands' = Append(commands, NativeRequest)
    <3>1. Lines => Lines'
      BY <2>1, <2>3, NativeRequestType, SentLines
    <3>2. QED
      BY <1>1, <2>1, <3>1
  <2>4. QED
    BY <1>15, <2>2, <2>3, RequestedCommand
<1>16. QED
  BY <1>2, <1>3, <1>4, <1>5, <1>6, <1>7, <1>8, <1>9, <1>10, <1>11, <1>12, <1>13, <1>14, <1>15
     DEF Supervisor

\* When everything has been read, the last report is the state of the worker.
LEMMA LinesAgree ==
  ASSUME TypeInv, PipeInv
  PROVE  SettledAgreement
<1> SUFFICES ASSUME Settled, IsArmed
             PROVE  native = child.generation /\ child.mapping /\ child.admitted
  BY DEF SettledAgreement
<1>1. Lines
  BY DEF Settled, PipeInv, Serving
<1>2. Quiet(messages, "status", 0)
  BY DEF Settled, Quiet
<1>3. child.reported.generation = native /\ child.reported.input
  BY <1>1, <1>2 DEF Lines, Follows, Serves, IsArmed
<1>4. native = child.generation /\ child.admitted
  BY <1>3 DEF Settled, StatusOf
<1>5. QED
  BY <1>1, <1>4 DEF Lines, Mapped

LEMMA InitLines == Init => PipeInv
<1> SUFFICES ASSUME Init
             PROVE  PipeInv
  OBVIOUS
<1>1. PICK target \in Receivers : target = remembered
  BY BoundsAssumption DEF Init, Receivers
<1>2. PICK p \in Profiles, pub \in BOOLEAN : p = "media" /\ pub = TRUE
  BY DEF Profiles
<1>3. child = Fresh(p, pub, target)
  BY <1>1, <1>2 DEF Init
<1>4. /\ child.profile = "media" /\ child.generation = 1 /\ child.shown = 1
      /\ child.reported = NoStatus
  BY <1>2, <1>3, FreshType
<1>5. native = 0 /\ arm = NoArm /\ armed = NotArmed /\ profile = "media"
        /\ commands = << >> /\ messages = << >>
  BY DEF Init
<1>6. Generations
  BY <1>4, <1>5 DEF Generations, Told, NoStatus
<1>7. ToSet(commands) = {} /\ ToSet(messages) = {} /\ DOMAIN commands = {} /\ DOMAIN messages = {}
  BY <1>5, NoElements
<1>8. /\ Bounded(messages, child.reported) /\ Follows(messages, child.reported, armed, native)
      /\ Early(commands, messages, native) /\ Mapped /\ ArmIsNative
  BY <1>5, <1>7 DEF Bounded, Follows, Early, Mapped, IsArmed, ArmIsNative
<1>9. Routing
  BY <1>4, <1>5, <1>7 DEF Routing, Routed, Fenced, IsArmed
<1>10. QED
  BY <1>6, <1>8, <1>9 DEF PipeInv, Lines

(***************************************************************************)
(* A supervisor that is armed agrees with its worker as soon as nothing is *)
(* under way between them: for any number of receivers, workers, commands  *)
(* and messages, and on both platforms.  No loss of input, no revocation   *)
(* and no change of the profile can leave the supervisor forwarding input  *)
(* to a worker that will not take it.                                      *)
(***************************************************************************)
THEOREM SupervisorAgreesWithWorker == Spec => []SettledAgreement
<1> DEFINE Inv == TypeInv /\ PipeInv
<1>1. Init => Inv
  BY InitType, InitLines
<1>2. ASSUME Inv, [Next]_vars
      PROVE  Inv'
  <2>1. TypeInv'
    BY <1>2, NextType
  <2>2. CASE Input \/ SetMappingProfile \/ Runtime \/ UNCHANGED vars
    <3>1. UNCHANGED <<native, child, messages, commands, armed, arm, live, profile, blocked, phase>>
      BY <2>2 DEF Input, SetMappingProfile, Runtime, vars, shared, intent, session, worker
    <3>2. Lines => Lines'
      BY <3>1, KeptLines
    <3>3. QED
      BY <1>2, <2>1, <3>1, <3>2 DEF PipeInv, Serving
  <2>3. CASE Supervisor
    BY <1>2, <2>1, <2>3, SupervisorLines
  <2>4. CASE Worker
    BY <1>2, <2>1, <2>4, WorkerLines
  <2>5. QED
    BY <1>2, <2>2, <2>3, <2>4 DEF Next
<1>3. Inv => SettledAgreement
  BY LinesAgree
<1>4. QED
  BY <1>1, <1>2, <1>3, PTL DEF Spec

-----------------------------------------------------------------------------
(* The input thread.                                                        *)

(***************************************************************************)
(* AdmissionIsArmed is inductive once it is known that an admission is     *)
(* never of a later revision (or a change would open an old one), and that *)
(* a grant is under way only while the worker is armed.                    *)
(***************************************************************************)
HasAdmission(l) ==
  /\ {"mode", "granted"} \subseteq DOMAIN l
  /\ l.mode \in {"revoked", "ready", "active"}
  /\ l.granted \in Nat

Open(l) == l.mode # "revoked" /\ l.granted = revision

AdmissionInv ==
  /\ revision \in Nat \ {0}
  /\ HasAdmission(link) /\ link.granted <= revision
  /\ phase = "granting" => IsArmed
  /\ Open(link) => IsArmed

\* What the calls of InputLink do to mode and granted
LEMMA RevokedLink ==
  ASSUME NEW l, HasAdmission(l)
  PROVE  HasAdmission(Revoked(l)) /\ Revoked(l).mode = "revoked" /\ Revoked(l).granted = l.granted
BY DEF HasAdmission, Revoked

LEMMA UnmappedLink ==
  ASSUME NEW l, HasAdmission(l)
  PROVE  HasAdmission(Unmapped(l)) /\ Unmapped(l).mode = l.mode /\ Unmapped(l).granted = l.granted
BY DEF HasAdmission, Unmapped

LEMMA UnrequestedLink ==
  ASSUME NEW l, HasAdmission(l)
  PROVE  HasAdmission(Unrequested(l)) /\ Unrequested(l).granted = l.granted
BY DEF HasAdmission, Unrequested

LEMMA EndedLink ==
  ASSUME NEW l, HasAdmission(l)
  PROVE  HasAdmission(Ended(l)) /\ Ended(l).mode = "revoked" /\ Ended(l).granted = l.granted
<1> DEFINE left == IF ~Active(l) \/ l.mapping = 0 THEN l
                   ELSE IF Len(l.packets) < InputCapacity
                     THEN [l EXCEPT !.packets = Append(@, Packet(l.mapping))]
                     ELSE Unmapped(l)
<1>1. HasAdmission(left) /\ left.granted = l.granted
  BY UnmappedLink DEF HasAdmission
<1>2. Ended(l) = Revoked(Unrequested(left))
  BY DEF Ended
<1> HIDE DEF left
<1>3. QED
  BY <1>1, <1>2, UnrequestedLink, RevokedLink

LEMMA GrantedLink ==
  ASSUME NEW l, HasAdmission(l), revision \in Nat, l.granted <= revision
  PROVE  HasAdmission(Granted(l)) /\ Granted(l).granted <= revision
BY DEF HasAdmission, Granted

\* What a step may do to the admission: close it, or keep it with its arm.
LEMMA ClosedAdmission ==
  ASSUME AdmissionInv, HasAdmission(link'), link'.mode = "revoked", link'.granted = link.granted,
         revision' \in {revision, revision + 1},
         phase' = "granting" => phase = "granting" /\ UNCHANGED armed
  PROVE  AdmissionInv'
BY DEF AdmissionInv, HasAdmission, Open, IsArmed

LEMMA KeptAdmission ==
  ASSUME AdmissionInv, HasAdmission(link'), link'.granted = link.granted,
         link'.mode # "revoked" => link.mode # "revoked",
         UNCHANGED <<revision, armed>>, phase' = "granting" => phase = "granting"
  PROVE  AdmissionInv'
BY DEF AdmissionInv, HasAdmission, Open, IsArmed

\* The input thread closes admissions, or starts a capture in an open one.
LEMMA InputAdmission ==
  ASSUME AdmissionInv, Input \/ SetMappingProfile
  PROVE  AdmissionInv'
<1>1. /\ UNCHANGED <<revision, armed, phase>>
      /\ HasAdmission(link') /\ link'.granted = link.granted
      /\ link'.mode # "revoked" => link.mode # "revoked"
  <2>0. HasAdmission(link)
    BY DEF AdmissionInv
  <2>1. CASE BeginCapture /\ Input
    BY <2>0, <2>1 DEF BeginCapture, Ready, HasAdmission, Input, session
  <2>2. CASE EndCapture /\ Input
    BY <2>0, <2>2, EndedLink DEF EndCapture, Input, session
  <2>3. CASE RequestProfile /\ Input
    BY <2>0, <2>3 DEF RequestProfile, HasAdmission, Input, session
  <2>4. CASE SubmitCapture /\ Input
    <3>1. link' = [link EXCEPT !.packets = Append(@, Packet(0))] \/ link' = Ended(link)
      BY <2>4 DEF SubmitCapture
    <3>2. UNCHANGED <<revision, armed, phase>>
      BY <2>4 DEF Input, session
    <3>3. QED
      BY <2>0, <3>1, <3>2, EndedLink DEF HasAdmission
  <2>5. CASE SubmitMapping /\ Input
    <3>1. \/ link' = [link EXCEPT !.packets = Append(@, Packet(link.mapping))]
          \/ link' = Ended(Unmapped(link))
      BY <2>5 DEF SubmitMapping
    <3>2. UNCHANGED <<revision, armed, phase>>
      BY <2>5 DEF Input, session
    <3>3. QED
      BY <2>0, <3>1, <3>2, EndedLink, UnmappedLink DEF HasAdmission
  <2>6. CASE SetMappingProfile
    <3>1. \/ link' = Unmapped(link)
          \/ link' = [link EXCEPT !.mapping = link.sessions + 1, !.sessions = @ + 1]
      BY <2>6 DEF SetMappingProfile
    <3>2. UNCHANGED <<revision, armed, phase>>
      BY <2>6 DEF SetMappingProfile, session
    <3>3. QED
      BY <2>0, <3>1, <3>2, UnmappedLink DEF HasAdmission
  <2>7. QED
    BY <2>1, <2>2, <2>3, <2>4, <2>5, <2>6 DEF Input
<1>2. QED
  BY <1>1 DEF AdmissionInv, Open, IsArmed

\* The runtime changes the revision only after it has closed the admission.
LEMMA RuntimeAdmission ==
  ASSUME AdmissionInv, Runtime
  PROVE  AdmissionInv'
<1>1. UNCHANGED <<armed, phase>>
  BY DEF Runtime, session
<1>2. \/ link' = Ended(link) /\ revision' \in {revision, revision + 1}
      \/ UNCHANGED <<link, revision>>
  BY DEF Runtime, Change, Enqueue, Ask, Send, Drop
<1>3. HasAdmission(link)
  BY DEF AdmissionInv
<1>4. CASE link' = Ended(link) /\ revision' \in {revision, revision + 1}
  BY <1>1, <1>3, <1>4, EndedLink, ClosedAdmission
<1>5. CASE UNCHANGED <<link, revision>>
  BY <1>1, <1>3, <1>5, KeptAdmission
<1>6. QED
  BY <1>2, <1>4, <1>5

LEMMA WorkerAdmission ==
  ASSUME AdmissionInv, Worker
  PROVE  AdmissionInv'
BY DEF Worker, shared, session, AdmissionInv, Open, IsArmed, HasAdmission

\* A replacement closes the admission with the arm.
LEMMA ReplaceAdmission ==
  ASSUME AdmissionInv, NEW l, HasAdmission(l), l.granted = link.granted,
         NEW p, NEW pub, NEW sel, NEW rem, NEW next, NEW failed,
         next # "granting", failed # "granting",
         Replace(l, p, pub, sel, rem, next, failed)
  PROVE  AdmissionInv'
<1>1. /\ link' = [Revoked(l) EXCEPT !.available = FALSE]
      /\ revision' = revision + 1
  BY DEF Replace
<1>2. phase' \in {next, failed}
  BY DEF Replace, Exchange
<1>3. HasAdmission(link') /\ link'.mode = "revoked" /\ link'.granted = link.granted
  BY <1>1, RevokedLink DEF HasAdmission
<1>4. QED
  BY <1>1, <1>2, <1>3, ClosedAdmission

LEMMA ControlAdmission ==
  ASSUME AdmissionInv, Select \/ Restart \/ Invalidate \/ RefreshTargets \/ PairTarget \/ SendMedia
  PROVE  AdmissionInv'
<1>0. HasAdmission(link) /\ HasAdmission(Ended(link)) /\ Ended(link).mode = "revoked"
        /\ Ended(link).granted = link.granted
  BY EndedLink DEF AdmissionInv
<1>1. CASE Select
  BY <1>0, <1>1, ReplaceAdmission DEF Select
<1>2. CASE Restart
  BY <1>0, <1>2, ReplaceAdmission DEF Restart
<1>3. CASE Invalidate
  <2>1. link' = Announced(Ended(link), FALSE) \/ link' = Ended(link)
    BY <1>3 DEF Invalidate
  <2>2. HasAdmission(link') /\ link'.mode = "revoked" /\ link'.granted = link.granted
    BY <1>0, <2>1 DEF Announced, HasAdmission
  <2>3. UNCHANGED <<revision, armed>> /\ phase' # "granting"
    BY <1>3 DEF Invalidate, Command
  <2>4. QED
    BY <2>2, <2>3, ClosedAdmission
<1>4. CASE RefreshTargets \/ PairTarget \/ SendMedia
  <2>1. UNCHANGED <<link, revision, armed>> /\ phase' # "granting"
    BY <1>4 DEF RefreshTargets, PairTarget, Requests, SendMedia, Command, session
  <2>2. QED
    BY <2>1 DEF AdmissionInv, Open, IsArmed, HasAdmission
<1>5. QED
  BY <1>1, <1>2, <1>3, <1>4

LEMMA ProfileAdmission ==
  ASSUME AdmissionInv, SwitchInPlace \/ SwitchWorker \/ KeepProfile
  PROVE  AdmissionInv'
<1>0. HasAdmission(link)
  BY DEF AdmissionInv
<1>1. CASE SwitchInPlace
  <2>1. /\ link' = [Revoked(link) EXCEPT !.available = FALSE]
        /\ revision' = revision + 1 /\ phase' # "granting"
    BY <1>1 DEF SwitchInPlace
  <2>2. HasAdmission(link') /\ link'.mode = "revoked" /\ link'.granted = link.granted
    BY <1>0, <2>1, RevokedLink DEF HasAdmission
  <2>3. QED
    BY <2>1, <2>2, ClosedAdmission
<1>2. CASE SwitchWorker
  BY <1>0, <1>2, ReplaceAdmission DEF SwitchWorker
<1>3. CASE KeepProfile
  <2>1. UNCHANGED <<link, revision, armed>> /\ phase' # "granting"
    BY <1>3 DEF KeepProfile, shared, session
  <2>2. QED
    BY <2>1 DEF AdmissionInv, Open, IsArmed, HasAdmission
<1>4. QED
  BY <1>1, <1>2, <1>3

\* A status closes the admission whenever it takes the arm away.
LEMMA StatusAdmission ==
  ASSUME AdmissionInv, Status
  PROVE  AdmissionInv'
<1>0. HasAdmission(link)
  BY DEF AdmissionInv
<1>1. CASE phase' = "failed" /\ UNCHANGED <<link, revision, armed>>
  BY <1>0, <1>1, KeptAdmission
<1>2. ASSUME NEW m, NEW cs, Reported(m, cs)
      PROVE  AdmissionInv'
  <2>1. /\ revision' = Current(m)
        /\ armed' = IF StillArmed(m) THEN armed ELSE NotArmed
        /\ phase' # "granting"
    BY <1>2, ReportedCases DEF Published
  <2>2. /\ link'.mode = AfterStatus(m).mode /\ link'.granted = AfterStatus(m).granted
        /\ HasAdmission(link')
    <3>1. link' = AfterStatus(m) \/ \E a : link' = [AfterStatus(m) EXCEPT !.available = a]
      BY <1>2, ReportedCases DEF Published
    <3>2. HasAdmission(AfterStatus(m))
      BY <1>0, EndedLink, RevokedLink DEF AfterStatus
    <3>3. QED
      BY <3>1, <3>2 DEF HasAdmission
  <2>3. CASE Regenerates(m) \/ Lost(m)
    <3>1. AfterStatus(m).mode = "revoked" /\ AfterStatus(m).granted = link.granted
      BY <1>0, <2>3, EndedLink, RevokedLink DEF AfterStatus
    <3>2. QED
      BY <2>1, <2>2, <3>1, ClosedAdmission DEF Current
  <2>4. CASE ~Regenerates(m) /\ ~Lost(m)
    <3>1. AfterStatus(m) = link /\ UNCHANGED <<revision, armed>>
      BY <2>1, <2>4 DEF AfterStatus, Current, StillArmed, IsArmed
    <3>2. QED
      BY <2>1, <2>2, <3>1, KeptAdmission
  <2>5. QED
    BY <2>3, <2>4
<1>3. QED
  BY <1>1, <1>2, StatusCases

\* An admission is granted to a worker that is armed, and only then.
LEMMA GrantAdmission ==
  ASSUME AdmissionInv, Armed \/ Granting \/ MessagesDone
  PROVE  AdmissionInv'
<1>0. /\ HasAdmission(link) /\ link.granted <= revision /\ revision \in Nat \ {0}
      /\ HasAdmission(Granted(link)) /\ Granted(link).granted <= revision
  BY GrantedLink DEF AdmissionInv
<1>1. CASE Armed
  <2>1. /\ UNCHANGED <<link, revision>>
        /\ \/ UNCHANGED <<armed, phase>>
           \/ armed' = revision /\ phase' = "granting"
    BY <1>1 DEF Armed, shared
  <2>2. CASE UNCHANGED <<armed, phase>>
    BY <1>0, <2>1, <2>2, KeptAdmission
  <2>3. CASE armed' = revision /\ phase' = "granting"
    BY <1>0, <2>1, <2>3 DEF AdmissionInv, HasAdmission, Open, IsArmed, NotArmed
  <2>4. QED
    BY <2>1, <2>2, <2>3
<1>2. CASE Granting
  <2>1. /\ UNCHANGED <<revision, armed>> /\ phase' = "messages" /\ IsArmed
        /\ \E a : link' = [Granted(link) EXCEPT !.available = a]
    BY <1>2 DEF Granting, AdmissionInv
  <2>2. HasAdmission(link') /\ link'.granted <= revision
    BY <1>0, <2>1 DEF HasAdmission
  <2>3. QED
    BY <1>0, <2>1, <2>2 DEF AdmissionInv, HasAdmission, Open, IsArmed
<1>3. CASE MessagesDone
  <2>1. /\ UNCHANGED <<revision, armed>> /\ phase' = "rest"
        /\ link' = link \/ (IsArmed /\ link' = Granted(link))
    BY <1>3 DEF MessagesDone, session
  <2>2. CASE link' = link
    BY <1>0, <2>1, <2>2, KeptAdmission
  <2>3. CASE IsArmed /\ link' = Granted(link)
    BY <1>0, <2>1, <2>3 DEF AdmissionInv, HasAdmission, Open, IsArmed
  <2>4. QED
    BY <2>1, <2>2, <2>3
<1>4. QED
  BY <1>1, <1>2, <1>3

LEMMA MessageAdmission ==
  ASSUME AdmissionInv, StatusIgnored \/ Reply \/ Failure \/ Exited
  PROVE  AdmissionInv'
<1>0. HasAdmission(link) /\ HasAdmission(Ended(link)) /\ Ended(link).mode = "revoked"
        /\ Ended(link).granted = link.granted
  BY EndedLink DEF AdmissionInv
<1>1. CASE StatusIgnored \/ Reply \/ Exited
  <2>1. UNCHANGED <<link, revision, armed>> /\ phase' # "granting"
    BY <1>1 DEF StatusIgnored, Reply, Exited, Message, shared, session
  <2>2. QED
    BY <1>0, <2>1, KeptAdmission
<1>2. CASE Failure
  <2>1. link' = Ended(link) /\ UNCHANGED <<revision, armed, phase>>
    BY <1>2 DEF Failure, session
  <2>2. QED
    BY <1>0, <2>1, KeptAdmission
<1>3. QED
  BY <1>1, <1>2

\* The rest of a step, and its end.
LEMMA RestAdmission ==
  ASSUME AdmissionInv,
         \/ PairingExpires \/ SwitchExpires \/ Stalls \/ Forward \/ TooOld \/ Expire \/ StepDone
         \/ FallBack \/ GiveUp \/ Finish
  PROVE  AdmissionInv'
<1>0. HasAdmission(link) /\ HasAdmission(Ended(link)) /\ Ended(link).mode = "revoked"
        /\ Ended(link).granted = link.granted
  BY EndedLink DEF AdmissionInv
<1>1. CASE PairingExpires
  <2>1. link' = Ended(link) /\ UNCHANGED <<revision, armed, phase>>
    BY <1>1 DEF PairingExpires, session
  <2>2. QED
    BY <1>0, <2>1, KeptAdmission
<1>2. CASE SwitchExpires
  <2>1. /\ UNCHANGED <<revision, armed>> /\ phase' # "granting"
        /\ link' = link \/ \E a : link' = [link EXCEPT !.available = a]
    BY <1>2 DEF SwitchExpires
  <2>2. HasAdmission(link') /\ link'.mode = link.mode /\ link'.granted = link.granted
    BY <1>0, <2>1 DEF HasAdmission
  <2>3. QED
    BY <2>1, <2>2, KeptAdmission
<1>3. CASE Stalls \/ FallBack
  <2>1. NextStep # "granting"
    BY DEF NextStep
  <2>2. QED
    BY <1>0, <1>3, <2>1, ReplaceAdmission DEF Stalls, FallBack
<1>4. CASE Forward \/ TooOld
  <2>1. /\ UNCHANGED <<revision, armed>> /\ phase' # "granting"
        /\ link' = [link EXCEPT !.packets = Tail(@)]
    BY <1>4 DEF Forward, TooOld, session
  <2>2. HasAdmission(link') /\ link'.mode = link.mode /\ link'.granted = link.granted
    BY <1>0, <2>1 DEF HasAdmission
  <2>3. QED
    BY <2>1, <2>2, KeptAdmission
<1>5. CASE Expire \/ StepDone \/ GiveUp
  <2>1. UNCHANGED <<link, revision, armed>> /\ phase' # "granting"
    BY <1>5 DEF Expire, StepDone, GiveUp, NextStep, shared, session
  <2>2. QED
    BY <1>0, <2>1, KeptAdmission
<1>6. CASE Finish
  <2>1. /\ UNCHANGED <<revision, armed>> /\ phase' # "granting"
        /\ link' = [Ended(link) EXCEPT !.available = FALSE]
    BY <1>6 DEF Finish
  <2>2. HasAdmission(link') /\ link'.mode = "revoked" /\ link'.granted = link.granted
    BY <1>0, <2>1 DEF HasAdmission
  <2>3. QED
    BY <2>1, <2>2, ClosedAdmission
<1>7. QED
  BY <1>1, <1>2, <1>3, <1>4, <1>5, <1>6

(***************************************************************************)
(* The input thread may capture or forward only while the supervisor holds *)
(* the worker armed, for any number of receivers, queues of any size and   *)
(* any number of workers, losses and failures.                             *)
(***************************************************************************)
THEOREM CapturesOnlyWhileArmed == Spec => []AdmissionIsArmed
<1>1. Init => AdmissionInv
  BY DEF Init, AdmissionInv, HasAdmission, Open
<1>2. AdmissionInv /\ [Next]_vars => AdmissionInv'
  <2> SUFFICES ASSUME AdmissionInv, [Next]_vars
               PROVE  AdmissionInv'
    OBVIOUS
  <2>1. CASE Input \/ SetMappingProfile
    BY <2>1, InputAdmission
  <2>2. CASE Runtime
    BY <2>2, RuntimeAdmission
  <2>3. CASE Worker
    BY <2>3, WorkerAdmission
  <2>4. CASE Supervisor
    BY <2>4, ControlAdmission, ProfileAdmission, StatusAdmission, GrantAdmission,
       MessageAdmission, RestAdmission DEF Supervisor
  <2>5. CASE UNCHANGED vars
    BY <2>5, KeptAdmission DEF vars, shared, session, AdmissionInv
  <2>6. QED
    BY <2>1, <2>2, <2>3, <2>4, <2>5 DEF Next
<1>3. AdmissionInv => AdmissionIsArmed
  BY DEF AdmissionInv, AdmissionIsArmed, Ready, Active, Open
<1>4. QED
  BY <1>1, <1>2, <1>3, PTL DEF Spec
=============================================================================
