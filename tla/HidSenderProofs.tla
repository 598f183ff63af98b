--------------------------- MODULE HidSenderProofs ---------------------------
(***************************************************************************)
(* StartsClean and EndpointAtHand of HidSender, for every number of        *)
(* revisions, sessions and taps, every set of keys, sources and usages and *)
(* every queue capacity: input is admitted only in a generation in which   *)
(* every report was made neutral, and a generation inherits nothing that an *)
(* earlier one held; and a report that is sent has an endpoint.            *)
(*                                                                         *)
(* The evidence for the first travels: the sender makes a report neutral,  *)
(* its reply tells the control thread, which counts the report as          *)
(* synchronized and tells the sender with the next configure command; media *)
(* commands and packets follow from that.  HInv says of every station that *)
(* what it says of the current generation is so.                           *)
(*                                                                         *)
(* What the second depends on travels the other way: which reports the     *)
(* receiver takes, through the commands that configure the sender.  EInv   *)
(* says that the commands of a generation in which a tap was asked for agree *)
(* with it.                                                                *)
(***************************************************************************)
EXTENDS HidSender, TLAPS

-----------------------------------------------------------------------------
\* What the state consists of.

Medias == [usage : Usages \cup {"none"}, down : BOOLEAN]

CommandSet ==
  [type : {"configure", "notify", "media", "detach"}, generation : Nat, kind : Kinds \cup {"none"},
   reply : BOOLEAN, endpoints : SUBSET Kinds, ready : BOOLEAN, media : Medias]

PacketSet == [epoch : Nat, generation : Nat, event : Events]

ServerFields == {"at", "generation", "ready", "synced", "clients", "observed", "since", "left"}
ServerAt == {"none", "idle", "drop", "fail", "observed", "schedule", "sync", "syncing", "sending",
             "release", "releasing", "detaching"}

IsServer(s) ==
  /\ DOMAIN s = ServerFields
  /\ s.at \in ServerAt
  /\ s.generation \in Nat /\ s.observed \in Nat /\ s.since \in Nat
  /\ s.ready \in BOOLEAN
  /\ s.synced \in SUBSET Kinds /\ s.clients \in SUBSET Kinds
  /\ s.left \in Seq(Kinds)

LinkSet == [open : BOOLEAN, ready : Nat, mapping : Nat]

SenderFields == {"at", "generation", "authorized", "mapping", "endpoints", "hid"}
HidFields == {"owners", "held", "consumer", "pulses"}
JobFields == {"task", "stage", "left", "neutral", "begun", "late", "error", "reply", "media"}

Sorts ==
  /\ revision \in Nat \ {0}
  /\ clean \in SUBSET Kinds
  /\ link \in LinkSet
  /\ session \in Nat
  /\ packets \in Seq(PacketSet)
  /\ commands \in Seq(CommandSet)
  /\ detaching \in BOOLEAN
  /\ native \in SUBSET Kinds /\ selected \in SUBSET Kinds
  /\ answer \in {"none", "waiting", "ok", "stale", "failed"}
  /\ IsServer(server)

SenderSorts ==
  /\ DOMAIN sender = SenderFields /\ sender.generation \in Nat /\ sender.mapping \in Nat
  /\ sender.endpoints \in SUBSET Kinds /\ sender.authorized \in BOOLEAN
  /\ DOMAIN sender.hid = HidFields

JobSorts ==
  /\ DOMAIN job = JobFields
  /\ job.task = "notify" => job.left \in Seq(Kinds) /\ Len(job.left) = 1
  /\ job.reply \in BOOLEAN /\ job.error \in {"ok", "stale", "failed"}
  /\ job.stage = "press" => job.task = "media"
  /\ job.media \in Medias

\* Nothing is of a generation to come.
Times ==
  /\ link.ready <= revision
  /\ server.generation <= revision /\ server.since <= revision
  /\ sender.generation <= revision
  /\ \A i \in 1 .. Len(commands) : commands[i].generation <= revision
  /\ \A i \in 1 .. Len(packets) : packets[i].generation <= revision

-----------------------------------------------------------------------------
\* What each station says of the current generation.

\* The control thread: what it counts as synchronized was made neutral.
Counts(s) == s.synced \subseteq clean /\ (s.ready => "consumer" \in s.synced)
Prepared == server.generation = revision => Counts(server)

\* A command: input follows only all reports, a media key only the report it goes into.
Founded(c) ==
  c.generation = revision
  => /\ c.type = "configure" /\ c.ready => clean = Kinds
     /\ c.type = "media" => "consumer" \in clean
Timely == \A i \in 1 .. Len(commands) : Founded(commands[i])

\* A packet was admitted.
Admitted == \A i \in 1 .. Len(packets) : packets[i].generation = revision => clean = Kinds

\* One request is waited for, by one caller: the answer while the control thread
\* synchronizes is that of the report it asked for.
AwaitingAt == {"syncing", "sending", "releasing", "detaching"}

Asks(c) ==
  c.reply => /\ answer = "waiting"
             /\ server.at = "syncing" => c.type = "notify" /\ c.kind = Head(server.left)

OneAsks ==
  /\ \A i \in 1 .. Len(commands) : Asks(commands[i])
  /\ \A i, j \in 1 .. Len(commands) : commands[i].reply /\ commands[j].reply => i = j
  /\ \A i \in 1 .. Len(commands) : ~(job.reply /\ commands[i].reply)

JobAsks ==
  job.reply => /\ answer = "waiting"
               /\ server.at = "syncing" => job.task = "notify" /\ Head(job.left) = Head(server.left)

Told ==
  /\ answer = "waiting" => server.at \in AwaitingAt
  /\ server.at \in {"syncing", "releasing"} => server.left # <<>>
  /\ server.at = "syncing" /\ answer = "ok" /\ server.since = revision => Head(server.left) \in clean

\* A notify command names its report.
Named == \A i \in 1 .. Len(commands) : commands[i].type = "notify" => commands[i].kind \in Kinds

\* The sender, in its generation: what was not made neutral is not down.
Empty ==
  sender.generation = revision
  => /\ "consumer" \notin clean => sender.hid.consumer = {}
     /\ clean # Kinds => sender.hid.owners = {} /\ sender.hid.held = {}
     /\ job.task = "media" => "consumer" \in clean

HInv ==
  /\ Sorts /\ SenderSorts /\ JobSorts /\ Times
  /\ Prepared /\ Timely /\ Admitted /\ OneAsks /\ JobAsks /\ Told /\ Named /\ Empty /\ OpenIsClean

-----------------------------------------------------------------------------
\* Operators.

\* The consumer report is among the kinds, and no kind is "none".
LEMMA KindsKnown ==
  "consumer" \in Kinds /\ Kinds \subseteq {"consumer", "keyboard", "mouse"} /\ "none" \notin Kinds
BY SenderAssumption DEF Kinds

\* Of gives a sequence of kinds.
LEMMA OfSorts ==
  ASSUME NEW kinds
  PROVE  Of(kinds) \in Seq(Kinds)
<1>1. \A kind : Only(kind, kinds) \in Seq(Kinds)
  BY DEF Only
<1>2. QED
  BY <1>1 DEF Of

\* A queue that gets one entry more, or loses its first
QueueOf(s, S) ==
  /\ s \in Seq(S) /\ Len(s) \in Nat
  /\ \A e \in S :
       /\ Append(s, e) \in Seq(S) /\ Len(Append(s, e)) = Len(s) + 1
       /\ \A i \in 1 .. Len(s) : Append(s, e)[i] = s[i]
       /\ Append(s, e)[Len(s) + 1] = e
       /\ \A i \in 1 .. Len(s) + 1 : i \in 1 .. Len(s) \/ i = Len(s) + 1
  /\ s # <<>> =>
       /\ Tail(s) \in Seq(S) /\ Len(Tail(s)) = Len(s) - 1
       /\ Head(s) \in S /\ Head(s) = s[1] /\ 1 \in 1 .. Len(s)
       /\ \A i \in 1 .. Len(s) - 1 : Tail(s)[i] = s[i + 1] /\ i + 1 \in 1 .. Len(s)

\* Every queue is one.
LEMMA Queues ==
  ASSUME NEW S, NEW s \in Seq(S)
  PROVE  QueueOf(s, S)
<1>1. ASSUME NEW e \in S
      PROVE  /\ Append(s, e) \in Seq(S) /\ Len(Append(s, e)) = Len(s) + 1
             /\ \A i \in 1 .. Len(s) : Append(s, e)[i] = s[i]
             /\ Append(s, e)[Len(s) + 1] = e
             /\ \A i \in 1 .. Len(s) + 1 : i \in 1 .. Len(s) \/ i = Len(s) + 1
  OBVIOUS
<1>2. ASSUME s # <<>>
      PROVE  /\ Tail(s) \in Seq(S) /\ Len(Tail(s)) = Len(s) - 1
             /\ Head(s) \in S /\ Head(s) = s[1] /\ 1 \in 1 .. Len(s)
             /\ \A i \in 1 .. Len(s) - 1 : Tail(s)[i] = s[i + 1] /\ i + 1 \in 1 .. Len(s)
  BY <1>2
<1>3. QED
  BY <1>1, <1>2 DEF QueueOf

\* Closing and opening the link
LEMMA LinkOps ==
  /\ \A l \in LinkSet : End(l) \in LinkSet /\ End(l).open = FALSE /\ End(l).ready = 0
                      /\ End(l).mapping = l.mapping
  /\ \A l \in LinkSet, m \in Nat :
       /\ [l EXCEPT !.mapping = m] \in LinkSet
       /\ [l EXCEPT !.mapping = m].open = l.open /\ [l EXCEPT !.mapping = m].ready = l.ready
<1>1. ASSUME NEW l \in LinkSet
      PROVE  End(l) \in LinkSet /\ End(l).open = FALSE /\ End(l).ready = 0 /\ End(l).mapping = l.mapping
  <2>v. PICK v : v = [l EXCEPT !.open = FALSE]
    OBVIOUS
  <2>1. v \in LinkSet /\ v.open = FALSE /\ v.mapping = l.mapping
    BY <1>1, <2>v DEF LinkSet
  <2>u. PICK u : u = [v EXCEPT !.ready = 0]
    OBVIOUS
  <2>2. u \in LinkSet /\ u.open = FALSE /\ u.ready = 0 /\ u.mapping = l.mapping
    BY <2>1, <2>u DEF LinkSet
  <2>3. End(l) = u
    BY <2>v, <2>u DEF End
  <2>4. QED
    BY <2>2, <2>3
<1>2. ASSUME NEW l \in LinkSet, NEW m \in Nat
      PROVE  /\ [l EXCEPT !.mapping = m] \in LinkSet
             /\ [l EXCEPT !.mapping = m].open = l.open /\ [l EXCEPT !.mapping = m].ready = l.ready
  BY <1>2 DEF LinkSet
<1>3. QED
  BY <1>1, <1>2

\* An input event is a packet of the current generation.
LEMMA Packets ==
  ASSUME Sorts, NEW event \in Events
  PROVE  /\ [epoch |-> link.mapping, generation |-> revision, event |-> event] \in PacketSet
         /\ [epoch |-> link.mapping, generation |-> revision, event |-> event].generation = revision
BY DEF Sorts, PacketSet, LinkSet

\* What the entries of the queues are
EntrySorts ==
  /\ \A i \in 1 .. Len(commands) :
       /\ commands[i] \in CommandSet
       /\ commands[i].type \in {"configure", "notify", "media", "detach"}
       /\ commands[i].generation \in Nat /\ commands[i].reply \in BOOLEAN
       /\ commands[i].kind \in Kinds \cup {"none"} /\ commands[i].media \in Medias
       /\ commands[i].ready \in BOOLEAN /\ commands[i].endpoints \in SUBSET Kinds
  /\ \A i \in 1 .. Len(packets) : packets[i] \in PacketSet /\ packets[i].generation \in Nat
  /\ Len(commands) \in Nat /\ Len(packets) \in Nat

\* The entries are so in every state of the right sorts.
LEMMA Entries == Sorts => EntrySorts
<1> SUFFICES ASSUME Sorts
             PROVE  EntrySorts
  OBVIOUS
<1>1. \A c \in CommandSet :
       /\ c.type \in {"configure", "notify", "media", "detach"}
       /\ c.generation \in Nat /\ c.reply \in BOOLEAN
       /\ c.kind \in Kinds \cup {"none"} /\ c.media \in Medias
       /\ c.ready \in BOOLEAN /\ c.endpoints \in SUBSET Kinds
  BY DEF CommandSet
<1>2. \A p \in PacketSet : p.generation \in Nat
  BY DEF PacketSet
<1>3. QED
  BY <1>1, <1>2 DEF Sorts, EntrySorts

\* A queue whose requests nobody waits for any more
LEMMA AbandonedSorts ==
  ASSUME Sorts
  PROVE  /\ Abandoned \in Seq(CommandSet) /\ Len(Abandoned) = Len(commands)
         /\ \A i \in 1 .. Len(commands) :
              /\ Abandoned[i].reply = FALSE /\ Abandoned[i].type = commands[i].type
              /\ Abandoned[i].generation = commands[i].generation
              /\ Abandoned[i].kind = commands[i].kind /\ Abandoned[i].ready = commands[i].ready
              /\ Abandoned[i].endpoints = commands[i].endpoints
<1>1. commands \in Seq(CommandSet) /\ Len(commands) \in Nat /\ DOMAIN commands = 1 .. Len(commands)
  BY DEF Sorts
<1>2. \A c \in CommandSet :
        /\ [c EXCEPT !.reply = FALSE] \in CommandSet
        /\ [c EXCEPT !.reply = FALSE].reply = FALSE /\ [c EXCEPT !.reply = FALSE].type = c.type
        /\ [c EXCEPT !.reply = FALSE].generation = c.generation
        /\ [c EXCEPT !.reply = FALSE].kind = c.kind /\ [c EXCEPT !.reply = FALSE].ready = c.ready
        /\ [c EXCEPT !.reply = FALSE].endpoints = c.endpoints
  BY DEF CommandSet
<1>3. \A i \in 1 .. Len(commands) : commands[i] \in CommandSet
  BY <1>1
<1>a. PICK a : a = Abandoned
  OBVIOUS
<1>4. a = [i \in 1 .. Len(commands) |-> [commands[i] EXCEPT !.reply = FALSE]]
  BY <1>a, <1>1 DEF Abandoned
<1>5. \A i \in 1 .. Len(commands) : a[i] = [commands[i] EXCEPT !.reply = FALSE]
  BY <1>4
<1>6. \A i \in 1 .. Len(commands) : a[i] \in CommandSet
  BY <1>2, <1>3, <1>5
<1>7. a \in Seq(CommandSet) /\ Len(a) = Len(commands)
  <2>1. a \in [1 .. Len(commands) -> CommandSet]
    BY <1>4, <1>6
  <2>2. QED
    BY <1>1, <2>1
<1>8. ASSUME NEW i \in 1 .. Len(commands)
      PROVE  /\ a[i].reply = FALSE /\ a[i].type = commands[i].type
             /\ a[i].generation = commands[i].generation
             /\ a[i].kind = commands[i].kind /\ a[i].ready = commands[i].ready
             /\ a[i].endpoints = commands[i].endpoints
  <2>1. commands[i] \in CommandSet /\ a[i] = [commands[i] EXCEPT !.reply = FALSE]
    BY <1>3, <1>5
  <2>2. QED
    BY <1>2, <2>1
<1>9. QED
  BY <1>a, <1>7, <1>8

\* The commands of the control thread
LEMMA NotifyCommand ==
  ASSUME Sorts, NEW kind \in Kinds
  PROVE  \E c \in CommandSet : /\ c = [Command("notify") EXCEPT !.kind = kind] /\ c.type = "notify"
                               /\ c.generation = revision /\ c.kind = kind
<1>v. PICK v : v = Command("notify")
  OBVIOUS
<1>1. /\ v \in CommandSet /\ v.type = "notify" /\ v.generation = revision
  BY <1>v DEF Command, NoMedia, Medias, CommandSet, Sorts
<1>c. PICK c : c = [v EXCEPT !.kind = kind]
  OBVIOUS
<1>2. c \in CommandSet /\ c.type = "notify" /\ c.generation = revision /\ c.kind = kind
  BY <1>1, <1>c DEF CommandSet
<1>3. QED
  BY <1>v, <1>c, <1>2

\* A media key is asked for in the generation of the moment.
LEMMA MediaCommand ==
  ASSUME Sorts, NEW usage \in Usages, NEW down \in BOOLEAN
  PROVE  \E c \in CommandSet : /\ c = [Command("media") EXCEPT !.media = [usage |-> usage, down |-> down]]
                               /\ c.type = "media" /\ c.generation = revision
<1>v. PICK v : v = Command("media")
  OBVIOUS
<1>1. /\ v \in CommandSet /\ v.type = "media" /\ v.generation = revision
  BY <1>v DEF Command, NoMedia, Medias, CommandSet, Sorts
<1>m. PICK m \in Medias : m = [usage |-> usage, down |-> down]
  BY DEF Medias
<1>c. PICK c : c = [v EXCEPT !.media = m]
  OBVIOUS
<1>2. c \in CommandSet /\ c.type = "media" /\ c.generation = revision
  BY <1>1, <1>c DEF CommandSet
<1>3. QED
  BY <1>v, <1>m, <1>c, <1>2

\* The last command of a service belongs to no generation.
LEMMA DetachCommand ==
  ASSUME Sorts
  PROVE  \E c \in CommandSet : /\ c = [Command("detach") EXCEPT !.generation = 0]
                               /\ c.type = "detach" /\ c.generation = 0
<1>v. PICK v : v = Command("detach")
  OBVIOUS
<1>1. v \in CommandSet /\ v.type = "detach"
  BY <1>v DEF Command, NoMedia, Medias, CommandSet, Sorts
<1>c. PICK c : c = [v EXCEPT !.generation = 0]
  OBVIOUS
<1>2. c \in CommandSet /\ c.type = "detach" /\ c.generation = 0
  BY <1>1, <1>c DEF CommandSet
<1>3. QED
  BY <1>v, <1>c, <1>2

\* What configures the sender is the state of the service; input may follow only all reports.
LEMMA ConfigureCommand ==
  ASSUME Sorts, NEW s, IsServer(s)
  PROVE  \E c \in CommandSet :
           /\ c = [Command("configure") EXCEPT !.generation = s.generation, !.reply = FALSE,
                                               !.endpoints = s.clients,
                                               !.ready = s.ready /\ s.synced = Kinds]
           /\ c.type = "configure" /\ c.generation = s.generation /\ c.reply = FALSE
           /\ c.endpoints = s.clients /\ (c.ready => s.ready /\ s.synced = Kinds)
<1>v. PICK v : v = Command("configure")
  OBVIOUS
<1>1. /\ v \in CommandSet /\ v.type = "configure"
  BY <1>v DEF Command, NoMedia, Medias, CommandSet, Sorts
<1>r. PICK ready \in BOOLEAN : ready = (s.ready /\ s.synced = Kinds)
  OBVIOUS
<1>2. s.generation \in Nat /\ s.clients \in SUBSET Kinds
  BY DEF IsServer
<1>c. PICK c : c = [v EXCEPT !.generation = s.generation, !.reply = FALSE,
                             !.endpoints = s.clients, !.ready = ready]
  OBVIOUS
<1>3. /\ c \in CommandSet /\ c.type = "configure" /\ c.generation = s.generation /\ c.reply = FALSE
      /\ c.endpoints = s.clients /\ c.ready = ready
  BY <1>1, <1>2, <1>c DEF CommandSet
<1>4. c = [Command("configure") EXCEPT !.generation = s.generation, !.reply = FALSE,
                                      !.endpoints = s.clients,
                                      !.ready = s.ready /\ s.synced = Kinds]
  BY <1>v, <1>r, <1>c
<1>5. c.ready => s.ready /\ s.synced = Kinds
  BY <1>r, <1>3
<1>6. QED
  BY <1>3, <1>4, <1>5

\* No service is a control thread that knows nothing.
LEMMA GoneIs ==
  /\ IsServer(Gone) /\ Gone.at = "none" /\ Gone.generation = 0 /\ Gone.since = 0
  /\ Gone.synced = {} /\ Gone.ready = FALSE /\ Gone.left = <<>> /\ Gone.clients = {}
BY DEF Gone, IsServer, ServerFields, ServerAt

\* The initial states
LEMMA Starts == Init => HInv
<1> SUFFICES ASSUME Init
             PROVE  HInv
  OBVIOUS
<1> USE DEF Init
<1>1. Sorts
  <2>1. IsServer(server)
    BY DEF IsServer, ServerFields, ServerAt, Gone
  <2>2. packets \in Seq(PacketSet) /\ commands \in Seq(CommandSet)
    OBVIOUS
  <2>3. link \in LinkSet
    BY DEF LinkSet
  <2>4. revision \in Nat \ {0} /\ session \in Nat /\ clean \in SUBSET Kinds
    OBVIOUS
  <2>5. detaching \in BOOLEAN /\ native \in SUBSET Kinds /\ selected \in SUBSET Kinds
    OBVIOUS
  <2>6. answer \in {"none", "waiting", "ok", "stale", "failed"}
    OBVIOUS
  <2>7. QED
    BY <2>1, <2>2, <2>3, <2>4, <2>5, <2>6 DEF Sorts
<1>2. SenderSorts
  BY DEF SenderSorts, SenderFields, HidFields, Blank
<1>3. JobSorts
  BY DEF JobSorts, JobFields, NoJob, NoMedia, Medias
<1>4. Times
  BY DEF Times, Gone
<1>5. Prepared
  BY DEF Prepared, Counts, Gone
<1>6. Timely
  BY DEF Timely
<1>7. Admitted
  BY DEF Admitted
<1>8. OneAsks
  BY DEF OneAsks
<1>9. JobAsks
  BY DEF JobAsks, NoJob
<1>10. Told
  BY DEF Told, Gone
<1>11. Named
  BY DEF Named
<1>12. Empty
  BY DEF Empty
<1>13. OpenIsClean
  BY DEF OpenIsClean, Ready
<1> QED
  BY <1>1, <1>2, <1>3, <1>4, <1>5, <1>6, <1>7, <1>8, <1>9, <1>10, <1>11, <1>12, <1>13 DEF HInv

-----------------------------------------------------------------------------
\* Steps outside the sender thread.

\* What a step does to the generation, the link, the input and the control thread: what is told
\* of the generation is true, or it is over.
Moves ==
  /\ sender' = sender
  /\ session' \in Nat /\ detaching' \in BOOLEAN
  /\ native' \in SUBSET Kinds /\ selected' \in SUBSET Kinds
  /\ \/ revision' = revision /\ clean' = clean
     \/ revision' \in Nat /\ revision < revision' /\ clean' = {}
  /\ link' \in LinkSet /\ link'.ready \in {0, link.ready}
  /\ link'.open => link.open /\ link'.ready = link.ready
  /\ \/ packets' = packets
     \/ /\ packets' \in Seq(PacketSet)
        /\ \A i \in 1 .. Len(packets') :
             /\ packets'[i].generation <= revision
             /\ packets'[i].generation = revision => clean = Kinds
  /\ IsServer(server') /\ server'.generation <= revision' /\ server'.since <= revision'
  /\ Prepared'

\* What is known of the state before it
LEMMA Facts ==
  ASSUME HInv
  PROVE  /\ revision \in Nat \ {0} /\ clean \in SUBSET Kinds /\ session \in Nat
         /\ detaching \in BOOLEAN /\ native \in SUBSET Kinds /\ selected \in SUBSET Kinds
         /\ link \in LinkSet /\ link.ready <= revision
         /\ End(link) \in LinkSet /\ End(link).open = FALSE /\ End(link).ready = 0
         /\ IsServer(server) /\ server.generation <= revision /\ server.since <= revision
         /\ server.generation = revision => Counts(server)
         /\ answer = "waiting" => server.at \in AwaitingAt
BY LinkOps DEF HInv, Sorts, Times, Prepared, Told

\* Such a step keeps the invariant if it keeps what is said of the requests.
LEMMA Moved ==
  ASSUME HInv, Moves,
         commands' \in Seq(CommandSet),
         \A i \in 1 .. Len(commands') :
           /\ commands'[i].generation <= revision /\ Founded(commands'[i])
           /\ commands'[i].type = "notify" => commands'[i].kind \in Kinds,
         answer' \in {"none", "waiting", "ok", "stale", "failed"},
         JobSorts', job'.task = job.task, OneAsks', JobAsks', Told'
  PROVE  HInv'
<1>r. /\ revision \in Nat \ {0} /\ revision' \in Nat \ {0} /\ clean' \in SUBSET Kinds
      /\ revision <= revision'
      /\ revision' = revision => clean' = clean
  BY Facts DEF Moves
<1>e. EntrySorts /\ Times /\ SenderSorts /\ sender' = sender
  BY Entries DEF HInv, Moves
<1>c. \A i \in 1 .. Len(commands') : commands'[i].generation \in Nat
  <2>1. \A c \in CommandSet : c.generation \in Nat
    BY DEF CommandSet
  <2>2. QED
    BY <2>1
<1>p. /\ packets' \in Seq(PacketSet)
      /\ \A i \in 1 .. Len(packets') :
           /\ packets'[i].generation \in Nat /\ packets'[i].generation <= revision
           /\ packets'[i].generation = revision => clean = Kinds
  <2>1. \A p \in PacketSet : p.generation \in Nat
    BY DEF PacketSet
  <2>2. packets \in Seq(PacketSet) /\ Admitted
    BY DEF HInv, Sorts
  <2>3. CASE packets' = packets
    BY <1>e, <2>2, <2>3 DEF EntrySorts, Times, Admitted
  <2>4. CASE packets' # packets
    BY <2>1, <2>4 DEF Moves
  <2>5. QED
    BY <2>3, <2>4
<1>l. /\ link' \in LinkSet /\ link'.ready \in {0, link.ready} /\ link.ready \in Nat /\ link.ready <= revision
      /\ link'.open => link.open /\ link'.ready = link.ready
  BY Facts DEF Moves, LinkSet
<1>1. Sorts'
  BY <1>r, <1>l, <1>p DEF Sorts, Moves
<1>2. SenderSorts'
  BY <1>e DEF SenderSorts
<1>3. sender.generation \in Nat /\ sender.generation <= revision
  BY <1>e DEF SenderSorts, Times
<1>4. Times'
  <2>1. link'.ready <= revision' /\ sender'.generation <= revision'
    BY <1>e, <1>l, <1>r, <1>3
  <2>2. \A i \in 1 .. Len(commands') : commands'[i].generation <= revision'
    BY <1>c, <1>r
  <2>3. \A i \in 1 .. Len(packets') : packets'[i].generation <= revision'
    BY <1>p, <1>r
  <2>4. QED
    BY <2>1, <2>2, <2>3 DEF Times, Moves
<1>5. Prepared'
  BY DEF Moves
<1>6. Timely'
  <2>1. \A i \in 1 .. Len(commands') : commands'[i].generation = revision' => revision' = revision
    BY <1>c, <1>r
  <2>2. QED
    BY <1>r, <2>1 DEF Timely, Founded
<1>7. Admitted'
  <2>1. \A i \in 1 .. Len(packets') : packets'[i].generation = revision' => revision' = revision
    BY <1>p, <1>r
  <2>2. QED
    BY <1>p, <1>r, <2>1 DEF Admitted
<1>8. Named'
  BY DEF Named
<1>9. Empty'
  <2>1. Empty
    BY DEF HInv
  <2>2. sender.generation = revision' => revision' = revision
    BY <1>r, <1>3
  <2>3. QED
    BY <1>e, <1>r, <2>1, <2>2 DEF Empty
<1>10. OpenIsClean'
  <2>1. OpenIsClean
    BY DEF HInv
  <2>2. Ready(link)' => revision' = revision /\ Ready(link)
    BY <1>l, <1>r DEF Ready
  <2>3. QED
    BY <1>r, <2>1, <2>2 DEF OpenIsClean
<1> QED
  BY <1>1, <1>2, <1>4, <1>5, <1>6, <1>7, <1>8, <1>9, <1>10 DEF HInv

\* The commands as they are
LEMMA SameCommands ==
  ASSUME HInv
  PROVE  /\ commands \in Seq(CommandSet)
         /\ \A i \in 1 .. Len(commands) :
              /\ commands[i].generation <= revision /\ Founded(commands[i])
              /\ commands[i].type = "notify" => commands[i].kind \in Kinds
BY DEF HInv, Sorts, Times, Timely, Named

\* Nobody waits: no entry asks.
LEMMA Quiet ==
  ASSUME HInv, answer # "waiting"
  PROVE  /\ \A i \in 1 .. Len(commands) : commands[i].reply = FALSE
         /\ job.reply = FALSE
<1>1. EntrySorts
  BY Entries DEF HInv
<1>2. QED
  BY <1>1 DEF HInv, OneAsks, Asks, JobAsks, JobSorts, EntrySorts

\* A step that asks nothing: the control thread stays where it is, or waits for nothing.
LEMMA QuietStep ==
  ASSUME HInv, Moves, UNCHANGED <<commands, job>>,
         \/ answer' = answer /\ server' = server
         \/ answer # "waiting" /\ answer' \in {"none", answer} /\ server'.at \notin AwaitingAt
  PROVE  HInv'
<1>1. Sorts /\ JobSorts /\ OneAsks /\ JobAsks /\ Told
  BY DEF HInv
<1>2. JobSorts'
  BY <1>1 DEF JobSorts
<1>3. answer' \in {"none", "waiting", "ok", "stale", "failed"}
  BY <1>1 DEF Sorts
<1>4. CASE answer # "waiting" /\ answer' \in {"none", answer} /\ server'.at \notin AwaitingAt
  <2>1. OneAsks' /\ JobAsks'
    BY <1>4, Quiet DEF OneAsks, Asks, JobAsks
  <2>2. Told'
    BY <1>4 DEF Told, AwaitingAt
  <2>3. QED
    BY <1>2, <1>3, <2>1, <2>2, SameCommands, Moved
<1>5. CASE answer' = answer /\ server' = server
  <2>1. OneAsks' /\ JobAsks'
    BY <1>1, <1>5 DEF OneAsks, Asks, JobAsks
  <2>2. Told'
    <3>1. server.since = revision' => revision' = revision /\ clean' = clean
      BY <1>5, Facts DEF Moves, IsServer
    <3>2. QED
      BY <1>1, <1>5, <3>1 DEF Told
  <2>3. QED
    BY <1>2, <1>3, <2>1, <2>2, SameCommands, Moved
<1>6. QED
  BY <1>4, <1>5

\* A request of the control thread, which waited for nothing and now waits for its answer
LEMMA AskStep ==
  ASSUME HInv, Moves, job' = job, answer # "waiting", answer' = "waiting",
         NEW c \in CommandSet, commands' = Append(commands, c),
         c.generation <= revision, Founded(c), c.type = "notify" => c.kind \in Kinds,
         server'.at \in AwaitingAt,
         server'.at \in {"syncing", "releasing"} => server'.left # <<>>,
         server'.at = "syncing" => c.type = "notify" /\ c.kind = Head(server'.left)
  PROVE  HInv'
<1>1. QueueOf(commands, CommandSet)
  BY Queues DEF HInv, Sorts
<1>2. /\ commands' \in Seq(CommandSet) /\ Len(commands') = Len(commands) + 1 /\ Len(commands) \in Nat
      /\ \A i \in 1 .. Len(commands') : \/ i \in 1 .. Len(commands) /\ commands'[i] = commands[i]
                                        \/ i = Len(commands) + 1 /\ commands'[i] = c
  BY <1>1 DEF QueueOf
<1>3. \A i \in 1 .. Len(commands') :
        /\ commands'[i].generation <= revision /\ Founded(commands'[i])
        /\ commands'[i].type = "notify" => commands'[i].kind \in Kinds
  BY <1>2, SameCommands
<1>4. \A i \in 1 .. Len(commands') : commands'[i].reply => commands'[i] = c /\ i = Len(commands) + 1
  BY <1>2, Quiet
<1>5. OneAsks' /\ JobAsks'
  BY <1>4, Quiet DEF OneAsks, Asks, JobAsks
<1>6. Told'
  BY DEF Told
<1>7. JobSorts'
  BY DEF HInv, JobSorts
<1>8. QED
  BY <1>2, <1>3, <1>5, <1>6, <1>7, Moved

\* The control thread waited in vain: nobody asks any more.
LEMMA AbandonStep ==
  ASSUME HInv, Moves, Abandon, commands' = Abandoned, server'.at \notin AwaitingAt
  PROVE  HInv'
<1>1. Sorts /\ JobSorts /\ EntrySorts
  BY Entries DEF HInv
<1>2. /\ answer' = "none" /\ DOMAIN job' = JobFields /\ job'.reply = FALSE /\ job'.task = job.task
      /\ job'.left = job.left /\ job'.stage = job.stage /\ job'.media = job.media /\ job'.error = job.error
  BY <1>1 DEF Abandon, JobSorts, JobFields
<1>3. JobSorts'
  BY <1>1, <1>2 DEF JobSorts
<1>4. /\ commands' \in Seq(CommandSet) /\ Len(commands') = Len(commands)
      /\ \A i \in 1 .. Len(commands) :
           /\ commands'[i].reply = FALSE /\ commands'[i].type = commands[i].type
           /\ commands'[i].generation = commands[i].generation
           /\ commands'[i].kind = commands[i].kind /\ commands'[i].ready = commands[i].ready
  BY <1>1, AbandonedSorts
<1>5. \A i \in 1 .. Len(commands') :
        /\ commands'[i].generation <= revision /\ Founded(commands'[i])
        /\ commands'[i].type = "notify" => commands'[i].kind \in Kinds
  BY <1>4, SameCommands DEF Founded
<1>6. OneAsks' /\ JobAsks' /\ Told'
  BY <1>2, <1>4 DEF OneAsks, Asks, JobAsks, Told, AwaitingAt
<1>7. QED
  BY <1>2, <1>3, <1>4, <1>5, <1>6, Moved

\* A step of the command loop, which leaves the control thread alone
LEMMA LoopStep ==
  ASSUME HInv,
         UNCHANGED <<commands, detaching, native, selected, server, answer, sender, job>>,
         session' \in Nat,
         \/ revision' = revision /\ clean' = clean
         \/ revision' = revision + 1 /\ clean' = {},
         link' \in LinkSet, link'.ready \in {0, link.ready},
         link'.open => link.open /\ link'.ready = link.ready,
         \/ packets' = packets
         \/ /\ packets' \in Seq(PacketSet)
            /\ \A i \in 1 .. Len(packets') :
                 /\ packets'[i].generation <= revision
                 /\ packets'[i].generation = revision => clean = Kinds
  PROVE  HInv'
<1>1. /\ revision' \in Nat /\ revision <= revision'
      /\ revision' = revision => clean' = clean
      /\ \/ revision' = revision /\ clean' = clean
         \/ revision' \in Nat /\ revision < revision' /\ clean' = {}
  BY Facts
<1>2. server'.generation <= revision' /\ server'.since <= revision'
  BY <1>1, Facts DEF IsServer
<1>3. Prepared'
  <2>1. server.generation = revision' => revision' = revision
    BY <1>1, Facts DEF IsServer
  <2>2. QED
    BY <1>1, <2>1, Facts DEF Prepared, Counts
<1>4. Moves
  BY <1>1, <1>2, <1>3, Facts DEF Moves
<1>5. QED
  BY <1>4, QuietStep

\* The mapping session ends with the link.
LEMMA EndedLink ==
  ASSUME HInv
  PROVE  LET l == [End(link) EXCEPT !.mapping = 0]
         IN  l \in LinkSet /\ l.ready = 0 /\ l.open = FALSE
<1>e. PICK e \in LinkSet : e = End(link) /\ e.open = FALSE /\ e.ready = 0
  BY Facts
<1>l. PICK l : l = [e EXCEPT !.mapping = 0]
  OBVIOUS
<1>1. l \in LinkSet /\ l.ready = 0 /\ l.open = FALSE
  BY <1>e, <1>l DEF LinkSet
<1>2. QED
  BY <1>e, <1>l, <1>1

\* The command loop of the worker
LEMMA ChildKeeps ==
  ASSUME HInv, Child
  PROVE  HInv'
<1>1. CASE Arm
  <2>1. session + 1 \in Nat /\ session' = session + 1
    BY <1>1, Facts DEF Arm
  <2>2. link' \in LinkSet /\ link'.ready = link.ready /\ link'.open = link.open
    BY <1>1, <2>1, Facts DEF Arm, LinkSet
  <2>3. QED
    BY <1>1, <2>1, <2>2, LoopStep DEF Arm, SameGeneration
<1>2. CASE InvalidateCommands
  BY <1>2, Facts, LoopStep DEF InvalidateCommands, Advance
<1>3. CASE InvalidateLink
  BY <1>3, Facts, EndedLink, LoopStep DEF InvalidateLink
<1>4. CASE InputTooLate
  BY <1>4, Facts, LoopStep DEF InputTooLate
<1>5. ASSUME NEW event \in Events, Input(event)
      PROVE  HInv'
  <2>1. /\ UNCHANGED <<revision, clean, session, commands, detaching, native, selected, server,
                       answer, sender, job>>
        /\ Ready(link)
    BY <1>5 DEF Input
  <2>2. CASE link' = [End(link) EXCEPT !.mapping = 0] /\ packets' = packets
    BY <2>1, <2>2, Facts, EndedLink, LoopStep
  <2>3. CASE link' = link /\ packets' # packets
    <3>p. PICK p \in PacketSet : /\ p = [epoch |-> link.mapping, generation |-> revision, event |-> event]
                                 /\ p.generation = revision
      BY Packets DEF HInv
    <3>1. packets' = Append(packets, p)
      BY <1>5, <2>3, <3>p DEF Input
    <3>2. clean = Kinds
      BY <2>1 DEF HInv, OpenIsClean
    <3>3. QueueOf(packets, PacketSet) /\ Admitted /\ Times
      BY Queues DEF HInv, Sorts
    <3>4. /\ packets' \in Seq(PacketSet)
          /\ \A i \in 1 .. Len(packets') : packets'[i].generation <= revision
      BY <3>p, <3>1, <3>3, Facts DEF QueueOf, Times
    <3>5. QED
      BY <2>1, <2>3, <3>2, <3>4, Facts, LoopStep
  <2>4. QED
    BY <1>5, <2>2, <2>3, <2>1, Facts, LoopStep DEF Input
<1>6. QED
  BY <1>1, <1>2, <1>3, <1>4, <1>5 DEF Child

\* The native callbacks
LEMMA TransportKeeps ==
  ASSUME HInv, NEW reports \in Subscriptions, Transport(reports)
  PROVE  HInv'
<1>1. reports \in SUBSET Kinds
  BY SenderAssumption
<1>2. /\ native' \in SUBSET Kinds /\ selected' \in SUBSET Kinds
      /\ UNCHANGED <<session, packets, commands, detaching, server, answer, sender, job>>
      /\ \/ revision' = revision /\ clean' = clean /\ link' = link
         \/ revision' = revision + 1 /\ clean' = {} /\ link' = End(link)
  BY <1>1, Facts DEF Transport, Reconcile, Advance, SameGeneration
<1>3. /\ revision' \in Nat /\ revision <= revision'
      /\ revision' = revision => clean' = clean
      /\ \/ revision' = revision /\ clean' = clean
         \/ revision' \in Nat /\ revision < revision' /\ clean' = {}
  BY <1>2, Facts
<1>4. server'.generation <= revision' /\ server'.since <= revision'
  BY <1>2, <1>3, Facts DEF IsServer
<1>5. Prepared'
  <2>1. server.generation = revision' => revision' = revision
    BY <1>3, Facts DEF IsServer
  <2>2. QED
    BY <1>2, <1>3, <2>1, Facts DEF Prepared, Counts
<1>6. Moves
  BY <1>2, <1>3, <1>4, <1>5, Facts DEF Moves
<1>7. QED
  BY <1>2, <1>6, QuietStep

-----------------------------------------------------------------------------
\* The control thread.

\* It keeps to its generation, or adopts one: what it counts as synchronized there was made
\* neutral, and it asks nothing.
LEMMA ServerStep ==
  ASSUME HInv, UNCHANGED <<commands, detaching, serverRest>>, selected' \in SUBSET Kinds,
         \/ revision' = revision /\ clean' = clean
         \/ revision' \in Nat /\ revision < revision' /\ clean' = {},
         link' \in {link, End(link)},
         IsServer(server'), server'.generation <= revision', server'.since <= revision',
         server'.generation = revision' =>
           /\ server'.synced \subseteq clean'
           /\ server'.ready => "consumer" \in server'.synced,
         answer # "waiting", answer' \in {"none", answer}, server'.at \notin AwaitingAt
  PROVE  HInv'
<1>1. Prepared'
  BY DEF Prepared, Counts
<1>2. Moves
  BY <1>1, Facts DEF Moves, serverRest
<1>3. QED
  BY <1>2, QuietStep DEF serverRest

\* What configure_sender leaves of the link
LEMMA ConfiguredLink ==
  ASSUME NEW s, NEW l, NEW queue, Configure(s, l, queue)
  PROVE  link' \in {l, End(l)}
BY DEF Configure

\* The queue after it: entries that ask nothing, and perhaps what configures the sender.
LEMMA ConfiguredQueue ==
  ASSUME Sorts, NEW s, IsServer(s), NEW l \in LinkSet,
         NEW queue \in Seq(CommandSet), Len(queue) = Len(commands),
         \A i \in 1 .. Len(commands) :
           /\ queue[i].reply = FALSE /\ queue[i].type = commands[i].type
           /\ queue[i].generation = commands[i].generation
           /\ queue[i].kind = commands[i].kind /\ queue[i].ready = commands[i].ready,
         Configure(s, l, queue)
  PROVE  /\ commands' \in Seq(CommandSet)
         /\ \A i \in 1 .. Len(commands') :
              \/ /\ i \in 1 .. Len(commands) /\ commands'[i].type = commands[i].type
                 /\ commands'[i].generation = commands[i].generation
                 /\ commands'[i].kind = commands[i].kind /\ commands'[i].ready = commands[i].ready
                 /\ commands'[i].reply = FALSE
              \/ /\ commands'[i].type = "configure" /\ commands'[i].generation = s.generation
                 /\ commands'[i].reply = FALSE
                 /\ commands'[i].ready => s.ready /\ s.synced = Kinds
<1>1. QueueOf(queue, CommandSet)
  BY Queues
<1>c. PICK c \in CommandSet :
        /\ c = [Command("configure") EXCEPT !.generation = s.generation, !.reply = FALSE,
                                            !.endpoints = s.clients,
                                            !.ready = s.ready /\ s.synced = Kinds]
        /\ c.type = "configure" /\ c.generation = s.generation /\ c.reply = FALSE
        /\ c.endpoints = s.clients /\ (c.ready => s.ready /\ s.synced = Kinds)
  BY ConfigureCommand
<1>2. commands' = Append(queue, c) \/ commands' = queue
  BY <1>c DEF Configure
<1>3. CASE commands' = queue
  BY <1>3
<1>4. CASE commands' = Append(queue, c)
  <2>1. commands' \in Seq(CommandSet) /\ Len(commands') = Len(commands) + 1
    BY <1>1, <1>4 DEF QueueOf
  <2>2. ASSUME NEW i \in 1 .. Len(commands')
        PROVE  \/ i \in 1 .. Len(commands) /\ commands'[i] = queue[i]
               \/ commands'[i] = c
    BY <1>1, <1>4, <2>1, <2>2 DEF QueueOf
  <2>3. /\ c.type = "configure" /\ c.generation = s.generation /\ c.reply = FALSE
        /\ (c.ready => s.ready /\ s.synced = Kinds)
    BY <1>c
  <2>4. QED
    BY <2>1, <2>2, <2>3
<1>5. QED
  BY <1>2, <1>3, <1>4

\* The control thread tells the sender what it knows, and waits for nothing: of the
\* generation that it tells of it knows what was made neutral.
LEMMA Reconfigured ==
  ASSUME HInv, NEW s, IsServer(s), s.generation <= revision, s.generation = revision => Counts(s),
         NEW l \in {link, End(link)},
         NEW queue \in Seq(CommandSet), Len(queue) = Len(commands),
         \A i \in 1 .. Len(commands) :
           /\ queue[i].reply = FALSE /\ queue[i].type = commands[i].type
           /\ queue[i].generation = commands[i].generation
           /\ queue[i].kind = commands[i].kind /\ queue[i].ready = commands[i].ready,
         Configure(s, l, queue), SameGeneration,
         IsServer(server'), server'.generation = s.generation, server'.since <= revision,
         server'.synced = s.synced, server'.ready = s.ready, server'.at \notin AwaitingAt,
         DOMAIN job' = JobFields, job'.reply = FALSE, job'.task = job.task, job'.left = job.left,
         job'.stage = job.stage, job'.media = job.media, job'.error = job.error,
         answer' \in {"none", "ok", "stale", "failed"},
         selected' \in SUBSET Kinds, UNCHANGED <<child, session, packets, native, sender, detaching>>
  PROVE  HInv'
<1>a. Sorts /\ SenderSorts /\ JobSorts /\ Times
  BY DEF HInv
<1>e. EntrySorts
  BY <1>a, Entries
<1>l. link \in LinkSet /\ l \in LinkSet /\ l.ready <= revision /\ (l.open => l = link)
      /\ l.ready \in {link.ready, 0}
  BY <1>a, LinkOps DEF Sorts, Times
<1>k. link' \in LinkSet /\ link'.ready <= revision' /\ (link'.open => link' = link)
  <2>1. link' \in {l, End(l)}
    BY <1>a, <1>l, ConfiguredLink
  <2>2. revision' = revision /\ revision \in Nat
    BY <1>a DEF SameGeneration, Sorts
  <2>3. QED
    BY <1>l, <2>1, <2>2, LinkOps
<1>q. commands' \in Seq(CommandSet)
      /\ \A i \in 1 .. Len(commands') :
           \/ /\ i \in 1 .. Len(commands) /\ commands'[i].type = commands[i].type
              /\ commands'[i].generation = commands[i].generation
              /\ commands'[i].kind = commands[i].kind /\ commands'[i].ready = commands[i].ready
              /\ commands'[i].reply = FALSE
           \/ /\ commands'[i].type = "configure" /\ commands'[i].generation = s.generation
              /\ commands'[i].reply = FALSE
              /\ commands'[i].ready => s.ready /\ s.synced = Kinds
  BY <1>a, <1>l, ConfiguredQueue
<1>g. revision' = revision /\ clean' = clean
  BY DEF SameGeneration
<1>1. Sorts'
  BY <1>a, <1>k, <1>q, <1>g DEF Sorts
<1>2. SenderSorts'
  BY <1>a DEF SenderSorts
<1>3. JobSorts'
  BY <1>a DEF JobSorts
<1>4. Times'
  BY <1>a, <1>e, <1>k, <1>q, <1>g DEF Times, EntrySorts
<1>5. Prepared'
  BY <1>g DEF Prepared, Counts
<1>6. Timely'
  <2>1. Timely
    BY DEF HInv
  <2>2. s.generation = revision /\ s.synced = Kinds => clean = Kinds
    BY <1>a DEF Counts, Sorts
  <2>3. QED
    BY <1>q, <1>g, <2>1, <2>2 DEF Timely, Founded
<1>7. Admitted'
  BY <1>g DEF Admitted, HInv
<1>8. OneAsks'
  BY <1>q DEF OneAsks, Asks
<1>9. JobAsks'
  BY DEF JobAsks
<1>10. Told'
  BY DEF Told, AwaitingAt
<1>11. Named'
  <2>1. Named
    BY DEF HInv
  <2>2. QED
    BY <1>q, <2>1 DEF Named
<1>12. Empty'
  <2>1. Empty
    BY DEF HInv
  <2>2. QED
    BY <1>g, <2>1 DEF Empty
<1>13. OpenIsClean'
  <2>1. OpenIsClean
    BY DEF HInv
  <2>2. QED
    BY <1>g, <1>k, <2>1 DEF OpenIsClean, Ready
<1> QED
  BY <1>1, <1>2, <1>3, <1>4, <1>5, <1>6, <1>7, <1>8, <1>9, <1>10, <1>11, <1>12, <1>13 DEF HInv

\* The generation adopted: what was counted in another one is forgotten.
LEMMA Adopts ==
  ASSUME HInv
  PROVE  /\ IsServer(Adopted(server)) /\ Adopted(server).generation = revision
         /\ Counts(Adopted(server)) /\ Adopted(server).since <= revision
         /\ Adopted(server).at = server.at
         /\ AdoptedLink(server) \in {link, End(link)}
<1>1. Sorts /\ Prepared /\ Times
  BY DEF HInv
<1>2. AdoptedLink(server) \in {link, End(link)}
  BY DEF AdoptedLink
<1>3. CASE server.generation = revision
  <2>1. Adopted(server) = server
    BY <1>3 DEF Adopted
  <2>2. QED
    BY <1>1, <1>2, <1>3, <2>1 DEF Sorts, Prepared, Times
<1>4. CASE server.generation # revision
  <2>v. PICK v : v = [server EXCEPT !.generation = revision, !.synced = {}, !.ready = FALSE]
    OBVIOUS
  <2>1. Adopted(server) = v
    BY <1>4, <2>v DEF Adopted
  <2>2. IsServer(server) /\ revision \in Nat
    BY <1>1 DEF Sorts
  <2>3. /\ DOMAIN v = ServerFields /\ v.at = server.at /\ v.generation = revision /\ v.ready = FALSE
        /\ v.synced = {} /\ v.clients = server.clients /\ v.observed = server.observed
        /\ v.since = server.since /\ v.left = server.left
    BY <2>v, <2>2 DEF IsServer, ServerFields
  <2>4. IsServer(v)
    BY <2>2, <2>3 DEF IsServer
  <2>5. Counts(v)
    BY <2>3 DEF Counts
  <2>6. QED
    BY <1>1, <1>2, <2>1, <2>3, <2>4, <2>5 DEF Times
<1>5. QED
  BY <1>3, <1>4

\* Where the control thread goes on: it waits for nothing.
LEMMA Rests ==
  ASSUME NEW s, IsServer(s)
  PROVE  /\ IsServer(Idle(s)) /\ Idle(s).at = "idle" /\ Idle(s).generation = s.generation
         /\ Idle(s).since = 0 /\ Idle(s).synced = s.synced /\ Idle(s).ready = s.ready
         /\ Idle(s).clients = s.clients
         /\ IsServer(Onward(s)) /\ Onward(s).at \in {"sync", "idle"}
         /\ Onward(s).generation = s.generation /\ Onward(s).since \in {0, s.since}
         /\ Onward(s).synced = s.synced /\ Onward(s).ready = s.ready /\ Onward(s).clients = s.clients
<1>v. PICK v : v = Idle(s)
  OBVIOUS
<1>1. /\ DOMAIN v = ServerFields /\ v.at = "idle" /\ v.generation = s.generation /\ v.ready = s.ready
      /\ v.synced = s.synced /\ v.clients = s.clients /\ v.observed = 0 /\ v.since = 0 /\ v.left = <<>>
  BY <1>v DEF Idle, IsServer, ServerFields
<1>2. IsServer(v)
  BY <1>1 DEF IsServer, ServerAt
<1>w. PICK w : w = [s EXCEPT !.at = "sync", !.left = <<>>]
  OBVIOUS
<1>3. /\ DOMAIN w = ServerFields /\ w.at = "sync" /\ w.generation = s.generation /\ w.ready = s.ready
      /\ w.synced = s.synced /\ w.clients = s.clients /\ w.observed = s.observed
      /\ w.since = s.since /\ w.left = <<>>
  BY <1>w DEF IsServer, ServerFields
<1>4. IsServer(w)
  BY <1>3 DEF IsServer, ServerAt
<1>5. Onward(s) = w \/ Onward(s) = v
  BY <1>v, <1>w DEF Onward
<1>6. QED
  BY <1>v, <1>1, <1>2, <1>3, <1>4, <1>5

\* A change of the clients leaves the rest.
LEMMA OtherClients ==
  ASSUME NEW s, IsServer(s)
  PROVE  LET t == [s EXCEPT !.clients = {}]
         IN  /\ IsServer(t) /\ t.generation = s.generation /\ t.synced = s.synced
             /\ t.ready = s.ready /\ t.since = s.since
<1>t. PICK t : t = [s EXCEPT !.clients = {}]
  OBVIOUS
<1>1. /\ DOMAIN t = ServerFields /\ t.at = s.at /\ t.generation = s.generation /\ t.ready = s.ready
      /\ t.synced = s.synced /\ t.clients = {} /\ t.observed = s.observed
      /\ t.since = s.since /\ t.left = s.left
  BY <1>t DEF IsServer, ServerFields
<1>2. IsServer(t)
  BY <1>1 DEF IsServer
<1>3. QED
  BY <1>t, <1>1, <1>2

\* The queue as it is, when nobody waits
LEMMA QuietQueue ==
  ASSUME HInv, answer # "waiting"
  PROVE  /\ commands \in Seq(CommandSet)
         /\ \A i \in 1 .. Len(commands) :
              /\ commands[i].reply = FALSE /\ commands[i].type = commands[i].type
              /\ commands[i].generation = commands[i].generation
              /\ commands[i].kind = commands[i].kind /\ commands[i].ready = commands[i].ready
         /\ DOMAIN job = JobFields /\ job.reply = FALSE
         /\ answer \in {"none", "ok", "stale", "failed"}
BY Quiet DEF HInv, Sorts, JobSorts

\* The service is built.
LEMMA CreateKeeps ==
  ASSUME HInv, Create
  PROVE  HInv'
<1>1. /\ server.at = "none" /\ revision' = revision + 1 /\ clean' = {} /\ selected' = {}
      /\ link' = End(link) /\ UNCHANGED <<commands, detaching, answer, serverRest>>
      /\ server' = [server EXCEPT !.at = "idle", !.generation = revision, !.ready = FALSE,
                                  !.synced = {}, !.clients = {}]
  BY DEF Create, Advance
<1>2. /\ IsServer(server') /\ server'.at = "idle" /\ server'.generation = revision
      /\ server'.since = server.since
  BY <1>1, Facts DEF IsServer, ServerFields, ServerAt
<1>3. answer # "waiting"
  BY <1>1, Facts DEF AwaitingAt
<1>4. QED
  BY <1>1, <1>2, <1>3, Facts, ServerStep DEF AwaitingAt, IsServer

\* Its receiver is selected.
LEMMA SelectKeeps ==
  ASSUME HInv, Select
  PROVE  HInv'
<1>1. /\ server.at = "idle" /\ revision' \in {revision + 1, revision + 2} /\ clean' = {}
      /\ selected' = {} /\ link' = End(link)
      /\ UNCHANGED <<commands, detaching, answer, serverRest>>
      /\ server' = [server EXCEPT !.clients = {}, !.ready = FALSE]
  BY DEF Select, Advance
<1>2. /\ IsServer(server') /\ server'.at = "idle" /\ server'.generation = server.generation
      /\ server'.since = server.since
  BY <1>1, Facts DEF IsServer, ServerFields, ServerAt
<1>3. answer # "waiting"
  BY <1>1, Facts DEF AwaitingAt
<1>4. QED
  BY <1>1, <1>2, <1>3, Facts, ServerStep DEF AwaitingAt, IsServer

\* The evidence is taken anew: the link is that of the adopted generation, or closed.
LEMMA Observes ==
  ASSUME HInv, NEW evidence \in SUBSET Kinds, Observe(evidence)
  PROVE  /\ server.at = "idle" /\ answer # "waiting" /\ selected' \in SUBSET Kinds
         /\ link' \in {link, End(link)} /\ UNCHANGED <<commands, detaching, answer, serverRest>>
         /\ revision' \in Nat
         /\ \/ revision' = revision /\ clean' = clean
            \/ revision < revision' /\ clean' = {}
<1>1. answer # "waiting"
  BY Facts DEF AwaitingAt, Observe
<1>2. QED
  BY <1>1, Facts, Adopts DEF Observe, Advance

\* The service after an observation: the generation adopted is that before it.
LEMMA ObservedStep ==
  ASSUME HInv, UNCHANGED <<commands, detaching, answer, serverRest>>, selected' \in SUBSET Kinds,
         answer # "waiting", link' \in {link, End(link)}, revision' \in Nat,
         \/ revision' = revision /\ clean' = clean
         \/ revision < revision' /\ clean' = {},
         NEW at \in {"observed", "drop", "fail"}, NEW observed \in Nat,
         server' = [Adopted(server) EXCEPT !.at = at, !.observed = observed]
  PROVE  HInv'
<1>t. PICK t : t = Adopted(server)
  OBVIOUS
<1>1. IsServer(t) /\ t.generation = revision /\ Counts(t) /\ t.since <= revision
  BY <1>t, Adopts
<1>2. /\ IsServer(server') /\ server'.at = at /\ server'.generation = revision
      /\ server'.since = t.since /\ server'.synced = t.synced /\ server'.ready = t.ready
  BY <1>t, <1>1 DEF IsServer, ServerFields, ServerAt
<1>3. server'.generation <= revision' /\ server'.since <= revision'
  BY <1>1, <1>2, Facts DEF IsServer
<1>4. server'.generation = revision' =>
        server'.synced \subseteq clean' /\ (server'.ready => "consumer" \in server'.synced)
  BY <1>1, <1>2, Facts DEF Counts
<1>5. QED
  BY <1>2, <1>3, <1>4, ServerStep DEF AwaitingAt

\* A refresh, and one that fails
LEMMA RefreshKeeps ==
  ASSUME HInv, Refresh
  PROVE  HInv'
<1>1. Observe(native) /\ server' = [Adopted(server) EXCEPT !.at = "observed", !.observed = revision']
  BY DEF Refresh
<1>2. native \in SUBSET Kinds
  BY Facts
<1>3. QED
  BY <1>1, <1>2, Observes, ObservedStep

\* A refresh that fails, before, in or after its observation, keeps the invariant.
LEMMA RefreshFailsKeeps ==
  ASSUME HInv, RefreshFails
  PROVE  HInv'
<1>1. PICK at \in {"drop", "fail"} : server' = [Adopted(server) EXCEPT !.at = at, !.observed = 0]
  BY DEF RefreshFails
<1>2. /\ answer # "waiting" /\ selected' \in SUBSET Kinds /\ revision' \in Nat
      /\ link' \in {link, End(link)} /\ UNCHANGED <<commands, detaching, answer, serverRest>>
      /\ \/ revision' = revision /\ clean' = clean
         \/ revision < revision' /\ clean' = {}
  <2>1. CASE Observe(selected) \/ Observe({})
    BY <2>1, Facts, Observes
  <2>2. CASE /\ server.at = "observed" /\ SameGeneration
             /\ UNCHANGED <<link, selected, commands, detaching, answer, serverRest>>
    BY <2>2, Facts DEF AwaitingAt, SameGeneration
  <2>3. QED
    BY <2>1, <2>2 DEF RefreshFails
<1>3. QED
  BY <1>1, <1>2, ObservedStep

\* The observation is of this generation.
LEMMA CurrentKeeps ==
  ASSUME HInv, Current
  PROVE  HInv'
<1>1. /\ server.at = "observed" /\ revision' = revision /\ clean' = clean
      /\ link' = AdoptedLink(server) /\ UNCHANGED <<commands, detaching, selected, answer, serverRest>>
  BY DEF Current, SameGeneration
<1>2. answer # "waiting" /\ selected \in SUBSET Kinds
  BY <1>1, Facts DEF AwaitingAt
<1>s. PICK s : s = [Adopted(server) EXCEPT !.clients = selected]
  OBVIOUS
<1>3. /\ DOMAIN s = ServerFields /\ s.at = server.at /\ s.generation = revision
      /\ s.synced = Adopted(server).synced /\ s.synced \subseteq clean /\ s.synced \in SUBSET Kinds
      /\ s.clients = selected /\ s.since \in Nat /\ s.since <= revision
      /\ s.left \in Seq(Kinds)
  BY <1>s, Adopts DEF IsServer, ServerFields, Counts
<1>y. PICK synced : synced = IF Available(s) THEN s.synced \cap s.clients ELSE {}
  OBVIOUS
<1>r. PICK ready \in BOOLEAN : ready = (Available(s) /\ "consumer" \in synced)
  OBVIOUS
<1>4. server' = [s EXCEPT !.synced = synced, !.at = "schedule", !.observed = 0, !.ready = ready]
  BY <1>s, <1>y, <1>r DEF Current
<1>5. /\ DOMAIN server' = ServerFields /\ server'.at = "schedule" /\ server'.generation = revision
      /\ server'.synced = synced /\ server'.ready = ready /\ server'.observed = 0
      /\ server'.since = s.since /\ server'.clients = selected /\ server'.left = s.left
  BY <1>3, <1>4 DEF ServerFields
<1>6. synced \subseteq clean /\ synced \in SUBSET Kinds
  BY <1>3, <1>y
<1>7. IsServer(server')
  BY <1>2, <1>3, <1>5, <1>6, Facts DEF IsServer, ServerAt
<1>8. server'.synced \subseteq clean /\ (server'.ready => "consumer" \in server'.synced)
  BY <1>5, <1>6, <1>r
<1>9. link' \in {link, End(link)}
  BY <1>1, Adopts
<1>10. server'.generation <= revision' /\ server'.since <= revision'
  BY <1>1, <1>3, <1>5, Facts
<1>11. QED
  BY <1>1, <1>2, <1>5, <1>7, <1>8, <1>9, <1>10, ServerStep DEF AwaitingAt

\* It keeps to its generation.
LEMMA SteadyStep ==
  ASSUME HInv, SameGeneration, UNCHANGED <<commands, detaching, serverRest>>, selected' = selected,
         link' \in {link, End(link)}, IsServer(server'),
         server'.generation \in {0, server.generation}, server'.since \in {0, server.since, revision},
         \/ server'.synced = {} /\ ~server'.ready
         \/ server'.synced = server.synced /\ server'.ready = server.ready
            /\ server'.generation = server.generation,
         answer # "waiting", answer' \in {"none", answer}, server'.at \notin AwaitingAt
  PROVE  HInv'
<1>1. revision' = revision /\ clean' = clean
  BY DEF SameGeneration
<1>2. server'.generation <= revision /\ server'.since <= revision
  BY Facts
<1>3. server'.generation = revision =>
        server'.synced \subseteq clean /\ (server'.ready => "consumer" \in server'.synced)
  BY Facts DEF Counts
<1>4. QED
  BY <1>1, <1>2, <1>3, Facts, ServerStep

\* What it does between two requests
LEMMA BetweenKeeps ==
  ASSUME HInv, Synchronize \/ AdapterChanged \/ Drop \/ MediaSent \/ Detached
  PROVE  HInv'
<1>1. CASE Synchronize
  <2>1. /\ server.at = "schedule" /\ SameGeneration
        /\ UNCHANGED <<link, commands, detaching, selected, answer, serverRest>>
    BY <1>1 DEF Synchronize
  <2>l. PICK left \in Seq(Kinds) : left = Of(server.clients \ server.synced)
    BY OfSorts
  <2>2. server' = [server EXCEPT !.at = "sync", !.since = revision, !.left = left]
    BY <1>1, <2>l DEF Synchronize
  <2>3. /\ IsServer(server') /\ server'.at = "sync" /\ server'.generation = server.generation
        /\ server'.since = revision /\ server'.synced = server.synced /\ server'.ready = server.ready
    BY <2>2, Facts DEF IsServer, ServerFields, ServerAt
  <2>4. answer # "waiting"
    BY <2>1, Facts DEF AwaitingAt
  <2>5. QED
    BY <2>1, <2>3, <2>4, SteadyStep DEF AwaitingAt
<1>2. CASE AdapterChanged
  <2>1. /\ server.at = "idle" /\ revision' = revision + 1 /\ clean' = {} /\ link' = link
        /\ UNCHANGED <<commands, detaching, selected, answer, serverRest>>
        /\ server' = [server EXCEPT !.at = "drop"]
    BY <1>2 DEF AdapterChanged, Advance
  <2>2. /\ IsServer(server') /\ server'.at = "drop" /\ server'.generation = server.generation
        /\ server'.since = server.since
    BY <2>1, Facts DEF IsServer, ServerFields, ServerAt
  <2>3. answer # "waiting"
    BY <2>1, Facts DEF AwaitingAt
  <2>4. QED
    BY <2>1, <2>2, <2>3, Facts, ServerStep DEF AwaitingAt, IsServer
<1>3. CASE Drop
  <2>1. /\ server.at = "drop" /\ SameGeneration /\ link' = End(link)
        /\ UNCHANGED <<commands, detaching, selected, answer, serverRest>>
    BY <1>3 DEF Drop
  <2>s. PICK s : s = Idle(server)
    OBVIOUS
  <2>2. /\ IsServer(s) /\ s.generation = server.generation /\ s.since = 0
        /\ s.synced = server.synced /\ s.ready = server.ready
    BY <2>s, Facts, Rests
  <2>l. PICK left \in Seq(Kinds) : left = Of(server.clients)
    BY OfSorts
  <2>3. server' = [s EXCEPT !.at = "release", !.left = left]
    BY <1>3, <2>s, <2>l DEF Drop
  <2>4. /\ IsServer(server') /\ server'.at = "release" /\ server'.generation = server.generation
        /\ server'.since = 0 /\ server'.synced = server.synced /\ server'.ready = server.ready
    BY <2>2, <2>3 DEF IsServer, ServerFields, ServerAt
  <2>5. answer # "waiting"
    BY <2>1, Facts DEF AwaitingAt
  <2>6. QED
    BY <2>1, <2>4, <2>5, SteadyStep DEF AwaitingAt
<1>4. CASE MediaSent
  <2>1. /\ answer \in {"ok", "stale"} /\ answer' = "none" /\ server' = Idle(server)
        /\ SameGeneration /\ UNCHANGED <<link, commands, detaching, selected, serverRest>>
    BY <1>4 DEF MediaSent
  <2>2. /\ IsServer(server') /\ server'.at = "idle" /\ server'.generation = server.generation
        /\ server'.since = 0 /\ server'.synced = server.synced /\ server'.ready = server.ready
    BY <2>1, Facts, Rests
  <2>3. QED
    BY <2>1, <2>2, SteadyStep DEF AwaitingAt
<1>5. CASE Detached
  <2>1. /\ answer = "ok" /\ answer' = "none" /\ server' = Gone
        /\ SameGeneration /\ UNCHANGED <<link, commands, detaching, selected, serverRest>>
    BY <1>5 DEF Detached
  <2>2. QED
    BY <2>1, GoneIs, SteadyStep DEF AwaitingAt
<1>6. QED
  BY <1>1, <1>2, <1>3, <1>4, <1>5

\* Whatever may have got lost withdraws the generation.
LEMMA WithdrawnKeeps ==
  ASSUME HInv, Withdrawn, UNCHANGED <<detaching, serverRest>>,
         answer # "waiting", answer' \in {"none", answer}
  PROVE  HInv'
<1>1. /\ selected' = {} /\ link' = End(link) /\ commands' = commands
      /\ \/ revision' = revision /\ clean' = clean
         \/ revision' = revision + 1 /\ clean' = {}
  BY Facts DEF Withdrawn, Advance
<1>s. PICK s : s = Onward(server)
  OBVIOUS
<1>2. IsServer(s) /\ s.at \in {"sync", "idle"} /\ s.since \in {0, server.since}
  BY <1>s, Facts, Rests
<1>3. server' = [s EXCEPT !.generation = revision', !.synced = {}, !.ready = FALSE]
  BY <1>s DEF Withdrawn
<1>4. /\ revision' \in Nat /\ revision <= revision'
      /\ \/ revision' = revision /\ clean' = clean
         \/ revision < revision' /\ clean' = {}
  BY <1>1, Facts
<1>5. /\ IsServer(server') /\ server'.at \in {"sync", "idle"} /\ server'.generation = revision'
      /\ server'.since = s.since /\ server'.synced = {} /\ server'.ready = FALSE
  BY <1>2, <1>3, <1>4 DEF IsServer, ServerFields
<1>6. server'.since <= revision'
  BY <1>2, <1>4, <1>5, Facts DEF IsServer
<1>7. QED
  BY <1>1, <1>4, <1>5, <1>6, ServerStep DEF AwaitingAt

\* A report is neutral: what the sender says, in the generation in which it was asked
LEMMA NeutralizedKeeps ==
  ASSUME HInv, Neutralized
  PROVE  HInv'
<1>1. /\ server.at = "syncing" /\ answer = "ok" /\ answer' = "none" /\ revision' = revision
      /\ clean' = clean /\ UNCHANGED <<link, commands, detaching, selected, serverRest>>
  BY DEF Neutralized, SameGeneration
<1>2. Told
  BY DEF HInv
<1>3. /\ server.left # <<>> /\ Head(server.left) \in Kinds /\ Tail(server.left) \in Seq(Kinds)
  <2>1. server.left # <<>> /\ QueueOf(server.left, Kinds)
    BY <1>1, <1>2, Facts, Queues DEF Told, IsServer
  <2>2. QED
    BY <2>1 DEF QueueOf
<1>y. PICK synced : synced = IF server.since = revision THEN server.synced \cup {Head(server.left)}
                             ELSE server.synced
  OBVIOUS
<1>4. synced \in SUBSET Kinds
  BY <1>3, <1>y, Facts DEF IsServer
<1>5. server' = [server EXCEPT !.at = "sync", !.left = Tail(server.left), !.synced = synced]
  BY <1>y DEF Neutralized
<1>6. /\ IsServer(server') /\ server'.at = "sync" /\ server'.generation = server.generation
      /\ server'.since = server.since /\ server'.synced = synced /\ server'.ready = server.ready
  BY <1>3, <1>4, <1>5, Facts DEF IsServer, ServerFields, ServerAt
<1>7. server.generation = revision =>
        synced \subseteq clean /\ (server.ready => "consumer" \in synced)
  BY <1>1, <1>2, <1>y, Facts DEF Told, Counts
<1>8. QED
  BY <1>1, <1>6, <1>7, Facts, ServerStep DEF AwaitingAt

\* The next report
LEMMA NotifyKeeps ==
  ASSUME HInv, Neutralize \/ Release
  PROVE  HInv'
<1>1. PICK from \in {"sync", "release"}, to \in {"syncing", "releasing"} : Notify(from, to)
  BY DEF Neutralize, Release
<1>2. /\ server.at = from /\ server.left # <<>> /\ answer' = "waiting"
      /\ server' = [server EXCEPT !.at = to] /\ revision' = revision /\ clean' = clean
      /\ UNCHANGED <<link, detaching, selected, serverRest>>
  BY <1>1 DEF Notify, SameGeneration
<1>3. Head(server.left) \in Kinds
  <2>1. QueueOf(server.left, Kinds)
    BY Facts, Queues DEF IsServer
  <2>2. QED
    BY <1>2, <2>1 DEF QueueOf
<1>c. PICK c \in CommandSet :
        /\ c = [Command("notify") EXCEPT !.kind = Head(server.left)] /\ c.type = "notify"
        /\ c.generation = revision /\ c.kind = Head(server.left)
  BY <1>3, NotifyCommand DEF HInv
<1>4. commands' = Append(commands, c)
  BY <1>1, <1>c DEF Notify
<1>5. /\ IsServer(server') /\ server'.at = to /\ server'.left = server.left
      /\ server'.generation = server.generation /\ server'.since = server.since
      /\ server'.synced = server.synced /\ server'.ready = server.ready
  BY <1>2, Facts DEF IsServer, ServerFields, ServerAt
<1>6. Moves
  BY <1>2, <1>5, Facts DEF Moves, serverRest, Prepared, Counts
<1>7. c.generation <= revision /\ Founded(c) /\ c.kind \in Kinds
  BY <1>3, <1>c, Facts DEF Founded
<1>8. answer # "waiting"
  BY <1>2, Facts DEF AwaitingAt
<1>9. /\ server'.at \in AwaitingAt /\ server'.left # <<>> /\ job' = job
      /\ c.type = "notify" /\ c.kind = Head(server'.left)
  BY <1>2, <1>5, <1>c DEF AwaitingAt, serverRest
<1>10. QED
  BY <1>2, <1>4, <1>6, <1>7, <1>8, <1>9, AskStep

\* A media key: while the control thread is ready, the consumer report is neutral.
LEMMA SendMediaKeeps ==
  ASSUME HInv, NEW usage \in Usages, NEW down \in BOOLEAN, SendMedia(usage, down)
  PROVE  HInv'
<1>1. /\ server.at = "idle" /\ server.ready /\ server.generation = revision /\ answer' = "waiting"
      /\ server' = [server EXCEPT !.at = "sending"] /\ revision' = revision /\ clean' = clean
      /\ UNCHANGED <<link, detaching, selected, serverRest>>
  BY DEF SendMedia, Sendable, SameGeneration
<1>c. PICK c \in CommandSet :
        /\ c = [Command("media") EXCEPT !.media = [usage |-> usage, down |-> down]]
        /\ c.type = "media" /\ c.generation = revision
  BY MediaCommand DEF HInv
<1>2. commands' = Append(commands, c)
  BY <1>c DEF SendMedia
<1>3. /\ IsServer(server') /\ server'.at = "sending" /\ server'.generation = server.generation
      /\ server'.since = server.since /\ server'.synced = server.synced /\ server'.ready = server.ready
  BY <1>1, Facts DEF IsServer, ServerFields, ServerAt
<1>4. Moves
  BY <1>1, <1>3, Facts DEF Moves, serverRest, Prepared, Counts
<1>5. c.generation <= revision /\ Founded(c)
  BY <1>1, <1>c, Facts DEF Founded, Counts
<1>6. answer # "waiting" /\ job' = job /\ server'.at \in AwaitingAt
  BY <1>1, <1>3, Facts DEF AwaitingAt, serverRest
<1>7. QED
  BY <1>1, <1>2, <1>3, <1>4, <1>5, <1>6, <1>c, AskStep

\* The service goes: the sender is told before the command is queued, if there is room for it.
LEMMA DetachKeeps ==
  ASSUME HInv, Detach
  PROVE  HInv'
<1>1. /\ server.at = "release" /\ detaching' = TRUE /\ link' = End(link) /\ revision' = revision
      /\ clean' = clean /\ UNCHANGED <<selected, serverRest>>
  BY DEF Detach, SameGeneration
<1>2. answer # "waiting"
  BY <1>1, Facts DEF AwaitingAt
<1>3. ASSUME IsServer(server'), server'.generation \in {0, server.generation},
             server'.since \in {0, server.since},
             \/ server'.synced = {} /\ ~server'.ready
             \/ server'.synced = server.synced /\ server'.ready = server.ready
                /\ server'.generation = server.generation
      PROVE  Moves
  <2>1. server'.generation <= revision /\ server'.since <= revision
    BY <1>3, Facts
  <2>2. Prepared'
    BY <1>1, <1>3, Facts DEF Prepared, Counts
  <2>3. QED
    BY <1>1, <1>3, <2>1, <2>2, Facts DEF Moves, serverRest
<1>4. CASE Room
  <2>c. PICK c \in CommandSet : /\ c = [Command("detach") EXCEPT !.generation = 0]
                                /\ c.type = "detach" /\ c.generation = 0
    BY DetachCommand DEF HInv
  <2>1. /\ commands' = Append(commands, c) /\ answer' = "waiting"
        /\ server' = [server EXCEPT !.at = "detaching"]
    BY <1>4, <2>c DEF Detach
  <2>2. /\ IsServer(server') /\ server'.at = "detaching" /\ server'.generation = server.generation
        /\ server'.since = server.since /\ server'.synced = server.synced /\ server'.ready = server.ready
    BY <2>1, Facts DEF IsServer, ServerFields, ServerAt
  <2>3. c.generation <= revision /\ Founded(c) /\ job' = job /\ server'.at \in AwaitingAt
    BY <1>1, <2>c, <2>2, Facts DEF Founded, serverRest, AwaitingAt
  <2>4. QED
    BY <1>2, <1>3, <2>c, <2>1, <2>2, <2>3, AskStep
<1>5. CASE ~Room
  <2>1. UNCHANGED <<commands, answer>> /\ server' = Gone
    BY <1>5 DEF Detach
  <2>2. Moves
    BY <1>3, <2>1, GoneIs
  <2>3. QED
    BY <1>1, <1>2, <2>1, <2>2, GoneIs, QuietStep DEF AwaitingAt, serverRest
<1>6. QED
  BY <1>4, <1>5

\* What became of a release, or of the last command, does not matter.
LEMMA ReleasedFields ==
  ASSUME HInv, server.left # <<>>, ReleasedNext
  PROVE  /\ IsServer(server') /\ server'.at = "release" /\ server'.generation = server.generation
         /\ server'.since = server.since /\ server'.synced = server.synced
         /\ server'.ready = server.ready
<1>1. Tail(server.left) \in Seq(Kinds)
  <2>1. QueueOf(server.left, Kinds)
    BY Facts, Queues DEF IsServer
  <2>2. QED
    BY <2>1 DEF QueueOf
<1>2. server' = [server EXCEPT !.at = "release", !.left = Tail(server.left)]
  BY DEF ReleasedNext
<1>3. QED
  BY <1>1, <1>2, Facts DEF IsServer, ServerFields, ServerAt

\* A release that was answered, or could not be sent, keeps the invariant.
LEMMA ReleasedKeeps ==
  ASSUME HInv, Released
  PROVE  HInv'
<1>1. /\ answer' = "none" /\ ReleasedNext /\ SameGeneration
      /\ UNCHANGED <<link, commands, detaching, selected, serverRest>>
  BY DEF Released
<1>2. server.left # <<>> /\ answer # "waiting"
  BY Facts DEF Released, HInv, Told, AwaitingAt
<1>3. QED
  BY <1>1, <1>2, ReleasedFields, SteadyStep DEF AwaitingAt

\* So does a release, or the last command, that nobody answers in time.
LEMMA DetachingTimesOutKeeps ==
  ASSUME HInv, ReleaseTimesOut \/ DetachTimesOut
  PROVE  HInv'
<1>1. /\ Abandon /\ commands' = Abandoned /\ SameGeneration /\ UNCHANGED <<link, detaching, selected>>
      /\ UNCHANGED <<session, packets, native, sender>>
  BY DEF ReleaseTimesOut, DetachTimesOut, Abandon
<1>2. /\ IsServer(server') /\ server'.at \notin AwaitingAt
      /\ server'.generation <= revision /\ server'.since <= revision
      /\ \/ server'.synced = {} /\ ~server'.ready
         \/ server'.synced = server.synced /\ server'.ready = server.ready
            /\ server'.generation = server.generation
  <2>1. CASE ReleaseTimesOut
    <3>1. server.left # <<>> /\ ReleasedNext
      BY <2>1 DEF HInv, Told, ReleaseTimesOut
    <3>2. QED
      BY <3>1, ReleasedFields, Facts DEF AwaitingAt
  <2>2. CASE DetachTimesOut
    BY <2>2, GoneIs, Facts DEF DetachTimesOut, AwaitingAt
  <2>3. QED
    BY <2>1, <2>2
<1>3. Prepared'
  BY <1>1, <1>2, Facts DEF Prepared, Counts, SameGeneration
<1>4. Moves
  BY <1>1, <1>2, <1>3, Facts DEF Moves, SameGeneration
<1>5. QED
  BY <1>1, <1>2, <1>4, AbandonStep
\* A callback came between the observation and its use.
LEMMA OutdatedKeeps ==
  ASSUME HInv, Outdated
  PROVE  HInv'
<1>1. /\ server.at = "observed" /\ SameGeneration /\ UNCHANGED <<detaching, selected, answer, serverRest>>
  BY DEF Outdated
<1>2. answer # "waiting" /\ selected \in SUBSET Kinds /\ revision \in Nat
  BY <1>1 DEF HInv, Told, AwaitingAt, Sorts
<1>s. PICK s : s = [Adopted(server) EXCEPT !.clients = {}]
  OBVIOUS
<1>3. Configure(s, AdoptedLink(server), commands) /\ server' = Idle(s)
  BY <1>s DEF Outdated
<1>4. /\ IsServer(s) /\ s.generation = revision /\ s.since <= revision
      /\ s.synced = Adopted(server).synced /\ s.ready = Adopted(server).ready
  BY <1>s, Adopts, OtherClients
<1>5. Counts(s) /\ s.generation <= revision /\ AdoptedLink(server) \in {link, End(link)}
  BY <1>2, <1>4, Adopts DEF Counts
<1>6. /\ IsServer(server') /\ server'.generation = s.generation /\ server'.since <= revision
      /\ server'.synced = s.synced /\ server'.ready = s.ready /\ server'.at \notin AwaitingAt
  BY <1>2, <1>3, <1>4, Rests DEF AwaitingAt
<1>7. QED
  BY <1>1, <1>2, <1>3, <1>4, <1>5, <1>6, QuietQueue, Reconfigured DEF serverRest

\* The end of a refresh: ready is what the neutral reports allow.
LEMMA FinishKeeps ==
  ASSUME HInv, Finish
  PROVE  HInv'
<1>1. /\ server.at \in {"schedule", "sync"} /\ SameGeneration
      /\ UNCHANGED <<detaching, selected, answer, serverRest>>
  BY DEF Finish
<1>2. /\ answer # "waiting" /\ selected \in SUBSET Kinds /\ revision \in Nat /\ IsServer(server)
      /\ server.generation <= revision /\ server.since <= revision
  BY <1>1 DEF HInv, Told, AwaitingAt, Sorts, Times
<1>r. PICK ready \in BOOLEAN : ready = (/\ Available(server) /\ "consumer" \in server.synced
                                        /\ server.generation = revision)
  OBVIOUS
<1>s. PICK s : s = [server EXCEPT !.ready = ready]
  OBVIOUS
<1>3. Configure(s, link, commands) /\ server' = Idle(s)
  BY <1>r, <1>s DEF Finish
<1>4. /\ DOMAIN s = ServerFields /\ s.at = server.at /\ s.generation = server.generation
      /\ s.ready = ready /\ s.synced = server.synced /\ s.clients = server.clients
      /\ s.observed = server.observed /\ s.since = server.since /\ s.left = server.left
  BY <1>2, <1>s DEF IsServer, ServerFields
<1>5. IsServer(s) /\ s.generation <= revision /\ s.since <= revision
  BY <1>2, <1>4 DEF IsServer
<1>6. s.generation = revision => Counts(s)
  BY <1>4, <1>r DEF HInv, Prepared, Counts
<1>7. /\ IsServer(server') /\ server'.generation = s.generation /\ server'.since <= revision
      /\ server'.synced = s.synced /\ server'.ready = s.ready /\ server'.at \notin AwaitingAt
  BY <1>2, <1>3, <1>5, Rests DEF AwaitingAt
<1>8. QED
  BY <1>1, <1>2, <1>3, <1>5, <1>6, <1>7, QuietQueue, Reconfigured DEF serverRest

\* A report for a synchronization failed: a stale one only ends it, another one revokes.
LEMMA SyncFailsKeeps ==
  ASSUME HInv, SyncFails
  PROVE  HInv'
<1>1. /\ server.at = "syncing" /\ answer \in {"stale", "failed"} /\ answer' = "none"
      /\ UNCHANGED <<detaching, serverRest>>
  BY DEF SyncFails
<1>2. /\ answer # "waiting" /\ selected \in SUBSET Kinds /\ revision \in Nat
  BY <1>1 DEF HInv, Sorts
<1>3. CASE answer = "stale"
  <2>s. PICK s : s = Onward(Adopted(server))
    OBVIOUS
  <2>1. /\ server' = s /\ Configure(s, AdoptedLink(server), commands)
        /\ SameGeneration /\ UNCHANGED selected
    BY <1>3, <2>s DEF SyncFails, Superfluous
  <2>2. /\ IsServer(s) /\ s.generation = revision /\ s.since <= revision /\ s.at \in {"sync", "idle"}
        /\ s.synced = Adopted(server).synced /\ s.ready = Adopted(server).ready
    BY <1>2, <2>s, Adopts, Rests
  <2>3. Counts(s) /\ s.generation <= revision /\ AdoptedLink(server) \in {link, End(link)}
    BY <1>2, <2>2, Adopts DEF Counts
  <2>4. /\ IsServer(server') /\ server'.generation = s.generation /\ server'.since <= revision
        /\ server'.synced = s.synced /\ server'.ready = s.ready /\ server'.at \notin AwaitingAt
    BY <2>1, <2>2 DEF AwaitingAt
  <2>5. QED
    BY <1>1, <1>2, <2>1, <2>2, <2>3, <2>4, QuietQueue, Reconfigured DEF serverRest
<1>4. CASE answer # "stale"
  <2>1. Withdrawn
    BY <1>4 DEF SyncFails
  <2>2. QED
    BY <1>1, <1>2, <2>1, WithdrawnKeeps
<1>5. QED
  BY <1>3, <1>4

\* A media report failed, or something could not be sent.
LEMMA MediaFailsKeeps ==
  ASSUME HInv, MediaFails
  PROVE  HInv'
BY WithdrawnKeeps DEF MediaFails

\* Something that could not be sent withdraws the generation.
LEMMA UnsentKeeps ==
  ASSUME HInv, Unsent
  PROVE  HInv'
<1>1. /\ server.at \in {"fail", "sync", "idle"} /\ Withdrawn
      /\ UNCHANGED <<detaching, answer, serverRest>>
  BY DEF Unsent, Sendable
<1>2. answer # "waiting"
  BY <1>1 DEF HInv, Told, AwaitingAt
<1>3. QED
  BY <1>1, <1>2, WithdrawnKeeps

\* The reply did not come in time: nobody waits for it any more.
LEMMA ReplyTimesOutKeeps ==
  ASSUME HInv, ReplyTimesOut
  PROVE  HInv'
<1>1. /\ answer' = "none" /\ job' = [job EXCEPT !.reply = FALSE]
      /\ UNCHANGED <<child, session, packets, native, sender, detaching, selected>> /\ SameGeneration
  BY DEF ReplyTimesOut, Abandon, TimedOut
<1>2. Sorts /\ JobSorts /\ Times /\ revision \in Nat /\ selected \in SUBSET Kinds
  BY DEF HInv, Sorts
<1>t. PICK t : t = Onward(Adopted(server))
  OBVIOUS
<1>s. PICK s : s = [t EXCEPT !.synced = {}, !.ready = FALSE]
  OBVIOUS
<1>3. server' = s /\ Configure(s, AdoptedLink(server), Abandoned)
  BY <1>t, <1>s DEF ReplyTimesOut, TimedOut
<1>4. /\ IsServer(t) /\ t.generation = revision /\ t.since <= revision /\ t.at \in {"sync", "idle"}
  BY <1>2, <1>t, Adopts, Rests
<1>5. /\ DOMAIN s = ServerFields /\ s.at = t.at /\ s.generation = revision
      /\ s.ready = FALSE /\ s.synced = {} /\ s.clients = t.clients
      /\ s.observed = t.observed /\ s.since = t.since /\ s.left = t.left
  BY <1>4, <1>s DEF IsServer, ServerFields
<1>6. IsServer(s) /\ Counts(s) /\ s.at \notin AwaitingAt
  BY <1>4, <1>5 DEF IsServer, Counts, AwaitingAt
<1>7. AdoptedLink(server) \in {link, End(link)}
  BY Adopts
<1>8. /\ DOMAIN job' = JobFields /\ job'.reply = FALSE /\ job'.task = job.task /\ job'.left = job.left
      /\ job'.stage = job.stage /\ job'.media = job.media /\ job'.error = job.error
  BY <1>1, <1>2 DEF JobSorts, JobFields
<1>9. /\ IsServer(server') /\ server'.generation = s.generation /\ server'.since <= revision
      /\ server'.synced = s.synced /\ server'.ready = s.ready /\ server'.at \notin AwaitingAt
  BY <1>3, <1>4, <1>5, <1>6
<1>10. /\ Abandoned \in Seq(CommandSet) /\ Len(Abandoned) = Len(commands)
       /\ \A i \in 1 .. Len(commands) :
            /\ Abandoned[i].reply = FALSE /\ Abandoned[i].type = commands[i].type
            /\ Abandoned[i].generation = commands[i].generation
            /\ Abandoned[i].kind = commands[i].kind /\ Abandoned[i].ready = commands[i].ready
  BY <1>2, AbandonedSorts
<1>11. s.generation <= revision
  BY <1>2, <1>5
<1>12. QED
  BY <1>1, <1>2, <1>3, <1>5, <1>6, <1>7, <1>8, <1>9, <1>10, <1>11, Reconfigured


-----------------------------------------------------------------------------
\* The sender thread.

\* The session: which fields an operation touches
LEMMA HidOps ==
  /\ DOMAIN Blank = HidFields /\ Blank.owners = {} /\ Blank.held = {} /\ Blank.consumer = {}
  /\ \A h, pulses : DOMAIN h = HidFields =>
       /\ DOMAIN Ended(h, pulses) = HidFields
       /\ Ended(h, pulses).owners = h.owners /\ Ended(h, pulses).held = h.held
       /\ Ended(h, pulses).consumer \subseteq h.consumer
  /\ \A h, sources : DOMAIN h = HidFields =>
       /\ DOMAIN Owned(h, sources) = HidFields
       /\ Owned(h, sources).owners = sources /\ Owned(h, sources).held = OutputsOf(sources)
       /\ Owned(h, sources).consumer = h.consumer
  /\ \A h, usage, down, number : DOMAIN h = HidFields =>
       /\ DOMAIN Media(h, usage, down, number) = HidFields
       /\ Media(h, usage, down, number).owners = h.owners
       /\ Media(h, usage, down, number).held = h.held
<1>1. DOMAIN Blank = HidFields /\ Blank.owners = {} /\ Blank.held = {} /\ Blank.consumer = {}
  BY DEF Blank, HidFields
<1>2. ASSUME NEW h, NEW pulses, DOMAIN h = HidFields
      PROVE  /\ DOMAIN Ended(h, pulses) = HidFields
             /\ Ended(h, pulses).owners = h.owners /\ Ended(h, pulses).held = h.held
             /\ Ended(h, pulses).consumer \subseteq h.consumer
  BY <1>2 DEF Ended, HidFields
<1>3. ASSUME NEW h, NEW sources, DOMAIN h = HidFields
      PROVE  /\ DOMAIN Owned(h, sources) = HidFields
             /\ Owned(h, sources).owners = sources /\ Owned(h, sources).held = OutputsOf(sources)
             /\ Owned(h, sources).consumer = h.consumer
  BY <1>3 DEF Owned, HidFields
<1>4. ASSUME NEW h, NEW usage, NEW down, NEW number, DOMAIN h = HidFields
      PROVE  /\ DOMAIN Media(h, usage, down, number) = HidFields
             /\ Media(h, usage, down, number).owners = h.owners
             /\ Media(h, usage, down, number).held = h.held
  BY <1>4 DEF Media, HidFields
<1>5. QED
  BY <1>1, <1>2, <1>3, <1>4

\* What an event leaves of it
LEMMA HandledFields ==
  ASSUME NEW h, DOMAIN h = HidFields, NEW event \in Events
  PROVE  DOMAIN Handled(h, event) = HidFields
<1>1. \A source, down : DOMAIN Update(h, source, down) = HidFields
  BY HidOps DEF Update
<1>2. \A usage, down : DOMAIN ConsumerKey(h, usage, down) = HidFields
  BY DEF ConsumerKey, HidFields
<1>k. PICK k : k = Owned(h, h.owners \cap Mapped)
  OBVIOUS
<1>3. DOMAIN k = HidFields
  BY <1>k, HidOps
<1>4. ReleasePhysical(h) = k \/ ReleasePhysical(h) = [k EXCEPT !.consumer = {}, !.pulses = {}]
  BY <1>k DEF ReleasePhysical
<1>5. DOMAIN ReleasePhysical(h) = HidFields
  BY <1>3, <1>4
<1>6. event.type \in {"output", "consumer", "release"}
  BY DEF Events
<1>7. QED
  BY <1>1, <1>2, <1>5, <1>6 DEF Handled

\* A new job of the sender
LEMMA Jobs ==
  \A task, kinds :
    /\ DOMAIN Job(task, kinds) = JobFields /\ Job(task, kinds).task = task
    /\ Job(task, kinds).left = kinds /\ Job(task, kinds).stage = "pacing"
    /\ Job(task, kinds).reply = FALSE /\ Job(task, kinds).error = "ok"
    /\ Job(task, kinds).media = NoMedia
<1> SUFFICES ASSUME NEW task, NEW kinds
             PROVE  /\ DOMAIN Job(task, kinds) = JobFields /\ Job(task, kinds).task = task
                    /\ Job(task, kinds).left = kinds /\ Job(task, kinds).stage = "pacing"
                    /\ Job(task, kinds).reply = FALSE /\ Job(task, kinds).error = "ok"
                    /\ Job(task, kinds).media = NoMedia
  OBVIOUS
<1>v. PICK v : v = [NoJob EXCEPT !.task = task, !.left = kinds]
  OBVIOUS
<1>1. /\ DOMAIN v = JobFields /\ v.task = task /\ v.left = kinds /\ v.reply = FALSE
      /\ v.error = "ok" /\ v.media = NoMedia
  BY <1>v DEF NoJob, JobFields
<1>b. PICK b : b = IF detaching THEN 0 ELSE revision
  OBVIOUS
<1>j. PICK j : j = [v EXCEPT !.stage = "pacing", !.begun = b]
  OBVIOUS
<1>2. /\ DOMAIN j = JobFields /\ j.task = task /\ j.left = kinds /\ j.stage = "pacing"
      /\ j.reply = FALSE /\ j.error = "ok" /\ j.media = NoMedia
  BY <1>1, <1>j DEF JobFields
<1>3. Job(task, kinds) = j
  BY <1>v, <1>b, <1>j DEF Job, Started
<1>4. QED
  BY <1>2, <1>3

\* The next command and the queue behind it
CommandIs(c) ==
  /\ c \in CommandSet
  /\ c.type \in {"configure", "notify", "media", "detach"}
  /\ c.generation \in Nat /\ c.generation <= revision
  /\ c.kind \in Kinds \cup {"none"} /\ c.media \in Medias
  /\ c.reply \in BOOLEAN /\ c.ready \in BOOLEAN /\ c.endpoints \in SUBSET Kinds
  /\ Founded(c) /\ Asks(c) /\ (c.type = "notify" => c.kind \in Kinds) /\ ~(job.reply /\ c.reply)

Behind(q, c) ==
  /\ q \in Seq(CommandSet)
  /\ \A i \in 1 .. Len(q) : CommandIs(q[i]) /\ ~(c.reply /\ q[i].reply)
  /\ \A i, j \in 1 .. Len(q) : q[i].reply /\ q[j].reply => i = j

\* The head of the queue is a command of this kind, and the queue behind it asks nothing twice.
LEMMA Taken ==
  ASSUME HInv, commands # <<>>
  PROVE  CommandIs(Head(commands)) /\ Behind(Tail(commands), Head(commands))
<1>1. Sorts /\ Times /\ Timely /\ OneAsks /\ Named
  BY DEF HInv
<1>2. EntrySorts
  BY <1>1, Entries
<1>3. QueueOf(commands, CommandSet)
  BY <1>1, Queues DEF Sorts
<1>4. ASSUME NEW i \in 1 .. Len(commands)
      PROVE  CommandIs(commands[i])
  BY <1>1, <1>2 DEF CommandIs, EntrySorts, Times, Timely, OneAsks, Named
<1>5. CommandIs(Head(commands))
  BY <1>3, <1>4 DEF QueueOf
<1>q. PICK q : q = Tail(commands)
  OBVIOUS
<1>6. /\ q \in Seq(CommandSet) /\ Len(q) = Len(commands) - 1 /\ Len(commands) \in Nat
      /\ \A i \in 1 .. Len(q) : q[i] = commands[i + 1] /\ i + 1 \in 1 .. Len(commands)
  BY <1>3, <1>q DEF QueueOf
<1>7. 1 \in 1 .. Len(commands) /\ Head(commands) = commands[1]
  BY <1>3 DEF QueueOf
<1>8. ASSUME NEW i \in 1 .. Len(q)
      PROVE  CommandIs(q[i]) /\ ~(Head(commands).reply /\ q[i].reply)
  <2>1. q[i] = commands[i + 1] /\ i + 1 \in 1 .. Len(commands) /\ i + 1 # 1
    BY <1>6
  <2>2. QED
    BY <1>1, <1>4, <1>7, <2>1 DEF OneAsks
<1>9. ASSUME NEW i \in 1 .. Len(q), NEW j \in 1 .. Len(q), q[i].reply, q[j].reply
      PROVE  i = j
  <2>1. /\ q[i] = commands[i + 1] /\ i + 1 \in 1 .. Len(commands)
        /\ q[j] = commands[j + 1] /\ j + 1 \in 1 .. Len(commands)
    BY <1>6
  <2>2. i + 1 = j + 1
    BY <1>1, <1>9, <2>1 DEF OneAsks
  <2>3. QED
    BY <2>2
<1>10. Behind(q, Head(commands))
  BY <1>6, <1>8, <1>9 DEF Behind
<1>11. QED
  BY <1>q, <1>5, <1>10

\* The link opened, if it is
LEMMA Opens ==
  ASSUME Sorts, NEW l \in {link, End(link)}
  PROVE  LET o == Open(l, revision)
         IN  /\ o \in LinkSet /\ o.ready \in {0, link.ready, revision}
<1>1. link \in LinkSet /\ revision \in Nat
  BY DEF Sorts
<1>2. l \in LinkSet /\ l.ready \in {0, link.ready}
  BY <1>1, LinkOps
<1>v. PICK v : v = [l EXCEPT !.open = TRUE, !.ready = revision]
  OBVIOUS
<1>3. v \in LinkSet /\ v.ready = revision
  BY <1>1, <1>2, <1>v DEF LinkSet
<1>4. Open(l, revision) = v \/ Open(l, revision) = l
  BY <1>v DEF Open
<1>5. QED
  BY <1>2, <1>3, <1>4

-----------------------------------------------------------------------------
\* A step of the sender thread keeps the invariant if it keeps what is said of the sender, its
\* job and the requests: it may make one report neutral, or revoke the generation.
LEMMA SenderMoved ==
  ASSUME HInv, UNCHANGED senderRest, detaching' \in BOOLEAN,
         packets' = packets \/ (packets # <<>> /\ packets' = Tail(packets)),
         commands' \in Seq(CommandSet),
         \A i \in 1 .. Len(commands') :
           /\ commands'[i].generation <= revision /\ Founded(commands'[i])
           /\ commands'[i].type = "notify" => commands'[i].kind \in Kinds,
         \/ revision' = revision /\ clean \subseteq clean' /\ clean' \in SUBSET Kinds
         \/ revision' = revision + 1 /\ clean' = {},
         link' \in LinkSet, link'.ready \in {0, link.ready, revision},
         link'.open => link' = link \/ clean = Kinds,
         answer' \in {"none", "waiting", "ok", "stale", "failed"},
         SenderSorts', sender'.generation <= revision, JobSorts', Empty',
         OneAsks', JobAsks', Told'
  PROVE  HInv'
<1>r. /\ revision \in Nat \ {0} /\ revision' \in Nat \ {0} /\ clean' \in SUBSET Kinds
      /\ revision' \in {revision, revision + 1} /\ revision <= revision'
      /\ revision' = revision => clean \subseteq clean'
      /\ clean = Kinds /\ revision' = revision => clean' = Kinds
  <2>1. revision \in Nat \ {0} /\ clean \in SUBSET Kinds
    BY Facts
  <2>2. CASE revision' = revision /\ clean \subseteq clean' /\ clean' \in SUBSET Kinds
    <3>1. clean = Kinds => clean' = Kinds
      BY <2>2
    <3>2. QED
      BY <2>1, <2>2, <3>1
  <2>3. CASE revision' = revision + 1 /\ clean' = {}
    BY <2>1, <2>3
  <2>4. QED
    BY <2>2, <2>3
<1>l. link.ready \in Nat /\ link.ready <= revision
  BY Facts DEF LinkSet
<1>n. server' = server /\ selected' = selected /\ native' = native /\ session' = session
  BY DEF senderRest
<1>p. /\ packets' \in Seq(PacketSet) /\ Len(packets') \in Nat
      /\ \A i \in 1 .. Len(packets') :
           \E k \in 1 .. Len(packets) : packets'[i] = packets[k]
  <2>1. QueueOf(packets, PacketSet)
    BY Queues DEF HInv, Sorts
  <2>2. CASE packets' = packets
    BY <2>1, <2>2 DEF QueueOf
  <2>3. CASE packets # <<>> /\ packets' = Tail(packets)
    BY <2>1, <2>3 DEF QueueOf
  <2>4. QED
    BY <2>2, <2>3
<1>k. /\ \A i \in 1 .. Len(packets) : packets[i].generation \in Nat /\ packets[i].generation <= revision
      /\ \A i \in 1 .. Len(commands') : commands'[i].generation \in Nat
  <2>1. EntrySorts /\ Times
    BY Entries DEF HInv
  <2>2. \A c \in CommandSet : c.generation \in Nat
    BY DEF CommandSet
  <2>3. QED
    BY <2>1, <2>2 DEF EntrySorts, Times
<1>i. /\ server.generation \in Nat /\ server.generation <= revision
      /\ server.since \in Nat /\ server.since <= revision
  BY Facts DEF IsServer
<1>1. Sorts'
  BY <1>n, <1>p, <1>r, Facts DEF Sorts
<1>4. Times'
  <2>1. link'.ready <= revision' /\ sender'.generation <= revision'
    BY <1>l, <1>r, SenderSorts' DEF SenderSorts
  <2>2. server'.generation <= revision' /\ server'.since <= revision'
    BY <1>i, <1>n, <1>r
  <2>3. \A i \in 1 .. Len(commands') : commands'[i].generation <= revision'
    BY <1>k, <1>r
  <2>4. \A i \in 1 .. Len(packets') : packets'[i].generation <= revision'
    BY <1>k, <1>p, <1>r
  <2>5. QED
    BY <2>1, <2>2, <2>3, <2>4 DEF Times
<1>5. Prepared'
  <2>1. server.generation = revision' => revision' = revision
    BY <1>i, <1>r
  <2>2. QED
    BY <1>n, <1>r, <2>1, Facts DEF Prepared, Counts
<1>6. Timely'
  <2>1. \A i \in 1 .. Len(commands') : commands'[i].generation = revision' => revision' = revision
    BY <1>k, <1>r
  <2>2. QED
    BY <1>r, <2>1 DEF Timely, Founded
<1>7. Admitted'
  <2>1. Admitted
    BY DEF HInv
  <2>2. \A i \in 1 .. Len(packets) : packets[i].generation = revision' => revision' = revision
    BY <1>k, <1>r
  <2>3. \A i \in 1 .. Len(packets) : packets[i].generation = revision' => clean' = Kinds
    BY <1>r, <2>1, <2>2 DEF Admitted
  <2>4. QED
    BY <1>p, <2>3 DEF Admitted
<1>8. Named'
  BY DEF Named
<1>9. OpenIsClean'
  <2>1. OpenIsClean
    BY DEF HInv
  <2>2. Ready(link)' => revision' = revision /\ (Ready(link) \/ clean = Kinds)
    BY <1>l, <1>r DEF Ready
  <2>3. QED
    BY <1>r, <2>1, <2>2 DEF OpenIsClean
<1> QED
  BY <1>1, <1>4, <1>5, <1>6, <1>7, <1>8, <1>9 DEF HInv

\* A step that takes no command: the link only closes; whoever waits keeps waiting or gets
\* the answer.
LEMMA SenderStep ==
  ASSUME HInv,
         UNCHANGED <<commands, detaching, senderRest>>,
         packets' = packets \/ (packets # <<>> /\ packets' = Tail(packets)),
         \/ revision' = revision /\ clean \subseteq clean' /\ clean' \in SUBSET Kinds
         \/ revision' = revision + 1 /\ clean' = {},
         link' \in {link, End(link)},
         SenderSorts', sender'.generation <= revision, JobSorts', Empty',
         \/ /\ answer' = answer
            /\ job'.reply => /\ job.reply
                             /\ job.task = "notify" => job'.task = "notify" /\ job'.left = job.left
         \/ /\ job.reply /\ job'.reply = FALSE /\ answer' \in {"ok", "stale", "failed"}
            /\ answer' = "ok" /\ job.task = "notify" => Head(job.left) \in clean'
  PROVE  HInv'
<1>1. OneAsks /\ JobAsks /\ Told /\ answer \in {"none", "waiting", "ok", "stale", "failed"}
  BY DEF HInv, Sorts
<1>2. /\ commands' = commands /\ server' = server /\ detaching' \in BOOLEAN /\ revision \in Nat
      /\ revision' = revision => clean \subseteq clean'
  BY Facts DEF senderRest
<1>3. OneAsks'
  <2>1. CASE job.reply /\ job'.reply = FALSE
    <3>1. \A i \in 1 .. Len(commands) : ~commands[i].reply
      BY <1>1, <2>1 DEF OneAsks
    <3>2. QED
      BY <1>2, <2>1, <3>1 DEF OneAsks, Asks
  <2>2. CASE answer' = answer /\ (job'.reply => job.reply)
    BY <1>1, <1>2, <2>2 DEF OneAsks, Asks
  <2>3. QED
    BY <2>1, <2>2
<1>4. JobAsks'
  <2>1. CASE job'.reply = FALSE
    BY <2>1 DEF JobAsks
  <2>2. CASE /\ answer' = answer
             /\ job'.reply => /\ job.reply
                              /\ job.task = "notify" => job'.task = "notify" /\ job'.left = job.left
    BY <1>1, <1>2, <2>2 DEF JobAsks
  <2>3. QED
    BY <2>1, <2>2
<1>5. Told'
  <2>1. CASE answer' = answer
    <3>1. server.since = revision' => revision' = revision
      BY Facts DEF IsServer
    <3>2. QED
      BY <1>1, <1>2, <2>1, <3>1 DEF Told
  <2>2. CASE /\ job.reply /\ answer' \in {"ok", "stale", "failed"}
             /\ answer' = "ok" /\ job.task = "notify" => Head(job.left) \in clean'
    BY <1>1, <1>2, <2>2 DEF Told, JobAsks
  <2>3. QED
    BY <2>1, <2>2
<1>6. /\ link' \in LinkSet /\ link'.ready \in {0, link.ready, revision}
      /\ link'.open => link' = link \/ clean = Kinds
  BY Facts
<1>7. /\ commands' \in Seq(CommandSet)
      /\ \A i \in 1 .. Len(commands') :
           /\ commands'[i].generation <= revision /\ Founded(commands'[i])
           /\ commands'[i].type = "notify" => commands'[i].kind \in Kinds
  BY <1>2, SameCommands
<1>8. answer' \in {"none", "waiting", "ok", "stale", "failed"}
  BY <1>1
<1>9. QED
  BY <1>2, <1>3, <1>4, <1>5, <1>6, <1>7, <1>8, SenderMoved

\* What the sender forgets of a generation, and what revokes it
LEMMA Judges ==
  ASSUME NEW s, DOMAIN s = SenderFields, s.authorized \in BOOLEAN, NEW result
  PROVE  /\ DOMAIN Judged(s, result) = SenderFields
         /\ Judged(s, result).authorized \in BOOLEAN /\ Judged(s, result).mapping = s.mapping
         /\ Judged(s, result).generation = s.generation
         /\ Judged(s, result).endpoints = s.endpoints /\ Judged(s, result).hid = s.hid
<1>v. PICK v : v = [s EXCEPT !.authorized = FALSE]
  OBVIOUS
<1>1. /\ DOMAIN v = SenderFields /\ v.authorized = FALSE /\ v.mapping = s.mapping
      /\ v.generation = s.generation /\ v.endpoints = s.endpoints /\ v.hid = s.hid
  BY <1>v DEF SenderFields
<1>2. Judged(s, result) \in {s, v}
  BY <1>v DEF Judged
<1>3. QED
  BY <1>1, <1>2

\* Only a failure revokes: it ends the generation and closes the link.
LEMMA Revokes ==
  ASSUME Sorts, NEW result, Revoke(result)
  PROVE  /\ \/ revision' = revision /\ clean' = clean
            \/ result = "failed" /\ revision' = revision + 1 /\ clean' = {}
         /\ link' \in {link, End(link)}
BY DEF Revoke, Advance, SameGeneration, Sorts

\* No job
LEMMA Unemployed ==
  /\ DOMAIN NoJob = JobFields /\ NoJob.task = "none" /\ NoJob.stage = "none"
  /\ NoJob.reply = FALSE /\ NoJob.error = "ok" /\ NoJob.media \in Medias
BY DEF NoJob, NoMedia, JobFields, Medias

\* What is down after a step: no more than before, in a generation in which no fewer reports
\* are neutral
LEMMA StaysEmpty ==
  ASSUME HInv,
         \/ revision' = revision /\ clean \subseteq clean'
         \/ revision' = revision + 1,
         sender'.generation = sender.generation,
         sender'.hid.consumer \subseteq sender.hid.consumer,
         sender'.hid.owners \subseteq sender.hid.owners,
         sender'.hid.held \subseteq sender.hid.held \/ sender'.hid.held = OutputsOf(sender'.hid.owners),
         job'.task = "media" => job.task = "media",
         clean \subseteq Kinds, clean' \subseteq Kinds
  PROVE  Empty'
<1>1. Empty /\ Times /\ Sorts /\ SenderSorts
  BY DEF HInv
<1>2. CASE revision' = revision + 1
  BY <1>1, <1>2 DEF Empty, Times, Sorts, SenderSorts
<1>3. CASE revision' = revision /\ clean \subseteq clean'
  <2>1. clean' # Kinds => clean # Kinds
    BY <1>3
  <2>2. sender'.hid.owners = {} => OutputsOf(sender'.hid.owners) = {}
    BY DEF OutputsOf
  <2>3. QED
    BY <1>1, <1>3, <2>1, <2>2 DEF Empty
<1>4. QED
  BY <1>2, <1>3


\* A step that takes the next command: it is answered, or its job asks in its place.
LEMMA TakeStep ==
  ASSUME HInv, Take, SameGeneration, detaching' \in BOOLEAN,
         link' \in LinkSet, link'.ready \in {0, link.ready, revision},
         link'.open => link' = link \/ clean = Kinds,
         SenderSorts', sender'.generation <= revision, JobSorts', Empty',
         \/ answer' = answer /\ job'.reply = FALSE
         \/ /\ command.reply /\ job'.reply = FALSE /\ answer' \in {"ok", "stale"}
            /\ answer' = "ok" => command.type # "notify"
         \/ /\ answer' = answer /\ job'.reply = command.reply
            /\ command.type = "notify" => job'.task = "notify" /\ Head(job'.left) = command.kind
  PROVE  HInv'
<1>1. /\ commands # <<>> /\ commands' = Tail(commands) /\ UNCHANGED <<packets, senderRest>>
      /\ server' = server /\ revision' = revision /\ clean' = clean
  BY DEF Take, senderRest, SameGeneration
<1>2. CommandIs(command) /\ Behind(commands', command)
  BY <1>1, Taken DEF command
<1>3. Told /\ answer \in {"none", "waiting", "ok", "stale", "failed"}
  BY DEF HInv, Sorts
<1>4. /\ commands' \in Seq(CommandSet)
      /\ \A i \in 1 .. Len(commands') :
           /\ commands'[i].generation <= revision /\ Founded(commands'[i])
           /\ commands'[i].type = "notify" => commands'[i].kind \in Kinds
  BY <1>2 DEF Behind, CommandIs
<1>5. CASE answer' = answer /\ job'.reply \in {FALSE, command.reply}
  <2>1. OneAsks'
    BY <1>1, <1>2, <1>5 DEF OneAsks, Behind, CommandIs, Asks
  <2>2. Told'
    BY <1>1, <1>3, <1>5 DEF Told
  <2>3. JobAsks'
    <3>1. CASE job'.reply = FALSE
      BY <3>1 DEF JobAsks
    <3>2. CASE /\ answer' = answer /\ job'.reply = command.reply
               /\ command.type = "notify" => job'.task = "notify" /\ Head(job'.left) = command.kind
      BY <1>1, <1>2, <3>2 DEF JobAsks, CommandIs, Asks
    <3>3. QED
      BY <3>1, <3>2
  <2>4. QED
    BY <1>1, <1>3, <1>4, <1>5, <2>1, <2>2, <2>3, Facts, SenderMoved
<1>6. CASE /\ command.reply /\ job'.reply = FALSE /\ answer' \in {"ok", "stale"}
           /\ answer' = "ok" => command.type # "notify"
  <2>1. \A i \in 1 .. Len(commands') : ~commands'[i].reply
    BY <1>2, <1>6 DEF Behind
  <2>2. OneAsks' /\ JobAsks'
    BY <1>6, <2>1 DEF OneAsks, Asks, JobAsks
  <2>3. Told'
    BY <1>1, <1>2, <1>3, <1>6 DEF Told, CommandIs, Asks
  <2>4. QED
    BY <1>1, <1>4, <1>6, <2>2, <2>3, Facts, SenderMoved
<1>7. QED
  BY <1>5, <1>6

\* What is known of the sender before it
LEMMA SenderFacts ==
  ASSUME HInv
  PROVE  /\ DOMAIN sender = SenderFields /\ sender.authorized \in BOOLEAN
         /\ sender.endpoints \in SUBSET Kinds /\ sender.generation \in Nat
         /\ sender.mapping \in Nat /\ DOMAIN sender.hid = HidFields
         /\ sender.generation <= revision /\ clean \in SUBSET Kinds
BY DEF HInv, SenderSorts, Times, Sorts

\* A command that does not concern the generation: the sender turns to the next one.
LEMMA PassedOver ==
  ASSUME HInv, Take, SameGeneration, UNCHANGED <<link, detaching, job>>,
         sender' = [sender EXCEPT !.at = "top"],
         \/ answer' = answer
         \/ command.reply /\ answer' = "stale"
  PROVE  HInv'
<1>1. /\ job = NoJob /\ revision' = revision /\ clean' = clean
  BY DEF Take, SameGeneration
<1>2. /\ DOMAIN sender' = SenderFields /\ sender'.authorized = sender.authorized
      /\ sender'.endpoints = sender.endpoints /\ sender'.generation = sender.generation
      /\ sender'.mapping = sender.mapping /\ sender'.hid = sender.hid
  BY SenderFacts DEF SenderFields
<1>3. SenderSorts' /\ sender'.generation <= revision
  BY <1>2, SenderFacts DEF SenderSorts
<1>4. JobSorts' /\ job'.reply = FALSE
  BY <1>1, Unemployed DEF JobSorts
<1>5. Empty'
  BY <1>1, <1>2, SenderFacts, StaysEmpty
<1>6. QED
  BY <1>3, <1>4, <1>5, Facts, TakeStep

\* The service is gone: the sender knows nothing.
LEMMA TakeDetachKeeps ==
  ASSUME HInv, TakeDetach
  PROVE  HInv'
<1>1. /\ Take /\ command.type = "detach" /\ SameGeneration /\ link' = End(link)
      /\ detaching' = FALSE /\ job' = job /\ job = NoJob /\ revision' = revision /\ clean' = clean
      /\ sender' = [sender EXCEPT !.at = "top", !.authorized = FALSE, !.endpoints = {}, !.hid = Blank]
      /\ answer' = IF command.reply THEN "ok" ELSE answer
  BY DEF TakeDetach, Take, Emptied, Reply, SameGeneration
<1>2. /\ DOMAIN sender' = SenderFields /\ sender'.authorized = FALSE /\ sender'.endpoints = {}
      /\ sender'.generation = sender.generation /\ sender'.mapping = sender.mapping
      /\ sender'.hid = Blank
  BY <1>1, SenderFacts DEF SenderFields
<1>3. SenderSorts' /\ sender'.generation <= revision
  BY <1>2, SenderFacts, HidOps DEF SenderSorts
<1>4. JobSorts' /\ job'.reply = FALSE
  BY <1>1, Unemployed DEF JobSorts
<1>5. Empty'
  BY <1>1, <1>2, HidOps, Unemployed DEF Empty
<1>6. QED
  BY <1>1, <1>3, <1>4, <1>5, Facts, TakeStep

\* The sender is told the generation and what it has endpoints for, and whether input may follow.
LEMMA TakeConfigureKeeps ==
  ASSUME HInv, TakeConfigure
  PROVE  HInv'
<1>1. /\ Take /\ command.type = "configure" /\ SameGeneration /\ revision' = revision /\ clean' = clean
      /\ UNCHANGED <<detaching, answer, job>> /\ job = NoJob
  BY DEF TakeConfigure, Take, SameGeneration
<1>2. /\ command.endpoints \in SUBSET Kinds /\ command.ready \in BOOLEAN /\ Founded(command)
  BY Taken DEF Take, TakeConfigure, command, CommandIs
<1>3. CASE detaching \/ ~IsCurrent
  <2>1. sender' = [sender EXCEPT !.at = "top"] /\ link' = link
    BY <1>3 DEF TakeConfigure
  <2>2. QED
    BY <1>1, <2>1, PassedOver
<1>4. CASE ~(detaching \/ ~IsCurrent)
  <2>a. PICK authorized \in BOOLEAN : authorized = (command.ready /\ command.endpoints = Kinds)
    OBVIOUS
  <2>h. PICK hid : hid = IF command.generation # sender.generation THEN Blank ELSE sender.hid
    OBVIOUS
  <2>l. PICK l \in {link, End(link)} :
          l = IF command.generation # sender.generation THEN End(link) ELSE link
    OBVIOUS
  <2>1. command.generation = revision
    BY <1>4 DEF IsCurrent
  <2>2. /\ sender' = [sender EXCEPT !.at = "top", !.generation = revision,
                        !.endpoints = command.endpoints, !.authorized = authorized, !.hid = hid]
        /\ link' = IF authorized THEN Open(l, revision) ELSE End(link)
    BY <1>4, <2>1, <2>a, <2>h, <2>l DEF TakeConfigure
  <2>3. /\ DOMAIN sender' = SenderFields /\ sender'.authorized = authorized
        /\ sender'.endpoints = command.endpoints /\ sender'.generation = revision
        /\ sender'.mapping = sender.mapping /\ sender'.hid = hid
    BY <2>2, SenderFacts DEF SenderFields
  <2>4. DOMAIN hid = HidFields /\ (sender.generation = revision => hid = sender.hid)
        /\ (sender.generation # revision => hid = Blank)
    BY <2>1, <2>h, SenderFacts, HidOps
  <2>5. SenderSorts' /\ sender'.generation <= revision
    BY <1>2, <2>3, <2>4, SenderFacts, Facts DEF SenderSorts
  <2>6. JobSorts' /\ job'.reply = FALSE
    BY <1>1, Unemployed DEF JobSorts
  <2>7. Empty'
    BY <1>1, <2>3, <2>4, HidOps, Unemployed DEF HInv, Empty
  <2>8. authorized => clean = Kinds
    BY <1>1, <1>2, <2>1, <2>a DEF Founded
  <2>9. /\ Open(l, revision) \in LinkSet /\ Open(l, revision).ready \in {0, link.ready, revision}
    BY Opens DEF HInv
  <2>10. /\ link' \in LinkSet /\ link'.ready \in {0, link.ready, revision}
         /\ link'.open => link' = link \/ clean = Kinds
    BY <2>2, <2>8, <2>9, Facts
  <2>11. QED
    BY <1>1, <2>5, <2>6, <2>7, <2>10, Facts, TakeStep
<1>5. QED
  BY <1>3, <1>4

\* A report is to be made neutral: what it showed is forgotten.
LEMMA TakeNotifyKeeps ==
  ASSUME HInv, TakeNotify
  PROVE  HInv'
<1>1. /\ Take /\ command.type = "notify" /\ SameGeneration /\ revision' = revision /\ clean' = clean
      /\ UNCHANGED <<link, detaching>>
  BY DEF TakeNotify, Take, SameGeneration
<1>2. command.kind \in Kinds /\ command.reply \in BOOLEAN
  BY Taken DEF Take, TakeNotify, command, CommandIs
<1>3. CASE ~IsCurrent
  BY <1>1, <1>3, PassedOver DEF TakeNotify, Reply
<1>4. CASE IsCurrent
  <2>e. PICK e : e = [sender.hid EXCEPT !.consumer = {}, !.pulses = {}]
    OBVIOUS
  <2>1. /\ DOMAIN e = HidFields /\ e.owners = sender.hid.owners /\ e.held = sender.hid.held
        /\ e.consumer = {}
    BY <2>e, SenderFacts DEF HidFields
  <2>h. PICK hid : hid = IF command.kind = "consumer" THEN e ELSE sender.hid
    OBVIOUS
  <2>s. PICK s : s = [sender EXCEPT !.hid = hid]
    OBVIOUS
  <2>b. PICK b : b = Job("notify", <<command.kind>>)
    OBVIOUS
  <2>2. /\ sender' = [s EXCEPT !.at = "top"] /\ answer' = answer
        /\ job' = [b EXCEPT !.neutral = TRUE, !.reply = command.reply]
    BY <1>4, <2>e, <2>h, <2>s, <2>b DEF TakeNotify, Begin
  <2>3. /\ DOMAIN hid = HidFields /\ hid.owners = sender.hid.owners
        /\ hid.held = sender.hid.held /\ hid.consumer \subseteq sender.hid.consumer
    BY <2>1, <2>h, SenderFacts
  <2>4. /\ DOMAIN sender' = SenderFields /\ sender'.mapping = sender.mapping
        /\ sender'.authorized = sender.authorized /\ sender'.endpoints = sender.endpoints
        /\ sender'.generation = sender.generation /\ sender'.hid = hid
    BY <2>2, <2>s, SenderFacts DEF SenderFields
  <2>5. SenderSorts' /\ sender'.generation <= revision
    BY <2>3, <2>4, SenderFacts DEF SenderSorts
  <2>6. /\ DOMAIN b = JobFields /\ b.task = "notify" /\ b.left = <<command.kind>>
        /\ b.stage = "pacing" /\ b.error = "ok" /\ b.media = NoMedia
    BY <2>b, Jobs
  <2>7. /\ DOMAIN job' = JobFields /\ job'.task = "notify" /\ job'.left = <<command.kind>>
        /\ job'.stage = "pacing" /\ job'.reply = command.reply /\ job'.error = "ok"
        /\ job'.media = NoMedia
    BY <2>2, <2>6 DEF JobFields
  <2>8. /\ <<command.kind>> \in Seq(Kinds) /\ Len(<<command.kind>>) = 1
        /\ Head(<<command.kind>>) = command.kind /\ NoMedia \in Medias
    BY <1>2 DEF NoMedia, Medias
  <2>9. JobSorts'
    BY <1>2, <2>7, <2>8 DEF JobSorts
  <2>10. Empty'
    BY <1>1, <2>3, <2>4, <2>7, SenderFacts, StaysEmpty
  <2>11. Head(job'.left) = command.kind
    BY <2>7, <2>8
  <2>12. QED
    BY <1>1, <2>2, <2>5, <2>7, <2>9, <2>10, <2>11, Facts, TakeStep
<1>5. QED
  BY <1>3, <1>4

\* A media key: its report is neutral in this generation.
LEMMA TakeMediaKeeps ==
  ASSUME HInv, TakeMedia
  PROVE  HInv'
<1>1. /\ Take /\ command.type = "media" /\ SameGeneration /\ revision' = revision /\ clean' = clean
      /\ UNCHANGED <<link, detaching>>
  BY DEF TakeMedia, Take, SameGeneration
<1>2. command.reply \in BOOLEAN /\ command.media \in Medias /\ Founded(command)
  BY Taken DEF Take, TakeMedia, command, CommandIs
<1>3. CASE ~IsCurrent
  BY <1>1, <1>3, PassedOver DEF TakeMedia, Reply
<1>4. CASE IsCurrent
  <2>p. PICK pulses : pulses = IF command.media.down THEN Superseded(sender.hid, command.media.usage)
                               ELSE {}
    OBVIOUS
  <2>h. PICK hid : hid = Ended(sender.hid, pulses)
    OBVIOUS
  <2>n. PICK n : n = sender.endpoints \cup {"consumer"}
    OBVIOUS
  <2>s. PICK s : s = [sender EXCEPT !.endpoints = n, !.hid = hid]
    OBVIOUS
  <2>k. PICK kinds : kinds = IF pulses = {} THEN <<>> ELSE <<"consumer">>
    OBVIOUS
  <2>b. PICK b : b = Job("media", kinds)
    OBVIOUS
  <2>g. PICK stage : stage = IF pulses = {} THEN "press" ELSE b.stage
    OBVIOUS
  <2>1. /\ sender' = [s EXCEPT !.at = "top"] /\ answer' = answer
        /\ job' = [b EXCEPT !.stage = stage, !.media = command.media, !.reply = command.reply]
    BY <1>4, <2>p, <2>h, <2>n, <2>s, <2>k, <2>b, <2>g DEF TakeMedia, Begin
  <2>2. /\ DOMAIN hid = HidFields /\ hid.owners = sender.hid.owners
        /\ hid.held = sender.hid.held /\ hid.consumer \subseteq sender.hid.consumer
    BY <2>h, SenderFacts, HidOps
  <2>3. /\ DOMAIN sender' = SenderFields /\ sender'.mapping = sender.mapping
        /\ sender'.authorized = sender.authorized /\ sender'.endpoints = n
        /\ sender'.generation = sender.generation /\ sender'.hid = hid
    BY <2>1, <2>s, SenderFacts DEF SenderFields
  <2>4. SenderSorts' /\ sender'.generation <= revision
    BY <2>2, <2>3, <2>n, SenderFacts, KindsKnown DEF SenderSorts
  <2>5. DOMAIN b = JobFields /\ b.task = "media" /\ b.error = "ok"
    BY <2>b, Jobs
  <2>6. /\ DOMAIN job' = JobFields /\ job'.task = "media" /\ job'.reply = command.reply
        /\ job'.error = "ok" /\ job'.media = command.media
    BY <2>1, <2>5 DEF JobFields
  <2>7. JobSorts'
    BY <1>2, <2>6 DEF JobSorts
  <2>8. "consumer" \in clean
    BY <1>1, <1>2, <1>4 DEF Founded, IsCurrent
  <2>9. Empty'
    BY <1>1, <2>2, <2>3, <2>8 DEF HInv, Empty
  <2>10. QED
    BY <1>1, <2>1, <2>4, <2>6, <2>7, <2>9, Facts, TakeStep
<1>5. QED
  BY <1>3, <1>4
\* One report of a job is done: the job goes on, or ends and answers.
LEMMA ProceedKeeps ==
  ASSUME HInv, NEW result \in {"ok", "stale", "failed"}, Proceed(result),
         UNCHANGED <<packets, commands, detaching, senderRest>>
  PROVE  HInv'
<1>a. /\ Sorts /\ SenderSorts /\ JobSorts /\ Times
      /\ revision \in Nat /\ clean \in SUBSET Kinds /\ sender.generation <= revision
  BY DEF HInv, Sorts, Times
<1>l. link \in {link, End(link)}
  OBVIOUS
<1>1. ASSUME NEW final \in {"ok", "stale", "failed"}, Conclude(final),
             final = "ok" => job.task # "notify" \/ final = result
      PROVE  HInv'
  <2>1. job' = NoJob /\ sender' = Judged(sender, final) /\ Reply(job.reply, final)
    BY <1>1 DEF Conclude
  <2>2. /\ DOMAIN sender = SenderFields /\ sender.authorized \in BOOLEAN
        /\ sender.endpoints \in SUBSET Kinds /\ sender.generation \in Nat
        /\ sender.mapping \in Nat /\ DOMAIN sender.hid = HidFields
    BY <1>a DEF SenderSorts
  <2>3. /\ DOMAIN sender' = SenderFields /\ sender'.authorized \in BOOLEAN
        /\ sender'.mapping = sender.mapping /\ sender'.generation = sender.generation
        /\ sender'.endpoints = sender.endpoints /\ sender'.hid = sender.hid
    BY <2>1, <2>2, Judges
  <2>4. SenderSorts'
    BY <2>2, <2>3 DEF SenderSorts
  <2>5. /\ DOMAIN job' = JobFields /\ job'.task = "none" /\ job'.stage = "none"
        /\ job'.reply = FALSE /\ job'.error = "ok" /\ job'.media \in Medias
    BY <2>1, Unemployed
  <2>6. JobSorts'
    BY <2>5 DEF JobSorts
  <2>7. /\ \/ revision' = revision /\ clean \subseteq clean' /\ clean' \in SUBSET Kinds
           \/ revision' = revision + 1 /\ clean' = {}
        /\ link' \in {link, End(link)}
        /\ final = "ok" /\ job.task = "notify" => Head(job.left) \in clean'
    <3>1. CASE final = "ok" /\ job.task = "notify"
      <4>1. QueueOf(job.left, Kinds) /\ Len(job.left) = 1
        BY <1>a, <3>1, Queues DEF JobSorts
      <4>2. Head(job.left) \in Kinds
        BY <4>1 DEF QueueOf
      <4>3. clean' = clean \cup {Head(job.left)} /\ revision' = revision /\ link' = link
        BY <1>1, <3>1 DEF Conclude
      <4>4. QED
        BY <1>a, <4>2, <4>3
    <3>2. CASE ~(final = "ok" /\ job.task = "notify")
      <4>1. Revoke(final)
        BY <1>1, <3>2 DEF Conclude
      <4>2. QED
        BY <1>a, <3>2, <4>1, Revokes
    <3>3. QED
      BY <3>1, <3>2
  <2>8. clean \subseteq Kinds /\ clean' \subseteq Kinds
    BY <1>a, <2>7
  <2>9. Empty'
    BY <2>3, <2>5, <2>7, <2>8, StaysEmpty
  <2>10. sender'.generation <= revision
    BY <1>a, <2>3
  <2>11. \/ answer' = answer /\ job'.reply = FALSE
         \/ job.reply /\ job'.reply = FALSE /\ answer' = final
    BY <2>1, <2>5 DEF Reply
  <2>12. QED
    BY <1>1, <2>4, <2>6, <2>7, <2>9, <2>10, <2>11, SenderStep
<1>2. ASSUME DOMAIN job' = JobFields, job'.task = job.task, job.task # "notify",
             job'.reply = job.reply, job'.error \in {"ok", "stale", "failed"}, job'.media = job.media,
             job'.stage \in {"pacing", "press"}, job'.stage = "press" => job.task = "media",
             SameGeneration, UNCHANGED <<link, answer, sender>>
      PROVE  HInv'
  <2>1. revision' = revision /\ clean' = clean
    BY <1>2 DEF SameGeneration
  <2>2. SenderSorts' /\ sender'.generation <= revision
    BY <1>a, <1>2 DEF SenderSorts
  <2>3. JobSorts'
    BY <1>a, <1>2 DEF JobSorts
  <2>4. Empty'
    BY <1>2, <2>1 DEF HInv, Empty
  <2>5. QED
    BY <1>a, <1>2, <2>1, <2>2, <2>3, <2>4, SenderStep
<1>e. PICK error : error = IF job.error = "ok" THEN result ELSE job.error
  OBVIOUS
<1>3. error \in {"ok", "stale", "failed"}
  BY <1>a, <1>e DEF JobSorts
<1>t. PICK left : left = Tail(job.left)
  OBVIOUS
<1>v. PICK v : v = [job EXCEPT !.left = left, !.late = FALSE]
  OBVIOUS
<1>b. PICK b : b = IF detaching THEN 0 ELSE revision
  OBVIOUS
<1>w. PICK next : next = [v EXCEPT !.stage = "pacing", !.begun = b]
  OBVIOUS
<1>4. /\ DOMAIN v = JobFields /\ v.task = job.task /\ v.reply = job.reply
      /\ v.error = job.error /\ v.media = job.media
  BY <1>a, <1>v DEF JobSorts, JobFields
<1>5. /\ DOMAIN next = JobFields /\ next.task = job.task /\ next.reply = job.reply
      /\ next.error = job.error /\ next.media = job.media /\ next.stage = "pacing"
  BY <1>4, <1>w DEF JobFields
<1>6. \/ job.task = "reset" /\ Conclude(error)
      \/ job.task # "reset" /\ Conclude(result)
      \/ /\ job.task = "reset" /\ job' = [next EXCEPT !.error = error]
         /\ SameGeneration /\ UNCHANGED <<link, answer, sender>>
      \/ /\ job.task # "reset" /\ left # <<>> /\ job' = next
         /\ SameGeneration /\ UNCHANGED <<link, answer, sender>>
      \/ /\ job.task = "media" /\ job' = [next EXCEPT !.stage = "press"]
         /\ SameGeneration /\ UNCHANGED <<link, answer, sender>>
  BY <1>e, <1>t, <1>v, <1>b, <1>w DEF Proceed, Started
<1>7. CASE job.task = "reset" /\ Conclude(error)
  BY <1>1, <1>3, <1>7
<1>8. CASE job.task # "reset" /\ Conclude(result)
  BY <1>1, <1>8
<1>9. CASE /\ job.task = "reset" /\ job' = [next EXCEPT !.error = error]
           /\ SameGeneration /\ UNCHANGED <<link, answer, sender>>
  <2>1. /\ DOMAIN job' = JobFields /\ job'.task = job.task /\ job'.reply = job.reply
        /\ job'.error = error /\ job'.media = job.media /\ job'.stage = "pacing"
    BY <1>5, <1>9 DEF JobFields
  <2>2. QED
    BY <1>2, <1>3, <1>9, <2>1
<1>10. CASE /\ job.task # "reset" /\ left # <<>> /\ job' = next
            /\ SameGeneration /\ UNCHANGED <<link, answer, sender>>
  <2>1. job.task # "notify"
    <3>1. job.task = "notify" => QueueOf(job.left, Kinds) /\ Len(job.left) = 1
      BY <1>a, Queues DEF JobSorts
    <3>2. job.task = "notify" => job.left # <<>> /\ left \in Seq(Kinds) /\ Len(left) = 0
      BY <1>t, <3>1 DEF QueueOf
    <3>3. QED
      BY <1>10, <3>2
  <2>2. job.error \in {"ok", "stale", "failed"}
    BY <1>a DEF JobSorts
  <2>3. QED
    BY <1>2, <1>5, <1>10, <2>1, <2>2
<1>11. CASE /\ job.task = "media" /\ job' = [next EXCEPT !.stage = "press"]
            /\ SameGeneration /\ UNCHANGED <<link, answer, sender>>
  <2>1. /\ DOMAIN job' = JobFields /\ job'.task = job.task /\ job'.reply = job.reply
        /\ job'.error = job.error /\ job'.media = job.media /\ job'.stage = "press"
    BY <1>5, <1>11 DEF JobFields
  <2>2. job.error \in {"ok", "stale", "failed"}
    BY <1>a DEF JobSorts
  <2>3. QED
    BY <1>2, <1>11, <2>1, <2>2
<1>12. QED
  BY <1>6, <1>7, <1>8, <1>9, <1>10, <1>11

\* What became of a report
LEMMA DeliveryKeeps ==
  ASSUME HInv, Retired \/ Completed \/ Failed \/ Cancelled
  PROVE  HInv'
<1>1. PICK result \in {"ok", "stale", "failed"} :
        Proceed(result) /\ UNCHANGED <<packets, commands, detaching, senderRest>>
  BY DEF Retired, Completed, Failed, Cancelled, deliveryRest
<1>2. QED
  BY <1>1, ProceedKeeps

\* A tap ends on time.
LEMMA PulseKeeps ==
  ASSUME HInv, Pulse
  PROVE  HInv'
<1>1. /\ UNCHANGED <<link, packets, commands, detaching, answer, shown, senderRest>>
      /\ SameGeneration /\ job = NoJob
  BY DEF Pulse
<1>2. /\ DOMAIN sender = SenderFields /\ sender.authorized \in BOOLEAN
      /\ sender.endpoints \in SUBSET Kinds /\ sender.generation \in Nat
      /\ sender.mapping \in Nat /\ DOMAIN sender.hid = HidFields
      /\ sender.generation <= revision /\ clean \in SUBSET Kinds
  BY DEF HInv, SenderSorts, Times, Sorts
<1>3. PICK pulse : Begin([sender EXCEPT !.hid = Ended(@, {pulse})], Job("pulse", <<"consumer">>))
  BY DEF Pulse
<1>h. PICK hid : hid = Ended(sender.hid, {pulse})
  OBVIOUS
<1>s. PICK s : s = [sender EXCEPT !.hid = hid]
  OBVIOUS
<1>4. sender' = [s EXCEPT !.at = "top"] /\ job' = Job("pulse", <<"consumer">>)
  BY <1>3, <1>h, <1>s DEF Begin
<1>5. /\ DOMAIN hid = HidFields /\ hid.owners = sender.hid.owners /\ hid.held = sender.hid.held
      /\ hid.consumer \subseteq sender.hid.consumer
  BY <1>2, <1>h, HidOps
<1>6. /\ DOMAIN sender' = SenderFields /\ sender'.authorized = sender.authorized
      /\ sender'.endpoints = sender.endpoints /\ sender'.generation = sender.generation
      /\ sender'.mapping = sender.mapping /\ sender'.hid = hid
  BY <1>2, <1>s, <1>4 DEF SenderFields
<1>7. SenderSorts' /\ sender'.generation <= revision
  BY <1>2, <1>5, <1>6 DEF SenderSorts
<1>8. /\ DOMAIN job' = JobFields /\ job'.task = "pulse" /\ job'.stage = "pacing"
      /\ job'.reply = FALSE /\ job'.error = "ok" /\ job'.media = NoMedia /\ NoMedia \in Medias
  BY <1>4, Jobs, Unemployed DEF NoJob
<1>9. JobSorts'
  BY <1>8 DEF JobSorts
<1>10. revision' = revision /\ clean' = clean
  BY <1>1 DEF SameGeneration
<1>11. Empty'
  BY <1>2, <1>5, <1>6, <1>8, <1>10, StaysEmpty
<1>12. QED
  BY <1>1, <1>2, <1>7, <1>8, <1>9, <1>10, <1>11, SenderStep

\* A handler that sends nothing: what it changed counts only when it revokes.
LEMMA NothingKeeps ==
  ASSUME HInv, job = NoJob, UNCHANGED <<commands, detaching, answer, senderRest>>,
         packets' = packets \/ (packets # <<>> /\ packets' = Tail(packets)),
         NEW s, NEW result, Nothing(s, result), s = sender \/ result = "failed",
         DOMAIN s = SenderFields, s.authorized \in BOOLEAN, s.mapping = sender.mapping,
         s.generation = sender.generation, s.endpoints = sender.endpoints,
         DOMAIN s.hid = HidFields
  PROVE  HInv'
<1>1. /\ sender.endpoints \in SUBSET Kinds /\ sender.generation \in Nat /\ sender.mapping \in Nat
      /\ sender.generation <= revision /\ Sorts
  BY DEF HInv, SenderSorts, Times
<1>2. sender' = [Judged(s, result) EXCEPT !.at = "top"] /\ Revoke(result) /\ job' = job
  BY DEF Nothing
<1>j. PICK j : j = Judged(s, result)
  OBVIOUS
<1>3. /\ DOMAIN j = SenderFields /\ j.authorized \in BOOLEAN /\ j.mapping = s.mapping
      /\ j.generation = s.generation /\ j.endpoints = s.endpoints /\ j.hid = s.hid
  BY <1>j, Judges
<1>4. /\ DOMAIN sender' = SenderFields /\ sender'.authorized \in BOOLEAN
      /\ sender'.mapping = sender.mapping /\ sender'.generation = sender.generation
      /\ sender'.endpoints = sender.endpoints /\ sender'.hid = s.hid
  BY <1>2, <1>3, <1>j DEF SenderFields
<1>5. SenderSorts' /\ sender'.generation <= revision
  BY <1>1, <1>4 DEF SenderSorts
<1>6. JobSorts' /\ job'.reply = FALSE
  BY <1>2, Unemployed DEF JobSorts
<1>7. /\ \/ revision' = revision /\ clean' = clean
         \/ result = "failed" /\ revision' = revision + 1 /\ clean' = {}
      /\ link' \in {link, End(link)}
  BY <1>1, <1>2, Revokes
<1>8. Empty'
  <2>1. CASE result = "failed"
    <3>1. revision' = revision + 1
      BY <1>2, <2>1 DEF Revoke, Advance
    <3>2. QED
      BY <1>1, <1>4, <3>1 DEF Empty, Sorts
  <2>2. CASE s = sender /\ revision' = revision /\ clean' = clean
    <3>1. clean \subseteq Kinds
      BY <1>1 DEF Sorts
    <3>2. QED
      BY <1>2, <1>4, <2>2, <3>1, StaysEmpty
  <2>3. QED
    BY <1>7, <2>1, <2>2
<1>9. \/ revision' = revision /\ clean \subseteq clean' /\ clean' \in SUBSET Kinds
      \/ revision' = revision + 1 /\ clean' = {}
  BY <1>1, <1>7 DEF Sorts
<1>10. QED
  BY <1>5, <1>6, <1>7, <1>8, <1>9, SenderStep

\* Input: it is of the present, and its reports follow; or it is dropped, or revokes.
LEMMA TakePacketKeeps ==
  ASSUME HInv, TakePacket
  PROVE  HInv'
<1>1. /\ UNCHANGED <<commands, detaching, answer, shown, senderRest>>
      /\ packets # <<>> /\ packets' = Tail(packets) /\ job = NoJob
  BY DEF TakePacket
<1>2. /\ DOMAIN sender = SenderFields /\ sender.authorized \in BOOLEAN
      /\ sender.endpoints \in SUBSET Kinds /\ sender.generation \in Nat
      /\ sender.mapping \in Nat /\ DOMAIN sender.hid = HidFields
      /\ sender.generation <= revision /\ clean \in SUBSET Kinds /\ Sorts
  BY DEF HInv, SenderSorts, Times, Sorts
<1>p. PICK packet \in PacketSet : /\ packet = Head(packets)
                                  /\ packet.generation = revision => clean = Kinds
  <2>1. Admitted
    BY DEF HInv
  <2>2. QueueOf(packets, PacketSet)
    BY <1>2, Queues DEF Sorts
  <2>3. QED
    BY <1>1, <2>1, <2>2 DEF QueueOf, Admitted
<1>e. PICK event \in Events : event = packet.event
  BY DEF PacketSet
<1>h. PICK hid : hid = Handled(sender.hid, event)
  OBVIOUS
<1>3. DOMAIN hid = HidFields
  BY <1>2, <1>h, HandledFields
<1>s. PICK next : next = [sender EXCEPT !.hid = hid]
  OBVIOUS
<1>4. /\ DOMAIN next = SenderFields /\ next.authorized = sender.authorized
      /\ next.endpoints = sender.endpoints /\ next.generation = sender.generation
      /\ next.mapping = sender.mapping /\ next.hid = hid
  BY <1>2, <1>s DEF SenderFields
<1>k. PICK kinds : kinds = Sent(event)
  OBVIOUS
<1>5. \/ Nothing(sender, "stale") \/ Nothing(next, "failed")
      \/ /\ packet.generation = revision
         /\ Begin(next, Job("event", kinds)) /\ SameGeneration /\ UNCHANGED link
  BY <1>p, <1>e, <1>h, <1>s, <1>k DEF TakePacket, Accepts
<1>6. CASE Nothing(sender, "stale") \/ Nothing(next, "failed")
  BY <1>1, <1>2, <1>3, <1>4, <1>6, NothingKeeps
<1>7. CASE /\ packet.generation = revision
           /\ Begin(next, Job("event", kinds)) /\ SameGeneration /\ UNCHANGED link
  <2>1. sender' = [next EXCEPT !.at = "top"] /\ job' = Job("event", kinds)
    BY <1>7 DEF Begin
  <2>2. /\ DOMAIN sender' = SenderFields /\ sender'.authorized = sender.authorized
        /\ sender'.endpoints = sender.endpoints /\ sender'.generation = sender.generation
        /\ sender'.mapping = sender.mapping /\ sender'.hid = hid
    BY <1>4, <2>1 DEF SenderFields
  <2>3. SenderSorts' /\ sender'.generation <= revision
    BY <1>2, <1>3, <2>2 DEF SenderSorts
  <2>4. /\ DOMAIN job' = JobFields /\ job'.task = "event" /\ job'.stage = "pacing"
        /\ job'.reply = FALSE /\ job'.error = "ok" /\ job'.media = NoMedia /\ NoMedia \in Medias
    BY <2>1, Jobs, Unemployed DEF NoJob
  <2>5. JobSorts'
    BY <2>4 DEF JobSorts
  <2>6. revision' = revision /\ clean' = clean /\ clean = Kinds
    BY <1>7, <1>p DEF SameGeneration
  <2>7. Empty'
    BY <2>6, KindsKnown DEF Empty
  <2>8. QED
    BY <1>1, <1>2, <1>7, <2>3, <2>4, <2>5, <2>6, <2>7, SenderStep
<1>8. QED
  BY <1>5, <1>6, <1>7

\* The press of a media key, once what it supersedes is released: the report that it goes
\* into was made neutral.
LEMMA PressKeeps ==
  ASSUME HInv, Press
  PROVE  HInv'
<1>1. UNCHANGED <<packets, commands, detaching, senderRest>> /\ job.stage = "press"
  BY DEF Press, deliveryRest
<1>2. /\ DOMAIN sender = SenderFields /\ sender.authorized \in BOOLEAN
      /\ sender.endpoints \in SUBSET Kinds /\ sender.generation \in Nat
      /\ sender.mapping \in Nat /\ DOMAIN sender.hid = HidFields
      /\ sender.generation <= revision /\ clean \in SUBSET Kinds /\ Sorts
      /\ DOMAIN job = JobFields /\ job.task = "media" /\ job.reply \in BOOLEAN
      /\ job.error \in {"ok", "stale", "failed"} /\ job.media \in Medias
  BY <1>1 DEF HInv, SenderSorts, JobSorts, Times, Sorts
<1>h. PICK hid : hid = Media(sender.hid, job.media.usage, job.media.down, Fresh)
  OBVIOUS
<1>3. DOMAIN hid = HidFields /\ hid.owners = sender.hid.owners /\ hid.held = sender.hid.held
  BY <1>2, <1>h, HidOps
<1>4. Empty
  BY DEF HInv
<1>5. CASE ExceedsCapacity(hid)
  <2>j. PICK j : j = Judged(sender, "failed")
    OBVIOUS
  <2>1. /\ Revoke("failed") /\ job' = NoJob /\ sender' = [j EXCEPT !.hid = hid]
        /\ Reply(job.reply, "failed")
    BY <1>5, <1>h, <2>j DEF Press
  <2>2. /\ DOMAIN j = SenderFields /\ j.authorized \in BOOLEAN /\ j.mapping = sender.mapping
        /\ j.generation = sender.generation /\ j.endpoints = sender.endpoints
    BY <1>2, <2>j, Judges
  <2>3. /\ DOMAIN sender' = SenderFields /\ sender'.authorized \in BOOLEAN
        /\ sender'.mapping = sender.mapping /\ sender'.generation = sender.generation
        /\ sender'.endpoints = sender.endpoints /\ sender'.hid = hid
    BY <2>1, <2>2 DEF SenderFields
  <2>4. SenderSorts' /\ sender'.generation <= revision
    BY <1>2, <1>3, <2>3 DEF SenderSorts
  <2>5. JobSorts' /\ job'.reply = FALSE
    BY <2>1, Unemployed DEF JobSorts
  <2>6. revision' = revision + 1 /\ clean' = {} /\ link' \in {link, End(link)}
    BY <2>1 DEF Revoke, Advance
  <2>7. Empty'
    BY <1>2, <2>3, <2>6 DEF Empty, Sorts
  <2>8. answer' = answer \/ (job.reply /\ answer' = "failed")
    BY <2>1 DEF Reply
  <2>9. QED
    BY <1>1, <2>4, <2>5, <2>6, <2>7, <2>8, SenderStep
<1>6. CASE ~ExceedsCapacity(hid)
  <2>v. PICK v : v = [job EXCEPT !.left = <<"consumer">>, !.media = NoMedia]
    OBVIOUS
  <2>b. PICK b : b = IF detaching THEN 0 ELSE revision
    OBVIOUS
  <2>w. PICK w : w = [v EXCEPT !.stage = "pacing", !.begun = b]
    OBVIOUS
  <2>1. /\ sender' = [sender EXCEPT !.hid = hid] /\ job' = w
        /\ SameGeneration /\ UNCHANGED <<link, answer>>
    BY <1>6, <1>h, <2>v, <2>b, <2>w DEF Press, Started
  <2>2. /\ DOMAIN v = JobFields /\ v.task = "media" /\ v.reply = job.reply
        /\ v.error = job.error /\ v.media = NoMedia
    BY <1>2, <2>v DEF JobFields
  <2>3. /\ DOMAIN w = JobFields /\ w.task = "media" /\ w.reply = job.reply
        /\ w.error = job.error /\ w.media = NoMedia /\ w.stage = "pacing" /\ NoMedia \in Medias
    BY <2>2, <2>w, Unemployed DEF JobFields, NoJob
  <2>4. JobSorts'
    BY <1>2, <2>1, <2>3 DEF JobSorts
  <2>5. /\ DOMAIN sender' = SenderFields /\ sender'.authorized = sender.authorized
        /\ sender'.mapping = sender.mapping /\ sender'.generation = sender.generation
        /\ sender'.endpoints = sender.endpoints /\ sender'.hid = hid
    BY <1>2, <2>1 DEF SenderFields
  <2>6. SenderSorts' /\ sender'.generation <= revision
    BY <1>2, <1>3, <2>5 DEF SenderSorts
  <2>7. revision' = revision /\ clean' = clean
    BY <2>1 DEF SameGeneration
  <2>8. Empty'
    BY <1>2, <1>3, <1>4, <2>5, <2>7 DEF Empty
  <2>9. job'.reply = job.reply /\ job.task # "notify"
    BY <1>2, <2>1, <2>3
  <2>10. QED
    BY <1>1, <1>2, <2>1, <2>4, <2>6, <2>7, <2>8, <2>9, SenderStep
<1>7. QED
  BY <1>5, <1>6

\* The sender takes notice of the generation and of the mapping session.
LEMMA ReconcileSenderKeeps ==
  ASSUME HInv, ReconcileSender
  PROVE  HInv'
<1>1. /\ UNCHANGED <<packets, commands, detaching, answer, shown, senderRest>>
      /\ SameGeneration /\ job = NoJob
  BY DEF ReconcileSender
<1>2. /\ DOMAIN sender = SenderFields /\ sender.authorized \in BOOLEAN
      /\ sender.endpoints \in SUBSET Kinds /\ sender.generation \in Nat
      /\ sender.mapping \in Nat /\ DOMAIN sender.hid = HidFields
      /\ sender.generation <= revision /\ clean \in SUBSET Kinds /\ Sorts
      /\ revision \in Nat
  BY DEF HInv, SenderSorts, Times, Sorts
<1>3. revision' = revision /\ clean' = clean
  BY <1>1 DEF SameGeneration
<1>s. ASSUME link' \in {link, End(link)},
             DOMAIN sender' = SenderFields, sender'.authorized \in BOOLEAN,
             sender'.endpoints \in SUBSET Kinds, sender'.mapping \in Nat,
             sender'.generation \in {sender.generation, revision},
             DOMAIN sender'.hid = HidFields, Empty',
             \/ job' = NoJob
             \/ /\ DOMAIN job' = JobFields /\ job'.task \in {"reset", "mapping"} /\ job'.stage = "pacing"
                /\ job'.reply = FALSE /\ job'.error = "ok" /\ job'.media = NoMedia
      PROVE  HInv'
  <2>1. SenderSorts' /\ sender'.generation <= revision
    BY <1>2, <1>s DEF SenderSorts
  <2>2. JobSorts' /\ job'.reply = FALSE
    BY <1>s, Unemployed DEF JobSorts, NoJob
  <2>3. QED
    BY <1>1, <1>2, <1>3, <1>s, <2>1, <2>2, SenderStep
<1>4. ASSUME sender' = Renewed, link' = End(link), job' = job
      PROVE  HInv'
  <2>1. /\ DOMAIN sender' = SenderFields /\ sender'.authorized = FALSE /\ sender'.endpoints = {}
        /\ sender'.generation = revision /\ sender'.hid = Blank /\ sender'.mapping = sender.mapping
    BY <1>2, <1>4 DEF Renewed, SenderFields
  <2>2. job' = NoJob
    BY <1>1, <1>4
  <2>3. Empty'
    BY <2>1, <2>2, HidOps, Unemployed DEF Empty
  <2>4. QED
    BY <1>2, <1>4, <1>s, <2>1, <2>2, <2>3, HidOps
<1>5. ASSUME Generation
      PROVE  HInv'
  <2>1. CASE detaching \/ ~Renewal
    <3>1. /\ link' \in {link, End(link)} /\ job' = NoJob
          /\ \/ sender' = [sender EXCEPT !.at = "select", !.authorized = FALSE]
             \/ sender' = [sender EXCEPT !.at = "select"]
      BY <1>1, <1>5, <2>1 DEF Generation
    <3>2. /\ DOMAIN sender' = SenderFields /\ sender'.authorized \in BOOLEAN
          /\ sender'.endpoints = sender.endpoints /\ sender'.mapping = sender.mapping
          /\ sender'.generation = sender.generation /\ sender'.hid = sender.hid
      BY <1>2, <3>1 DEF SenderFields
    <3>3. Empty'
      BY <1>2, <1>3, <3>1, <3>2, StaysEmpty, Unemployed
    <3>4. QED
      BY <1>2, <1>s, <3>1, <3>2, <3>3
  <2>2. CASE ~detaching /\ Renewal /\ sender.hid.consumer = {}
    BY <1>4, <1>5, <2>2 DEF Generation
  <2>3. CASE ~detaching /\ Renewal /\ sender.hid.consumer # {}
    <3>1. /\ sender' = [sender EXCEPT !.at = "renew", !.hid = Blank] /\ link' = End(link)
          /\ job' = IF sender.endpoints = {} THEN NoJob
                    ELSE [Job("reset", Of(sender.endpoints)) EXCEPT !.neutral = TRUE]
      BY <1>5, <2>3 DEF Generation
    <3>2. /\ DOMAIN sender' = SenderFields /\ sender'.authorized = sender.authorized
          /\ sender'.endpoints = sender.endpoints /\ sender'.mapping = sender.mapping
          /\ sender'.generation = sender.generation /\ sender'.hid = Blank
      BY <1>2, <3>1 DEF SenderFields
    <3>3. Empty'
      BY <1>3, <2>3, <3>2 DEF Empty, Renewal
    <3>b. PICK b : b = Job("reset", Of(sender.endpoints))
      OBVIOUS
    <3>4. /\ DOMAIN b = JobFields /\ b.task = "reset" /\ b.stage = "pacing"
          /\ b.reply = FALSE /\ b.error = "ok" /\ b.media = NoMedia
      BY <3>b, Jobs
    <3>5. \/ job' = NoJob
          \/ /\ DOMAIN job' = JobFields /\ job'.task = "reset" /\ job'.stage = "pacing"
             /\ job'.reply = FALSE /\ job'.error = "ok" /\ job'.media = NoMedia
      BY <3>1, <3>b, <3>4 DEF JobFields
    <3>6. QED
      BY <1>2, <1>s, <3>1, <3>2, <3>3, <3>5, HidOps
  <2>4. QED
    BY <2>1, <2>2, <2>3
<1>6. ASSUME Unmapped
      PROVE  HInv'
  <2>k. PICK kept : kept = [sender.hid EXCEPT !.owners = @ \ Mapped]
    OBVIOUS
  <2>1. /\ DOMAIN kept = HidFields /\ kept.owners \subseteq sender.hid.owners
        /\ kept.held = sender.hid.held /\ kept.consumer = sender.hid.consumer
    BY <1>2, <2>k DEF HidFields
  <2>h. PICK hid : hid = IF sender.authorized THEN Owned(kept, kept.owners) ELSE kept
    OBVIOUS
  <2>m. PICK mapping \in Nat : mapping = link.mapping
    BY <1>2 DEF Sorts, LinkSet
  <2>2. /\ sender' = [sender EXCEPT !.at = "generation", !.mapping = mapping, !.hid = hid]
        /\ link' = link
        /\ job' = IF sender.authorized THEN Job("mapping", Of({"keyboard", "mouse"})) ELSE NoJob
    BY <1>6, <2>k, <2>h, <2>m DEF Unmapped
  <2>3. /\ DOMAIN hid = HidFields /\ hid.owners \subseteq sender.hid.owners
        /\ hid.held = sender.hid.held \/ hid.held = OutputsOf(hid.owners)
        /\ hid.consumer = sender.hid.consumer
    BY <2>1, <2>h, HidOps
  <2>4. /\ DOMAIN sender' = SenderFields /\ sender'.authorized = sender.authorized
        /\ sender'.endpoints = sender.endpoints /\ sender'.mapping = mapping
        /\ sender'.generation = sender.generation /\ sender'.hid = hid
    BY <1>2, <2>2 DEF SenderFields
  <2>b. PICK b : b = Job("mapping", Of({"keyboard", "mouse"}))
    OBVIOUS
  <2>5. /\ DOMAIN b = JobFields /\ b.task = "mapping" /\ b.stage = "pacing"
        /\ b.reply = FALSE /\ b.error = "ok" /\ b.media = NoMedia
    BY <2>b, Jobs
  <2>6. job' = b \/ job' = NoJob
    BY <2>2, <2>b
  <2>7. job'.task # "media"
    BY <2>5, <2>6, Unemployed
  <2>8. Empty'
    BY <1>2, <1>3, <2>3, <2>4, <2>7, StaysEmpty
  <2>9. QED
    BY <1>2, <1>s, <2>2, <2>3, <2>4, <2>5, <2>6, <2>8
<1>7. QED
  BY <1>4, <1>5, <1>6 DEF ReconcileSender

\* The rest: the sender parks, gives up on input that is too late, submits a report, or
\* waits for it too long.
LEMMA WaitingKeeps ==
  ASSUME HInv, Park \/ PacketTooLate \/ Submit \/ Late
  PROVE  HInv'
<1>1. /\ DOMAIN sender = SenderFields /\ sender.authorized \in BOOLEAN
      /\ sender.endpoints \in SUBSET Kinds /\ sender.generation \in Nat
      /\ sender.mapping \in Nat /\ DOMAIN sender.hid = HidFields
      /\ sender.generation <= revision /\ Sorts /\ JobSorts /\ clean \in SUBSET Kinds
  BY DEF HInv, SenderSorts, Times, Sorts
<1>2. CASE Park
  <2>1. /\ sender' = [sender EXCEPT !.at = "top"] /\ revision' = revision /\ clean' = clean
        /\ UNCHANGED <<link, packets, commands, detaching, answer, job, shown, senderRest>>
    BY <1>2 DEF Park, SameGeneration
  <2>2. /\ DOMAIN sender' = SenderFields /\ sender'.authorized = sender.authorized
        /\ sender'.endpoints = sender.endpoints /\ sender'.generation = sender.generation
        /\ sender'.mapping = sender.mapping /\ sender'.hid = sender.hid
    BY <1>1, <2>1 DEF SenderFields
  <2>3. SenderSorts' /\ JobSorts' /\ sender'.generation <= revision
    BY <1>1, <2>1, <2>2 DEF SenderSorts, JobSorts
  <2>4. Empty'
    BY <1>1, <2>1, <2>2, StaysEmpty
  <2>5. QED
    BY <1>1, <2>1, <2>3, <2>4, SenderStep
<1>3. CASE PacketTooLate
  BY <1>1, <1>3, NothingKeeps DEF PacketTooLate
<1>4. CASE Submit
  <2>1. /\ job' = [job EXCEPT !.stage = "submitted", !.begun = 0] /\ revision' = revision
        /\ clean' = clean
        /\ UNCHANGED <<link, answer, sender, shown, packets, commands, detaching, senderRest>>
    BY <1>4 DEF Submit, SameGeneration, deliveryRest
  <2>2. /\ DOMAIN job' = JobFields /\ job'.task = job.task /\ job'.left = job.left
        /\ job'.reply = job.reply /\ job'.error = job.error /\ job'.media = job.media
        /\ job'.stage = "submitted"
    BY <1>1, <2>1 DEF JobSorts, JobFields
  <2>3. SenderSorts' /\ JobSorts' /\ sender'.generation <= revision
    BY <1>1, <2>1, <2>2 DEF SenderSorts, JobSorts
  <2>4. Empty'
    BY <1>1, <2>1, <2>2, StaysEmpty
  <2>5. QED
    BY <1>1, <2>1, <2>2, <2>3, <2>4, SenderStep
<1>5. CASE Late
  <2>1. /\ job' = [job EXCEPT !.late = TRUE] /\ sender' = Judged(sender, "failed")
        /\ revision' = revision + 1 /\ clean' = {} /\ link' = End(link)
        /\ UNCHANGED <<answer, shown, packets, commands, detaching, senderRest>>
    BY <1>5 DEF Late, Revoke, Advance, deliveryRest
  <2>2. /\ DOMAIN job' = JobFields /\ job'.task = job.task /\ job'.left = job.left
        /\ job'.reply = job.reply /\ job'.error = job.error /\ job'.media = job.media
        /\ job'.stage = job.stage
    BY <1>1, <2>1 DEF JobSorts, JobFields
  <2>3. /\ DOMAIN sender' = SenderFields /\ sender'.authorized \in BOOLEAN
        /\ sender'.mapping = sender.mapping /\ sender'.generation = sender.generation
        /\ sender'.endpoints = sender.endpoints /\ sender'.hid = sender.hid
    BY <1>1, <2>1, Judges
  <2>4. SenderSorts' /\ JobSorts' /\ sender'.generation <= revision
    BY <1>1, <2>2, <2>3 DEF SenderSorts, JobSorts
  <2>5. Empty'
    BY <1>1, <2>1, <2>3 DEF Empty, Sorts
  <2>6. QED
    BY <1>1, <2>1, <2>2, <2>4, <2>5, SenderStep
<1>6. QED
  BY <1>2, <1>3, <1>4, <1>5

-----------------------------------------------------------------------------
\* Every step keeps the invariant.
LEMMA Preserved ==
  ASSUME HInv, [Next]_vars
  PROVE  HInv'
<1>1. CASE Child
  BY <1>1, ChildKeeps
<1>2. CASE ServerWork
  BY <1>2, RefreshKeeps, RefreshFailsKeeps, OutdatedKeeps, CurrentKeeps, FinishKeeps, NotifyKeeps,
     NeutralizedKeeps, SyncFailsKeeps, MediaFailsKeeps, UnsentKeeps, BetweenKeeps,
     ReplyTimesOutKeeps, DetachKeeps, ReleasedKeeps, DetachingTimesOutKeeps
     DEF ServerWork
<1>3. CASE ServerNext
  <2>1. Seeks \subseteq Usages
    BY OutputsAssumption
  <2>2. QED
    BY <1>2, <1>3, <2>1, CreateKeeps, SelectKeeps, BetweenKeeps, SendMediaKeeps DEF ServerNext
<1>4. CASE SenderNext
  BY <1>4, ReconcileSenderKeeps, WaitingKeeps, TakeDetachKeeps, TakeConfigureKeeps, TakeNotifyKeeps,
     TakeMediaKeeps, PulseKeeps, TakePacketKeeps, PressKeeps, DeliveryKeeps
     DEF SenderNext, Reconciling, Taking, Delivering
<1>5. CASE \E reports \in Subscriptions : Transport(reports)
  BY <1>5, TransportKeeps
<1>6. CASE UNCHANGED vars
  <2> USE <1>6 DEF vars
  <2>1. Sorts' /\ SenderSorts' /\ JobSorts' /\ Times'
    BY DEF HInv, Sorts, SenderSorts, JobSorts, Times
  <2>2. Prepared' /\ Timely' /\ Admitted'
    BY DEF HInv, Prepared, Counts, Timely, Founded, Admitted
  <2>3. OneAsks' /\ JobAsks' /\ Told' /\ Named'
    BY DEF HInv, OneAsks, Asks, JobAsks, Told, Named
  <2>4. Empty' /\ OpenIsClean'
    BY DEF HInv, Empty, OpenIsClean, Ready
  <2>5. QED
    BY <2>1, <2>2, <2>3, <2>4 DEF HInv
<1>7. QED
  BY <1>1, <1>3, <1>4, <1>5, <1>6 DEF Next

\* What was not made neutral in this generation is not down.
LEMMA Inherits ==
  ASSUME HInv
  PROVE  NothingInherited
<1>1. Empty /\ Sorts
  BY DEF HInv
<1>2. ASSUME sender.generation = revision, NEW kind \in Kinds \ clean
      PROVE  Down(sender.hid, kind) = {}
  <2>1. kind \in {"consumer", "keyboard", "mouse"} /\ clean # Kinds
    BY <1>2, KindsKnown
  <2>2. sender.hid.held = {}
    BY <1>1, <1>2, <2>1 DEF Empty
  <2>3. kind = "consumer" => sender.hid.consumer = {}
    BY <1>1, <1>2 DEF Empty
  <2>4. QED
    BY <2>1, <2>2, <2>3 DEF Down
<1>3. sender.generation = revision /\ clean # Kinds => sender.hid.owners = {}
  BY <1>1 DEF Empty
<1>4. QED
  BY <1>2, <1>3 DEF NothingInherited

\* Whatever the number of revisions, sessions and taps, the keys, sources and usages and
\* the capacities of the queues: input is admitted only in a generation in which every
\* report was made neutral, and a generation starts with nothing down.
THEOREM GenerationsStartClean == Spec => []StartsClean
<1>1. Init => HInv
  BY Starts
<1>2. HInv /\ [Next]_vars => HInv'
  BY Preserved
<1>3. HInv => StartsClean
  BY Inherits DEF HInv, StartsClean
<1>4. QED
  BY <1>1, <1>2, <1>3, PTL DEF Spec
-----------------------------------------------------------------------------
\* EndpointAtHand.  A report that is not made neutral needs an endpoint in the sender; the
\* sender takes its endpoints from the last command that configures it.

\* The sender has the endpoints for what it does.
Fitted ==
  /\ sender.authorized => sender.endpoints = Kinds
  /\ link.open => sender.endpoints = Kinds
  /\ sender.hid.pulses # {} \/ job.task = "media" => "consumer" \in sender.endpoints

\* A job has reports to send, and endpoints for them.
Listed ==
  /\ job.left \in Seq(Kinds) /\ job.neutral \in BOOLEAN
  /\ job.stage \in {"none", "pacing", "submitted", "press"}
  /\ job.stage \in {"pacing", "submitted"} => job.left # <<>>
  /\ job.stage # "none" /\ ~job.neutral
     => \A i \in 1 .. Len(job.left) : job.left[i] \in sender.endpoints

\* Without sessions there is no input.
Unused ==
  MaxSession = 0 => session = 0 /\ link.mapping = 0 /\ sender.mapping = 0 /\ packets = <<>>

\* The evidence of a generation does not change: what the control thread counts as
\* synchronized in it, or will count, is still what the receiver takes.
Counting == \/ server.at = "schedule"
            \/ server.at \in {"sync", "syncing"} /\ server.left # <<>>

Evident ==
  /\ server.at = "observed" => server.generation <= server.observed /\ server.observed <= revision
  /\ server.generation = revision => server.synced \subseteq selected
  /\ server.generation = revision /\ Counting => server.clients = selected
  /\ server.at \in {"sync", "syncing"}
     => \A i \in 1 .. Len(server.left) : server.left[i] \in server.clients

\* A tap of this generation, asked for or begun: the receiver takes the consumer report, and
\* whatever configures the sender after it says so.
Taps(c) == c.type = "media" /\ c.generation = revision
Configures(c) == c.type = "configure" /\ c.generation = revision
Tapping == sender.generation = revision /\ (sender.hid.pulses # {} \/ job.task = "media")

Served == /\ server.at # "none" /\ server.generation = revision
          /\ "consumer" \in server.clients /\ "consumer" \in selected

Tapped ==
  /\ Tapping \/ (\E i \in 1 .. Len(commands) : Taps(commands[i]))
     => "consumer" \in selected /\ (server.at # "none" => Served)
  /\ Tapping => \A i \in 1 .. Len(commands) :
                  Configures(commands[i]) => "consumer" \in commands[i].endpoints
  /\ \A i, j \in 1 .. Len(commands) :
       i < j /\ Taps(commands[i]) /\ Configures(commands[j]) => "consumer" \in commands[j].endpoints

EInv == Fitted /\ Listed /\ Unused /\ Evident /\ Tapped

\* The initial states
LEMMA StartsFitted == Init => EInv
<1> SUFFICES ASSUME Init
             PROVE  EInv
  OBVIOUS
<1> USE DEF Init
<1>1. Fitted
  BY DEF Fitted, Blank, NoJob
<1>2. Listed
  BY DEF Listed, NoJob
<1>3. Unused
  BY DEF Unused
<1>4. Evident
  BY DEF Evident, Counting, Gone
<1>5. Tapped
  BY DEF Tapped, Tapping
<1>6. QED
  BY <1>1, <1>2, <1>3, <1>4, <1>5 DEF EInv

\* In a generation that just began nothing is asked for yet.
LEMMA NewGeneration ==
  ASSUME HInv, revision' \in Nat, revision < revision',
         sender'.generation \in Nat, sender'.generation <= revision,
         \A i \in 1 .. Len(commands') : commands'[i].generation \in Nat /\ commands'[i].generation <= revision
  PROVE  Tapped'
<1>1. revision \in Nat
  BY Facts
<1>2. sender'.generation # revision' /\ \A i \in 1 .. Len(commands') : commands'[i].generation # revision'
  BY <1>1
<1>3. QED
  BY <1>2 DEF Tapped, Tapping, Taps, Configures

-----------------------------------------------------------------------------
\* Steps outside the sender thread.

\* What the queue holds after such a step: what it held, and perhaps one new command.
Alike(c, d) == c.type = d.type /\ c.generation = d.generation /\ c.endpoints = d.endpoints

Latest(c) ==
  /\ c.type = "media" /\ c.generation = revision => Served
  /\ c.type = "configure" /\ c.generation = revision
     => server.at # "none" /\ (Served => "consumer" \in c.endpoints)

Extended ==
  \A i \in 1 .. Len(commands') : \/ i \in 1 .. Len(commands) /\ Alike(commands'[i], commands[i])
                                 \/ i = Len(commands) + 1 /\ Latest(commands'[i])

\* A step that leaves the sender and its job alone
LEMMA ControlStep ==
  ASSUME HInv, EInv, sender' = sender, job'.task = job.task, job'.left = job.left,
         job'.stage = job.stage, job'.neutral = job.neutral,
         link'.open => link.open, Unused', Evident',
         \/ revision' \in Nat /\ revision < revision' /\ commands' = commands
         \/ /\ revision' = revision /\ selected' = selected /\ Extended
            /\ server.at = "none" => server'.at = "none"
            /\ server'.at # "none" /\ Served
               => server'.generation = revision /\ "consumer" \in server'.clients
  PROVE  EInv'
<1>1. Fitted /\ Listed /\ Tapped
  BY DEF EInv
<1>2. Fitted'
  BY <1>1 DEF Fitted
<1>3. Listed'
  BY <1>1 DEF Listed
<1>4. EntrySorts /\ Times /\ SenderSorts
  BY Entries DEF HInv
<1>5. CASE revision' \in Nat /\ revision < revision' /\ commands' = commands
  <2>1. Tapped'
    BY <1>4, <1>5, NewGeneration DEF EntrySorts, Times, SenderSorts
  <2>2. QED
    BY <1>2, <1>3, <2>1 DEF EInv
<1>6. CASE /\ revision' = revision /\ selected' = selected /\ Extended
           /\ server.at = "none" => server'.at = "none"
           /\ server'.at # "none" /\ Served
              => server'.generation = revision /\ "consumer" \in server'.clients
  <2>0. Len(commands) \in Nat
    BY <1>4 DEF EntrySorts
  <2>1. Tapping' <=> Tapping
    BY <1>6 DEF Tapping
  <2>2. ASSUME NEW i \in 1 .. Len(commands'), commands'[i].type = "media",
               commands'[i].generation = revision
        PROVE  /\ "consumer" \in selected /\ (server.at # "none" => Served)
               /\ i \in 1 .. Len(commands) => Taps(commands[i])
    BY <1>1, <1>6, <2>0, <2>2 DEF Extended, Alike, Latest, Tapped, Taps, Served
  <2>3. ASSUME Tapping' \/ \E i \in 1 .. Len(commands') :
                             commands'[i].type = "media" /\ commands'[i].generation = revision
        PROVE  "consumer" \in selected /\ (server.at # "none" => Served)
    BY <1>1, <2>1, <2>2, <2>3 DEF Tapped
  <2>4. ASSUME NEW j \in 1 .. Len(commands'), commands'[j].type = "configure",
               commands'[j].generation = revision
        PROVE  \/ j \in 1 .. Len(commands) /\ Configures(commands[j])
                  /\ commands'[j].endpoints = commands[j].endpoints
               \/ /\ j = Len(commands) + 1 /\ server.at # "none"
                  /\ Served => "consumer" \in commands'[j].endpoints
    BY <1>6, <2>4 DEF Extended, Alike, Latest, Configures
  <2>5. Tapping' => \A j \in 1 .. Len(commands') :
                      commands'[j].type = "configure" /\ commands'[j].generation = revision
                      => "consumer" \in commands'[j].endpoints
    BY <1>1, <2>1, <2>3, <2>4 DEF Tapped
  <2>6. ASSUME NEW i \in 1 .. Len(commands'), NEW j \in 1 .. Len(commands'), i < j,
               commands'[i].type = "media", commands'[i].generation = revision,
               commands'[j].type = "configure", commands'[j].generation = revision
        PROVE  "consumer" \in commands'[j].endpoints
    <3>1. CASE j \in 1 .. Len(commands)
      <4>1. Configures(commands[j]) /\ commands'[j].endpoints = commands[j].endpoints
        BY <2>0, <2>4, <2>6, <3>1
      <4>2. i \in 1 .. Len(commands) /\ Taps(commands[i])
        BY <2>0, <2>2, <2>6, <3>1
      <4>3. QED
        BY <1>1, <2>6, <3>1, <4>1, <4>2 DEF Tapped
    <3>2. CASE j \notin 1 .. Len(commands)
      BY <2>2, <2>4, <2>6, <3>2
    <3>3. QED
      BY <3>1, <3>2
  <2>7. Tapped'
    BY <1>6, <2>3, <2>5, <2>6 DEF Tapped, Taps, Configures, Served
  <2>8. QED
    BY <1>2, <1>3, <2>7 DEF EInv
<1>7. QED
  BY <1>5, <1>6

\* The evidence, after a step that leaves the service alone
LEMMA SameEvidence ==
  ASSUME HInv, EInv, server' = server,
         \/ revision' = revision /\ selected' = selected
         \/ revision' \in Nat /\ revision < revision'
  PROVE  Evident'
<1>1. /\ server.generation \in Nat /\ server.generation <= revision /\ server.observed \in Nat
      /\ revision \in Nat
  BY Facts DEF IsServer
<1>2. Evident
  BY DEF EInv
<1>3. CASE revision' = revision /\ selected' = selected
  BY <1>2, <1>3 DEF Evident, Counting
<1>4. CASE revision' \in Nat /\ revision < revision'
  <2>1. server.generation # revision' /\ (server.observed <= revision => server.observed <= revision')
    BY <1>1, <1>4
  <2>2. QED
    BY <1>2, <2>1 DEF Evident
<1>5. QED
  BY <1>3, <1>4

\* A queue that stays as it is
LEMMA SameQueue ==
  ASSUME commands' = commands
  PROVE  Extended
BY DEF Extended, Alike

\* A step of the command loop or of the operating system
LEMMA OutsideStep ==
  ASSUME HInv, EInv, server' = server, sender' = sender, job' = job, commands' = commands,
         link'.open => link.open, Unused',
         \/ revision' = revision /\ selected' = selected
         \/ revision' \in Nat /\ revision < revision'
  PROVE  EInv'
<1>1. Evident' /\ Extended
  BY SameEvidence, SameQueue
<1>2. server'.at # "none" /\ Served => server'.generation = revision /\ "consumer" \in server'.clients
  BY DEF Served
<1>3. QED
  BY <1>1, <1>2, ControlStep

\* The command loop of the worker: without sessions there is no input.
LEMMA ChildEnds ==
  ASSUME HInv, EInv, Child
  PROVE  EInv'
<1>1. Unused /\ session \in Nat /\ MaxSession \in Nat /\ link \in LinkSet
  BY Facts, SenderAssumption DEF EInv
<1>2. CASE Arm
  <2>1. /\ session < MaxSession /\ UNCHANGED <<revision, packets, commands, selected, server, sender, job>>
        /\ link' = [link EXCEPT !.mapping = session + 1]
    BY <1>2 DEF Arm
  <2>2. MaxSession # 0 /\ link'.open = link.open
    BY <1>1, <2>1 DEF LinkSet
  <2>3. Unused'
    BY <2>2 DEF Unused
  <2>4. QED
    BY <2>1, <2>2, <2>3, OutsideStep
<1>3. CASE InvalidateCommands
  <2>1. /\ revision' = revision + 1
        /\ UNCHANGED <<link, session, packets, commands, selected, server, sender, job>>
    BY <1>3 DEF InvalidateCommands, Advance
  <2>2. Unused'
    BY <1>1, <2>1 DEF Unused
  <2>3. QED
    BY <2>1, <2>2, Facts, OutsideStep
<1>4. CASE InvalidateLink
  <2>1. /\ link' = [End(link) EXCEPT !.mapping = 0]
        /\ UNCHANGED <<revision, session, packets, commands, selected, server, sender, job>>
    BY <1>4 DEF InvalidateLink
  <2>e. PICK e \in LinkSet : e = End(link) /\ e.open = FALSE
    BY Facts
  <2>2. link'.mapping = 0 /\ link'.open = FALSE
    BY <2>1, <2>e DEF LinkSet
  <2>3. Unused'
    BY <1>1, <2>1, <2>2 DEF Unused
  <2>4. QED
    BY <2>1, <2>2, <2>3, OutsideStep
<1>5. CASE InputTooLate
  <2>1. /\ link' = End(link)
        /\ UNCHANGED <<revision, session, packets, commands, selected, server, sender, job>>
    BY <1>5 DEF InputTooLate
  <2>2. link'.mapping = link.mapping /\ link'.open = FALSE
    BY <1>1, <2>1, LinkOps
  <2>3. Unused'
    BY <1>1, <2>1, <2>2 DEF Unused
  <2>4. QED
    BY <2>1, <2>2, <2>3, OutsideStep
<1>6. ASSUME NEW event \in Events, Input(event)
      PROVE  EInv'
  <2>1. /\ link.mapping # 0 /\ (link' = link \/ link' = [End(link) EXCEPT !.mapping = 0])
        /\ UNCHANGED <<revision, session, commands, selected, server, sender, job>>
    BY <1>6 DEF Input
  <2>2. link'.open => link.open
    BY <2>1, EndedLink
  <2>3. Unused'
    BY <1>1, <2>1 DEF Unused
  <2>4. QED
    BY <2>1, <2>2, <2>3, OutsideStep
<1>7. QED
  BY <1>2, <1>3, <1>4, <1>5, <1>6 DEF Child

\* The native callbacks: evidence that changes ends the generation.
LEMMA TransportEnds ==
  ASSUME HInv, EInv, NEW reports \in Subscriptions, Transport(reports)
  PROVE  EInv'
<1>1. /\ UNCHANGED <<session, packets, commands, server, sender, job>>
      /\ \/ revision' = revision /\ selected' = selected /\ link' = link
         \/ revision' = revision + 1 /\ link' = End(link)
  BY DEF Transport, Reconcile, Advance, SameGeneration
<1>2. link'.mapping = link.mapping /\ (link'.open => link.open)
  BY <1>1, Facts, LinkOps
<1>3. Unused'
  BY <1>1, <1>2 DEF EInv, Unused
<1>4. QED
  BY <1>1, <1>2, <1>3, Facts, OutsideStep

-----------------------------------------------------------------------------
\* The control thread.

\* It leaves the sender, its job and the input alone.
Apart ==
  /\ UNCHANGED <<session, packets, sender>>
  /\ job'.task = job.task /\ job'.left = job.left /\ job'.stage = job.stage
  /\ job'.neutral = job.neutral
  /\ link'.mapping = link.mapping /\ (link'.open => link.open)

\* Within its generation: a tap that was asked for stays possible.
LEMMA SteadyEnds ==
  ASSUME HInv, EInv, Apart, revision' = revision, selected' = selected, Extended, Evident',
         server.at # "none",
         server'.at # "none" /\ Served => server'.generation = revision /\ "consumer" \in server'.clients
  PROVE  EInv'
<1>1. Unused'
  BY DEF EInv, Unused, Apart
<1>2. QED
  BY <1>1, ControlStep DEF Apart

\* Into a new generation
LEMMA LaterEnds ==
  ASSUME HInv, EInv, Apart, revision' \in Nat, revision < revision', commands' = commands, Evident'
  PROVE  EInv'
<1>1. Unused'
  BY DEF EInv, Unused, Apart
<1>2. QED
  BY <1>1, ControlStep DEF Apart

\* The link, kept or closed, once or twice
LEMMA KeptLink ==
  ASSUME HInv, NEW l \in {link, End(link)}, link' \in {l, End(l)}
  PROVE  link'.mapping = link.mapping /\ (link'.open => link.open)
<1>1. link \in LinkSet /\ End(link) \in LinkSet
  BY Facts
<1>2. QED
  BY <1>1, LinkOps

\* A service at rest in an earlier generation has no evidence to keep.
LEMMA RestsEvident ==
  ASSUME server'.at \notin {"observed", "schedule", "sync", "syncing"},
         server'.generation = revision' => server'.synced \subseteq selected'
  PROVE  Evident'
BY DEF Evident, Counting

\* The generation adopted: the clients stay.
LEMMA AdoptsClients ==
  ASSUME HInv, EInv
  PROVE  /\ IsServer(Adopted(server)) /\ Adopted(server).generation = revision
         /\ Adopted(server).at = server.at /\ Adopted(server).clients = server.clients
         /\ Adopted(server).synced \subseteq selected
         /\ Served => Adopted(server) = server
<1>1. IsServer(server)
  BY Facts
<1>2. CASE server.generation = revision
  <2>1. Adopted(server) = server
    BY <1>2 DEF Adopted
  <2>2. QED
    BY <1>1, <1>2, <2>1 DEF EInv, Evident
<1>3. CASE server.generation # revision
  <2>v. PICK v : v = [server EXCEPT !.generation = revision, !.synced = {}, !.ready = FALSE]
    OBVIOUS
  <2>1. Adopted(server) = v /\ ~Served
    BY <1>3, <2>v DEF Adopted, Served
  <2>2. v.at = server.at /\ v.generation = revision /\ v.synced = {} /\ v.clients = server.clients
    BY <1>1, <2>v DEF IsServer, ServerFields
  <2>3. QED
    BY <2>1, <2>2, Adopts
<1>4. QED
  BY <1>2, <1>3

\* Where the control thread goes on: nothing is left to send.
LEMMA Onwards ==
  ASSUME NEW s, IsServer(s)
  PROVE  Onward(s).left = <<>> /\ Idle(s).left = <<>>
BY DEF Onward, Idle, IsServer, ServerFields

\* The service is built, and its receiver selected.
LEMMA CreateEnds ==
  ASSUME HInv, EInv, Create \/ Select \/ AdapterChanged
  PROVE  EInv'
<1>1. CASE Create
  <2>1. /\ revision' = revision + 1 /\ link' = End(link) /\ commands' = commands
        /\ UNCHANGED <<session, packets, sender, job>>
        /\ server' = [server EXCEPT !.at = "idle", !.generation = revision, !.ready = FALSE,
                                    !.synced = {}, !.clients = {}]
    BY <1>1 DEF Create, Advance, serverRest
  <2>2. server'.at = "idle" /\ server'.synced = {}
    BY <2>1, Facts DEF IsServer, ServerFields
  <2>3. Evident' /\ Apart
    BY <2>1, <2>2, RestsEvident, KeptLink DEF Apart
  <2>4. QED
    BY <2>1, <2>3, Facts, LaterEnds
<1>2. CASE Select
  <2>1. /\ revision' \in {revision + 1, revision + 2} /\ link' = End(link) /\ commands' = commands
        /\ server.at = "idle" /\ UNCHANGED <<session, packets, sender, job>>
        /\ server' = [server EXCEPT !.clients = {}, !.ready = FALSE]
    BY <1>2 DEF Select, Advance, serverRest
  <2>2. server'.at = "idle" /\ server'.generation = server.generation
    BY <2>1, Facts DEF IsServer, ServerFields
  <2>3. revision' \in Nat /\ revision < revision' /\ server'.generation # revision'
    BY <2>1, <2>2, Facts DEF IsServer
  <2>4. Evident' /\ Apart
    BY <2>1, <2>2, <2>3, RestsEvident, KeptLink DEF Apart
  <2>5. QED
    BY <2>1, <2>3, <2>4, LaterEnds
<1>3. CASE AdapterChanged
  <2>1. /\ revision' = revision + 1 /\ link' = link /\ commands' = commands
        /\ UNCHANGED <<session, packets, sender, job>> /\ server' = [server EXCEPT !.at = "drop"]
    BY <1>3 DEF AdapterChanged, Advance, serverRest
  <2>2. server'.at = "drop" /\ server'.generation = server.generation
    BY <2>1, Facts DEF IsServer, ServerFields
  <2>3. revision' \in Nat /\ revision < revision' /\ server'.generation # revision'
    BY <2>1, <2>2, Facts DEF IsServer
  <2>4. Evident' /\ Apart
    BY <2>1, <2>2, <2>3, RestsEvident, KeptLink DEF Apart
  <2>5. QED
    BY <2>1, <2>3, <2>4, LaterEnds
<1>4. QED
  BY <1>1, <1>2, <1>3

\* The evidence is taken anew: it is the same, or another generation begins.
LEMMA ObservedEnds ==
  ASSUME HInv, EInv, NEW evidence, Observe(evidence)
  PROVE  /\ server.at = "idle" /\ commands' = commands /\ job' = job /\ Apart
         /\ \/ revision' = revision /\ selected' = selected
            \/ revision' \in Nat /\ revision < revision'
<1>1. /\ server.at = "idle" /\ UNCHANGED <<commands, session, packets, sender, job>>
      /\ link' \in {link, End(link)}
      /\ \/ revision' = revision /\ selected' = selected
         \/ revision' = revision + 1
  BY Adopts, Facts DEF Observe, Advance, serverRest
<1>2. QED
  BY <1>1, Facts, KeptLink DEF Apart

\* The service after an observation, or one that failed
LEMMA ObservationEnds ==
  ASSUME HInv, EInv, Apart, server.at # "none", commands' = commands,
         \/ revision' = revision /\ selected' = selected
         \/ revision' \in Nat /\ revision < revision',
         NEW at \in {"observed", "drop", "fail"}, NEW observed,
         server' = [Adopted(server) EXCEPT !.at = at, !.observed = observed],
         at = "observed" => observed = revision'
  PROVE  EInv'
<1>t. PICK t : t = Adopted(server)
  OBVIOUS
<1>1. /\ IsServer(t) /\ t.generation = revision /\ t.clients = server.clients
      /\ t.synced \subseteq selected
      /\ Served => t = server
  BY <1>t, AdoptsClients
<1>2. /\ server'.at = at /\ server'.generation = revision /\ server'.synced = t.synced
      /\ server'.clients = t.clients /\ server'.observed = observed
  BY <1>t, <1>1 DEF IsServer, ServerFields
<1>3. revision \in Nat
  BY Facts
<1>4. Evident'
  <2>1. revision' \in Nat /\ revision <= revision'
    BY <1>3
  <2>2. server'.generation = revision' => server'.synced \subseteq selected'
    BY <1>1, <1>2, <1>3
  <2>3. QED
    BY <1>2, <2>1, <2>2 DEF Evident, Counting
<1>5. CASE revision' = revision /\ selected' = selected
  <2>1. Served => server'.generation = revision /\ "consumer" \in server'.clients
    BY <1>1, <1>2 DEF Served
  <2>2. QED
    BY <1>4, <1>5, <2>1, SameQueue, SteadyEnds
<1>6. CASE revision' \in Nat /\ revision < revision'
  BY <1>4, <1>6, LaterEnds
<1>7. QED
  BY <1>5, <1>6

\* A refresh, and one that fails
LEMMA RefreshEnds ==
  ASSUME HInv, EInv, Refresh \/ RefreshFails
  PROVE  EInv'
<1>1. CASE Refresh
  <2>1. Observe(native) /\ server' = [Adopted(server) EXCEPT !.at = "observed", !.observed = revision']
    BY <1>1 DEF Refresh
  <2>2. QED
    BY <2>1, ObservedEnds, ObservationEnds
<1>2. CASE RefreshFails
  <2>1. PICK at \in {"drop", "fail"} : server' = [Adopted(server) EXCEPT !.at = at, !.observed = 0]
    BY <1>2 DEF RefreshFails
  <2>2. CASE Observe(selected) \/ Observe({})
    BY <2>1, <2>2, ObservedEnds, ObservationEnds
  <2>3. CASE /\ server.at = "observed" /\ SameGeneration
             /\ UNCHANGED <<link, selected, commands, detaching, answer, serverRest>>
    <3>1. Apart /\ revision' = revision /\ selected' = selected /\ commands' = commands
      BY <2>3, KeptLink DEF Apart, SameGeneration, serverRest
    <3>2. QED
      BY <2>1, <2>3, <3>1, ObservationEnds
  <2>4. QED
    BY <1>2, <2>2, <2>3 DEF RefreshFails
<1>3. QED
  BY <1>1, <1>2

\* One entry more in the queue
LEMMA OneMore ==
  ASSUME HInv, NEW c \in CommandSet, commands' = Append(commands, c), Latest(c)
  PROVE  Extended
<1>1. QueueOf(commands, CommandSet)
  BY Queues DEF HInv, Sorts
<1>2. /\ Len(commands') = Len(commands) + 1
      /\ \A i \in 1 .. Len(commands') : \/ i \in 1 .. Len(commands) /\ commands'[i] = commands[i]
                                        \/ i = Len(commands) + 1 /\ commands'[i] = c
  BY <1>1 DEF QueueOf
<1>3. QED
  BY <1>2 DEF Extended, Alike

\* The queue when the control thread tells the sender what it knows; in the generation of a
\* tap it tells of the consumer report.
LEMMA ConfiguredEnds ==
  ASSUME HInv, NEW s, IsServer(s), NEW l, Configure(s, l, commands),
         server.at # "none", Served => "consumer" \in s.clients
  PROVE  Extended
<1>c. PICK c \in CommandSet :
        /\ c = [Command("configure") EXCEPT !.generation = s.generation, !.reply = FALSE,
                                            !.endpoints = s.clients,
                                            !.ready = s.ready /\ s.synced = Kinds]
        /\ c.type = "configure" /\ c.endpoints = s.clients
  BY ConfigureCommand DEF HInv
<1>1. commands' = Append(commands, c) \/ commands' = commands
  BY <1>c DEF Configure
<1>2. Latest(c)
  BY <1>c DEF Latest
<1>3. QED
  BY <1>1, <1>2, OneMore, SameQueue

\* A service that tells the sender and rests: what it counts stays within the evidence.
LEMMA TellsEnds ==
  ASSUME HInv, EInv, NEW s, IsServer(s), NEW l \in {link, End(link)}, Configure(s, l, commands),
         SameGeneration, selected' = selected, UNCHANGED <<session, packets, sender, job>>,
         server.at # "none", Served => "consumer" \in s.clients /\ s.generation = revision,
         server'.at \in {"idle", "sync"}, server'.left = <<>>, server'.generation = s.generation,
         server'.clients = s.clients, server'.synced = s.synced,
         s.generation = revision => s.synced \subseteq selected
  PROVE  EInv'
<1>1. Extended
  BY ConfiguredEnds
<1>2. Apart
  BY ConfiguredLink, KeptLink DEF Apart
<1>3. Evident'
  BY DEF Evident, Counting, SameGeneration
<1>4. QED
  BY <1>1, <1>2, <1>3, SteadyEnds DEF SameGeneration

\* A callback came between the observation and its use: the generation is not that of a tap.
LEMMA OutdatedEnds ==
  ASSUME HInv, EInv, Outdated
  PROVE  EInv'
<1>1. /\ server.at = "observed" /\ revision # server.observed /\ SameGeneration
      /\ selected' = selected /\ UNCHANGED <<session, packets, sender, job>>
  BY DEF Outdated, serverRest
<1>s. PICK s : s = [Adopted(server) EXCEPT !.clients = {}]
  OBVIOUS
<1>2. Configure(s, AdoptedLink(server), commands) /\ server' = Idle(s)
  BY <1>s DEF Outdated
<1>3. /\ IsServer(s) /\ s.generation = revision /\ s.synced = Adopted(server).synced
  BY <1>s, AdoptsClients, OtherClients
<1>4. s.clients = {} /\ s.synced \subseteq selected
  BY <1>s, <1>3, AdoptsClients DEF IsServer, ServerFields
<1>5. ~Served
  <2>1. server.generation <= server.observed /\ server.observed <= revision
    BY <1>1 DEF EInv, Evident
  <2>2. server.observed \in Nat /\ revision \in Nat
    BY Facts DEF IsServer
  <2>3. QED
    BY <1>1, <2>1, <2>2 DEF Served
<1>6. /\ server'.at = "idle" /\ server'.left = <<>> /\ server'.generation = s.generation
      /\ server'.clients = s.clients /\ server'.synced = s.synced
  BY <1>2, <1>3, Rests, Onwards
<1>7. AdoptedLink(server) \in {link, End(link)}
  BY Adopts
<1>8. QED
  BY <1>1, <1>2, <1>3, <1>4, <1>5, <1>6, <1>7, TellsEnds

\* The observation is of this generation: the clients are the evidence.
LEMMA CurrentEnds ==
  ASSUME HInv, EInv, Current
  PROVE  EInv'
<1>1. /\ server.at = "observed" /\ revision' = revision /\ selected' = selected
      /\ link' = AdoptedLink(server) /\ UNCHANGED <<commands, session, packets, sender, job>>
  BY DEF Current, SameGeneration, serverRest
<1>t. PICK t : t = Adopted(server)
  OBVIOUS
<1>2. IsServer(t) /\ t.generation = revision /\ t.synced \subseteq selected
  BY <1>t, AdoptsClients
<1>s. PICK s : s = [t EXCEPT !.clients = selected]
  OBVIOUS
<1>3. /\ DOMAIN s = ServerFields /\ s.generation = revision /\ s.synced = t.synced
      /\ s.clients = selected
  BY <1>2, <1>s DEF IsServer, ServerFields
<1>y. PICK synced : synced = IF Available(s) THEN s.synced \cap s.clients ELSE {}
  OBVIOUS
<1>r. PICK ready : ready = (Available(s) /\ "consumer" \in synced)
  OBVIOUS
<1>4. server' = [s EXCEPT !.synced = synced, !.at = "schedule", !.observed = 0, !.ready = ready]
  BY <1>t, <1>s, <1>y, <1>r DEF Current
<1>5. /\ server'.at = "schedule" /\ server'.generation = revision
      /\ server'.synced = synced /\ server'.clients = selected
  BY <1>3, <1>4 DEF ServerFields
<1>6. Evident'
  BY <1>1, <1>2, <1>3, <1>5, <1>y DEF Evident
<1>7. Apart
  BY <1>1, Adopts, KeptLink DEF Apart
<1>8. QED
  BY <1>1, <1>5, <1>6, <1>7, SameQueue, SteadyEnds DEF Served

\* Of gives the kinds of a set, and some if there are some.
LEMMA OfKinds ==
  ASSUME NEW kinds
  PROVE  /\ Of(kinds) \in Seq(Kinds)
         /\ \A i \in 1 .. Len(Of(kinds)) : Of(kinds)[i] \in kinds
         /\ kinds \cap Kinds # {} => Of(kinds) # <<>>
<1>c. PICK c : c = Only("consumer", kinds)
  OBVIOUS
<1>k. PICK k : k = Only("keyboard", kinds)
  OBVIOUS
<1>m. PICK m : m = Only("mouse", kinds)
  OBVIOUS
<1>d. PICK D : D = kinds \cap Kinds
  OBVIOUS
<1>0. ASSUME NEW kind
      PROVE  Only(kind, kinds) \in Seq(D) /\ (kind \in D => Len(Only(kind, kinds)) = 1)
  <2>1. CASE kind \in D
    <3>1. Only(kind, kinds) = <<kind>>
      BY <2>1, <1>d DEF Only
    <3>2. <<kind>> \in Seq(D) /\ Len(<<kind>>) = 1
      BY <2>1
    <3>3. QED
      BY <3>1, <3>2
  <2>2. CASE kind \notin D
    BY <2>2, <1>d DEF Only
  <2>3. QED
    BY <2>1, <2>2
<1>1. /\ c \in Seq(D) /\ ("consumer" \in D => Len(c) = 1)
      /\ k \in Seq(D) /\ ("keyboard" \in D => Len(k) = 1)
      /\ m \in Seq(D) /\ ("mouse" \in D => Len(m) = 1)
  BY <1>0, <1>c, <1>k, <1>m
<1>o. PICK o : o = c \o k \o m
  OBVIOUS
<1>2. o \in Seq(D) /\ Len(o) = Len(c) + Len(k) + Len(m) /\ Len(c) \in Nat /\ Len(k) \in Nat /\ Len(m) \in Nat
  BY <1>1, <1>o
<1>3. \A i \in 1 .. Len(o) : o[i] \in D
  BY <1>2
<1>4. D # {} => Len(o) # 0
  <2>1. D \subseteq {"consumer", "keyboard", "mouse"}
    BY <1>d, KindsKnown
  <2>2. D # {} => "consumer" \in D \/ "keyboard" \in D \/ "mouse" \in D
    BY <2>1
  <2>3. QED
    BY <1>1, <1>2, <2>2
<1>5. Of(kinds) = o
  BY <1>c, <1>k, <1>m, <1>o DEF Of
<1>6. QED
  BY <1>3, <1>4, <1>5, <1>d, OfSorts

\* The reports of the receiver that are not neutral yet
LEMMA SynchronizeEnds ==
  ASSUME HInv, EInv, Synchronize
  PROVE  EInv'
<1>1. /\ server.at = "schedule" /\ revision' = revision /\ selected' = selected /\ link' = link
      /\ UNCHANGED <<commands, session, packets, sender, job>>
  BY DEF Synchronize, SameGeneration, serverRest
<1>k. PICK kinds : kinds = server.clients \ server.synced
  OBVIOUS
<1>l. PICK left \in Seq(Kinds) : left = Of(kinds) /\ \A i \in 1 .. Len(left) : left[i] \in kinds
  BY OfKinds
<1>2. server' = [server EXCEPT !.at = "sync", !.since = revision, !.left = left]
  BY <1>k, <1>l DEF Synchronize
<1>3. /\ server'.at = "sync" /\ server'.generation = server.generation /\ server'.left = left
      /\ server'.synced = server.synced /\ server'.clients = server.clients
  BY <1>2, Facts DEF IsServer, ServerFields
<1>4. Evident'
  BY <1>1, <1>3, <1>k, <1>l DEF EInv, Evident, Counting
<1>5. Apart
  BY <1>1, KeptLink DEF Apart
<1>6. QED
  BY <1>1, <1>3, <1>4, <1>5, SameQueue, SteadyEnds DEF Served

\* The end of a refresh
LEMMA FinishEnds ==
  ASSUME HInv, EInv, Finish
  PROVE  EInv'
<1>1. /\ server.at \in {"schedule", "sync"} /\ SameGeneration
      /\ selected' = selected /\ UNCHANGED <<session, packets, sender, job>>
  BY DEF Finish, serverRest
<1>r. PICK ready \in BOOLEAN : ready = (/\ Available(server) /\ "consumer" \in server.synced
                                        /\ server.generation = revision)
  OBVIOUS
<1>s. PICK s : s = [server EXCEPT !.ready = ready]
  OBVIOUS
<1>2. Configure(s, link, commands) /\ server' = Idle(s)
  BY <1>r, <1>s DEF Finish
<1>3. /\ DOMAIN s = ServerFields /\ s.at = server.at /\ s.generation = server.generation
      /\ s.ready = ready /\ s.synced = server.synced /\ s.clients = server.clients
      /\ s.observed = server.observed /\ s.since = server.since /\ s.left = server.left
  BY <1>s, Facts DEF IsServer, ServerFields
<1>4. IsServer(s)
  BY <1>3, Facts DEF IsServer
<1>5. /\ server'.at = "idle" /\ server'.left = <<>> /\ server'.generation = s.generation
      /\ server'.clients = s.clients /\ server'.synced = s.synced
  BY <1>2, <1>4, Rests, Onwards
<1>6. Served => "consumer" \in s.clients /\ s.generation = revision
  BY <1>3 DEF Served
<1>7. s.generation = revision => s.synced \subseteq selected
  BY <1>3 DEF EInv, Evident
<1>8. QED
  BY <1>1, <1>2, <1>4, <1>5, <1>6, <1>7, TellsEnds

\* The next report that is to be neutral
LEMMA NotifyEnds ==
  ASSUME HInv, EInv, Neutralize \/ Release
  PROVE  EInv'
<1>1. PICK from, to : /\ Notify(from, to)
                      /\ \/ from = "sync" /\ to = "syncing"
                         \/ from = "release" /\ to = "releasing"
  BY DEF Neutralize, Release
<1>2. /\ server.at = from /\ server.left # <<>> /\ server' = [server EXCEPT !.at = to]
      /\ revision' = revision /\ selected' = selected /\ link' = link
      /\ UNCHANGED <<session, packets, sender, job>>
  BY <1>1 DEF Notify, SameGeneration, serverRest
<1>3. /\ server'.at = to /\ server'.generation = server.generation /\ server'.left = server.left
      /\ server'.synced = server.synced /\ server'.clients = server.clients
  BY <1>2, Facts DEF IsServer, ServerFields
<1>4. Head(server.left) \in Kinds
  <2>1. QueueOf(server.left, Kinds)
    BY Facts, Queues DEF IsServer
  <2>2. QED
    BY <1>2, <2>1 DEF QueueOf
<1>c. PICK c \in CommandSet : /\ c = [Command("notify") EXCEPT !.kind = Head(server.left)]
                              /\ c.type = "notify"
  BY <1>4, NotifyCommand DEF HInv
<1>5. Extended
  <2>1. commands' = Append(commands, c)
    BY <1>1, <1>c DEF Notify
  <2>2. Latest(c)
    BY <1>c DEF Latest
  <2>3. QED
    BY <2>1, <2>2, OneMore
<1>6. Evident'
  BY <1>1, <1>2, <1>3 DEF EInv, Evident, Counting
<1>7. Apart
  BY <1>2, KeptLink DEF Apart
<1>8. QED
  BY <1>1, <1>2, <1>3, <1>5, <1>6, <1>7, SteadyEnds DEF Served

\* A report is neutral: the receiver takes it.
LEMMA NeutralizedEnds ==
  ASSUME HInv, EInv, Neutralized
  PROVE  EInv'
<1>1. /\ server.at = "syncing" /\ revision' = revision /\ selected' = selected /\ link' = link
      /\ UNCHANGED <<commands, session, packets, sender, job>>
  BY DEF Neutralized, SameGeneration, serverRest
<1>2. server.left # <<>>
  BY <1>1 DEF HInv, Told
<1>q. PICK q : q = server.left
  OBVIOUS
<1>3. QueueOf(q, Kinds) /\ q # <<>>
  BY <1>2, <1>q, Facts, Queues DEF IsServer
<1>t. PICK t : t = Tail(q)
  OBVIOUS
<1>4. /\ Len(t) = Len(q) - 1 /\ Len(q) \in Nat /\ Head(q) = q[1] /\ 1 \in 1 .. Len(q)
      /\ \A i \in 1 .. Len(t) : t[i] = q[i + 1] /\ i + 1 \in 1 .. Len(q)
  BY <1>3, <1>t DEF QueueOf
<1>5. \A i \in 1 .. Len(q) : q[i] \in server.clients
  BY <1>1, <1>q DEF EInv, Evident
<1>6. Head(q) \in server.clients /\ \A i \in 1 .. Len(t) : t[i] \in server.clients
  BY <1>4, <1>5
<1>y. PICK synced : synced = IF server.since = revision THEN server.synced \cup {Head(q)}
                             ELSE server.synced
  OBVIOUS
<1>7. server' = [server EXCEPT !.at = "sync", !.left = t, !.synced = synced]
  BY <1>q, <1>t, <1>y DEF Neutralized
<1>8. /\ server'.at = "sync" /\ server'.generation = server.generation /\ server'.left = t
      /\ server'.synced = synced /\ server'.clients = server.clients
  BY <1>7, Facts DEF IsServer, ServerFields
<1>9. server.generation = revision =>
        server.synced \subseteq selected /\ server.clients = selected
  BY <1>1, <1>2 DEF EInv, Evident, Counting
<1>10. server.generation = revision => synced \subseteq selected
  BY <1>6, <1>9, <1>y
<1>11. Evident'
  BY <1>1, <1>6, <1>8, <1>9, <1>10 DEF Evident, Counting
<1>12. Apart
  BY <1>1, KeptLink DEF Apart
<1>13. QED
  BY <1>1, <1>8, <1>11, <1>12, SameQueue, SteadyEnds DEF Served

\* The evidence is withdrawn: if there was none before, there was no tap.
LEMMA WithdrawnEnds ==
  ASSUME HInv, EInv, Withdrawn, UNCHANGED <<session, packets, sender, job>>, server.at # "none"
  PROVE  EInv'
<1>1. /\ link' = End(link) /\ commands' = commands /\ selected' = {}
      /\ \/ revision' = revision /\ selected = {}
         \/ revision' = revision + 1
  BY Facts DEF Withdrawn, Advance
<1>s. PICK s : s = Onward(server)
  OBVIOUS
<1>2. IsServer(s) /\ s.at \in {"sync", "idle"} /\ s.left = <<>>
  BY <1>s, Facts, Rests, Onwards
<1>3. server' = [s EXCEPT !.generation = revision', !.synced = {}, !.ready = FALSE]
  BY <1>s DEF Withdrawn
<1>4. /\ server'.at \in {"sync", "idle"} /\ server'.generation = revision' /\ server'.synced = {}
      /\ server'.left = <<>>
  BY <1>2, <1>3 DEF IsServer, ServerFields
<1>5. Evident'
  BY <1>4 DEF Evident, Counting
<1>6. Apart
  BY <1>1, KeptLink DEF Apart
<1>7. CASE revision' = revision /\ selected = {}
  <2>1. ~Served
    BY <1>7 DEF Served
  <2>2. QED
    BY <1>1, <1>5, <1>6, <1>7, <2>1, SameQueue, SteadyEnds
<1>8. CASE revision' = revision + 1
  BY <1>1, <1>5, <1>6, <1>8, Facts, LaterEnds
<1>9. QED
  BY <1>1, <1>7, <1>8

\* A report for a synchronization, or a media report, failed, or could not be sent.
LEMMA FailuresEnd ==
  ASSUME HInv, EInv, SyncFails \/ MediaFails \/ Unsent
  PROVE  EInv'
<1>1. CASE MediaFails \/ Unsent
  <2>1. /\ Withdrawn /\ UNCHANGED <<session, packets, sender, job>> /\ server.at # "none"
    BY <1>1 DEF MediaFails, Unsent, Sendable, serverRest
  <2>2. QED
    BY <2>1, WithdrawnEnds
<1>2. CASE SyncFails
  <2>1. server.at = "syncing" /\ UNCHANGED <<session, packets, sender, job>>
    BY <1>2 DEF SyncFails, serverRest
  <2>2. CASE Withdrawn
    BY <2>1, <2>2, WithdrawnEnds
  <2>3. CASE Superfluous
    <3>t. PICK t : t = Adopted(server)
      OBVIOUS
    <3>1. /\ IsServer(t) /\ t.generation = revision /\ t.clients = server.clients
          /\ t.synced \subseteq selected
      BY <3>t, AdoptsClients
    <3>s. PICK s : s = Onward(t)
      OBVIOUS
    <3>2. /\ IsServer(s) /\ s.at \in {"idle", "sync"} /\ s.left = <<>> /\ s.generation = revision
          /\ s.clients = server.clients /\ s.synced = t.synced
      BY <3>1, <3>s, Rests, Onwards
    <3>3. /\ server' = s /\ Configure(s, AdoptedLink(server), commands)
          /\ SameGeneration /\ selected' = selected
      BY <2>3, <3>t, <3>s DEF Superfluous
    <3>4. AdoptedLink(server) \in {link, End(link)}
      BY Adopts
    <3>5. Served => "consumer" \in s.clients /\ s.generation = revision
      BY <3>2 DEF Served
    <3>6. QED
      BY <2>1, <3>1, <3>2, <3>3, <3>4, <3>5, TellsEnds
  <2>4. QED
    BY <1>2, <2>2, <2>3 DEF SyncFails
<1>3. QED
  BY <1>1, <1>2

\* A media key: while the control thread is ready, the receiver takes the consumer report.
LEMMA SendMediaEnds ==
  ASSUME HInv, EInv, NEW usage \in Usages, NEW down \in BOOLEAN, SendMedia(usage, down)
  PROVE  EInv'
<1>1. /\ server.at = "idle" /\ server.ready /\ server.generation = revision
      /\ "consumer" \in server.clients /\ server' = [server EXCEPT !.at = "sending"]
      /\ revision' = revision /\ selected' = selected /\ link' = link
      /\ UNCHANGED <<session, packets, sender, job>>
  BY DEF SendMedia, Sendable, Available, SameGeneration, serverRest
<1>c. PICK c \in CommandSet :
        /\ c = [Command("media") EXCEPT !.media = [usage |-> usage, down |-> down]]
        /\ c.type = "media" /\ c.generation = revision
  BY MediaCommand DEF HInv
<1>2. "consumer" \in selected
  <2>1. "consumer" \in server.synced
    BY <1>1, Facts DEF Counts
  <2>2. server.synced \subseteq selected
    BY <1>1 DEF EInv, Evident
  <2>3. QED
    BY <2>1, <2>2
<1>3. Extended
  <2>1. commands' = Append(commands, c)
    BY <1>c DEF SendMedia
  <2>2. Latest(c)
    BY <1>1, <1>2, <1>c DEF Latest, Served
  <2>3. QED
    BY <2>1, <2>2, OneMore
<1>4. /\ server'.at = "sending" /\ server'.generation = server.generation
      /\ server'.synced = server.synced /\ server'.clients = server.clients
  BY <1>1, Facts DEF IsServer, ServerFields
<1>5. Evident'
  BY <1>1, <1>4, RestsEvident DEF EInv, Evident
<1>6. Apart
  BY <1>1, KeptLink DEF Apart
<1>7. QED
  BY <1>1, <1>3, <1>4, <1>5, <1>6, SteadyEnds DEF Served

\* The service at rest, or gone: it says nothing new.
LEMMA QuietEnds ==
  ASSUME HInv, EInv, Apart, revision' = revision, selected' = selected, Extended,
         server.at # "none",
         \/ server'.at = "none" /\ server'.generation = 0
         \/ /\ server'.at \notin {"observed", "schedule", "sync", "syncing"}
            /\ server'.generation = server.generation /\ server'.clients = server.clients
            /\ server'.synced = server.synced
  PROVE  EInv'
<1>1. Evident'
  BY Facts, RestsEvident DEF EInv, Evident
<1>2. server'.at # "none" /\ Served => server'.generation = revision /\ "consumer" \in server'.clients
  BY DEF Served
<1>3. QED
  BY <1>1, <1>2, SteadyEnds

\* What the control thread does between two requests, and when the service goes
LEMMA RestingEnds ==
  ASSUME HInv, EInv, MediaSent \/ Drop \/ Detached \/ Released
  PROVE  EInv'
<1>1. CASE MediaSent
  <2>1. /\ server.at = "sending" /\ server' = Idle(server) /\ revision' = revision
        /\ selected' = selected /\ link' = link /\ UNCHANGED <<commands, session, packets, sender, job>>
    BY <1>1 DEF MediaSent, SameGeneration, serverRest
  <2>2. /\ server'.at = "idle" /\ server'.generation = server.generation
        /\ server'.synced = server.synced /\ server'.clients = server.clients
    BY <2>1, Facts, Rests
  <2>3. QED
    BY <2>1, <2>2, SameQueue, KeptLink, QuietEnds DEF Apart
<1>2. CASE Drop
  <2>1. /\ server.at = "drop" /\ revision' = revision /\ link' = End(link)
        /\ selected' = selected /\ UNCHANGED <<commands, session, packets, sender, job>>
    BY <1>2 DEF Drop, SameGeneration, serverRest
  <2>s. PICK s : s = Idle(server)
    OBVIOUS
  <2>2. /\ IsServer(s) /\ s.generation = server.generation /\ s.synced = server.synced
        /\ s.clients = server.clients
    BY <2>s, Facts, Rests
  <2>l. PICK left : left = Of(server.clients)
    OBVIOUS
  <2>3. server' = [s EXCEPT !.at = "release", !.left = left]
    BY <1>2, <2>s, <2>l DEF Drop
  <2>4. /\ server'.at = "release" /\ server'.generation = server.generation
        /\ server'.synced = server.synced /\ server'.clients = server.clients
    BY <2>2, <2>3 DEF IsServer, ServerFields
  <2>5. QED
    BY <2>1, <2>4, SameQueue, KeptLink, QuietEnds DEF Apart
<1>3. CASE Detached
  <2>1. /\ server.at = "detaching" /\ revision' = revision /\ link' = link /\ server' = Gone
        /\ selected' = selected /\ UNCHANGED <<commands, session, packets, sender, job>>
    BY <1>3 DEF Detached, SameGeneration, serverRest
  <2>2. QED
    BY <2>1, GoneIs, SameQueue, KeptLink, QuietEnds DEF Apart
<1>4. CASE Released
  <2>1. /\ server.at \in {"release", "releasing"} /\ revision' = revision /\ link' = link
        /\ server' = [server EXCEPT !.at = "release", !.left = Tail(server.left)]
        /\ selected' = selected /\ UNCHANGED <<commands, session, packets, sender, job>>
    BY <1>4 DEF Released, ReleasedNext, SameGeneration, serverRest
  <2>2. /\ server'.at = "release" /\ server'.generation = server.generation
        /\ server'.synced = server.synced /\ server'.clients = server.clients
    BY <2>1, Facts DEF IsServer, ServerFields
  <2>3. QED
    BY <2>1, <2>2, SameQueue, KeptLink, QuietEnds DEF Apart
<1>5. QED
  BY <1>1, <1>2, <1>3, <1>4

\* The sender is told, if there is room for it.
LEMMA DetachEnds ==
  ASSUME HInv, EInv, Detach
  PROVE  EInv'
<1>1. /\ server.at = "release" /\ revision' = revision /\ link' = End(link)
      /\ selected' = selected /\ UNCHANGED <<session, packets, sender, job>>
  BY DEF Detach, SameGeneration, serverRest
<1>2. Apart
  BY <1>1, KeptLink DEF Apart
<1>3. CASE Room
  <2>c. PICK c \in CommandSet : /\ c = [Command("detach") EXCEPT !.generation = 0]
                                /\ c.type = "detach"
    BY DetachCommand DEF HInv
  <2>1. commands' = Append(commands, c) /\ server' = [server EXCEPT !.at = "detaching"]
    BY <1>3, <2>c DEF Detach
  <2>2. Extended
    BY <2>1, <2>c, OneMore DEF Latest
  <2>3. /\ server'.at = "detaching" /\ server'.generation = server.generation
        /\ server'.synced = server.synced /\ server'.clients = server.clients
    BY <2>1, Facts DEF IsServer, ServerFields
  <2>4. QED
    BY <1>1, <1>2, <2>2, <2>3, QuietEnds
<1>4. CASE ~Room
  <2>1. commands' = commands /\ server' = Gone
    BY <1>4 DEF Detach
  <2>2. QED
    BY <1>1, <1>2, <2>1, GoneIs, SameQueue, QuietEnds
<1>5. QED
  BY <1>3, <1>4

\* A job and a queue that nobody waits for any more
LEMMA AbandonedEnds ==
  ASSUME HInv, Abandon
  PROVE  /\ job'.task = job.task /\ job'.left = job.left /\ job'.stage = job.stage
         /\ job'.neutral = job.neutral /\ UNCHANGED <<session, packets, sender>>
         /\ Abandoned \in Seq(CommandSet) /\ Len(Abandoned) = Len(commands)
         /\ \A i \in 1 .. Len(commands) : Alike(Abandoned[i], commands[i])
<1>1. job' = [job EXCEPT !.reply = FALSE] /\ UNCHANGED <<session, packets, sender>>
  BY DEF Abandon
<1>2. DOMAIN job = JobFields
  BY DEF HInv, JobSorts
<1>3. /\ job'.task = job.task /\ job'.left = job.left /\ job'.stage = job.stage
      /\ job'.neutral = job.neutral
  BY <1>1, <1>2 DEF JobFields
<1>4. Sorts
  BY DEF HInv
<1>5. QED
  BY <1>1, <1>3, <1>4, AbandonedSorts DEF Alike

\* A release, or the last command, that nobody answers in time
LEMMA DetachingEnds ==
  ASSUME HInv, EInv, ReleaseTimesOut \/ DetachTimesOut
  PROVE  EInv'
<1>1. /\ Abandon /\ commands' = Abandoned /\ revision' = revision /\ link' = link
      /\ selected' = selected /\ server.at # "none"
  BY DEF ReleaseTimesOut, DetachTimesOut, SameGeneration
<1>2. Extended
  BY <1>1, AbandonedEnds DEF Extended
<1>3. Apart
  BY <1>1, AbandonedEnds, KeptLink DEF Apart
<1>4. CASE ReleaseTimesOut
  <2>1. server' = [server EXCEPT !.at = "release", !.left = Tail(server.left)]
    BY <1>4 DEF ReleaseTimesOut, ReleasedNext
  <2>2. /\ server'.at = "release" /\ server'.generation = server.generation
        /\ server'.synced = server.synced /\ server'.clients = server.clients
    BY <2>1, Facts DEF IsServer, ServerFields
  <2>3. QED
    BY <1>1, <1>2, <1>3, <2>2, QuietEnds
<1>5. CASE DetachTimesOut
  <2>1. server' = Gone
    BY <1>5 DEF DetachTimesOut
  <2>2. QED
    BY <1>1, <1>2, <1>3, <2>1, GoneIs, QuietEnds
<1>6. QED
  BY <1>4, <1>5

\* A reply that does not come in time
LEMMA ReplyTimesOutEnds ==
  ASSUME HInv, EInv, ReplyTimesOut
  PROVE  EInv'
<1>1. /\ Abandon /\ server.at # "none" /\ revision' = revision /\ selected' = selected
  BY DEF ReplyTimesOut, TimedOut, SameGeneration, Awaiting
<1>a. PICK a \in Seq(CommandSet) : /\ a = Abandoned /\ Len(a) = Len(commands)
                                   /\ \A i \in 1 .. Len(commands) : Alike(a[i], commands[i])
  BY <1>1, AbandonedEnds
<1>t. PICK t : t = Onward(Adopted(server))
  OBVIOUS
<1>s. PICK s : s = [t EXCEPT !.synced = {}, !.ready = FALSE]
  OBVIOUS
<1>2. server' = s /\ Configure(s, AdoptedLink(server), a)
  BY <1>a, <1>t, <1>s DEF ReplyTimesOut, TimedOut
<1>3. /\ IsServer(t) /\ t.generation = revision /\ t.at \in {"sync", "idle"} /\ t.left = <<>>
      /\ t.clients = server.clients
  BY <1>t, AdoptsClients, Rests, Onwards
<1>4. /\ DOMAIN s = ServerFields /\ s.at = t.at /\ s.generation = revision
      /\ s.ready = FALSE /\ s.synced = {} /\ s.clients = server.clients
      /\ s.observed = t.observed /\ s.since = t.since /\ s.left = <<>>
  BY <1>3, <1>s DEF IsServer, ServerFields
<1>5. IsServer(s)
  BY <1>3, <1>4 DEF IsServer
<1>c. PICK c \in CommandSet :
        /\ c = [Command("configure") EXCEPT !.generation = s.generation, !.reply = FALSE,
                                            !.endpoints = s.clients,
                                            !.ready = s.ready /\ s.synced = Kinds]
        /\ c.type = "configure" /\ c.endpoints = s.clients
  BY <1>5, ConfigureCommand DEF HInv
<1>6. commands' = Append(a, c) \/ commands' = a
  BY <1>2, <1>c DEF Configure
<1>7. Latest(c)
  BY <1>1, <1>c, <1>4 DEF Latest, Served
<1>8. Extended
  <2>1. CASE commands' = a
    BY <1>a, <2>1 DEF Extended
  <2>2. CASE commands' = Append(a, c)
    <3>1. QueueOf(a, CommandSet)
      BY <1>a, Queues
    <3>2. /\ Len(commands') = Len(commands) + 1
          /\ \A i \in 1 .. Len(commands') : \/ i \in 1 .. Len(commands) /\ commands'[i] = a[i]
                                            \/ i = Len(commands) + 1 /\ commands'[i] = c
      BY <1>a, <2>2, <3>1 DEF QueueOf
    <3>3. QED
      BY <1>a, <1>7, <3>2 DEF Extended
  <2>3. QED
    BY <1>6, <2>1, <2>2
<1>9. Apart
  <2>1. AdoptedLink(server) \in {link, End(link)} /\ link' \in {AdoptedLink(server), End(AdoptedLink(server))}
    BY <1>2, Adopts, ConfiguredLink
  <2>2. QED
    BY <1>1, <2>1, AbandonedEnds, KeptLink DEF Apart
<1>10. Evident'
  BY <1>1, <1>2, <1>3, <1>4 DEF Evident, Counting
<1>11. QED
  BY <1>1, <1>2, <1>4, <1>8, <1>9, <1>10, SteadyEnds DEF Served

\* The control thread
LEMMA ServerEnds ==
  ASSUME HInv, EInv, ServerNext
  PROVE  EInv'
<1>1. CASE ServerWork
  BY <1>1, RefreshEnds, OutdatedEnds, CurrentEnds, SynchronizeEnds, FinishEnds, NotifyEnds,
     NeutralizedEnds, FailuresEnd, RestingEnds, ReplyTimesOutEnds, DetachEnds, DetachingEnds
     DEF ServerWork
<1>2. Seeks \subseteq Usages
  BY OutputsAssumption
<1>3. QED
  BY <1>1, <1>2, CreateEnds, SendMediaEnds DEF ServerNext

-----------------------------------------------------------------------------
\* The sender thread.

\* A queue that stays, or loses its first entry: what is behind an entry stays behind it.
LEMMA Shifts ==
  ASSUME HInv, commands' = commands \/ (commands # <<>> /\ commands' = Tail(commands))
  PROVE  \E d \in {0, 1} :
           /\ d = 1 => commands # <<>> /\ Head(commands) = commands[1] /\ 1 \in 1 .. Len(commands)
           /\ d = 0 => commands' = commands
           /\ Len(commands) \in Nat /\ Len(commands') \in Nat
           /\ \A i \in 1 .. Len(commands') :
                /\ i + d \in 1 .. Len(commands) /\ commands'[i] = commands[i + d]
                /\ d = 1 => 1 < i + d
<1>1. QueueOf(commands, CommandSet) /\ Len(commands) \in Nat
  BY Queues DEF HInv, Sorts, QueueOf
<1>2. CASE commands' = commands
  <2>1. \A i \in 1 .. Len(commands') : i + 0 \in 1 .. Len(commands) /\ commands'[i] = commands[i + 0]
    BY <1>1, <1>2
  <2>2. QED
    BY <1>1, <1>2, <2>1
<1>3. CASE commands # <<>> /\ commands' = Tail(commands)
  <2>1. /\ Len(commands') = Len(commands) - 1 /\ Head(commands) = commands[1]
        /\ 1 \in 1 .. Len(commands)
        /\ \A i \in 1 .. Len(commands') : commands'[i] = commands[i + 1] /\ i + 1 \in 1 .. Len(commands)
    BY <1>1, <1>3 DEF QueueOf
  <2>2. Len(commands') \in Nat /\ \A i \in 1 .. Len(commands') : 1 < i + 1
    BY <1>1, <2>1
  <2>3. \A i \in 1 .. Len(commands') :
          i + 1 \in 1 .. Len(commands) /\ commands'[i] = commands[i + 1] /\ 1 < i + 1
    BY <2>1, <2>2
  <2>4. Len(commands) \in Nat /\ Len(commands') \in Nat /\ commands # <<>>
    BY <1>1, <1>3, <2>2
  <2>5. 1 \in {0, 1} /\ 1 # 0
    OBVIOUS
  <2> WITNESS 1 \in {0, 1}
  <2>6. /\ 1 = 1 => commands # <<>> /\ Head(commands) = commands[1] /\ 1 \in 1 .. Len(commands)
        /\ 1 = 0 => commands' = commands
    BY <2>1, <2>4, <2>5
  <2>7. QED
    BY <2>3, <2>4, <2>6
<1>4. QED
  BY <1>2, <1>3

\* What is said of taps, when the sender begins none but the one it was asked for first
LEMMA TapsFollow ==
  ASSUME HInv, Tapped, server' = server, selected' = selected, revision' = revision,
         commands' = commands \/ (commands # <<>> /\ commands' = Tail(commands)),
         \/ Tapping' => Tapping
         \/ commands # <<>> /\ Taps(Head(commands)) /\ commands' = Tail(commands)
  PROVE  Tapped'
<1>d. PICK d \in {0, 1} :
        /\ d = 1 => commands # <<>> /\ Head(commands) = commands[1] /\ 1 \in 1 .. Len(commands)
        /\ d = 0 => commands' = commands
        /\ Len(commands) \in Nat /\ Len(commands') \in Nat
        /\ \A i \in 1 .. Len(commands') :
             /\ i + d \in 1 .. Len(commands) /\ commands'[i] = commands[i + d]
             /\ d = 1 => 1 < i + d
  BY Shifts
<1>1. ASSUME NEW i \in 1 .. Len(commands'), commands'[i].type = "media",
             commands'[i].generation = revision
      PROVE  i + d \in 1 .. Len(commands) /\ Taps(commands[i + d])
  BY <1>d, <1>1 DEF Taps
<1>2. ASSUME NEW i \in 1 .. Len(commands'), commands'[i].type = "configure",
             commands'[i].generation = revision
      PROVE  /\ i + d \in 1 .. Len(commands) /\ Configures(commands[i + d])
             /\ commands'[i].endpoints = commands[i + d].endpoints
  BY <1>d, <1>2 DEF Configures
<1>3. CASE Tapping' => Tapping
  <2>1. ASSUME Tapping' \/ \E i \in 1 .. Len(commands') :
                             commands'[i].type = "media" /\ commands'[i].generation = revision
        PROVE  "consumer" \in selected /\ (server.at # "none" => Served)
    BY <1>1, <1>3, <2>1 DEF Tapped
  <2>2. Tapping' => \A i \in 1 .. Len(commands') :
                      commands'[i].type = "configure" /\ commands'[i].generation = revision
                      => "consumer" \in commands'[i].endpoints
    BY <1>2, <1>3 DEF Tapped
  <2>3. ASSUME NEW i \in 1 .. Len(commands'), NEW j \in 1 .. Len(commands'), i < j,
               commands'[i].type = "media", commands'[i].generation = revision,
               commands'[j].type = "configure", commands'[j].generation = revision
        PROVE  "consumer" \in commands'[j].endpoints
    <3>1. i + d < j + d
      BY <1>d, <2>3
    <3>2. QED
      BY <1>1, <1>2, <2>3, <3>1 DEF Tapped
  <2>4. QED
    BY <2>1, <2>2, <2>3 DEF Tapped, Taps, Configures, Served
<1>4. CASE commands # <<>> /\ Taps(Head(commands)) /\ commands' = Tail(commands)
  <2>1. QueueOf(commands, CommandSet)
    BY Queues DEF HInv, Sorts
  <2>2. 1 \in 1 .. Len(commands) /\ Taps(commands[1])
    BY <1>4, <2>1 DEF QueueOf
  <2>3. "consumer" \in selected /\ (server.at # "none" => Served)
    BY <2>2 DEF Tapped
  <2>4. ASSUME NEW j \in 1 .. Len(commands'), commands'[j].type = "configure",
               commands'[j].generation = revision
        PROVE  "consumer" \in commands'[j].endpoints
    <3>1. commands'[j] = commands[j + 1] /\ j + 1 \in 1 .. Len(commands) /\ 1 < j + 1
      <4>1. Len(commands) \in Nat /\ Len(commands') = Len(commands) - 1
        BY <1>4, <2>1 DEF QueueOf
      <4>2. \A i \in 1 .. Len(commands) - 1 : commands'[i] = commands[i + 1] /\ i + 1 \in 1 .. Len(commands)
        BY <1>4, <2>1 DEF QueueOf
      <4>3. j \in 1 .. Len(commands) - 1 /\ 1 < j + 1
        BY <4>1
      <4>4. QED
        BY <4>2, <4>3
    <3>2. Configures(commands[j + 1])
      BY <2>4, <3>1 DEF Configures
    <3>3. QED
      BY <2>2, <3>1, <3>2 DEF Tapped
  <2>5. QED
    BY <2>3, <2>4 DEF Tapped, Taps, Configures, Served
<1>5. QED
  BY <1>3, <1>4

\* A step of the sender thread
LEMMA SenderMoves ==
  ASSUME HInv, EInv, UNCHANGED senderRest, Fitted', Listed',
         packets' = packets \/ (packets # <<>> /\ packets' = Tail(packets)),
         commands' = commands \/ (commands # <<>> /\ commands' = Tail(commands)),
         link'.mapping = link.mapping, sender'.mapping \in {sender.mapping, link.mapping},
         \/ /\ revision' = revision
            /\ \/ Tapping' => Tapping
               \/ commands # <<>> /\ Taps(Head(commands)) /\ commands' = Tail(commands)
         \/ revision' = revision + 1 /\ sender'.generation = sender.generation
  PROVE  EInv'
<1>1. server' = server /\ selected' = selected /\ session' = session
  BY DEF senderRest
<1>2. Unused /\ Tapped
  BY DEF EInv
<1>3. Unused'
  BY <1>1, <1>2 DEF Unused
<1>4. Evident'
  BY <1>1, Facts, SameEvidence
<1>5. Tapped'
  <2>1. CASE revision' = revision
    BY <1>1, <1>2, <2>1, Facts, TapsFollow
  <2>2. CASE revision' = revision + 1 /\ sender'.generation = sender.generation
    <3>1. EntrySorts /\ Times
      BY Entries DEF HInv
    <3>2. \A i \in 1 .. Len(commands') :
            commands'[i].generation \in Nat /\ commands'[i].generation <= revision
      <4>1. PICK d \in {0, 1} :
              \A i \in 1 .. Len(commands') :
                i + d \in 1 .. Len(commands) /\ commands'[i] = commands[i + d]
        BY Shifts
      <4>2. QED
        BY <3>1, <4>1 DEF EntrySorts, Times
    <3>3. QED
      BY <2>2, <3>2, Facts, SenderFacts, NewGeneration
  <2>3. QED
    BY <2>1, <2>2
<1>6. QED
  BY <1>3, <1>4, <1>5 DEF EInv

\* The session: an operation that begins no tap
LEMMA PulseOps ==
  /\ Blank.pulses = {}
  /\ \A h, pulses : DOMAIN h = HidFields => Ended(h, pulses).pulses \subseteq h.pulses
  /\ \A h, sources : DOMAIN h = HidFields => Owned(h, sources).pulses = h.pulses
<1>1. Blank.pulses = {}
  BY DEF Blank
<1>2. ASSUME NEW h, NEW pulses, DOMAIN h = HidFields
      PROVE  Ended(h, pulses).pulses \subseteq h.pulses
  BY <1>2 DEF Ended, HidFields
<1>3. ASSUME NEW h, NEW sources, DOMAIN h = HidFields
      PROVE  Owned(h, sources).pulses = h.pulses
  BY <1>3 DEF Owned, HidFields
<1>4. QED
  BY <1>1, <1>2, <1>3

\* Input begins no tap.
LEMMA HandledPulses ==
  ASSUME NEW h, DOMAIN h = HidFields, NEW event \in Events
  PROVE  Handled(h, event).pulses \subseteq h.pulses
<1>1. \A source, down : Update(h, source, down).pulses = h.pulses
  BY PulseOps DEF Update
<1>2. \A usage, down : ConsumerKey(h, usage, down).pulses = h.pulses
  BY DEF ConsumerKey, HidFields
<1>k. PICK k : k = Owned(h, h.owners \cap Mapped)
  OBVIOUS
<1>3. DOMAIN k = HidFields /\ k.pulses = h.pulses
  BY <1>k, HidOps, PulseOps
<1>4. ReleasePhysical(h) = k \/ ReleasePhysical(h) = [k EXCEPT !.consumer = {}, !.pulses = {}]
  BY <1>k DEF ReleasePhysical
<1>5. ReleasePhysical(h).pulses \subseteq h.pulses
  BY <1>3, <1>4 DEF HidFields
<1>6. event.type \in {"output", "consumer", "release"}
  BY DEF Events
<1>7. QED
  BY <1>1, <1>2, <1>5, <1>6 DEF Handled

\* No job, and a new one
LEMMA JobsListed ==
  /\ NoJob.left = <<>> /\ NoJob.neutral = FALSE /\ NoJob.stage = "none" /\ NoJob.task = "none"
  /\ \A task, kinds : Job(task, kinds).neutral = FALSE
<1>1. /\ NoJob.left = <<>> /\ NoJob.neutral = FALSE /\ NoJob.stage = "none" /\ NoJob.task = "none"
  BY DEF NoJob
<1>2. ASSUME NEW task, NEW kinds
      PROVE  Job(task, kinds).neutral = FALSE
  <2>v. PICK v : v = [NoJob EXCEPT !.task = task, !.left = kinds]
    OBVIOUS
  <2>1. DOMAIN v = JobFields /\ v.neutral = FALSE
    BY <2>v DEF NoJob, JobFields
  <2>b. PICK b : b = IF detaching THEN 0 ELSE revision
    OBVIOUS
  <2>j. PICK j : j = [v EXCEPT !.stage = "pacing", !.begun = b]
    OBVIOUS
  <2>2. j.neutral = FALSE
    BY <2>1, <2>j DEF JobFields
  <2>3. Job(task, kinds) = j
    BY <2>v, <2>b, <2>j DEF Job, Started
  <2>4. QED
    BY <2>2, <2>3
<1>3. QED
  BY <1>1, <1>2

\* Without a job there is nothing to send.
LEMMA NothingListed ==
  ASSUME job' = NoJob
  PROVE  Listed'
<1>1. <<>> \in Seq(Kinds)
  OBVIOUS
<1>2. /\ job'.left = <<>> /\ job'.neutral = FALSE /\ job'.stage = "none"
  BY JobsListed
<1>3. QED
  BY <1>1, <1>2 DEF Listed

\* The sender keeps its endpoints, and begins nothing that needs others.
LEMMA StaysFitted ==
  ASSUME EInv, sender'.endpoints = sender.endpoints, sender'.authorized => sender.authorized,
         link'.open => link.open,
         sender'.hid.pulses \subseteq sender.hid.pulses \/ job.task = "media",
         job'.task = "media" => job.task = "media"
  PROVE  Fitted'
<1>1. Fitted
  BY DEF EInv
<1>2. sender'.hid.pulses # {} => sender.hid.pulses # {} \/ job.task = "media"
  OBVIOUS
<1>3. QED
  BY <1>1, <1>2 DEF Fitted

\* It begins no tap.
LEMMA StaysTapping ==
  ASSUME revision' = revision, sender'.generation = sender.generation,
         sender'.hid.pulses \subseteq sender.hid.pulses \/ job.task = "media",
         job'.task = "media" => job.task = "media"
  PROVE  Tapping' => Tapping
<1>1. sender'.hid.pulses # {} => sender.hid.pulses # {} \/ job.task = "media"
  OBVIOUS
<1>2. QED
  BY <1>1 DEF Tapping

\* A command that changes nothing but the place where the sender is
LEMMA PassedEnds ==
  ASSUME HInv, EInv, Take, SameGeneration, UNCHANGED <<link, job>>,
         sender' = [sender EXCEPT !.at = "top"]
  PROVE  EInv'
<1>1. /\ job = NoJob /\ job' = NoJob /\ revision' = revision /\ UNCHANGED <<packets, senderRest>>
      /\ commands # <<>> /\ commands' = Tail(commands)
  BY DEF Take, SameGeneration
<1>2. /\ sender'.authorized = sender.authorized /\ sender'.endpoints = sender.endpoints
      /\ sender'.generation = sender.generation /\ sender'.mapping = sender.mapping
      /\ sender'.hid = sender.hid
  BY SenderFacts DEF SenderFields
<1>3. Fitted' /\ (Tapping' => Tapping)
  BY <1>1, <1>2, StaysFitted, StaysTapping
<1>4. Listed'
  BY <1>1, NothingListed
<1>5. QED
  BY <1>1, <1>2, <1>3, <1>4, SenderMoves

\* The service is gone, or tells the sender what it knows: in the generation of a tap that
\* includes the consumer report.
LEMMA TakeDetachEnds ==
  ASSUME HInv, EInv, TakeDetach
  PROVE  EInv'
<1>1. /\ Take /\ link' = End(link) /\ job' = NoJob /\ revision' = revision
      /\ UNCHANGED <<packets, senderRest>> /\ commands # <<>> /\ commands' = Tail(commands)
      /\ sender' = [sender EXCEPT !.at = "top", !.authorized = FALSE, !.endpoints = {}, !.hid = Blank]
  BY DEF TakeDetach, Take, Emptied, SameGeneration
<1>2. /\ sender'.authorized = FALSE /\ sender'.generation = sender.generation
      /\ sender'.mapping = sender.mapping /\ sender'.hid = Blank
  BY <1>1, SenderFacts DEF SenderFields
<1>3. link'.open = FALSE /\ link'.mapping = link.mapping
  BY <1>1, Facts, LinkOps
<1>4. Fitted' /\ ~Tapping'
  BY <1>1, <1>2, <1>3, PulseOps, JobsListed DEF Fitted, Tapping
<1>5. Listed'
  BY <1>1, NothingListed
<1>6. QED
  BY <1>1, <1>2, <1>3, <1>4, <1>5, SenderMoves

\* What configures the sender in this generation comes with the consumer report, if a tap is down.
LEMMA TakeConfigureEnds ==
  ASSUME HInv, EInv, TakeConfigure
  PROVE  EInv'
<1>1. /\ Take /\ command.type = "configure" /\ SameGeneration /\ revision' = revision
      /\ job = NoJob /\ job' = NoJob /\ UNCHANGED <<packets, senderRest>>
      /\ commands # <<>> /\ commands' = Tail(commands)
  BY DEF TakeConfigure, Take, SameGeneration
<1>2. CASE detaching \/ ~IsCurrent
  <2>1. sender' = [sender EXCEPT !.at = "top"] /\ link' = link
    BY <1>2 DEF TakeConfigure
  <2>2. QED
    BY <1>1, <2>1, PassedEnds
<1>3. CASE ~(detaching \/ ~IsCurrent)
  <2>a. PICK authorized \in BOOLEAN : authorized = (command.ready /\ command.endpoints = Kinds)
    OBVIOUS
  <2>h. PICK hid : hid = IF command.generation # sender.generation THEN Blank ELSE sender.hid
    OBVIOUS
  <2>l. PICK l \in {link, End(link)} :
          l = IF command.generation # sender.generation THEN End(link) ELSE link
    OBVIOUS
  <2>1. command.generation = revision
    BY <1>3 DEF IsCurrent
  <2>2. /\ sender' = [sender EXCEPT !.at = "top", !.generation = revision,
                        !.endpoints = command.endpoints, !.authorized = authorized, !.hid = hid]
        /\ link' = IF authorized THEN Open(l, revision) ELSE End(link)
    BY <1>3, <2>1, <2>a, <2>h, <2>l DEF TakeConfigure
  <2>3. /\ sender'.authorized = authorized /\ sender'.endpoints = command.endpoints
        /\ sender'.generation = revision /\ sender'.mapping = sender.mapping /\ sender'.hid = hid
    BY <2>2, SenderFacts DEF SenderFields
  <2>4. link'.mapping = link.mapping /\ (link'.open => authorized)
    <3>1. link \in LinkSet /\ l \in LinkSet /\ l.mapping = link.mapping
      BY <2>l, Facts, LinkOps
    <3>v. PICK v : v = [l EXCEPT !.open = TRUE, !.ready = revision]
      OBVIOUS
    <3>2. v.mapping = l.mapping
      BY <3>1, <3>v DEF LinkSet
    <3>3. Open(l, revision) \in {v, l}
      BY <3>v DEF Open
    <3>4. End(link).mapping = link.mapping /\ End(link).open = FALSE
      BY <3>1, LinkOps
    <3>5. QED
      BY <2>2, <3>1, <3>2, <3>3, <3>4
  <2>5. hid.pulses # {} => sender.generation = revision /\ sender.hid.pulses # {} /\ Tapping
    BY <2>1, <2>h, PulseOps DEF Tapping
  <2>6. Tapping => "consumer" \in command.endpoints
    <3>1. QueueOf(commands, CommandSet)
      BY Queues DEF HInv, Sorts
    <3>2. 1 \in 1 .. Len(commands) /\ command = commands[1]
      BY <1>1, <3>1 DEF QueueOf, command
    <3>3. Configures(commands[1])
      BY <1>1, <2>1, <3>2 DEF Configures
    <3>4. QED
      BY <3>2, <3>3 DEF EInv, Tapped
  <2>7. job'.task # "media"
    BY <1>1, JobsListed
  <2>8. Fitted'
    BY <2>3, <2>4, <2>5, <2>6, <2>7, <2>a DEF Fitted
  <2>9. Tapping' => Tapping
    BY <2>3, <2>5, <2>7 DEF Tapping
  <2>10. Listed'
    BY <1>1, NothingListed
  <2>11. QED
    BY <1>1, <2>3, <2>4, <2>8, <2>9, <2>10, SenderMoves
<1>4. QED
  BY <1>2, <1>3

\* A neutral report needs no endpoint of the sender.
LEMMA TakeNotifyEnds ==
  ASSUME HInv, EInv, TakeNotify
  PROVE  EInv'
<1>1. /\ Take /\ command.type = "notify" /\ SameGeneration /\ revision' = revision /\ link' = link
      /\ UNCHANGED <<packets, senderRest>> /\ commands # <<>> /\ commands' = Tail(commands)
  BY DEF TakeNotify, Take, SameGeneration
<1>2. command.kind \in Kinds
  BY Taken DEF Take, TakeNotify, command, CommandIs
<1>3. CASE ~IsCurrent
  BY <1>1, <1>3, PassedEnds DEF TakeNotify
<1>4. CASE IsCurrent
  <2>e. PICK e : e = [sender.hid EXCEPT !.consumer = {}, !.pulses = {}]
    OBVIOUS
  <2>1. e.pulses = {}
    BY <2>e, SenderFacts DEF HidFields
  <2>h. PICK hid : hid = IF command.kind = "consumer" THEN e ELSE sender.hid
    OBVIOUS
  <2>s. PICK s : s = [sender EXCEPT !.hid = hid]
    OBVIOUS
  <2>b. PICK b : b = Job("notify", <<command.kind>>)
    OBVIOUS
  <2>2. /\ sender' = [s EXCEPT !.at = "top"]
        /\ job' = [b EXCEPT !.neutral = TRUE, !.reply = command.reply]
    BY <1>4, <2>e, <2>h, <2>s, <2>b DEF TakeNotify, Begin
  <2>3. hid.pulses \subseteq sender.hid.pulses
    BY <2>1, <2>h
  <2>4. /\ sender'.mapping = sender.mapping /\ sender'.authorized = sender.authorized
        /\ sender'.endpoints = sender.endpoints /\ sender'.generation = sender.generation
        /\ sender'.hid = hid
    BY <2>2, <2>s, SenderFacts DEF SenderFields
  <2>5. /\ DOMAIN b = JobFields /\ b.task = "notify" /\ b.left = <<command.kind>>
        /\ b.stage = "pacing"
    BY <2>b, Jobs
  <2>6. /\ job'.task = "notify" /\ job'.left = <<command.kind>> /\ job'.stage = "pacing"
        /\ job'.neutral = TRUE
    BY <2>2, <2>5 DEF JobFields
  <2>7. <<command.kind>> \in Seq(Kinds) /\ <<command.kind>> # <<>>
    BY <1>2
  <2>8. Listed'
    BY <2>6, <2>7 DEF Listed
  <2>9. Fitted' /\ (Tapping' => Tapping)
    BY <1>1, <2>3, <2>4, <2>6, StaysFitted, StaysTapping
  <2>10. QED
    BY <1>1, <2>4, <2>8, <2>9, SenderMoves
<1>5. QED
  BY <1>3, <1>4

\* A tap begins: its report gets an endpoint.
LEMMA TakeMediaEnds ==
  ASSUME HInv, EInv, TakeMedia
  PROVE  EInv'
<1>1. /\ Take /\ command.type = "media" /\ SameGeneration /\ revision' = revision /\ link' = link
      /\ UNCHANGED <<packets, senderRest>> /\ commands # <<>> /\ commands' = Tail(commands)
  BY DEF TakeMedia, Take, SameGeneration
<1>2. CASE ~IsCurrent
  BY <1>1, <1>2, PassedEnds DEF TakeMedia
<1>3. CASE IsCurrent
  <2>p. PICK pulses : pulses = IF command.media.down THEN Superseded(sender.hid, command.media.usage)
                               ELSE {}
    OBVIOUS
  <2>h. PICK hid : hid = Ended(sender.hid, pulses)
    OBVIOUS
  <2>n. PICK n : n = sender.endpoints \cup {"consumer"}
    OBVIOUS
  <2>s. PICK s : s = [sender EXCEPT !.endpoints = n, !.hid = hid]
    OBVIOUS
  <2>k. PICK kinds : kinds = IF pulses = {} THEN <<>> ELSE <<"consumer">>
    OBVIOUS
  <2>b. PICK b : b = Job("media", kinds)
    OBVIOUS
  <2>g. PICK stage : stage = IF pulses = {} THEN "press" ELSE b.stage
    OBVIOUS
  <2>1. /\ sender' = [s EXCEPT !.at = "top"]
        /\ job' = [b EXCEPT !.stage = stage, !.media = command.media, !.reply = command.reply]
    BY <1>3, <2>p, <2>h, <2>n, <2>s, <2>k, <2>b, <2>g DEF TakeMedia, Begin
  <2>2. /\ sender'.mapping = sender.mapping /\ sender'.authorized = sender.authorized
        /\ sender'.endpoints = n /\ sender'.generation = sender.generation
    BY <2>1, <2>s, SenderFacts DEF SenderFields
  <2>3. /\ DOMAIN b = JobFields /\ b.left = kinds /\ b.stage = "pacing" /\ b.neutral = FALSE
    BY <2>b, Jobs, JobsListed
  <2>4. job'.left = kinds /\ job'.stage = stage /\ job'.neutral = FALSE
    BY <2>1, <2>3 DEF JobFields
  <2>5. "consumer" \in n /\ (sender.endpoints = Kinds => n = Kinds)
    BY <2>n, KindsKnown
  <2>6. Fitted'
    BY <1>1, <2>2, <2>5 DEF EInv, Fitted
  <2>7. Listed'
    <3>1. CASE pulses = {}
      <4>1. <<>> \in Seq(Kinds) /\ Len(<<>>) = 0
        OBVIOUS
      <4>2. kinds = <<>> /\ stage = "press"
        BY <3>1, <2>k, <2>g
      <4>3. QED
        <5>1. job'.left \in Seq(Kinds) /\ job'.neutral = FALSE /\ job'.stage = "press"
          BY <2>4, <4>1, <4>2
        <5>2. Len(job'.left) = 0
          BY <2>4, <4>1, <4>2
        <5>3. \A i \in 1 .. Len(job'.left) : job'.left[i] \in sender'.endpoints
          BY <5>2
        <5>4. QED
          BY <5>1, <5>3 DEF Listed
    <3>2. CASE pulses # {}
      <4>1. /\ <<"consumer">> \in Seq(Kinds) /\ <<"consumer">> # <<>>
            /\ \A i \in 1 .. Len(<<"consumer">>) : <<"consumer">>[i] = "consumer"
        BY KindsKnown
      <4>2. kinds = <<"consumer">> /\ stage = "pacing"
        BY <3>2, <2>k, <2>g, <2>3
      <4>3. QED
        BY <2>2, <2>4, <2>5, <4>1, <4>2 DEF Listed
    <3>3. QED
      BY <3>1, <3>2
  <2>8. Taps(Head(commands))
    BY <1>1, <1>3 DEF Taps, IsCurrent, command
  <2>9. QED
    BY <1>1, <2>2, <2>6, <2>7, <2>8, SenderMoves
<1>4. QED
  BY <1>2, <1>3

\* A tap ends on time: its report still has an endpoint.
LEMMA PulseEnds ==
  ASSUME HInv, EInv, Pulse
  PROVE  EInv'
<1>1. /\ UNCHANGED <<link, packets, commands, senderRest>> /\ revision' = revision
  BY DEF Pulse, SameGeneration
<1>p. PICK pulse \in sender.hid.pulses :
        Begin([sender EXCEPT !.hid = Ended(@, {pulse})], Job("pulse", <<"consumer">>))
  BY DEF Pulse
<1>h. PICK hid : hid = Ended(sender.hid, {pulse})
  OBVIOUS
<1>s. PICK s : s = [sender EXCEPT !.hid = hid]
  OBVIOUS
<1>2. sender' = [s EXCEPT !.at = "top"] /\ job' = Job("pulse", <<"consumer">>)
  BY <1>p, <1>h, <1>s DEF Begin
<1>3. hid.pulses \subseteq sender.hid.pulses
  BY <1>h, SenderFacts, PulseOps
<1>4. /\ sender'.authorized = sender.authorized /\ sender'.endpoints = sender.endpoints
      /\ sender'.generation = sender.generation /\ sender'.mapping = sender.mapping
      /\ sender'.hid = hid
  BY <1>2, <1>s, SenderFacts DEF SenderFields
<1>5. /\ job'.task = "pulse" /\ job'.left = <<"consumer">> /\ job'.stage = "pacing"
      /\ job'.neutral = FALSE
  BY <1>2, Jobs, JobsListed
<1>6. "consumer" \in sender.endpoints
  BY <1>p DEF EInv, Fitted
<1>7. /\ <<"consumer">> \in Seq(Kinds) /\ <<"consumer">> # <<>>
      /\ \A i \in 1 .. Len(<<"consumer">>) : <<"consumer">>[i] = "consumer"
  BY KindsKnown
<1>8. Listed'
  BY <1>4, <1>5, <1>6, <1>7 DEF Listed
<1>9. Fitted' /\ (Tapping' => Tapping)
  BY <1>1, <1>3, <1>4, <1>5, StaysFitted, StaysTapping
<1>10. QED
  BY <1>1, <1>4, <1>8, <1>9, SenderMoves

\* What a result leads to: the generation and the authority stay, or both end.
LEMMA RevokedEnds ==
  ASSUME HInv, NEW result, Revoke(result)
  PROVE  /\ revision' \in {revision, revision + 1}
         /\ link'.mapping = link.mapping /\ (link'.open => link.open)
<1>1. revision' \in {revision, revision + 1} /\ link' \in {link, End(link)}
  BY Revokes DEF HInv
<1>2. link'.mapping = link.mapping /\ (link'.open => link.open)
  BY <1>1, Facts, LinkOps
<1>3. QED
  BY <1>1, <1>2

\* A handler that sends nothing
LEMMA NothingEnds ==
  ASSUME HInv, EInv, job = NoJob, UNCHANGED <<commands, senderRest>>,
         packets' = packets \/ (packets # <<>> /\ packets' = Tail(packets)),
         NEW s, NEW result, Nothing(s, result),
         DOMAIN s = SenderFields, s.authorized = sender.authorized, s.mapping = sender.mapping,
         s.generation = sender.generation, s.endpoints = sender.endpoints,
         s.hid.pulses \subseteq sender.hid.pulses
  PROVE  EInv'
<1>1. sender' = [Judged(s, result) EXCEPT !.at = "top"] /\ Revoke(result) /\ job' = NoJob
  BY DEF Nothing
<1>v. PICK v : v = [s EXCEPT !.authorized = FALSE]
  OBVIOUS
<1>2. /\ DOMAIN v = SenderFields /\ v.authorized = FALSE /\ v.mapping = s.mapping
      /\ v.generation = s.generation /\ v.endpoints = s.endpoints /\ v.hid = s.hid
  BY <1>v DEF SenderFields
<1>j. PICK j \in {s, v} : sender' = [j EXCEPT !.at = "top"]
  BY <1>1, <1>v DEF Judged
<1>3. /\ sender'.authorized => sender.authorized
      /\ sender'.mapping = sender.mapping /\ sender'.generation = sender.generation
      /\ sender'.endpoints = sender.endpoints /\ sender'.hid.pulses \subseteq sender.hid.pulses
  BY <1>2, <1>j DEF SenderFields
<1>4. /\ revision' \in {revision, revision + 1}
      /\ link'.mapping = link.mapping /\ (link'.open => link.open)
  BY <1>1, RevokedEnds
<1>5. job'.task = "none"
  BY <1>1, JobsListed
<1>6. Fitted'
  BY <1>3, <1>4, <1>5, StaysFitted
<1>7. revision' = revision => (Tapping' => Tapping)
  BY <1>3, <1>5, StaysTapping
<1>8. Listed'
  BY <1>1, NothingListed
<1>9. QED
  BY <1>3, <1>4, <1>6, <1>7, <1>8, SenderMoves

\* Input has its reports.
LEMMA SentKinds ==
  ASSUME NEW event \in Events, MaxSession > 0
  PROVE  Sent(event) \in Seq(Kinds) /\ Sent(event) # <<>>
<1>1. "keyboard" \in Kinds /\ "consumer" \in Kinds /\ (Buttons # {} => "mouse" \in Kinds)
  BY SenderAssumption, KindsKnown
<1>0. ASSUME NEW kind
      PROVE  Only(kind, Kinds) \in Seq(Kinds) /\ (kind \in Kinds => Len(Only(kind, Kinds)) = 1)
  <2>1. CASE kind \in Kinds
    <3>1. Only(kind, Kinds) = <<kind>>
      BY <2>1 DEF Only
    <3>2. <<kind>> \in Seq(Kinds) /\ Len(<<kind>>) = 1
      BY <2>1
    <3>3. QED
      BY <3>1, <3>2
  <2>2. CASE kind \notin Kinds
    BY <2>2 DEF Only
  <2>3. QED
    BY <2>1, <2>2
<1>2. CASE event.type = "release"
  <2>1. Reported(event) = <<"keyboard", "mouse", "consumer">>
    BY <1>2 DEF Reported
  <2>a. PICK a : a = Only("keyboard", Kinds)
    OBVIOUS
  <2>b. PICK b : b = Only("mouse", Kinds)
    OBVIOUS
  <2>c. PICK c : c = Only("consumer", Kinds)
    OBVIOUS
  <2>2. Sent(event) = a \o b \o c
    BY <1>2, <2>1, <2>a, <2>b, <2>c DEF Sent
  <2>3. a \in Seq(Kinds) /\ b \in Seq(Kinds) /\ c \in Seq(Kinds) /\ Len(a) = 1
    BY <1>0, <1>1, <2>a, <2>b, <2>c
  <2>d. PICK D : D = Kinds
    OBVIOUS
  <2>o. PICK o : o = a \o b \o c
    OBVIOUS
  <2>4. o \in Seq(D) /\ Len(o) = Len(a) + Len(b) + Len(c) /\ Len(b) \in Nat /\ Len(c) \in Nat
    <3>1. a \in Seq(D) /\ b \in Seq(D) /\ c \in Seq(D)
      BY <2>3, <2>d
    <3>2. QED
      BY <3>1, <2>o
  <2>5. o \in Seq(Kinds) /\ o # <<>>
    BY <2>3, <2>4, <2>d
  <2>6. QED
    BY <2>2, <2>o, <2>5
<1>3. CASE event.type # "release"
  <2>1. \E kind \in Kinds : Reported(event) = <<kind>>
    <3>1. CASE event.type = "output"
      <4>1. event.source \in Physical \cup Mapped
        BY <3>1 DEF Events
      <4>2. Output[event.source] \in Keys \cup Buttons
        BY <4>1, OutputsAssumption
      <4>3. Reported(event) = IF Output[event.source] \in Keys THEN <<"keyboard">> ELSE <<"mouse">>
        BY <3>1 DEF Reported
      <4>4. QED
        BY <1>1, <4>2, <4>3
    <3>2. CASE event.type = "consumer"
      <4>1. Reported(event) = <<"consumer">>
        BY <3>2 DEF Reported
      <4>2. QED
        BY <1>1, <4>1
    <3>3. event.type \in {"output", "consumer", "release"}
      BY DEF Events
    <3>4. QED
      BY <1>3, <3>1, <3>2, <3>3
  <2>k. PICK kind \in Kinds : Reported(event) = <<kind>>
    BY <2>1
  <2>2. <<kind>>[1] = kind
    OBVIOUS
  <2>3. Sent(event) = Only(kind, Kinds)
    BY <1>3, <2>k, <2>2 DEF Sent
  <2>4. Sent(event) \in Seq(Kinds) /\ Len(Sent(event)) = 1
    BY <1>0, <2>3
  <2>5. QED
    BY <2>4
<1>4. QED
  BY <1>2, <1>3

\* Input is taken while the link is open: the sender has every endpoint.
LEMMA TakePacketEnds ==
  ASSUME HInv, EInv, TakePacket
  PROVE  EInv'
<1>1. /\ UNCHANGED <<commands, senderRest>> /\ packets # <<>> /\ packets' = Tail(packets)
      /\ job = NoJob
  BY DEF TakePacket
<1>2. DOMAIN sender = SenderFields /\ DOMAIN sender.hid = HidFields
  BY SenderFacts
<1>p. PICK packet \in PacketSet : packet = Head(packets)
  <2>1. QueueOf(packets, PacketSet)
    BY Queues DEF HInv, Sorts
  <2>2. QED
    BY <1>1, <2>1 DEF QueueOf
<1>e. PICK event \in Events : event = packet.event
  BY DEF PacketSet
<1>h. PICK hid : hid = Handled(sender.hid, event)
  OBVIOUS
<1>3. hid.pulses \subseteq sender.hid.pulses
  BY <1>2, <1>h, HandledPulses
<1>s. PICK next : next = [sender EXCEPT !.hid = hid]
  OBVIOUS
<1>4. /\ DOMAIN next = SenderFields /\ next.authorized = sender.authorized
      /\ next.endpoints = sender.endpoints /\ next.generation = sender.generation
      /\ next.mapping = sender.mapping /\ next.hid = hid
  BY <1>2, <1>s DEF SenderFields
<1>k. PICK kinds : kinds = Sent(event)
  OBVIOUS
<1>5. \/ Nothing(sender, "stale") \/ Nothing(next, "failed")
      \/ /\ link.open
         /\ Begin(next, Job("event", kinds)) /\ SameGeneration /\ UNCHANGED link
  BY <1>p, <1>e, <1>h, <1>s, <1>k DEF TakePacket, Accepts
<1>6. CASE Nothing(sender, "stale") \/ Nothing(next, "failed")
  BY <1>1, <1>2, <1>3, <1>4, <1>6, NothingEnds
<1>7. CASE /\ link.open
           /\ Begin(next, Job("event", kinds)) /\ SameGeneration /\ UNCHANGED link
  <2>1. /\ sender' = [next EXCEPT !.at = "top"] /\ job' = Job("event", kinds)
        /\ revision' = revision /\ link' = link
    BY <1>7 DEF Begin, SameGeneration
  <2>2. /\ sender'.authorized = sender.authorized /\ sender'.endpoints = sender.endpoints
        /\ sender'.generation = sender.generation /\ sender'.mapping = sender.mapping
        /\ sender'.hid = hid
    BY <1>4, <2>1 DEF SenderFields
  <2>3. /\ job'.task = "event" /\ job'.left = kinds /\ job'.stage = "pacing"
        /\ job'.neutral = FALSE
    BY <2>1, Jobs, JobsListed
  <2>4. MaxSession > 0
    <3>1. MaxSession # 0
      BY <1>1 DEF EInv, Unused
    <3>2. QED
      BY <3>1, SenderAssumption
  <2>5. kinds \in Seq(Kinds) /\ kinds # <<>>
    BY <1>k, <2>4, SentKinds
  <2>6. sender.endpoints = Kinds
    BY <1>7 DEF EInv, Fitted
  <2>7. \A i \in 1 .. Len(kinds) : kinds[i] \in sender.endpoints
    BY <2>5, <2>6
  <2>8. Listed'
    BY <2>2, <2>3, <2>5, <2>7 DEF Listed
  <2>9. Fitted' /\ (Tapping' => Tapping)
    BY <1>3, <2>1, <2>2, <2>3, StaysFitted, StaysTapping
  <2>10. QED
    BY <1>1, <2>1, <2>2, <2>8, <2>9, SenderMoves
<1>8. QED
  BY <1>5, <1>6, <1>7

\* The press of a media key: its report has the endpoint that the tap got.
LEMMA PressEnds ==
  ASSUME HInv, EInv, Press
  PROVE  EInv'
<1>1. UNCHANGED <<packets, commands, senderRest>> /\ job.stage = "press"
  BY DEF Press, deliveryRest
<1>2. /\ DOMAIN sender = SenderFields /\ sender.authorized \in BOOLEAN
      /\ DOMAIN job = JobFields /\ job.task = "media" /\ job.neutral \in BOOLEAN
  BY <1>1 DEF HInv, SenderSorts, JobSorts, EInv, Listed
<1>3. "consumer" \in sender.endpoints
  BY <1>2 DEF EInv, Fitted
<1>h. PICK hid : hid = Media(sender.hid, job.media.usage, job.media.down, Fresh)
  OBVIOUS
<1>4. CASE ExceedsCapacity(hid)
  <2>v. PICK v : v = [sender EXCEPT !.authorized = FALSE]
    OBVIOUS
  <2>1. /\ DOMAIN v = SenderFields /\ v.authorized = FALSE /\ v.mapping = sender.mapping
        /\ v.generation = sender.generation /\ v.endpoints = sender.endpoints
    BY <1>2, <2>v DEF SenderFields
  <2>2. Revoke("failed") /\ job' = NoJob /\ sender' = [v EXCEPT !.hid = hid]
    BY <1>4, <1>h, <2>v DEF Press, Judged
  <2>3. /\ sender'.authorized = FALSE /\ sender'.mapping = sender.mapping
        /\ sender'.generation = sender.generation /\ sender'.endpoints = sender.endpoints
    BY <2>1, <2>2 DEF SenderFields
  <2>4. /\ revision' = revision + 1 /\ link' = End(link)
    BY <2>2 DEF Revoke, Advance
  <2>5. link'.mapping = link.mapping /\ link'.open = FALSE
    BY <2>4, Facts, LinkOps
  <2>6. Fitted'
    BY <1>3, <2>3, <2>5 DEF Fitted
  <2>7. Listed'
    BY <2>2, NothingListed
  <2>8. QED
    BY <1>1, <2>3, <2>4, <2>5, <2>6, <2>7, SenderMoves
<1>5. CASE ~ExceedsCapacity(hid)
  <2>v. PICK v : v = [job EXCEPT !.left = <<"consumer">>, !.media = NoMedia]
    OBVIOUS
  <2>b. PICK b : b = IF detaching THEN 0 ELSE revision
    OBVIOUS
  <2>w. PICK w : w = [v EXCEPT !.stage = "pacing", !.begun = b]
    OBVIOUS
  <2>1. sender' = [sender EXCEPT !.hid = hid] /\ job' = w /\ revision' = revision /\ link' = link
    BY <1>5, <1>h, <2>v, <2>b, <2>w DEF Press, Started, SameGeneration
  <2>2. /\ DOMAIN v = JobFields /\ v.task = "media" /\ v.left = <<"consumer">>
        /\ v.neutral = job.neutral
    BY <1>2, <2>v DEF JobFields
  <2>3. /\ job'.task = "media" /\ job'.left = <<"consumer">> /\ job'.neutral \in BOOLEAN
        /\ job'.stage = "pacing"
    BY <1>2, <2>1, <2>2, <2>w DEF JobFields
  <2>4. /\ sender'.authorized = sender.authorized /\ sender'.endpoints = sender.endpoints
        /\ sender'.generation = sender.generation /\ sender'.mapping = sender.mapping
    BY <1>2, <2>1 DEF SenderFields
  <2>5. /\ <<"consumer">> \in Seq(Kinds) /\ <<"consumer">> # <<>>
        /\ \A i \in 1 .. Len(<<"consumer">>) : <<"consumer">>[i] = "consumer"
    BY KindsKnown
  <2>6. Listed'
    BY <1>3, <2>3, <2>4, <2>5 DEF Listed
  <2>7. Fitted'
    BY <1>3, <2>1, <2>4 DEF EInv, Fitted
  <2>8. Tapping' => Tapping
    BY <1>2, <2>1, <2>4 DEF Tapping
  <2>9. QED
    BY <1>1, <2>1, <2>4, <2>6, <2>7, <2>8, SenderMoves
<1>6. QED
  BY <1>4, <1>5

\* A job goes on: with the reports that are left.
LEMMA GoesOn ==
  ASSUME HInv, EInv, UNCHANGED <<packets, commands, senderRest, link, sender>>, revision' = revision,
         job'.task = job.task, job'.neutral = job.neutral, job.stage # "none",
         job'.left \in Seq(Kinds),
         \A i \in 1 .. Len(job'.left) : job'.left[i] \in {job.left[k] : k \in 1 .. Len(job.left)},
         \/ job'.stage \in {"pacing", "submitted"} /\ job'.left # <<>>
         \/ job'.stage = "press"
  PROVE  EInv'
<1>1. Listed
  BY DEF EInv
<1>2. ~job'.neutral => \A i \in 1 .. Len(job'.left) : job'.left[i] \in sender'.endpoints
  BY <1>1 DEF Listed
<1>3. /\ job'.neutral \in BOOLEAN /\ job'.stage \in {"pacing", "submitted", "press"}
      /\ job'.stage \in {"pacing", "submitted"} => job'.left # <<>>
  BY <1>1 DEF Listed
<1>4. Listed'
  BY <1>2, <1>3 DEF Listed
<1>5. Fitted' /\ (Tapping' => Tapping)
  BY StaysFitted, StaysTapping
<1>6. QED
  BY <1>4, <1>5, SenderMoves

\* A job ends.
LEMMA ConcludeEnds ==
  ASSUME HInv, EInv, UNCHANGED <<packets, commands, senderRest>>, NEW result, Conclude(result)
  PROVE  EInv'
<1>1. job' = NoJob /\ sender' = Judged(sender, result)
  BY DEF Conclude
<1>v. PICK v : v = [sender EXCEPT !.authorized = FALSE]
  OBVIOUS
<1>2. /\ v.authorized = FALSE /\ v.mapping = sender.mapping /\ v.hid = sender.hid
      /\ v.generation = sender.generation /\ v.endpoints = sender.endpoints
  BY <1>v, SenderFacts DEF SenderFields
<1>3. sender' \in {sender, v}
  BY <1>1, <1>v DEF Judged
<1>4. /\ sender'.authorized => sender.authorized
      /\ sender'.mapping = sender.mapping /\ sender'.generation = sender.generation
      /\ sender'.endpoints = sender.endpoints /\ sender'.hid = sender.hid
  BY <1>2, <1>3
<1>5. /\ revision' \in {revision, revision + 1}
      /\ link'.mapping = link.mapping /\ (link'.open => link.open)
  <2>1. (revision' = revision /\ link' = link) \/ Revoke(result)
    BY DEF Conclude
  <2>2. QED
    BY <2>1, RevokedEnds
<1>6. job'.task = "none"
  BY <1>1, JobsListed
<1>7. Fitted'
  BY <1>4, <1>5, <1>6, StaysFitted
<1>8. revision' = revision => (Tapping' => Tapping)
  BY <1>4, <1>6, StaysTapping
<1>9. Listed'
  BY <1>1, NothingListed
<1>10. QED
  BY <1>4, <1>5, <1>7, <1>8, <1>9, SenderMoves

\* One report of a job is done: the job goes on with the rest, or ends.
LEMMA ProceedEnds ==
  ASSUME HInv, EInv, job.stage \in {"pacing", "submitted"}, NEW result, Proceed(result),
         UNCHANGED <<packets, commands, senderRest>>
  PROVE  EInv'
<1>1. DOMAIN job = JobFields /\ job.left \in Seq(Kinds) /\ job.left # <<>>
  BY DEF HInv, JobSorts, EInv, Listed
<1>e. PICK error : error = IF job.error = "ok" THEN result ELSE job.error
  OBVIOUS
<1>t. PICK left : left = Tail(job.left)
  OBVIOUS
<1>2. /\ left \in Seq(Kinds)
      /\ \A i \in 1 .. Len(left) : left[i] \in {job.left[k] : k \in 1 .. Len(job.left)}
  <2>1. QueueOf(job.left, Kinds)
    BY <1>1, Queues
  <2>2. /\ left \in Seq(Kinds) /\ Len(left) = Len(job.left) - 1
        /\ \A i \in 1 .. Len(job.left) - 1 : left[i] = job.left[i + 1] /\ i + 1 \in 1 .. Len(job.left)
    BY <1>1, <1>t, <2>1 DEF QueueOf
  <2>3. \A i \in 1 .. Len(left) : left[i] = job.left[i + 1] /\ i + 1 \in 1 .. Len(job.left)
    BY <2>2
  <2>4. QED
    BY <2>2, <2>3
<1>v. PICK v : v = [job EXCEPT !.left = left, !.late = FALSE]
  OBVIOUS
<1>b. PICK b : b = IF detaching THEN 0 ELSE revision
  OBVIOUS
<1>w. PICK next : next = [v EXCEPT !.stage = "pacing", !.begun = b]
  OBVIOUS
<1>3. /\ DOMAIN v = JobFields /\ v.task = job.task /\ v.left = left /\ v.neutral = job.neutral
  BY <1>1, <1>v DEF JobFields
<1>4. /\ DOMAIN next = JobFields /\ next.task = job.task /\ next.left = left
      /\ next.neutral = job.neutral /\ next.stage = "pacing"
  BY <1>3, <1>w DEF JobFields
<1>5. \/ Conclude(error) \/ Conclude(result)
      \/ /\ left # <<>> /\ job' = [next EXCEPT !.error = error]
         /\ SameGeneration /\ UNCHANGED <<link, sender>>
      \/ /\ left # <<>> /\ job' = next
         /\ SameGeneration /\ UNCHANGED <<link, sender>>
      \/ /\ job' = [next EXCEPT !.stage = "press"]
         /\ SameGeneration /\ UNCHANGED <<link, sender>>
  BY <1>e, <1>t, <1>v, <1>b, <1>w DEF Proceed, Started
<1>6. CASE Conclude(error) \/ Conclude(result)
  BY <1>6, ConcludeEnds
<1>7. CASE /\ left # <<>> /\ job' = [next EXCEPT !.error = error]
           /\ SameGeneration /\ UNCHANGED <<link, sender>>
  <2>1. /\ job'.task = job.task /\ job'.left = left /\ job'.neutral = job.neutral
        /\ job'.stage = "pacing" /\ revision' = revision
    BY <1>4, <1>7 DEF JobFields, SameGeneration
  <2>2. QED
    BY <1>2, <1>7, <2>1, GoesOn
<1>8. CASE /\ left # <<>> /\ job' = next
           /\ SameGeneration /\ UNCHANGED <<link, sender>>
  BY <1>2, <1>4, <1>8, GoesOn DEF SameGeneration
<1>9. CASE /\ job' = [next EXCEPT !.stage = "press"]
           /\ SameGeneration /\ UNCHANGED <<link, sender>>
  <2>1. /\ job'.task = job.task /\ job'.left = left /\ job'.neutral = job.neutral
        /\ job'.stage = "press" /\ revision' = revision
    BY <1>4, <1>9 DEF JobFields, SameGeneration
  <2>2. QED
    BY <1>2, <1>9, <2>1, GoesOn
<1>10. QED
  BY <1>5, <1>6, <1>7, <1>8, <1>9

\* What became of a report
LEMMA DeliveryEnds ==
  ASSUME HInv, EInv, Retired \/ Completed \/ Failed \/ Cancelled
  PROVE  EInv'
<1>1. job.stage \in {"pacing", "submitted"} /\ UNCHANGED <<packets, commands, senderRest>>
  BY DEF Retired, Completed, Failed, Cancelled, deliveryRest
<1>2. \E result \in {"ok", "stale", "failed"} : Proceed(result)
  BY DEF Retired, Completed, Failed, Cancelled
<1>3. QED
  BY <1>1, <1>2, ProceedEnds

\* The sender parks, gives up on input that is too late, submits a report, or waits for it
\* too long.
LEMMA WaitingEnds ==
  ASSUME HInv, EInv, Park \/ PacketTooLate \/ Submit \/ Late
  PROVE  EInv'
<1>1. DOMAIN sender = SenderFields /\ DOMAIN job = JobFields /\ Listed
  BY DEF HInv, SenderSorts, JobSorts, EInv
<1>2. CASE Park
  <2>1. /\ sender' = [sender EXCEPT !.at = "top"] /\ revision' = revision
        /\ UNCHANGED <<link, packets, commands, job, senderRest>>
    BY <1>2 DEF Park, SameGeneration
  <2>2. /\ sender'.authorized = sender.authorized /\ sender'.endpoints = sender.endpoints
        /\ sender'.generation = sender.generation /\ sender'.mapping = sender.mapping
        /\ sender'.hid = sender.hid
    BY <1>1, <2>1 DEF SenderFields
  <2>3. Listed'
    BY <1>1, <2>1, <2>2 DEF Listed
  <2>4. Fitted' /\ (Tapping' => Tapping)
    BY <2>1, <2>2, StaysFitted, StaysTapping
  <2>5. QED
    BY <2>1, <2>2, <2>3, <2>4, SenderMoves
<1>3. CASE PacketTooLate
  BY <1>1, <1>3, NothingEnds DEF PacketTooLate
<1>4. CASE Submit
  <2>1. /\ job' = [job EXCEPT !.stage = "submitted", !.begun = 0] /\ revision' = revision
        /\ job.stage = "pacing" /\ UNCHANGED <<link, sender, packets, commands, senderRest>>
    BY <1>4 DEF Submit, SameGeneration, deliveryRest
  <2>2. /\ job'.task = job.task /\ job'.left = job.left /\ job'.neutral = job.neutral
        /\ job'.stage = "submitted"
    BY <1>1, <2>1 DEF JobFields
  <2>3. job.left \in Seq(Kinds) /\ job.left # <<>>
    BY <1>1, <2>1 DEF Listed
  <2>4. QED
    BY <2>1, <2>2, <2>3, GoesOn
<1>5. CASE Late
  <2>v. PICK v : v = [sender EXCEPT !.authorized = FALSE]
    OBVIOUS
  <2>1. /\ job' = [job EXCEPT !.late = TRUE] /\ sender' = v
        /\ revision' = revision + 1 /\ link' = End(link)
        /\ UNCHANGED <<packets, commands, senderRest>>
    BY <1>5, <2>v DEF Late, Judged, Revoke, Advance, deliveryRest
  <2>2. /\ job'.task = job.task /\ job'.left = job.left /\ job'.neutral = job.neutral
        /\ job'.stage = job.stage
    BY <1>1, <2>1 DEF JobFields
  <2>3. /\ sender'.authorized = FALSE /\ sender'.mapping = sender.mapping
        /\ sender'.generation = sender.generation /\ sender'.endpoints = sender.endpoints
        /\ sender'.hid = sender.hid
    BY <1>1, <2>1, <2>v DEF SenderFields
  <2>4. link'.mapping = link.mapping /\ link'.open = FALSE
    BY <2>1, Facts, LinkOps
  <2>5. Listed'
    BY <1>1, <2>2, <2>3 DEF Listed
  <2>6. Fitted'
    BY <2>2, <2>3, <2>4, StaysFitted
  <2>7. QED
    BY <2>1, <2>3, <2>4, <2>5, <2>6, SenderMoves
<1>6. QED
  BY <1>2, <1>3, <1>4, <1>5

\* The sender takes notice of the generation and of the mapping session: what loses its
\* endpoints is down no more, and the reports of a mapping follow only with authority.
LEMMA ReconcileSenderEnds ==
  ASSUME HInv, EInv, ReconcileSender
  PROVE  EInv'
<1>1. /\ UNCHANGED <<packets, commands, senderRest>> /\ revision' = revision /\ job = NoJob
  BY DEF ReconcileSender, SameGeneration
<1>2. /\ DOMAIN sender = SenderFields /\ DOMAIN sender.hid = HidFields
      /\ sender.endpoints \in SUBSET Kinds
  BY SenderFacts
<1>3. End(link).mapping = link.mapping /\ End(link).open = FALSE
  BY Facts, LinkOps
<1>4. ASSUME sender' = Renewed, link' = End(link), job' = job
      PROVE  EInv'
  <2>1. /\ sender'.authorized = FALSE /\ sender'.hid = Blank /\ sender'.mapping = sender.mapping
    BY <1>2, <1>4 DEF Renewed, SenderFields
  <2>2. job' = NoJob /\ job'.task = "none"
    BY <1>1, <1>4, JobsListed
  <2>3. Fitted' /\ ~Tapping'
    BY <1>3, <1>4, <2>1, <2>2, PulseOps DEF Fitted, Tapping
  <2>4. Listed'
    BY <2>2, NothingListed
  <2>5. QED
    BY <1>1, <1>3, <1>4, <2>1, <2>3, <2>4, SenderMoves
<1>5. ASSUME Generation
      PROVE  EInv'
  <2>1. CASE detaching \/ ~Renewal
    <3>1. /\ link' \in {link, End(link)} /\ job' = NoJob
          /\ \/ sender' = [sender EXCEPT !.at = "select", !.authorized = FALSE]
             \/ sender' = [sender EXCEPT !.at = "select"]
      BY <1>1, <1>5, <2>1 DEF Generation
    <3>2. /\ sender'.authorized => sender.authorized
          /\ sender'.endpoints = sender.endpoints /\ sender'.mapping = sender.mapping
          /\ sender'.generation = sender.generation /\ sender'.hid = sender.hid
      BY <1>2, <3>1 DEF SenderFields
    <3>3. link'.mapping = link.mapping /\ (link'.open => link.open)
      BY <1>3, <3>1
    <3>4. job'.task = "none"
      BY <3>1, JobsListed
    <3>5. Fitted' /\ (Tapping' => Tapping)
      BY <1>1, <3>2, <3>3, <3>4, StaysFitted, StaysTapping
    <3>6. Listed'
      BY <3>1, NothingListed
    <3>7. QED
      BY <1>1, <3>2, <3>3, <3>5, <3>6, SenderMoves
  <2>2. CASE ~detaching /\ Renewal /\ sender.hid.consumer = {}
    BY <1>4, <1>5, <2>2 DEF Generation
  <2>3. CASE ~detaching /\ Renewal /\ sender.hid.consumer # {}
    <3>o. PICK o : o = Of(sender.endpoints)
      OBVIOUS
    <3>b. PICK b : b = Job("reset", o)
      OBVIOUS
    <3>1. /\ sender' = [sender EXCEPT !.at = "renew", !.hid = Blank] /\ link' = End(link)
          /\ job' = IF sender.endpoints = {} THEN NoJob ELSE [b EXCEPT !.neutral = TRUE]
      BY <1>5, <2>3, <3>o, <3>b DEF Generation
    <3>2. /\ sender'.authorized = sender.authorized /\ sender'.endpoints = sender.endpoints
          /\ sender'.mapping = sender.mapping /\ sender'.hid = Blank
      BY <1>2, <3>1 DEF SenderFields
    <3>3. /\ DOMAIN b = JobFields /\ b.task = "reset" /\ b.stage = "pacing" /\ b.left = o
      BY <3>b, Jobs
    <3>4. job'.task # "media" /\ Listed'
      <4>1. CASE sender.endpoints = {}
        BY <3>1, <4>1, JobsListed, NothingListed
      <4>2. CASE sender.endpoints # {}
        <5>1. o \in Seq(Kinds) /\ o # <<>>
          <6>1. sender.endpoints \cap Kinds # {}
            BY <1>2, <4>2
          <6>2. QED
            BY <3>o, <6>1, OfKinds
        <5>2. /\ job'.task = "reset" /\ job'.stage = "pacing" /\ job'.left = o
              /\ job'.neutral = TRUE
          BY <3>1, <3>3, <4>2 DEF JobFields
        <5>3. QED
          BY <5>1, <5>2 DEF Listed
      <4>3. QED
        BY <4>1, <4>2
    <3>5. Fitted' /\ ~Tapping'
      BY <1>3, <3>1, <3>2, <3>4, PulseOps DEF EInv, Fitted, Tapping
    <3>6. QED
      BY <1>1, <1>3, <3>1, <3>2, <3>4, <3>5, SenderMoves
  <2>4. QED
    BY <2>1, <2>2, <2>3
<1>6. ASSUME Unmapped, sender.mapping # link.mapping
      PROVE  EInv'
  <2>k. PICK kept : kept = [sender.hid EXCEPT !.owners = @ \ Mapped]
    OBVIOUS
  <2>1. DOMAIN kept = HidFields /\ kept.pulses = sender.hid.pulses
    BY <1>2, <2>k DEF HidFields
  <2>h. PICK hid : hid = IF sender.authorized THEN Owned(kept, kept.owners) ELSE kept
    OBVIOUS
  <2>2. hid.pulses \subseteq sender.hid.pulses
    BY <2>1, <2>h, PulseOps
  <2>m. PICK mapping : mapping = link.mapping
    OBVIOUS
  <2>o. PICK o : o = Of({"keyboard", "mouse"})
    OBVIOUS
  <2>3. /\ sender' = [sender EXCEPT !.at = "generation", !.mapping = mapping, !.hid = hid]
        /\ link' = link
        /\ job' = IF sender.authorized THEN Job("mapping", o) ELSE NoJob
    BY <1>6, <2>k, <2>h, <2>m, <2>o DEF Unmapped
  <2>4. /\ sender'.authorized = sender.authorized /\ sender'.endpoints = sender.endpoints
        /\ sender'.mapping = mapping /\ sender'.generation = sender.generation
        /\ sender'.hid = hid
    BY <1>2, <2>3 DEF SenderFields
  <2>5. o \in Seq(Kinds) /\ o # <<>>
    <3>1. MaxSession > 0
      <4>1. MaxSession # 0
        BY <1>6 DEF EInv, Unused
      <4>2. QED
        BY <4>1, SenderAssumption
    <3>2. {"keyboard", "mouse"} \cap Kinds # {}
      BY <3>1, SenderAssumption
    <3>3. QED
      BY <2>o, <3>2, OfKinds
  <2>6. job'.task # "media" /\ Listed'
    <3>1. CASE ~sender.authorized
      BY <2>3, <3>1, JobsListed, NothingListed
    <3>2. CASE sender.authorized
      <4>1. /\ job'.task = "mapping" /\ job'.left = o /\ job'.stage = "pacing"
            /\ job'.neutral = FALSE
        BY <2>3, <3>2, Jobs, JobsListed
      <4>2. sender.endpoints = Kinds
        BY <3>2 DEF EInv, Fitted
      <4>3. \A i \in 1 .. Len(o) : o[i] \in sender.endpoints
        BY <2>5, <4>2
      <4>4. QED
        BY <2>4, <2>5, <4>1, <4>3 DEF Listed
    <3>3. QED
      BY <3>1, <3>2
  <2>7. Fitted' /\ (Tapping' => Tapping)
    BY <1>1, <2>2, <2>3, <2>4, <2>6, StaysFitted, StaysTapping
  <2>8. QED
    BY <1>1, <2>m, <2>3, <2>4, <2>6, <2>7, SenderMoves
<1>7. QED
  BY <1>4, <1>5, <1>6 DEF ReconcileSender

-----------------------------------------------------------------------------
\* Every step keeps the endpoints at hand.
LEMMA EndsPreserved ==
  ASSUME HInv, EInv, [Next]_vars
  PROVE  EInv'
<1>1. CASE Child
  BY <1>1, ChildEnds
<1>2. CASE ServerNext
  BY <1>2, ServerEnds
<1>3. CASE SenderNext
  BY <1>3, ReconcileSenderEnds, WaitingEnds, TakeDetachEnds, TakeConfigureEnds, TakeNotifyEnds,
     TakeMediaEnds, PulseEnds, TakePacketEnds, PressEnds, DeliveryEnds
     DEF SenderNext, Reconciling, Taking, Delivering
<1>4. CASE \E reports \in Subscriptions : Transport(reports)
  BY <1>4, TransportEnds
<1>5. CASE UNCHANGED vars
  <2> USE <1>5 DEF vars
  <2>1. Fitted' /\ Listed' /\ Unused'
    BY DEF EInv, Fitted, Listed, Unused
  <2>2. Evident'
    BY DEF EInv, Evident, Counting
  <2>3. Tapped'
    BY DEF EInv, Tapped, Tapping, Taps, Configures, Served
  <2>4. QED
    BY <2>1, <2>2, <2>3 DEF EInv
<1>6. QED
  BY <1>1, <1>2, <1>3, <1>4, <1>5 DEF Next

\* A job that waits for the slot of a report has an endpoint for it.
LEMMA AtHand ==
  ASSUME EInv
  PROVE  EndpointAtHand
<1>1. ASSUME job.stage = "pacing", ~job.neutral
      PROVE  Head(job.left) \in sender.endpoints
  <2>1. /\ job.left \in Seq(Kinds) /\ job.left # <<>>
        /\ \A i \in 1 .. Len(job.left) : job.left[i] \in sender.endpoints
    BY <1>1 DEF EInv, Listed
  <2>2. QueueOf(job.left, Kinds)
    BY <2>1, Queues
  <2>3. Head(job.left) = job.left[1] /\ 1 \in 1 .. Len(job.left)
    BY <2>1, <2>2 DEF QueueOf
  <2>4. QED
    BY <2>1, <2>3
<1>2. QED
  BY <1>1 DEF EndpointAtHand, HasEndpoint

\* Whatever the number of revisions, sessions and taps, the keys, sources and usages and
\* the capacities of the queues: send_report has an endpoint for every report that it is
\* given, though what the receiver subscribes to changes while taps, input and the
\* sender's commands are under way.
THEOREM ReportsHaveEndpoints == Spec => []EndpointAtHand
<1>1. Init => HInv /\ EInv
  BY Starts, StartsFitted
<1>2. HInv /\ EInv /\ [Next]_vars => HInv' /\ EInv'
  BY Preserved, EndsPreserved
<1>3. EInv => EndpointAtHand
  BY AtHand
<1>4. QED
  BY <1>1, <1>2, <1>3, PTL DEF Spec
=============================================================================
