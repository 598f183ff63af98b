-------------------------- MODULE SupervisorProofs --------------------------
(***************************************************************************)
(* First the values of the variables of BluetoothSupervisor, and the       *)
(* capacities of its queues, for every value of the constants (TypeInv).   *)
(*                                                                         *)
(* Then what the supervisor and its worker process know of one another     *)
(* over the two pipes between them: input reaches the session that it was  *)
(* produced for, and an answer is the answer of its command.               *)
(***************************************************************************)
EXTENDS BluetoothSupervisor, SequenceTheorems, FiniteSetTheorems, TLAPS

Profiles  == {"media", "full"}
Receivers == Targets \cup {None}

PacketType == [mapping : Nat, generation : Nat, over : BOOLEAN, session : Nat \X Nat]

LinkType ==
  [mode : {"revoked", "ready", "active"}, granted : Nat, mapping : Nat, sessions : Nat,
   requested : Nat, available : BOOLEAN, packets : Seq(PacketType)]

Within(l) == Len(l.packets) <= InputCapacity /\ l.mapping <= l.sessions

IsLink(l) == l \in LinkType /\ Within(l)

\* A call of the runtime; only a media command has a number
CallType ==
  {c \in [kind : {"none", "select", "restart", "invalidate", "pair", "refresh", "send"}, target : Receivers,
          generation : Nat, call : Nat] : c.kind = "send" => c.call \in Calls}

StatusType ==
  [kind : {"status"}, profile : Profiles, generation : Nat, ready : BOOLEAN, input : BOOLEAN,
   target : Receivers]

MessageType ==
  StatusType \cup [kind : {"armed"}, generation : Nat, accepted : BOOLEAN]
    \cup [kind : {"reply"}, id : Nat, ok : BOOLEAN] \cup [kind : {"failure"}]

MediaType == [kind : {"media"}, id : Nat, call : Calls, generation : Nat]

CommandType ==
  [kind : {"invalidate", "request"}] \cup [kind : {"set_profile"}, profile : Profiles]
    \cup [kind : {"arm"}, generation : Nat] \cup MediaType
    \cup [kind : {"input"}, generation : Nat, session : Nat \X Nat]

SendingType == [id : Nat, call : Calls, generation : Nat]

ChildType ==
  [present : BOOLEAN, alive : BOOLEAN, profile : Profiles, publish : BOOLEAN, target : Receivers,
   generation : Nat, shown : Nat, ready : BOOLEAN, admitted : BOOLEAN, mapping : BOOLEAN,
   sending : SUBSET SendingType, stalled : BOOLEAN, reported : StatusType \cup {NoStatus}]

SnapshotType == [generation : Nat, ready : BOOLEAN, selected : Receivers]

LinkOK == IsLink(link) /\ revision \in Nat \ {0, 1}

CallsOK ==
  /\ control \in Seq(CallType) /\ Len(control) <= ControlCapacity
  /\ calling \in CallType

StateOK ==
  /\ phase \in Phases /\ profile \in Profiles
  /\ live \in BOOLEAN /\ publish \in BOOLEAN /\ switching \in BOOLEAN /\ pairing \in BOOLEAN
  /\ stopping \in BOOLEAN
  /\ selected \in Receivers /\ remembered \in Receivers
  /\ native \in Nat /\ blocked \in Nat /\ pid \in Nat
  /\ arm \in Nat \X Nat /\ armed \in Nat
  /\ snapshot \in SnapshotType

ReceiptsOK ==
  /\ next_id \in Nat /\ answers \in [Calls -> Answers] /\ executed \subseteq Calls
  /\ IsFiniteSet(DOMAIN pending) /\ Cardinality(DOMAIN pending) <= PendingLimit
  /\ \A id \in DOMAIN pending : pending[id].call \in Calls

WorkerOK ==
  /\ child \in ChildType
  /\ commands \in Seq(CommandType) /\ Len(commands) <= WorkerCapacity
  /\ messages \in Seq(MessageType)

TypeInv == LinkOK /\ CallsOK /\ StateOK /\ ReceiptsOK /\ WorkerOK

-----------------------------------------------------------------------------
\* What the calls of InputLink make of a link

LEMMA RevokedType ==
  ASSUME NEW l, IsLink(l)
  PROVE  IsLink(Revoked(l))
<1> DEFINE q == [i \in DOMAIN l.packets |-> [l.packets[i] EXCEPT !.over = TRUE]]
<1>1. l.packets \in Seq(PacketType)
  BY DEF IsLink, LinkType
<1>2. \A p \in PacketType : [p EXCEPT !.over = TRUE] \in PacketType
  BY DEF PacketType
<1>3. q \in Seq(PacketType) /\ Len(q) = Len(l.packets)
  BY <1>1, <1>2
<1>4. Revoked(l) = [[l EXCEPT !.mode = "revoked"] EXCEPT !.packets = q]
  BY DEF Revoked
<1> HIDE DEF q
<1>5. QED
  BY <1>3, <1>4 DEF IsLink, LinkType, Within

\* One field at a time
LEMMA FieldTypes ==
  ASSUME NEW l, IsLink(l)
  PROVE  /\ \A mode \in {"revoked", "ready", "active"} : IsLink([l EXCEPT !.mode = mode])
         /\ \A n \in Nat : IsLink([l EXCEPT !.granted = n])
         /\ \A n \in Nat : IsLink([l EXCEPT !.requested = n])
         /\ \A n \in Nat : n >= l.sessions => IsLink([l EXCEPT !.sessions = n])
         /\ \A n \in Nat : n <= l.sessions => IsLink([l EXCEPT !.mapping = n])
<1>1. \A mode \in {"revoked", "ready", "active"} : IsLink([l EXCEPT !.mode = mode])
  BY DEF IsLink, LinkType, Within
<1>2. \A n \in Nat : IsLink([l EXCEPT !.granted = n])
  BY DEF IsLink, LinkType, Within
<1>3. \A n \in Nat : IsLink([l EXCEPT !.requested = n])
  BY DEF IsLink, LinkType, Within
<1>4. \A n \in Nat : n >= l.sessions => IsLink([l EXCEPT !.sessions = n])
  BY DEF IsLink, LinkType, Within
<1>5. \A n \in Nat : n <= l.sessions => IsLink([l EXCEPT !.mapping = n])
  BY DEF IsLink, LinkType, Within
<1>6. QED
  BY <1>1, <1>2, <1>3, <1>4, <1>5

LEMMA UnmappedType ==
  ASSUME NEW l, IsLink(l)
  PROVE  IsLink(Unmapped(l))
<1>1. 0 \in Nat /\ 0 <= l.sessions
  BY DEF IsLink, LinkType
<1>2. QED
  BY <1>1, FieldTypes DEF Unmapped

LEMMA UnrequestedType ==
  ASSUME NEW l, IsLink(l)
  PROVE  IsLink(Unrequested(l))
<1>1. l.requested + 1 \in Nat /\ l.requested \in Nat
  BY DEF IsLink, LinkType
<1>2. PICK n \in Nat : n = IF l.requested % 2 = 1 THEN l.requested + 1 ELSE l.requested
  <2>1. CASE l.requested % 2 = 1
    BY <1>1, <2>1
  <2>2. CASE l.requested % 2 # 1
    BY <1>1, <2>2
  <2>3. QED
    BY <2>1, <2>2
<1>3. Unrequested(l) = [l EXCEPT !.requested = n]
  BY <1>2 DEF Unrequested
<1>4. IsLink([l EXCEPT !.requested = n])
  BY FieldTypes
<1>5. QED
  BY <1>3, <1>4

LEMMA QueuedType ==
  ASSUME NEW l, IsLink(l), NEW p \in PacketType, Len(l.packets) < InputCapacity
  PROVE  IsLink([l EXCEPT !.packets = Append(@, p)])
<1>1. l.packets \in Seq(PacketType) /\ l \in LinkType
  BY DEF IsLink, LinkType
<1>2. Append(l.packets, p) \in Seq(PacketType) /\ Len(Append(l.packets, p)) = Len(l.packets) + 1
        /\ Len(l.packets) \in Nat /\ InputCapacity \in Nat
  BY <1>1, BoundsAssumption
<1>3. PICK q \in Seq(PacketType) : q = Append(l.packets, p)
  BY <1>2
<1>4. [l EXCEPT !.packets = q] \in LinkType
  BY <1>1 DEF LinkType
<1>5. [l EXCEPT !.packets = q].packets = q /\ [l EXCEPT !.packets = q].mapping = l.mapping
        /\ [l EXCEPT !.packets = q].sessions = l.sessions
  BY <1>1 DEF LinkType
<1>6. QED
  BY <1>2, <1>3, <1>4, <1>5 DEF IsLink, Within

LEMMA PacketTypes ==
  ASSUME LinkOK, StateOK, NEW mapping \in Nat
  PROVE  Packet(mapping) \in PacketType
BY DEF LinkOK, StateOK, Packet, PacketType

LEMMA EndedType ==
  ASSUME LinkOK, StateOK, NEW l, IsLink(l)
  PROVE  IsLink(Ended(l))
<1> DEFINE left == IF ~Active(l) \/ l.mapping = 0 THEN l
                   ELSE IF Len(l.packets) < InputCapacity
                     THEN [l EXCEPT !.packets = Append(@, Packet(l.mapping))]
                     ELSE Unmapped(l)
<1>0. Packet(l.mapping) \in PacketType
  BY PacketTypes DEF IsLink, LinkType
<1>1. IsLink(left)
  BY <1>0, UnmappedType, QueuedType
<1>2. Ended(l) = Revoked(Unrequested(left))
  BY DEF Ended
<1> HIDE DEF left
<1>3. QED
  BY <1>1, <1>2, UnrequestedType, RevokedType

LEMMA GrantedType ==
  ASSUME LinkOK, NEW l, IsLink(l)
  PROVE  IsLink(Granted(l))
<1> DEFINE k == [l EXCEPT !.mode = "ready"]
<1>1. IsLink(k) /\ revision \in Nat
  BY FieldTypes DEF LinkOK
<1>2. Granted(l) = l \/ Granted(l) = [k EXCEPT !.granted = revision]
  BY DEF Granted
<1> HIDE DEF k
<1>3. IsLink([k EXCEPT !.granted = revision])
  BY <1>1, FieldTypes
<1>4. QED
  BY <1>2, <1>3

LEMMA AvailableType ==
  ASSUME NEW l, IsLink(l), NEW a \in BOOLEAN
  PROVE  IsLink([l EXCEPT !.available = a])
BY DEF IsLink, LinkType, Within

LEMMA DequeuedType ==
  ASSUME NEW l, IsLink(l), l.packets # << >>
  PROVE  IsLink([l EXCEPT !.packets = Tail(@)])
<1>1. l.packets \in Seq(PacketType) /\ l \in LinkType
  BY DEF IsLink, LinkType
<1>2. Tail(l.packets) \in Seq(PacketType) /\ Len(Tail(l.packets)) = Len(l.packets) - 1
        /\ Len(l.packets) \in Nat /\ InputCapacity \in Nat
  BY <1>1, BoundsAssumption
<1>3. PICK q \in Seq(PacketType) : q = Tail(l.packets)
  BY <1>2
<1>4. [l EXCEPT !.packets = q] \in LinkType
  BY <1>1 DEF LinkType
<1>5. [l EXCEPT !.packets = q].packets = q /\ [l EXCEPT !.packets = q].mapping = l.mapping
        /\ [l EXCEPT !.packets = q].sessions = l.sessions
  BY <1>1 DEF LinkType
<1>6. QED
  BY <1>2, <1>3, <1>4, <1>5 DEF IsLink, Within

\* publish_snapshot announces a Boolean
LEMMA AvailableBoolean ==
  ASSUME NEW pub \in BOOLEAN, NEW sel, NEW ready \in BOOLEAN, NEW switched \in BOOLEAN
  PROVE  Available(pub, sel, ready, switched) \in BOOLEAN
BY DEF Available
-----------------------------------------------------------------------------
\* LinkOK

LEMMA InputLinkOK ==
  ASSUME LinkOK, StateOK, Input \/ SetMappingProfile
  PROVE  LinkOK'
<1>0. IsLink(link) /\ revision \in Nat \ {0, 1} /\ IsLink(Ended(link))
        /\ IsLink(Ended(Unmapped(link)))
  BY EndedType, UnmappedType DEF LinkOK
<1>1. UNCHANGED revision
  BY DEF Input, SetMappingProfile
<1>2. IsLink(link')
  <2>1. CASE BeginCapture
    BY <1>0, <2>1, FieldTypes DEF BeginCapture
  <2>2. CASE EndCapture
    BY <1>0, <2>2 DEF EndCapture
  <2>3. CASE RequestProfile
    <3>1. link.requested + 1 \in Nat
      BY <1>0 DEF IsLink, LinkType
    <3>2. QED
      BY <1>0, <2>3, <3>1, FieldTypes DEF RequestProfile
  <2>4. CASE SubmitCapture
    BY <1>0, <2>4, PacketTypes, QueuedType DEF SubmitCapture
  <2>5. CASE SubmitMapping
    <3>1. Packet(link.mapping) \in PacketType
      BY <1>0, PacketTypes DEF IsLink, LinkType
    <3>2. QED
      BY <1>0, <2>5, <3>1, QueuedType DEF SubmitMapping
  <2>6. CASE SetMappingProfile
    <3>1. CASE link' = Unmapped(link)
      BY <1>0, <3>1, UnmappedType
    <3>2. CASE link' = [link EXCEPT !.mapping = link.sessions + 1, !.sessions = @ + 1]
      <4> DEFINE k == [link EXCEPT !.sessions = @ + 1]
      <4>1. link.sessions + 1 \in Nat /\ link.sessions + 1 >= link.sessions
        BY <1>0 DEF IsLink, LinkType
      <4>2. IsLink(k)
        BY <1>0, <4>1, FieldTypes
      <4>3. k.sessions = link.sessions + 1 /\ link' = [k EXCEPT !.mapping = link.sessions + 1]
        BY <1>0, <3>2 DEF IsLink, LinkType
      <4> HIDE DEF k
      <4>4. PICK n \in Nat : n = link.sessions + 1 /\ n <= k.sessions
        BY <4>1, <4>3
      <4>5. IsLink([k EXCEPT !.mapping = n])
        BY <4>2, <4>4, FieldTypes
      <4>6. QED
        BY <4>3, <4>4, <4>5
    <3>3. QED
      BY <2>6, <3>1, <3>2 DEF SetMappingProfile
  <2>7. QED
    BY <2>1, <2>2, <2>3, <2>4, <2>5, <2>6 DEF Input
<1>3. QED
  BY <1>0, <1>1, <1>2 DEF LinkOK, IsLink

LEMMA RuntimeLinkOK ==
  ASSUME LinkOK, StateOK, Runtime
  PROVE  LinkOK'
<1>1. link' \in {link, Ended(link)} /\ revision' \in {revision, revision + 1}
  BY DEF Runtime, Change, Enqueue, Ask, Send, Drop
<1>2. IsLink(link')
  BY <1>1, EndedType DEF LinkOK
<1>3. QED
  BY <1>1, <1>2 DEF LinkOK, IsLink

\* A replacement makes a closed link of the one that it is given.
LEMMA ReplaceLinkOK ==
  ASSUME LinkOK, NEW l, IsLink(l), NEW p, NEW pub, NEW sel, NEW rem, NEW next, NEW failed,
         Replace(l, p, pub, sel, rem, next, failed)
  PROVE  LinkOK'
<1>1. link' = [Revoked(l) EXCEPT !.available = FALSE] /\ revision' = revision + 1
  BY DEF Replace
<1>2. IsLink(link')
  BY <1>1, RevokedType, AvailableType
<1>3. QED
  BY <1>1, <1>2 DEF LinkOK, IsLink

\* A status that is not ignored fails the step before it has changed anything, or is
\* reported after the commands that were there and perhaps a request to pair.
LEMMA StatusCases ==
  ASSUME Status
  PROVE  \/ /\ phase' = "failed"
            /\ UNCHANGED <<link, revision, selected, native, blocked, arm, armed, switching,
                           pairing, snapshot, commands>>
         \/ /\ \/ Reported(Head(messages), commands)
               \/ CanSend /\ Reported(Head(messages), Append(commands, NativeRequest))
            /\ pairing' \in {pairing, FALSE}
BY DEF Status, PairingFound

\* The case in which it is reported
LEMMA ReportedCases ==
  ASSUME NEW m, NEW cs, Reported(m, cs)
  PROVE  /\ native' = m.generation /\ revision' = Current(m) /\ selected' = Chosen(m)
         /\ blocked' \in {blocked, 0}
         /\ armed' = IF StillArmed(m) THEN armed ELSE NotArmed
         /\ \/ /\ ArmDue(m) /\ Fits(cs) /\ Published(m, switching)
               /\ arm' = <<m.generation, Current(m)>>
               /\ commands' = Append(cs, [kind |-> "arm", generation |-> m.generation])
            \/ /\ ArmDue(m) /\ ~Fits(cs) /\ phase' = "failed" /\ link' = AfterStatus(m)
               /\ arm' = NoArm /\ commands' = cs /\ UNCHANGED <<switching, snapshot>>
            \/ /\ ~ArmDue(m) /\ commands' = cs
               /\ arm' = IF Regenerates(m) THEN NoArm ELSE arm
               /\ \/ Published(m, switching /\ ~(profile = "media" /\ Unblocked(m)))
                  \/ Published(m, FALSE)
BY DEF Reported

LEMMA StatusLinkOK ==
  ASSUME LinkOK, StateOK, Status, Head(messages) \in StatusType
  PROVE  LinkOK'
<1> DEFINE m == Head(messages)
<1>1. IsLink(AfterStatus(m))
  BY EndedType, RevokedType DEF AfterStatus, LinkOK
<1>2. Chosen(m) \in Receivers /\ Unblocked(m) \in BOOLEAN
  BY DEF Chosen, Unblocked, StateOK, StatusType
<1>0. CASE UNCHANGED <<link, revision>>
  BY <1>0 DEF LinkOK, IsLink
<1>3. ASSUME NEW cs, Reported(m, cs)
      PROVE  link' = AfterStatus(m) \/ \E a \in BOOLEAN : link' = [AfterStatus(m) EXCEPT !.available = a]
  <2>1. \A sw \in BOOLEAN : Available(publish, Chosen(m), Unblocked(m), sw) \in BOOLEAN
    BY <1>2, AvailableBoolean DEF StateOK
  <2>2. \A sw : Published(m, sw) =>
          link' = [AfterStatus(m) EXCEPT !.available = Available(publish, Chosen(m), Unblocked(m), sw)]
    BY DEF Published
  <2>3. \/ link' = AfterStatus(m)
        \/ \E sw \in BOOLEAN : Published(m, sw)
    <3>1. switching \in BOOLEAN /\ (switching /\ ~(profile = "media" /\ Unblocked(m))) \in BOOLEAN
      BY DEF StateOK
    <3>2. QED
      BY <1>3, <3>1, ReportedCases
  <2>4. QED
    BY <2>1, <2>2, <2>3
<1>4. ASSUME NEW cs, Reported(m, cs)
      PROVE  revision' \in {revision, revision + 1}
  BY <1>4 DEF Reported, Current
<1>5. ASSUME NEW cs, Reported(m, cs)
      PROVE  LinkOK'
  <2> HIDE DEF m
  <2>1. IsLink(link')
    BY <1>1, <1>3, <1>5, AvailableType
  <2>2. QED
    BY <1>4, <1>5, <2>1 DEF LinkOK, IsLink
<1>6. QED
  BY <1>0, <1>5, StatusCases
\* The link in a step of the supervisor
LEMMA SupervisorLinkOK ==
  ASSUME LinkOK, StateOK, WorkerOK, Supervisor
  PROVE  LinkOK'
<1>0. /\ IsLink(link) /\ revision \in Nat \ {0, 1} /\ IsLink(Ended(link))
      /\ IsLink(Revoked(link)) /\ IsLink(Granted(link))
  BY EndedType, RevokedType, GrantedType DEF LinkOK
<1>1. CASE Select \/ Restart \/ SwitchWorker \/ Stalls \/ FallBack
  BY <1>0, <1>1, ReplaceLinkOK DEF Select, Restart, SwitchWorker, Stalls, FallBack
<1>2. CASE Status
  <2>1. Head(messages) \in StatusType
    BY <1>2 DEF Status, Message, WorkerOK, MessageType, StatusType
  <2>2. QED
    BY <1>2, <2>1, StatusLinkOK
<1>3. CASE SwitchInPlace
  <2>1. link' = [Revoked(link) EXCEPT !.available = FALSE] /\ revision' = revision + 1
    BY <1>3 DEF SwitchInPlace
  <2>2. IsLink(link')
    BY <1>0, <2>1, AvailableType
  <2>3. QED
    BY <1>0, <2>1, <2>2 DEF LinkOK, IsLink
<1>4. CASE Invalidate \/ Failure \/ PairingExpires
  <2>1. UNCHANGED revision
          /\ (link' = Ended(link) \/ \E a \in BOOLEAN : link' = [Ended(link) EXCEPT !.available = a])
    BY <1>4, AvailableBoolean DEF Invalidate, Failure, PairingExpires, Announced, StateOK
  <2>2. IsLink(link')
    BY <1>0, <2>1, AvailableType
  <2>3. QED
    BY <1>0, <2>1, <2>2 DEF LinkOK
<1>5. CASE Granting \/ MessagesDone
  <2>1. UNCHANGED revision
          /\ \/ link' \in {link, Granted(link)}
             \/ \E a \in BOOLEAN : link' = [Granted(link) EXCEPT !.available = a]
    <3>1. Available(publish, selected, snapshot.ready, FALSE) \in BOOLEAN
      BY AvailableBoolean DEF StateOK, SnapshotType
    <3>2. QED
      BY <1>5, <3>1 DEF Granting, MessagesDone
  <2>2. IsLink(link')
    BY <1>0, <2>1, AvailableType
  <2>3. QED
    BY <1>0, <2>1, <2>2 DEF LinkOK
<1>6. CASE SwitchExpires
  <2>1. UNCHANGED revision
          /\ (link' = link \/ \E a \in BOOLEAN : link' = [link EXCEPT !.available = a])
    <3>1. Available(publish, selected, snapshot.ready, FALSE) \in BOOLEAN
      BY AvailableBoolean DEF StateOK, SnapshotType
    <3>2. QED
      BY <1>6, <3>1 DEF SwitchExpires
  <2>2. IsLink(link')
    BY <1>0, <2>1, AvailableType
  <2>3. QED
    BY <1>0, <2>1, <2>2 DEF LinkOK
<1>7. CASE Forward \/ TooOld
  <2>1. UNCHANGED revision /\ link' = [link EXCEPT !.packets = Tail(@)] /\ link.packets # << >>
    BY <1>7 DEF Forward, TooOld
  <2>2. QED
    BY <1>0, <2>1, DequeuedType DEF LinkOK
<1>8. CASE Finish
  <2>1. UNCHANGED revision /\ link' = [Ended(link) EXCEPT !.available = FALSE]
    BY <1>8 DEF Finish
  <2>2. QED
    BY <1>0, <2>1, AvailableType DEF LinkOK
<1>9. CASE \/ RefreshTargets \/ PairTarget \/ SendMedia \/ KeepProfile \/ StatusIgnored \/ Armed
           \/ Reply \/ Exited \/ Expire \/ StepDone \/ GiveUp
  <2>1. UNCHANGED <<link, revision>>
    BY <1>9 DEF RefreshTargets, PairTarget, SendMedia, KeepProfile, StatusIgnored, Armed, Reply,
       Exited, Expire, StepDone, GiveUp, shared
  <2>2. QED
    BY <1>0, <2>1 DEF LinkOK, IsLink
<1>10. QED
  BY <1>1, <1>2, <1>3, <1>4, <1>5, <1>6, <1>7, <1>8, <1>9 DEF Supervisor

-----------------------------------------------------------------------------
\* CallsOK

LEMMA QueuedCall ==
  ASSUME CallsOK, NEW c \in CallType, Len(control) < ControlCapacity
  PROVE  Append(control, c) \in Seq(CallType) /\ Len(Append(control, c)) <= ControlCapacity
BY BoundsAssumption DEF CallsOK

LEMMA DequeuedCall ==
  ASSUME CallsOK, control # << >>
  PROVE  Tail(control) \in Seq(CallType) /\ Len(Tail(control)) <= ControlCapacity
<1>1. Tail(control) \in Seq(CallType) /\ Len(Tail(control)) = Len(control) - 1
        /\ Len(control) \in Nat /\ ControlCapacity \in Nat
  BY BoundsAssumption DEF CallsOK
<1>2. QED
  BY <1>1 DEF CallsOK

LEMMA RuntimeCallsOK ==
  ASSUME CallsOK, StateOK, LinkOK, Runtime
  PROVE  CallsOK'
<1>0. NoCall \in CallType
  BY DEF NoCall, CallType, Receivers
<1>1. CASE \E cmd \in Commands : Change(cmd)
  <2>1. Commands \subseteq CallType
    <3>1. \A n \in CallType, k \in {"select", "restart", "invalidate"} : [n EXCEPT !.kind = k] \in CallType
      BY DEF CallType
    <3>2. \A n \in CallType, t \in Receivers : [n EXCEPT !.target = t] \in CallType
      BY DEF CallType
    <3>3. \A t : [NoCall EXCEPT !.kind = "select", !.target = t]
                  = [[NoCall EXCEPT !.kind = "select"] EXCEPT !.target = t]
      OBVIOUS
    <3>4. QED
      <4>1. \A t \in Targets \cup {None} : [NoCall EXCEPT !.kind = "select", !.target = t] \in CallType
        BY <1>0, <3>1, <3>2, <3>3 DEF Receivers
      <4>2. \A k \in {"restart", "invalidate"} : [NoCall EXCEPT !.kind = k] \in CallType
        BY <1>0, <3>1
      <4>3. QED
        BY <4>1, <4>2 DEF Commands
  <2>2. QED
    BY <1>1, <2>1 DEF Change, CallsOK
<1>2. CASE Enqueue
  <2>1. calling' = NoCall
          /\ control' = IF Len(control) < ControlCapacity /\ phase # "finished"
                          THEN Append(control, calling) ELSE control
    BY <1>2 DEF Enqueue
  <2>2. QED
    BY <1>0, <2>1, QueuedCall DEF CallsOK
<1>3. CASE Ask("pair") \/ Ask("refresh")
  <2>1. \A k \in {"pair", "refresh"} : [NoCall EXCEPT !.kind = k] \in CallType
    BY DEF NoCall, CallType, Receivers
  <2>2. QED
    BY <1>3, <2>1, QueuedCall DEF Ask, CallsOK
<1>4. CASE \E c \in Calls : Send(c)
  <2>1. PICK c \in Calls : Send(c)
    BY <1>4
  <2>2. [kind |-> "send", target |-> snapshot.selected, generation |-> snapshot.generation,
         call |-> c] \in CallType
    BY BoundsAssumption DEF StateOK, SnapshotType, CallType, Receivers, Calls
  <2>3. QED
    BY <2>1, <2>2, QueuedCall DEF Send, CallsOK
<1>5. CASE Drop
  BY <1>5 DEF Drop, CallsOK
<1>6. QED
  BY <1>1, <1>2, <1>3, <1>4, <1>5 DEF Runtime

LEMMA SupervisorCallsOK ==
  ASSUME CallsOK, Supervisor
  PROVE  CallsOK'
<1>1. CASE Select \/ Restart \/ Invalidate \/ RefreshTargets \/ PairTarget \/ SendMedia
  <2>1. control # << >> /\ control' = Tail(control) /\ UNCHANGED calling
    BY <1>1 DEF Select, Restart, Invalidate, RefreshTargets, PairTarget, SendMedia, Command, Replace,
       shared
  <2>2. QED
    BY <2>1, DequeuedCall DEF CallsOK
<1>2. CASE Finish
  BY <1>2, BoundsAssumption DEF Finish, CallsOK
<1>3. CASE SwitchInPlace \/ SwitchWorker \/ KeepProfile \/ StatusIgnored \/ Status \/ Armed
           \/ Granting \/ Reply \/ Failure \/ Exited \/ MessagesDone
  BY <1>3 DEF SwitchInPlace, SwitchWorker, KeepProfile, StatusIgnored, Status, Armed, Granting,
     Reply, Failure, Exited, MessagesDone, Replace, shared, CallsOK
<1>4. CASE PairingExpires \/ SwitchExpires \/ Stalls \/ Forward \/ TooOld \/ Expire \/ StepDone
           \/ FallBack \/ GiveUp
  BY <1>4 DEF PairingExpires, SwitchExpires, Stalls, Forward, TooOld, Expire, StepDone, FallBack,
     GiveUp, Replace, shared, CallsOK
<1>5. QED
  BY <1>1, <1>2, <1>3, <1>4 DEF Supervisor
-----------------------------------------------------------------------------
\* StateOK

LEMMA SnapshotTypes ==
  ASSUME NEW s \in SnapshotType, NEW n \in Nat
  PROVE  /\ [s EXCEPT !.ready = FALSE] \in SnapshotType
         /\ [s EXCEPT !.generation = n] \in SnapshotType
         /\ [s EXCEPT !.ready = FALSE, !.generation = n] \in SnapshotType
<1>1. [s EXCEPT !.ready = FALSE] \in SnapshotType
  BY DEF SnapshotType
<1>2. \A t \in SnapshotType : [t EXCEPT !.generation = n] \in SnapshotType
  BY DEF SnapshotType
<1>3. [s EXCEPT !.ready = FALSE, !.generation = n] = [[s EXCEPT !.ready = FALSE] EXCEPT !.generation = n]
  OBVIOUS
<1>4. QED
  BY <1>1, <1>2, <1>3

LEMMA RuntimeStateOK ==
  ASSUME StateOK, Runtime
  PROVE  StateOK'
BY DEF Runtime, Drop, intent, session, worker, StateOK

\* A new process has the next number.
LEMMA ExchangeState ==
  ASSUME NEW p, NEW pub, NEW target, NEW next, NEW failed, pid \in Nat,
         Exchange(p, pub, target, next, failed)
  PROVE  pid' \in Nat /\ phase' \in {next, failed}
BY DEF Exchange

LEMMA ReplaceStateOK ==
  ASSUME StateOK, LinkOK, NEW l, NEW p \in Profiles, NEW pub \in BOOLEAN, NEW sel \in Receivers,
         NEW rem \in Receivers, NEW next \in Phases, NEW failed \in Phases, UNCHANGED pairing \/ pairing' = FALSE,
         WorkerOK, Replace(l, p, pub, sel, rem, next, failed)
  PROVE  StateOK'
<1>1. pid' \in Nat /\ phase' \in Phases
  BY ExchangeState DEF Replace, StateOK
<1>2. /\ native' = 0 /\ blocked' = 0 /\ arm' = <<0, 0>> /\ armed' = 0
      /\ profile' = p /\ publish' = pub /\ selected' = sel /\ remembered' = rem
      /\ snapshot' = [generation |-> revision + 1, ready |-> FALSE, selected |-> sel]
      /\ switching' = (child.present /\ pub) /\ UNCHANGED <<live, stopping>>
  BY DEF Replace, NoArm, NotArmed
<1>3. switching' \in BOOLEAN
  BY <1>2 DEF WorkerOK, ChildType
<1>4. snapshot' \in SnapshotType
  BY <1>2 DEF LinkOK, SnapshotType
<1>5. QED
  BY <1>1, <1>2, <1>3, <1>4 DEF StateOK

LEMMA CommandStateOK ==
  ASSUME StateOK, LinkOK, CallsOK, WorkerOK,
         Select \/ Restart \/ Invalidate \/ RefreshTargets \/ PairTarget \/ SendMedia
  PROVE  StateOK'
<1>1. CASE Select
  <2>1. Head(control).target \in Receivers
    BY <1>1 DEF Select, Command, CallsOK, CallType
  <2>2. PICK t \in Receivers : t = Head(control).target
    BY <2>1
  <2>3. /\ Replace(Ended(link), "media", t # None, t, None, "control", "failed")
        /\ pairing' = FALSE
    BY <1>1, <2>2 DEF Select
  <2>4. None \in Receivers /\ (t # None) \in BOOLEAN
    BY DEF Receivers
  <2>5. PICK pub \in BOOLEAN : pub = (t # None)
    BY <2>4
  <2>6. QED
    BY <2>3, <2>4, <2>5, ReplaceStateOK DEF Profiles, Phases
<1>2. CASE Restart
  <2>1. None \in Receivers
    BY DEF Receivers
  <2>2. QED
    BY <1>2, <2>1, ReplaceStateOK DEF Restart, Profiles, Phases
<1>3. CASE Invalidate
  <2>1. /\ UNCHANGED <<stopping, live, profile, publish, selected, remembered, native, arm, armed,
                       switching, pairing, pid>>
        /\ phase' \in {phase, "failed"} /\ blocked' = native
    BY <1>3 DEF Invalidate, intent
  <2>2. snapshot' \in SnapshotType
    BY <1>3, SnapshotTypes DEF Invalidate, StateOK, LinkOK
  <2>3. QED
    BY <2>1, <2>2 DEF StateOK, Phases
<1>4. CASE RefreshTargets \/ PairTarget
  BY <1>4 DEF RefreshTargets, PairTarget, Requests, StateOK, Phases, intent, session
<1>5. CASE SendMedia
  BY <1>5 DEF SendMedia, StateOK, Phases, intent, session, worker
<1>6. QED
  BY <1>1, <1>2, <1>3, <1>4, <1>5

LEMMA ProfileStateOK ==
  ASSUME StateOK, LinkOK, WorkerOK, SwitchInPlace \/ SwitchWorker \/ KeepProfile
  PROVE  StateOK'
<1>0. Desired \in Profiles
  BY DEF Desired, Profiles
<1>1. CASE SwitchInPlace
  <2>1. /\ UNCHANGED <<stopping, live, publish, selected, remembered, native, pairing, pid>>
        /\ phase' \in {"messages", "failed"} /\ blocked' = native /\ profile' = Desired
        /\ arm' = <<0, 0>> /\ armed' = 0 /\ switching' = TRUE
    BY <1>1 DEF SwitchInPlace, NoArm, NotArmed
  <2>2. snapshot' \in SnapshotType
    <3>1. snapshot \in SnapshotType /\ revision + 1 \in Nat
      BY DEF StateOK, LinkOK
    <3>2. QED
      BY <1>1, <3>1, SnapshotTypes DEF SwitchInPlace
  <2>3. QED
    BY <1>0, <2>1, <2>2 DEF StateOK, Phases
<1>2. CASE SwitchWorker
  <2>1. /\ publish \in BOOLEAN /\ selected \in Receivers /\ remembered \in Receivers
        /\ "messages" \in Phases /\ "failed" \in Phases
    BY DEF StateOK, Phases
  <2>2. Replace(link, Desired, publish, selected, remembered, "messages", "failed") /\ UNCHANGED pairing
    BY <1>2 DEF SwitchWorker
  <2>3. PICK d \in Profiles : d = Desired
    BY <1>0
  <2>4. QED
    BY <2>1, <2>2, <2>3, ReplaceStateOK
<1>3. CASE KeepProfile
  BY <1>3 DEF KeepProfile, StateOK, Phases, shared, intent, session, worker
<1>4. QED
  BY <1>1, <1>2, <1>3
LEMMA MessageStateOK ==
  ASSUME StateOK, LinkOK, WorkerOK,
         \/ StatusIgnored \/ Status \/ Armed \/ Granting \/ Reply \/ Failure \/ Exited
         \/ MessagesDone
  PROVE  StateOK'
<1>1. CASE Status
  <2> DEFINE m == Head(messages)
  <2>1. m \in StatusType
    BY <1>1 DEF Status, Message, WorkerOK, MessageType, StatusType
  <2>2. Chosen(m) \in Receivers /\ Shown(m) \in Receivers /\ Unblocked(m) \in BOOLEAN
        /\ Current(m) \in Nat /\ m.generation \in Nat
    BY <2>1 DEF Chosen, Shown, Unblocked, Current, StateOK, StatusType, LinkOK
  <2>3. \A sw \in BOOLEAN : Published(m, sw) =>
          /\ switching' \in BOOLEAN /\ phase' = "messages"
          /\ snapshot' \in SnapshotType
    BY <2>2 DEF Published, SnapshotType
  <2>4. \/ \E sw \in BOOLEAN : Published(m, sw)
        \/ phase' = "failed" /\ UNCHANGED <<switching, snapshot>>
    <3>1. switching \in BOOLEAN /\ (switching /\ ~(profile = "media" /\ Unblocked(m))) \in BOOLEAN
      BY DEF StateOK
    <3>2. ASSUME NEW cs, Reported(m, cs)
          PROVE  \/ \E sw \in BOOLEAN : Published(m, sw)
                 \/ phase' = "failed" /\ UNCHANGED <<switching, snapshot>>
      BY <3>1, <3>2, ReportedCases
    <3>3. QED
      BY <1>1, <3>2, StatusCases
  <2>5. /\ native' \in {native, m.generation} /\ blocked' \in {blocked, 0} /\ armed' \in {armed, 0}
        /\ arm' \in {arm, <<0, 0>>, <<m.generation, Current(m)>>}
        /\ selected' \in {selected, Chosen(m)} /\ pairing' \in {pairing, FALSE}
        /\ UNCHANGED <<stopping, live, profile, publish, remembered, pid>>
    <3>1. UNCHANGED <<stopping, live, profile, publish, remembered, pid>>
      BY <1>1 DEF Status
    <3>2. ASSUME NEW cs, Reported(m, cs)
          PROVE  /\ native' = m.generation /\ blocked' \in {blocked, 0} /\ armed' \in {armed, 0}
                 /\ arm' \in {arm, <<0, 0>>, <<m.generation, Current(m)>>}
                 /\ selected' = Chosen(m)
      BY <3>2, ReportedCases DEF NoArm, NotArmed
    <3>3. QED
      BY <1>1, <3>1, <3>2, StatusCases
  <2> HIDE DEF m
  <2>6. arm' \in Nat \X Nat
    BY <2>2, <2>5 DEF StateOK
  <2>7. phase' \in Phases /\ switching' \in BOOLEAN
        /\ snapshot' \in SnapshotType
    BY <2>3, <2>4 DEF StateOK, Phases
  <2>8. native' \in Nat /\ blocked' \in Nat /\ armed' \in Nat /\ pairing' \in BOOLEAN
          /\ selected' \in Receivers
    <3>1. PICK g \in Nat : g = m.generation
      BY <2>2
    <3>2. pairing \in BOOLEAN /\ armed \in Nat /\ blocked \in Nat
      BY DEF StateOK
    <3>3. pairing' \in BOOLEAN
      BY <2>5, <3>2, Zenon
    <3>4. armed' \in Nat /\ blocked' \in Nat
      BY <2>5, <3>2
    <3>5. native' \in Nat /\ selected' \in Receivers
      <4>1. native \in Nat /\ selected \in Receivers
        BY DEF StateOK
      <4>2. QED
        BY <2>2, <2>5, <3>1, <4>1
    <3>6. QED
      BY <3>3, <3>4, <3>5
  <2>9. QED
    BY <2>5, <2>6, <2>7, <2>8 DEF StateOK
<1>2. CASE Armed
  <2>1. /\ arm' \in {arm, <<0, 0>>} /\ armed' \in {armed, revision} /\ phase' \in {phase, "granting"}
        /\ UNCHANGED <<stopping, live, profile, publish, selected, remembered, native, blocked,
                       switching, pairing, snapshot, pid>>
    BY <1>2 DEF Armed, shared, intent, NoArm
  <2>2. QED
    BY <2>1 DEF StateOK, LinkOK, Phases
<1>3. CASE Granting
  <2>1. /\ switching' = FALSE /\ phase' = "messages"
        /\ snapshot' = [snapshot EXCEPT !.generation = revision]
        /\ UNCHANGED <<stopping, live, profile, publish, selected, remembered, native, blocked, arm,
                       armed, pairing, pid>>
    BY <1>3 DEF Granting, intent, worker
  <2>2. snapshot' \in SnapshotType
    BY <2>1, SnapshotTypes DEF StateOK, LinkOK
  <2>3. QED
    BY <2>1, <2>2 DEF StateOK, Phases
<1>4. CASE StatusIgnored \/ Reply \/ Failure \/ Exited \/ MessagesDone
  BY <1>4 DEF StatusIgnored, Reply, Failure, Exited, MessagesDone, shared, intent, session, worker,
     StateOK, Phases
<1>5. QED
  BY <1>1, <1>2, <1>3, <1>4

LEMMA RestStateOK ==
  ASSUME StateOK, LinkOK, WorkerOK,
         \/ PairingExpires \/ SwitchExpires \/ Stalls \/ Forward \/ TooOld \/ Expire \/ StepDone
         \/ FallBack \/ GiveUp \/ Finish
  PROVE  StateOK'
<1>0. /\ publish \in BOOLEAN /\ selected \in Receivers /\ remembered \in Receivers
      /\ NextStep \in Phases /\ "failed" \in Phases /\ "finishing" \in Phases /\ "media" \in Profiles
  BY DEF StateOK, Phases, NextStep, Profiles
<1>1. CASE Stalls
  BY <1>0, <1>1, ReplaceStateOK DEF Stalls
<1>2. CASE FallBack
  BY <1>0, <1>2, ReplaceStateOK DEF FallBack
<1>3. CASE SwitchExpires \/ Finish
  <2>1. /\ switching' \in {switching, FALSE} /\ phase' \in {phase, "failed", "finished"}
        /\ UNCHANGED <<stopping, live, profile, publish, selected, remembered, native, blocked, arm,
                       armed, pairing, pid>>
    BY <1>3 DEF SwitchExpires, Finish, intent, worker
  <2>2. snapshot' \in SnapshotType
    BY <1>3, SnapshotTypes DEF SwitchExpires, Finish, StateOK, LinkOK
  <2>3. QED
    BY <2>1, <2>2 DEF StateOK, Phases
<1>4. CASE PairingExpires \/ Forward \/ TooOld \/ Expire \/ StepDone \/ GiveUp
  BY <1>0, <1>4 DEF PairingExpires, Forward, TooOld, Expire, StepDone, GiveUp, StateOK, Phases,
     shared, intent, session, worker
<1>5. QED
  BY <1>1, <1>2, <1>3, <1>4
-----------------------------------------------------------------------------
\* ReceiptsOK

LEMMA RetiredType ==
  ASSUME ReceiptsOK, NEW result \in Answers
  PROVE  Retired(result) \in [Calls -> Answers]
BY DEF Retired, ReceiptsOK

LEMMA NoReceipts ==
  /\ IsFiniteSet(DOMAIN NoPending) /\ Cardinality(DOMAIN NoPending) <= PendingLimit
  /\ DOMAIN NoPending = {}
BY FS_EmptySet, BoundsAssumption DEF NoPending

LEMMA WithoutReceipts ==
  ASSUME ReceiptsOK, NEW x
  PROVE  /\ IsFiniteSet(DOMAIN Without(pending, x))
         /\ Cardinality(DOMAIN Without(pending, x)) <= PendingLimit
         /\ \A id \in DOMAIN Without(pending, x) : id \in DOMAIN pending /\ Without(pending, x)[id] = pending[id]
<1>1. DOMAIN Without(pending, x) = DOMAIN pending \ {x}
  BY DEF Without
<1>2. IsFiniteSet(DOMAIN pending \ {x}) /\ Cardinality(DOMAIN pending \ {x}) <= Cardinality(DOMAIN pending)
  BY FS_Subset DEF ReceiptsOK
<1>3. Cardinality(DOMAIN pending \ {x}) \in Nat /\ Cardinality(DOMAIN pending) \in Nat /\ PendingLimit \in Nat
  BY <1>2, FS_CardinalityType, BoundsAssumption DEF ReceiptsOK
<1>4. QED
  BY <1>1, <1>2, <1>3 DEF ReceiptsOK, Without

LEMMA SendReceiptsOK ==
  ASSUME ReceiptsOK, CallsOK, SendMedia
  PROVE  ReceiptsOK'
<1> DEFINE cmd == Head(control)
<1>1. cmd.call \in Calls
  BY DEF SendMedia, Command, CallsOK, CallType
<1>2. executed' = executed /\ next_id' \in Nat
  BY DEF SendMedia, NextId, ReceiptsOK
<1>3. CASE UNCHANGED pending
  <2>1. answers' \in [Calls -> Answers]
    BY <1>1 DEF SendMedia, ReceiptsOK, Answers
  <2>2. QED
    BY <1>2, <1>3, <2>1 DEF ReceiptsOK
<1>4. CASE /\ ~Stale(cmd) /\ answers' = answers
           /\ pending' = [id \in DOMAIN pending \cup {NextId} |->
                            IF id = NextId THEN [call |-> cmd.call, generation |-> revision]
                                           ELSE pending[id]]
  <2>1. DOMAIN pending' = DOMAIN pending \cup {NextId}
          /\ \A id \in DOMAIN pending' :
               pending'[id] = [call |-> cmd.call, generation |-> revision]
                 \/ (id \in DOMAIN pending /\ pending'[id] = pending[id])
    BY <1>4
  <2>2. Cardinality(DOMAIN pending) < PendingLimit
    <3>1. ~(Cardinality(DOMAIN pending) >= PendingLimit)
      BY <1>4 DEF Stale
    <3>2. QED
      BY <3>1, FS_CardinalityType, BoundsAssumption DEF ReceiptsOK
  <2>3. /\ IsFiniteSet(DOMAIN pending \cup {NextId})
        /\ Cardinality(DOMAIN pending \cup {NextId}) <= Cardinality(DOMAIN pending) + 1
    BY FS_AddElement, FS_CardinalityType DEF ReceiptsOK
  <2>4. Cardinality(DOMAIN pending \cup {NextId}) <= PendingLimit
    BY <2>2, <2>3, FS_CardinalityType, BoundsAssumption DEF ReceiptsOK
  <2>5. \A id \in DOMAIN pending' : pending'[id].call \in Calls
    BY <1>1, <2>1 DEF ReceiptsOK
  <2> HIDE DEF cmd
  <2>6. QED
    BY <1>2, <1>4, <2>1, <2>3, <2>4, <2>5 DEF ReceiptsOK
<1>5. QED
  BY <1>3, <1>4 DEF SendMedia

LEMMA RuntimeReceiptsOK ==
  ASSUME ReceiptsOK, Runtime
  PROVE  ReceiptsOK'
<1>1. UNCHANGED <<pending, next_id, executed>>
  BY DEF Runtime
<1>2. answers' \in [Calls -> Answers]
  BY DEF Runtime, Send, ReceiptsOK, Answers
<1>3. QED
  BY <1>1, <1>2 DEF ReceiptsOK

LEMMA SupervisorReceiptsOK ==
  ASSUME ReceiptsOK, CallsOK, Supervisor
  PROVE  ReceiptsOK'
<1>0. "stale" \in Answers /\ "ok" \in Answers /\ "timeout" \in Answers
  BY DEF Answers
<1>1. CASE SendMedia
  BY <1>1, SendReceiptsOK
<1>2. CASE \/ Select \/ Restart \/ SwitchInPlace \/ SwitchWorker \/ Stalls \/ FallBack \/ Finish
  <2>1. pending' = NoPending /\ UNCHANGED <<next_id, executed>>
    BY <1>2 DEF Select, Restart, SwitchInPlace, SwitchWorker, Stalls, FallBack, Finish, Replace
  <2>2. answers' = Retired("stale")
          \/ answers' = [c \in Calls |-> IF c \in Queued THEN "stale" ELSE Retired("stale")[c]]
    BY <1>2 DEF Select, Restart, SwitchInPlace, SwitchWorker, Stalls, FallBack, Finish, Replace
  <2>3. answers' \in [Calls -> Answers]
    BY <1>0, <2>2, RetiredType
  <2>4. QED
    BY <2>1, <2>3, NoReceipts DEF ReceiptsOK
<1>3. CASE Reply \/ Expire
  <2>1. /\ \/ UNCHANGED <<pending, answers>>
           \/ \E id \in DOMAIN pending : \E result \in Answers :
                /\ pending' = Without(pending, id)
                /\ answers' = [answers EXCEPT ![pending[id].call] = result]
        /\ UNCHANGED <<next_id, executed>>
    BY <1>0, <1>3 DEF Reply, Expire
  <2>2. CASE UNCHANGED <<pending, answers>>
    BY <2>1, <2>2 DEF ReceiptsOK
  <2>3. ASSUME NEW id \in DOMAIN pending, NEW result \in Answers,
               pending' = Without(pending, id), answers' = [answers EXCEPT ![pending[id].call] = result]
        PROVE  ReceiptsOK'
    <3>1. answers' \in [Calls -> Answers]
      BY <2>3 DEF ReceiptsOK
    <3>2. QED
      BY <2>1, <2>3, <3>1, WithoutReceipts DEF ReceiptsOK
  <2>4. QED
    BY <2>1, <2>2, <2>3
<1>4. CASE \/ Invalidate \/ RefreshTargets \/ PairTarget \/ KeepProfile \/ StatusIgnored \/ Status
           \/ Armed \/ Granting \/ Failure \/ Exited \/ MessagesDone
  BY <1>4 DEF Invalidate, RefreshTargets, PairTarget, KeepProfile, StatusIgnored, Status, Armed,
     Granting, Failure, Exited, MessagesDone, receipts, ReceiptsOK
<1>5. CASE \/ PairingExpires \/ SwitchExpires \/ Forward \/ TooOld \/ StepDone \/ GiveUp
  BY <1>5 DEF PairingExpires, SwitchExpires, Forward, TooOld, StepDone, GiveUp, receipts, ReceiptsOK
<1>6. QED
  BY <1>1, <1>2, <1>3, <1>4, <1>5 DEF Supervisor
-----------------------------------------------------------------------------
\* WorkerOK

\* One field at a time
LEMMA ChildTypes ==
  ASSUME NEW c \in ChildType
  PROVE  /\ \A p \in Profiles : [c EXCEPT !.profile = p] \in ChildType
         /\ \A n \in Nat : [c EXCEPT !.generation = n] \in ChildType
         /\ \A n \in Nat : [c EXCEPT !.shown = n] \in ChildType
         /\ \A b \in BOOLEAN : [c EXCEPT !.ready = b] \in ChildType
         /\ \A b \in BOOLEAN : [c EXCEPT !.admitted = b] \in ChildType
         /\ \A b \in BOOLEAN : [c EXCEPT !.mapping = b] \in ChildType
         /\ \A b \in BOOLEAN : [c EXCEPT !.stalled = b] \in ChildType
         /\ \A b \in BOOLEAN : [c EXCEPT !.alive = b] \in ChildType
         /\ \A s \in SUBSET SendingType : [c EXCEPT !.sending = s] \in ChildType
         /\ \A r \in StatusType : [c EXCEPT !.reported = r] \in ChildType
<1>1. \A p \in Profiles : [c EXCEPT !.profile = p] \in ChildType
  BY DEF ChildType
<1>2. \A n \in Nat : [c EXCEPT !.generation = n] \in ChildType
  BY DEF ChildType
<1>3. \A n \in Nat : [c EXCEPT !.shown = n] \in ChildType
  BY DEF ChildType
<1>4. \A b \in BOOLEAN : [c EXCEPT !.ready = b] \in ChildType
  BY DEF ChildType
<1>5. \A b \in BOOLEAN : [c EXCEPT !.admitted = b] \in ChildType
  BY DEF ChildType
<1>6. \A b \in BOOLEAN : [c EXCEPT !.mapping = b] \in ChildType
  BY DEF ChildType
<1>7. \A b \in BOOLEAN : [c EXCEPT !.stalled = b] \in ChildType
  BY DEF ChildType
<1>8. \A b \in BOOLEAN : [c EXCEPT !.alive = b] \in ChildType
  BY DEF ChildType
<1>9. \A s \in SUBSET SendingType : [c EXCEPT !.sending = s] \in ChildType
  BY DEF ChildType
<1>10. \A r \in StatusType : [c EXCEPT !.reported = r] \in ChildType
  BY DEF ChildType
<1>11. QED
  BY <1>1, <1>2, <1>3, <1>4, <1>5, <1>6, <1>7, <1>8, <1>9, <1>10

LEMMA RevokeType ==
  ASSUME NEW c \in ChildType
  PROVE  Revoke(c) \in ChildType
<1> DEFINE d == [c EXCEPT !.generation = c.generation + 1]
<1>1. c.generation + 1 \in Nat
  BY DEF ChildType
<1>2. d \in ChildType
  BY <1>1, ChildTypes
<1>3. Revoke(c) = [d EXCEPT !.admitted = FALSE]
  BY DEF Revoke
<1> HIDE DEF d
<1>4. QED
  BY <1>2, <1>3, ChildTypes

LEMMA SetProfileType ==
  ASSUME NEW c \in ChildType, NEW p \in Profiles
  PROVE  [Revoke(c) EXCEPT !.profile = p, !.ready = FALSE, !.mapping = FALSE,
                           !.shown = c.generation + 1] \in ChildType
<1>1. PICK d \in ChildType : d = Revoke(c)
  BY RevokeType
<1>2. PICK n \in Nat : n = c.generation + 1
  BY DEF ChildType
<1>3. [d EXCEPT !.profile = p] \in ChildType
  BY ChildTypes
<1>4. [[d EXCEPT !.profile = p] EXCEPT !.ready = FALSE] \in ChildType
  BY <1>3, ChildTypes
<1>5. [[[d EXCEPT !.profile = p] EXCEPT !.ready = FALSE] EXCEPT !.mapping = FALSE] \in ChildType
  BY <1>4, ChildTypes
<1>6. [[[[d EXCEPT !.profile = p] EXCEPT !.ready = FALSE] EXCEPT !.mapping = FALSE]
         EXCEPT !.shown = n] \in ChildType
  BY <1>5, ChildTypes
<1>7. QED
  BY <1>1, <1>2, <1>6

LEMMA StatusOfType ==
  ASSUME NEW c \in ChildType
  PROVE  StatusOf(c) \in StatusType
BY DEF StatusOf, ChildType, StatusType

\* What an iteration of the worker leaves
LEMMA IteratedType ==
  ASSUME WorkerOK, NEW c \in ChildType, NEW out \in Seq(MessageType), Iterated(c, out)
  PROVE  child' \in ChildType /\ messages' \in Seq(MessageType)
<1>1. StatusOf(c) \in StatusType /\ StatusType \subseteq MessageType
  BY StatusOfType DEF MessageType
<1>2. child' \in ChildType
  BY <1>1, ChildTypes DEF Iterated
<1>3. PICK status \in Seq(MessageType) :
        status = IF c.reported = StatusOf(c) THEN << >> ELSE <<StatusOf(c)>>
  <2>1. << >> \in Seq(MessageType) /\ <<StatusOf(c)>> \in Seq(MessageType)
    BY <1>1
  <2>2. QED
    BY <2>1, Zenon
<1>4. messages' = messages \o out \o status
  BY <1>3 DEF Iterated
<1>5. messages \in Seq(MessageType)
  BY DEF WorkerOK
<1>6. messages \o out \in Seq(MessageType)
  BY <1>5, ConcatProperties
<1>7. (messages \o out) \o status \in Seq(MessageType)
  BY <1>6, ConcatProperties
<1>8. QED
  BY <1>2, <1>4, <1>7

LEMMA FittingCommand ==
  ASSUME NEW cs \in Seq(CommandType), NEW c \in CommandType, Fits(cs)
  PROVE  Append(cs, c) \in Seq(CommandType) /\ Len(Append(cs, c)) <= WorkerCapacity
BY BoundsAssumption DEF Fits

LEMMA QueuedCommand ==
  ASSUME WorkerOK, NEW c \in CommandType, CanSend
  PROVE  Append(commands, c) \in Seq(CommandType) /\ Len(Append(commands, c)) <= WorkerCapacity
BY FittingCommand DEF WorkerOK, CanSend

LEMMA NativeRequestType == NativeRequest \in CommandType /\ NativeRequest.kind = "request"
BY DEF NativeRequest, CommandType

\* Refresh and Pair append a request, or nothing.
LEMMA RequestedCommand ==
  ASSUME RefreshTargets \/ PairTarget
  PROVE  /\ \/ UNCHANGED commands
            \/ CanSend /\ commands' = Append(commands, NativeRequest)
         /\ UNCHANGED <<link, revision, pid, native, child, messages, receipts, executed>>
BY DEF RefreshTargets, PairTarget, Requests, session

LEMMA DequeuedCommand ==
  ASSUME WorkerOK, commands # << >>
  PROVE  Tail(commands) \in Seq(CommandType) /\ Len(Tail(commands)) <= WorkerCapacity
           /\ Head(commands) \in CommandType
<1>1. Tail(commands) \in Seq(CommandType) /\ Len(Tail(commands)) = Len(commands) - 1
        /\ Len(commands) \in Nat /\ WorkerCapacity \in Nat /\ Head(commands) \in CommandType
  BY BoundsAssumption DEF WorkerOK
<1>2. QED
  BY <1>1 DEF WorkerOK
LEMMA FreshType ==
  ASSUME NEW p \in Profiles, NEW pub \in BOOLEAN, NEW target \in Receivers
  PROVE  /\ Fresh(p, pub, target) \in ChildType /\ NoChild \in ChildType
         /\ Fresh(p, pub, target).profile = p
         /\ Fresh(p, pub, target).generation = 1 /\ Fresh(p, pub, target).shown = 1
         /\ Fresh(p, pub, target).sending = {} /\ Fresh(p, pub, target).reported = NoStatus
<1> DEFINE Unused(c) == c \in ChildType /\ c.sending = {} /\ c.reported = NoStatus
           c1 == [NoChild EXCEPT !.present = TRUE]
           c2 == [c1 EXCEPT !.alive = TRUE]
           c3 == [c2 EXCEPT !.profile = p]
           c4 == [c3 EXCEPT !.publish = pub]
           c5 == [c4 EXCEPT !.target = target]
           c6 == [c5 EXCEPT !.generation = 1]
<1>1. Unused(NoChild)
  BY DEF NoChild, ChildType, Profiles, Receivers
<1>2. Unused(c1)
  BY <1>1 DEF ChildType
<1>3. Unused(c2)
  <2> HIDE DEF c1
  <2>1. QED
    BY <1>2 DEF ChildType
<1>4. Unused(c3) /\ c3.profile = p
  <2> HIDE DEF c2
  <2>1. QED
    BY <1>3 DEF ChildType
<1>5. Unused(c4) /\ c4.profile = p
  <2> HIDE DEF c3
  <2>1. QED
    BY <1>4 DEF ChildType
<1>6. Unused(c5) /\ c5.profile = p
  <2> HIDE DEF c4
  <2>1. QED
    BY <1>5 DEF ChildType
<1>7. Unused(c6) /\ c6.profile = p /\ c6.generation = 1
  <2> HIDE DEF c5
  <2>1. QED
    BY <1>6 DEF ChildType
<1>8. Fresh(p, pub, target) = [c6 EXCEPT !.shown = 1]
  BY DEF Fresh
<1> HIDE DEF c6
<1>9. QED
  BY <1>1, <1>7, <1>8 DEF ChildType

LEMMA NoCommands ==
  /\ << >> \in Seq(CommandType) /\ Len(<< >>) <= WorkerCapacity
  /\ << >> \in Seq(MessageType)
BY BoundsAssumption

LEMMA ExchangeWorkerOK ==
  ASSUME WorkerOK, NEW p \in Profiles, NEW pub \in BOOLEAN, NEW target \in Receivers,
         NEW next, NEW failed, Exchange(p, pub, target, next, failed)
  PROVE  WorkerOK'
<1>1. \/ child' \in {Fresh(p, pub, target), NoChild} /\ commands' = << >> /\ messages' = << >>
      \/ UNCHANGED <<child, commands, messages>>
  BY DEF Exchange
<1>2. Fresh(p, pub, target) \in ChildType /\ NoChild \in ChildType
  BY FreshType
<1>3. QED
  BY <1>1, <1>2, NoCommands DEF WorkerOK

LEMMA ReplaceWorkerOK ==
  ASSUME WorkerOK, NEW l, NEW p \in Profiles, NEW pub \in BOOLEAN, NEW sel \in Receivers,
         NEW rem \in Receivers, NEW next, NEW failed, Replace(l, p, pub, sel, rem, next, failed)
  PROVE  WorkerOK'
<1>1. PICK target \in Receivers : target = IF sel # None THEN sel ELSE rem
  BY DEF Receivers
<1>2. Exchange(p, pub, target, next, failed)
  BY <1>1 DEF Replace
<1>3. QED
  BY <1>2, ExchangeWorkerOK

LEMMA SupervisorWorkerOK ==
  ASSUME WorkerOK, StateOK, LinkOK, CallsOK, ReceiptsOK, Supervisor
  PROVE  WorkerOK'
<1>0. /\ publish \in BOOLEAN /\ selected \in Receivers /\ remembered \in Receivers
      /\ "media" \in Profiles /\ Desired \in Profiles /\ None \in Receivers
  BY DEF StateOK, Profiles, Receivers, Desired
<1>1. CASE Select
  <2>1. Head(control).target \in Receivers
    BY <1>1 DEF Select, Command, CallsOK, CallType
  <2>2. PICK t \in Receivers, pub \in BOOLEAN : t = Head(control).target /\ pub = (t # None)
    BY <2>1
  <2>3. Replace(Ended(link), "media", pub, t, None, "control", "failed")
    BY <1>1, <2>2 DEF Select
  <2>4. QED
    BY <1>0, <2>3, ReplaceWorkerOK
<1>2. CASE Restart
  <2>1. Replace(Ended(link), "media", TRUE, None, None, "control", "failed")
    BY <1>2 DEF Restart
  <2>2. QED
    BY <1>0, <2>1, ReplaceWorkerOK
<1>3. CASE SwitchWorker \/ Stalls \/ FallBack
  <2>1. \E l, next, failed : \E p \in Profiles : Replace(l, p, publish, selected, remembered, next, failed)
    BY <1>0, <1>3 DEF SwitchWorker, Stalls, FallBack
  <2>2. QED
    BY <1>0, <2>1, ReplaceWorkerOK
<1>4. CASE Invalidate
  <2>1. UNCHANGED <<child, messages>>
          /\ \/ CanSend /\ commands' = Append(commands, [kind |-> "invalidate"])
             \/ UNCHANGED commands
    BY <1>4 DEF Invalidate
  <2>2. [kind |-> "invalidate"] \in CommandType
    BY DEF CommandType
  <2>3. QED
    BY <2>1, <2>2, QueuedCommand DEF WorkerOK
<1>5. CASE SendMedia
  <2>1. UNCHANGED <<child, messages>>
          /\ \/ CanSend /\ commands' = Append(commands, [kind |-> "media", id |-> NextId,
                                               call |-> Head(control).call, generation |-> native])
             \/ UNCHANGED commands
    BY <1>5 DEF SendMedia
  <2>2. Head(control).call \in Calls /\ NextId \in Nat /\ native \in Nat
    BY <1>5 DEF SendMedia, Command, CallsOK, CallType, NextId, ReceiptsOK, StateOK
  <2>3. [kind |-> "media", id |-> NextId, call |-> Head(control).call, generation |-> native]
          \in CommandType
    BY <2>2 DEF CommandType, MediaType
  <2>4. QED
    BY <2>1, <2>3, QueuedCommand DEF WorkerOK
<1>6. CASE SwitchInPlace
  <2>1. UNCHANGED <<child, messages>>
          /\ \/ CanSend /\ commands' = Append(commands, [kind |-> "set_profile", profile |-> Desired])
             \/ UNCHANGED commands
    BY <1>6 DEF SwitchInPlace
  <2>2. [kind |-> "set_profile", profile |-> Desired] \in CommandType
    BY <1>0 DEF CommandType
  <2>3. QED
    BY <2>1, <2>2, QueuedCommand DEF WorkerOK
<1>7. CASE Status
  <2>1. messages' = Tail(messages) /\ messages # << >> /\ UNCHANGED child
    BY <1>7 DEF Status, Message
  <2>2. Head(messages) \in StatusType
    BY <1>7 DEF Status, Message, WorkerOK, MessageType, StatusType
  <2>3. [kind |-> "arm", generation |-> Head(messages).generation] \in CommandType
    BY <2>2 DEF CommandType, StatusType
  <2>4. Tail(messages) \in Seq(MessageType)
    BY <2>1 DEF WorkerOK
  <2>5. ASSUME NEW cs \in Seq(CommandType), Len(cs) <= WorkerCapacity, Reported(Head(messages), cs)
        PROVE  commands' \in Seq(CommandType) /\ Len(commands') <= WorkerCapacity
    BY <2>3, <2>5, FittingCommand, ReportedCases
  <2>6. CanSend => /\ Append(commands, NativeRequest) \in Seq(CommandType)
                   /\ Len(Append(commands, NativeRequest)) <= WorkerCapacity
    BY QueuedCommand, NativeRequestType
  <2>7. commands' \in Seq(CommandType) /\ Len(commands') <= WorkerCapacity
    BY <1>7, <2>5, <2>6, StatusCases DEF WorkerOK
  <2>8. QED
    BY <2>1, <2>4, <2>7 DEF WorkerOK
<1>8. CASE StatusIgnored \/ Armed \/ Reply \/ Failure
  <2>1. messages' = Tail(messages) /\ messages # << >> /\ UNCHANGED <<child, commands>>
    BY <1>8 DEF StatusIgnored, Armed, Reply, Failure, Message
  <2>2. QED
    BY <2>1 DEF WorkerOK
<1>9. CASE Forward
  <2>1. UNCHANGED <<child, messages>> /\ link.packets # << >>
          /\ \/ CanSend /\ commands' = Append(commands, [kind |-> "input", generation |-> native,
                                               session |-> Head(link.packets).session])
             \/ UNCHANGED commands
    BY <1>9 DEF Forward
  <2>2. link.packets \in Seq(PacketType)
    BY DEF LinkOK, IsLink, LinkType
  <2>3. Head(link.packets) \in PacketType
    BY <2>1, <2>2
  <2>4. [kind |-> "input", generation |-> native, session |-> Head(link.packets).session]
          \in CommandType
    BY <2>3 DEF PacketType, CommandType, StateOK
  <2>5. QED
    BY <2>1, <2>4, QueuedCommand DEF WorkerOK
<1>10. CASE Finish
  <2>1. child' = NoChild /\ commands' = << >> /\ messages' = << >>
    BY <1>10 DEF Finish
  <2>2. QED
    BY <1>0, <2>1, FreshType, NoCommands DEF WorkerOK
<1>11. CASE \/ KeepProfile \/ Granting \/ Exited \/ MessagesDone \/ PairingExpires
            \/ SwitchExpires \/ TooOld \/ Expire \/ StepDone \/ GiveUp
  <2>1. UNCHANGED <<child, commands, messages>>
    BY <1>11 DEF KeepProfile, Granting, Exited, MessagesDone, PairingExpires,
       SwitchExpires, TooOld, Expire, StepDone, GiveUp, worker
  <2>2. QED
    BY <2>1 DEF WorkerOK
<1>12. CASE RefreshTargets \/ PairTarget
  BY <1>12, RequestedCommand, NativeRequestType, QueuedCommand DEF WorkerOK
<1>13. QED
  BY <1>1, <1>2, <1>3, <1>4, <1>5, <1>6, <1>7, <1>8, <1>9, <1>10, <1>11, <1>12 DEF Supervisor
LEMMA WorkerWorkerOK ==
  ASSUME WorkerOK, Worker
  PROVE  WorkerOK'
<1>0. child \in ChildType /\ commands \in Seq(CommandType) /\ messages \in Seq(MessageType)
  BY DEF WorkerOK
<1>1. ASSUME NEW kind, Received(kind)
      PROVE  /\ commands' \in Seq(CommandType) /\ Len(commands') <= WorkerCapacity
             /\ Head(commands) \in CommandType /\ Head(commands).kind = kind
  BY <1>1, DequeuedCommand DEF Received
<1>2. ASSUME NEW c \in ChildType, NEW out \in Seq(MessageType), Iterated(c, out)
      PROVE  child' \in ChildType /\ messages' \in Seq(MessageType)
  BY <1>2, IteratedType
<1>3. << >> \in Seq(MessageType)
  OBVIOUS
<1>4. CASE SetProfile
  <2>1. commands' \in Seq(CommandType) /\ Len(commands') <= WorkerCapacity
          /\ Head(commands) \in CommandType /\ Head(commands).kind = "set_profile"
    BY <1>1, <1>4 DEF SetProfile
  <2>2. PICK p \in Profiles : p = Head(commands).profile
    BY <2>1 DEF CommandType, MediaType
  <2>3. PICK c \in ChildType :
          c = [Revoke(child) EXCEPT !.profile = p, !.ready = FALSE, !.mapping = FALSE,
                                    !.shown = child.generation + 1]
    BY <1>0, SetProfileType
  <2>4. Iterated(c, << >>)
    BY <1>4, <2>2, <2>3 DEF SetProfile
  <2>5. QED
    BY <1>2, <1>3, <2>1, <2>4 DEF WorkerOK
<1>5. CASE InvalidateCommands
  <2>1. commands' \in Seq(CommandType) /\ Len(commands') <= WorkerCapacity
    BY <1>1, <1>5 DEF InvalidateCommands
  <2>2. [Revoke(child) EXCEPT !.mapping = FALSE] \in ChildType
    BY <1>0, RevokeType, ChildTypes
  <2>3. QED
    BY <1>2, <1>3, <1>5, <2>1, <2>2 DEF InvalidateCommands, WorkerOK
<1>6. CASE Arm
  <2>1. commands' \in Seq(CommandType) /\ Len(commands') <= WorkerCapacity
          /\ Head(commands) \in CommandType /\ Head(commands).kind = "arm"
    BY <1>1, <1>6 DEF Arm
  <2>2. PICK g \in Nat : g = Head(commands).generation
    BY <2>1 DEF CommandType, MediaType
  <2>3. PICK accepted \in BOOLEAN : accepted = (g = child.generation /\ child.admitted)
    OBVIOUS
  <2>4. PICK mapping \in BOOLEAN : mapping = (child.mapping \/ accepted)
    OBVIOUS
  <2>5. Iterated([child EXCEPT !.mapping = mapping],
                 <<[kind |-> "armed", generation |-> g, accepted |-> accepted]>>)
    BY <1>0, <1>6, <2>2, <2>3, <2>4 DEF Arm, ChildType
  <2>6. [child EXCEPT !.mapping = mapping] \in ChildType
    BY <1>0, ChildTypes
  <2>7. [kind |-> "armed", generation |-> g, accepted |-> accepted] \in MessageType
    BY DEF MessageType
  <2>8. <<[kind |-> "armed", generation |-> g, accepted |-> accepted]>> \in Seq(MessageType)
    BY <2>7
  <2>9. QED
    BY <1>2, <2>1, <2>5, <2>6, <2>8 DEF WorkerOK
<1>7. CASE HandleRequest \/ HandleInput
  <2>1. commands' \in Seq(CommandType) /\ Len(commands') <= WorkerCapacity
    BY <1>1, <1>7 DEF HandleRequest, HandleInput
  <2>2. QED
    BY <1>0, <1>2, <1>3, <1>7, <2>1 DEF HandleRequest, HandleInput, WorkerOK
<1>8. CASE OldInput
  <2>1. commands' \in Seq(CommandType) /\ Len(commands') <= WorkerCapacity
    BY <1>1, <1>8 DEF OldInput
  <2>2. PICK c \in ChildType : c = [child EXCEPT !.admitted = FALSE]
    BY <1>0, ChildTypes
  <2>3. /\ child' = [c EXCEPT !.reported = StatusOf(c)]
        /\ messages' = messages \o (IF c.reported = StatusOf(c) THEN << >> ELSE <<StatusOf(c)>>)
                                 \o <<[kind |-> "failure"]>>
    BY <1>8, <2>2 DEF OldInput
  <2>4. StatusOf(c) \in StatusType /\ StatusType \subseteq MessageType
          /\ [kind |-> "failure"] \in MessageType
    BY StatusOfType DEF MessageType
  <2>5. child' \in ChildType
    BY <2>3, <2>4, ChildTypes
  <2>6. PICK status \in Seq(MessageType) :
          status = IF c.reported = StatusOf(c) THEN << >> ELSE <<StatusOf(c)>>
    <3>1. << >> \in Seq(MessageType) /\ <<StatusOf(c)>> \in Seq(MessageType)
      BY <2>4
    <3>2. QED
      BY <3>1, Zenon
  <2>7. PICK failure \in Seq(MessageType) : failure = <<[kind |-> "failure"]>>
    <3>1. PICK f \in MessageType : f = [kind |-> "failure"]
      BY <2>4
    <3>2. <<f>> \in Seq(MessageType)
      OBVIOUS
    <3>3. QED
      BY <3>1, <3>2
  <2>8. messages' = (messages \o status) \o failure
    BY <2>3, <2>6, <2>7
  <2>9. messages \o status \in Seq(MessageType)
    BY <1>0, ConcatProperties
  <2>10. (messages \o status) \o failure \in Seq(MessageType)
    BY <2>9, ConcatProperties
  <2>11. QED
    BY <2>1, <2>5, <2>8, <2>10 DEF WorkerOK
<1>9. CASE Media
  <2>1. commands' \in Seq(CommandType) /\ Len(commands') <= WorkerCapacity
          /\ Head(commands) \in CommandType /\ Head(commands).kind = "media"
    BY <1>1, <1>9 DEF Media
  <2>2. PICK cmd \in MediaType : cmd = Head(commands)
    BY <2>1 DEF CommandType, MediaType
  <2>3. PICK s \in SendingType : s = [id |-> cmd.id, call |-> cmd.call, generation |-> cmd.generation]
    BY <2>2 DEF MediaType, SendingType
  <2>4. child.sending \cup {s} \in SUBSET SendingType
    BY <1>0 DEF ChildType
  <2>5. [child EXCEPT !.sending = child.sending \cup {s}] \in ChildType
    BY <1>0, <2>4, ChildTypes
  <2>6. [kind |-> "reply", id |-> cmd.id, ok |-> FALSE] \in MessageType
    BY <2>2 DEF MediaType, MessageType
  <2>7. <<[kind |-> "reply", id |-> cmd.id, ok |-> FALSE]>> \in Seq(MessageType)
    BY <2>6
  <2>8. \/ Iterated([child EXCEPT !.sending = child.sending \cup {s}], << >>)
        \/ Iterated(child, <<[kind |-> "reply", id |-> cmd.id, ok |-> FALSE]>>)
    BY <1>9, <2>2, <2>3 DEF Media
  <2>9. QED
    BY <1>0, <1>2, <1>3, <2>1, <2>5, <2>7, <2>8 DEF WorkerOK
<1>10. CASE Sent
  <2>1. PICK s \in child.sending, ok \in BOOLEAN :
          /\ Iterated([child EXCEPT !.sending = child.sending \ {s}],
                      <<[kind |-> "reply", id |-> s.id, ok |-> ok]>>)
          /\ UNCHANGED commands
    BY <1>10 DEF Sent
  <2>2. child.sending \ {s} \in SUBSET SendingType /\ s \in SendingType
    BY <1>0 DEF ChildType
  <2>3. [child EXCEPT !.sending = child.sending \ {s}] \in ChildType
    BY <1>0, <2>2, ChildTypes
  <2>5. [kind |-> "reply", id |-> s.id, ok |-> ok] \in MessageType
    BY <2>2 DEF SendingType, MessageType
  <2>6. <<[kind |-> "reply", id |-> s.id, ok |-> ok]>> \in Seq(MessageType)
    BY <2>5
  <2>7. QED
    BY <1>2, <2>1, <2>3, <2>6 DEF WorkerOK
<1>11. CASE Report
  BY <1>0, <1>2, <1>3, <1>11 DEF Report, WorkerOK
<1>12. CASE (NativeShows \/ NativeReady \/ NativeLoss \/ NativeStall \/ Crash)
              /\ UNCHANGED <<pid, commands, messages, executed>>
  <2>1. child' \in ChildType
    <3>1. CASE NativeShows
      <4>1. [child EXCEPT !.shown = child.generation] \in ChildType
        BY <1>0, ChildTypes DEF ChildType
      <4>2. child' = [[child EXCEPT !.shown = child.generation] EXCEPT !.ready = FALSE]
        BY <3>1 DEF NativeShows
      <4>3. QED
        BY <4>1, <4>2, ChildTypes
    <3>2. CASE NativeReady
      BY <1>0, <3>2, ChildTypes DEF NativeReady
    <3>3. CASE NativeLoss
      <4>1. PICK c \in ChildType : c = Revoke(child)
        BY <1>0, RevokeType
      <4>2. PICK mapping \in BOOLEAN : mapping = (c.mapping /\ ~live)
        OBVIOUS
      <4>3. child' = [c EXCEPT !.mapping = mapping]
        BY <3>3, <4>1, <4>2 DEF NativeLoss, ChildType
      <4>4. QED
        BY <4>1, <4>3, ChildTypes
    <3>4. CASE NativeStall
      BY <1>0, <3>4, ChildTypes DEF NativeStall
    <3>5. CASE Crash
      <4>1. [child EXCEPT !.alive = FALSE] \in ChildType
        BY <1>0, ChildTypes
      <4>2. child' = [[child EXCEPT !.alive = FALSE] EXCEPT !.sending = {}] /\ {} \in SUBSET SendingType
        BY <3>5 DEF Crash
      <4>3. QED
        BY <4>1, <4>2, ChildTypes
    <3>6. QED
      BY <1>12, <3>1, <3>2, <3>3, <3>4, <3>5
  <2>2. QED
    BY <1>12, <2>1 DEF WorkerOK
<1>13. QED
  BY <1>4, <1>5, <1>6, <1>7, <1>8, <1>9, <1>10, <1>11, <1>12 DEF Worker

LEMMA WorkerReceiptsOK ==
  ASSUME ReceiptsOK, WorkerOK, Worker
  PROVE  ReceiptsOK'
<1>1. UNCHANGED <<pending, next_id, answers>>
  BY DEF Worker, receipts
<1>2. child \in ChildType
  BY DEF WorkerOK
<1>3. \A s \in child.sending : s.call \in Calls
  BY <1>2 DEF ChildType, SendingType
<1>4. executed' \subseteq Calls
  BY <1>3 DEF Worker, SetProfile, InvalidateCommands, Arm, HandleRequest, HandleInput, OldInput,
     Media, Sent, Report, ReceiptsOK
<1>5. QED
  BY <1>1, <1>4 DEF ReceiptsOK

-----------------------------------------------------------------------------
LEMMA InitType ==
  ASSUME Init
  PROVE  TypeInv
<1>1. LinkOK
  BY BoundsAssumption DEF Init, LinkOK, IsLink, LinkType, Within
<1>2. CallsOK
  BY BoundsAssumption DEF Init, CallsOK, CallType, NoCall, Receivers
<1>3. StateOK
  <2>1. live \in BOOLEAN
    BY BoundsAssumption DEF Init, Plan
  <2>2. QED
    BY <2>1, BoundsAssumption DEF Init, StateOK, Phases, Profiles, Receivers, NoArm, NotArmed,
       SnapshotType
<1>4. ReceiptsOK
  BY NoReceipts DEF Init, ReceiptsOK, Answers
<1>5. WorkerOK
  <2>1. "media" \in Profiles /\ TRUE \in BOOLEAN /\ remembered \in Receivers
    BY BoundsAssumption DEF Init, Profiles, Receivers
  <2>2. QED
    BY <2>1, FreshType, NoCommands DEF Init, WorkerOK
<1>6. QED
  BY <1>1, <1>2, <1>3, <1>4, <1>5 DEF TypeInv

LEMMA NextType ==
  ASSUME TypeInv, [Next]_vars
  PROVE  TypeInv'
<1>0. LinkOK /\ CallsOK /\ StateOK /\ ReceiptsOK /\ WorkerOK
  BY DEF TypeInv
<1>1. CASE Input \/ SetMappingProfile
  <2>1. /\ UNCHANGED <<control, calling, phase, intent, session, pairing, snapshot, worker, stopping>>
        /\ UNCHANGED <<receipts, executed>>
    BY <1>1 DEF Input, SetMappingProfile
  <2>2. CallsOK' /\ StateOK'
    BY <1>0, <2>1 DEF CallsOK, StateOK, intent, session, worker
  <2>3. ReceiptsOK' /\ WorkerOK'
    BY <1>0, <2>1 DEF ReceiptsOK, WorkerOK, receipts, worker
  <2>4. QED
    BY <1>0, <1>1, <2>2, <2>3, InputLinkOK DEF TypeInv
<1>2. CASE Runtime
  <2>1. WorkerOK'
    BY <1>0, <1>2 DEF Runtime, worker, WorkerOK
  <2>2. QED
    BY <1>0, <1>2, <2>1, RuntimeLinkOK, RuntimeCallsOK, RuntimeStateOK, RuntimeReceiptsOK DEF TypeInv
<1>3. CASE Supervisor
  <2>1. StateOK'
    BY <1>0, <1>3, CommandStateOK, ProfileStateOK, MessageStateOK, RestStateOK DEF Supervisor
  <2>2. QED
    BY <1>0, <1>3, <2>1, SupervisorLinkOK, SupervisorCallsOK, SupervisorReceiptsOK,
       SupervisorWorkerOK DEF TypeInv
<1>4. CASE Worker
  <2>1. UNCHANGED <<shared, phase, intent, session, pairing, snapshot>>
    BY <1>4 DEF Worker
  <2>2. UNCHANGED pid
    BY <1>4 DEF Worker, SetProfile, InvalidateCommands, Arm, HandleRequest, HandleInput, OldInput,
       Media, Sent, Report, Iterated
  <2>3. LinkOK' /\ CallsOK' /\ StateOK'
    BY <1>0, <2>1, <2>2 DEF LinkOK, CallsOK, StateOK, shared, intent, session, IsLink, Within
  <2>4. QED
    BY <1>0, <1>4, <2>3, WorkerWorkerOK, WorkerReceiptsOK DEF TypeInv
<1>5. CASE UNCHANGED vars
  <2>1. LinkOK' /\ CallsOK' /\ StateOK'
    BY <1>0, <1>5 DEF vars, LinkOK, CallsOK, StateOK, shared, intent, session, worker, IsLink, Within
  <2>2. ReceiptsOK' /\ WorkerOK'
    BY <1>0, <1>5 DEF vars, ReceiptsOK, WorkerOK, receipts, worker
  <2>3. QED
    BY <2>1, <2>2 DEF TypeInv
<1>6. QED
  BY <1>1, <1>2, <1>3, <1>4, <1>5 DEF Next

(***************************************************************************)
(* Every variable keeps its type, no queue outgrows its capacity and no    *)
(* more receipts wait than PendingLimit, whatever the receivers, the sizes *)
(* of the queues, the plans of the environment and the number of workers.  *)
(***************************************************************************)
THEOREM TypesAndCapacities == Spec => []TypeOK
<1>1. Init => TypeInv
  BY InitType
<1>2. TypeInv /\ [Next]_vars => TypeInv'
  BY NextType
<1>3. TypeInv => TypeOK
  BY DEF TypeInv, TypeOK, LinkOK, CallsOK, StateOK, ReceiptsOK, WorkerOK, IsLink, LinkType, Within,
     Profiles, Receivers
<1>4. QED
  BY <1>1, <1>2, <1>3, PTL DEF Spec

-----------------------------------------------------------------------------
\* What queues and pipes hold

LEMMA AppendedElements ==
  ASSUME NEW S, NEW s \in Seq(S), NEW e \in S
  PROVE  ToSet(Append(s, e)) = ToSet(s) \cup {e}
<1>1. /\ Len(Append(s, e)) = Len(s) + 1 /\ Len(s) \in Nat
      /\ DOMAIN s = 1..Len(s) /\ DOMAIN Append(s, e) = 1..(Len(s) + 1)
      /\ \A i \in 1..Len(s) : Append(s, e)[i] = s[i]
      /\ Append(s, e)[Len(s) + 1] = e
  OBVIOUS
<1>2. 1..(Len(s) + 1) = 1..Len(s) \cup {Len(s) + 1}
  BY <1>1
<1>3. QED
  BY <1>1, <1>2 DEF ToSet

LEMMA RemainingElements ==
  ASSUME NEW S, NEW s \in Seq(S), s # << >>
  PROVE  ToSet(Tail(s)) \subseteq ToSet(s) /\ Head(s) \in ToSet(s)
<1>1. /\ Len(s) \in Nat /\ Len(s) # 0 /\ DOMAIN s = 1..Len(s)
      /\ DOMAIN Tail(s) = 1..(Len(s) - 1) /\ Head(s) = s[1]
      /\ \A i \in 1..(Len(s) - 1) : Tail(s)[i] = s[i + 1]
  OBVIOUS
<1>2. \A i \in 1..(Len(s) - 1) : i + 1 \in 1..Len(s)
  BY <1>1
<1>3. 1 \in 1..Len(s)
  BY <1>1
<1>4. QED
  BY <1>1, <1>2, <1>3 DEF ToSet

LEMMA NoElements == ToSet(<< >>) = {}
BY DEF ToSet

LEMMA ElementTypes ==
  ASSUME NEW S, NEW s \in Seq(S)
  PROVE  ToSet(s) \subseteq S
BY DEF ToSet

LEMMA ConcatElements ==
  ASSUME NEW S, NEW s \in Seq(S), NEW t \in Seq(S)
  PROVE  ToSet(s \o t) = ToSet(s) \cup ToSet(t)
<1>1. /\ Len(s \o t) = Len(s) + Len(t) /\ Len(s) \in Nat /\ Len(t) \in Nat
      /\ DOMAIN s = 1..Len(s) /\ DOMAIN t = 1..Len(t) /\ DOMAIN (s \o t) = 1..(Len(s) + Len(t))
      /\ \A i \in 1..(Len(s) + Len(t)) : (s \o t)[i] = IF i <= Len(s) THEN s[i] ELSE t[i - Len(s)]
  OBVIOUS
<1>2. \A i \in 1..Len(t) : Len(s) + i \in 1..(Len(s) + Len(t)) /\ ~(Len(s) + i <= Len(s))
                            /\ Len(s) + i - Len(s) = i
  BY <1>1
<1>3. \A i \in 1..(Len(s) + Len(t)) : (i \in 1..Len(s) /\ i <= Len(s)) \/ i - Len(s) \in 1..Len(t)
  BY <1>1
<1>4. \A i \in 1..Len(s) : i \in 1..(Len(s) + Len(t)) /\ i <= Len(s)
  BY <1>1
<1>5. ToSet(s) \subseteq ToSet(s \o t)
  BY <1>1, <1>4 DEF ToSet
<1>6. ToSet(t) \subseteq ToSet(s \o t)
  BY <1>1, <1>2 DEF ToSet
<1>7. ToSet(s \o t) \subseteq ToSet(s) \cup ToSet(t)
  BY <1>1, <1>3 DEF ToSet
<1>8. QED
  BY <1>5, <1>6, <1>7

LEMMA ConcatOne ==
  ASSUME NEW S, NEW s \in Seq(S), NEW e \in S
  PROVE  s \o << >> = s /\ s \o <<e>> = Append(s, e)
OBVIOUS

(***************************************************************************)
(* DeliveredToItsSession is inductive once the packets that still wait are *)
(* known to be of an earlier revision or of the present session: whatever  *)
(* changes the process or the native generation changes the revision.      *)
(***************************************************************************)
OfSession(l) ==
  \A p \in ToSet(l.packets) :
    p.generation <= revision /\ (p.generation = revision => p.session = <<pid, native>>)

SessionInv ==
  /\ OfSession(link)
  /\ \A c \in ToSet(commands) : c.kind = "input" => c.session = <<pid, c.generation>>

LEMMA QueuedSession ==
  ASSUME LinkOK, StateOK, NEW l, IsLink(l), OfSession(l), NEW mapping \in Nat
  PROVE  OfSession([l EXCEPT !.packets = Append(@, Packet(mapping))])
<1>1. l.packets \in Seq(PacketType) /\ l \in LinkType /\ Packet(mapping) \in PacketType
  BY PacketTypes DEF IsLink, LinkType
<1>2. PICK p \in PacketType : p = Packet(mapping)
  BY <1>1
<1>3. p.generation = revision /\ p.session = <<pid, native>> /\ revision \in Nat
  BY <1>2 DEF Packet, LinkOK
<1>4. [l EXCEPT !.packets = Append(@, p)].packets = Append(l.packets, p)
  BY <1>1 DEF LinkType
<1>5. ToSet(Append(l.packets, p)) = ToSet(l.packets) \cup {p}
  BY <1>1, AppendedElements
<1>6. QED
  BY <1>2, <1>3, <1>4, <1>5 DEF OfSession

LEMMA RevokedSession ==
  ASSUME NEW l, IsLink(l), OfSession(l)
  PROVE  OfSession(Revoked(l))
<1> DEFINE q == [i \in DOMAIN l.packets |-> [l.packets[i] EXCEPT !.over = TRUE]]
<1>1. l.packets \in Seq(PacketType) /\ l \in LinkType
  BY DEF IsLink, LinkType
<1>2. Revoked(l).packets = q
  BY <1>1 DEF Revoked, LinkType
<1>3. \A p \in PacketType : [p EXCEPT !.over = TRUE].generation = p.generation
                            /\ [p EXCEPT !.over = TRUE].session = p.session
  BY DEF PacketType
<1>4. \A i \in DOMAIN l.packets : l.packets[i] \in PacketType
  BY <1>1
<1>5. DOMAIN q = DOMAIN l.packets
        /\ \A i \in DOMAIN q : q[i].generation = l.packets[i].generation
                             /\ q[i].session = l.packets[i].session
  BY <1>3, <1>4
<1> HIDE DEF q
<1>6. \A p \in ToSet(q) : \E r \in ToSet(l.packets) :
        p.generation = r.generation /\ p.session = r.session
  BY <1>5 DEF ToSet
<1>7. QED
  BY <1>2, <1>6 DEF OfSession

LEMMA SamePackets ==
  ASSUME NEW l, IsLink(l)
  PROVE  /\ Unmapped(l).packets = l.packets /\ Unrequested(l).packets = l.packets
         /\ Granted(l).packets = l.packets
BY DEF IsLink, LinkType, Unmapped, Unrequested, Granted

\* publish_snapshot
LEMMA AnnouncedPackets ==
  ASSUME NEW l, IsLink(l), NEW k, k = l \/ \E a : k = [l EXCEPT !.available = a]
  PROVE  k.packets = l.packets
BY DEF IsLink, LinkType

LEMMA EndedSession ==
  ASSUME LinkOK, StateOK, NEW l, IsLink(l), OfSession(l)
  PROVE  OfSession(Ended(l))
<1> DEFINE left == IF ~Active(l) \/ l.mapping = 0 THEN l
                   ELSE IF Len(l.packets) < InputCapacity
                     THEN [l EXCEPT !.packets = Append(@, Packet(l.mapping))]
                     ELSE Unmapped(l)
<1>1. l.mapping \in Nat /\ Packet(l.mapping) \in PacketType
  BY PacketTypes DEF IsLink, LinkType
<1>2. OfSession(left)
  BY <1>1, QueuedSession, SamePackets DEF OfSession
<1>3. IsLink(left)
  BY <1>1, QueuedType, UnmappedType
<1>4. Ended(l) = Revoked(Unrequested(left))
  BY DEF Ended
<1> HIDE DEF left
<1>5. OfSession(Unrequested(left)) /\ IsLink(Unrequested(left))
  BY <1>2, <1>3, SamePackets, UnrequestedType DEF OfSession
<1>6. QED
  BY <1>4, <1>5, RevokedSession

\* The input thread stamps what it queues with the present session.
LEMMA InputSession ==
  ASSUME TypeInv, SessionInv, Input \/ SetMappingProfile
  PROVE  SessionInv'
<1>0. LinkOK /\ StateOK /\ IsLink(link) /\ OfSession(link) /\ OfSession(Ended(link))
        /\ IsLink(Unmapped(link)) /\ OfSession(Unmapped(link))
  BY EndedSession, UnmappedType, SamePackets DEF TypeInv, LinkOK, SessionInv, OfSession
<1>1. UNCHANGED <<revision, pid, native, commands>>
  BY DEF Input, SetMappingProfile, session, worker
<1>2. OfSession(link')
  <2>1. CASE BeginCapture \/ RequestProfile \/ SetMappingProfile
    <3>1. link'.packets = link.packets
      <4>1. CASE BeginCapture \/ RequestProfile
        BY <1>0, <4>1 DEF BeginCapture, RequestProfile, IsLink, LinkType
      <4>2. CASE SetMappingProfile
        <5>1. \/ link' = Unmapped(link)
              \/ link' = [link EXCEPT !.mapping = link.sessions + 1, !.sessions = @ + 1]
          BY <4>2 DEF SetMappingProfile
        <5>2. QED
          BY <1>0, <5>1, SamePackets DEF IsLink, LinkType
      <4>3. QED
        BY <2>1, <4>1, <4>2
    <3>2. QED
      BY <1>0, <3>1 DEF OfSession
  <2>2. CASE EndCapture
    BY <1>0, <2>2 DEF EndCapture
  <2>3. CASE SubmitCapture
    BY <1>0, <2>3, QueuedSession DEF SubmitCapture
  <2>4. CASE SubmitMapping
    <3>1. link.mapping \in Nat
      BY <1>0 DEF IsLink, LinkType
    <3>2. OfSession(Ended(Unmapped(link)))
      BY <1>0, EndedSession
    <3>3. QED
      BY <1>0, <2>4, <3>1, <3>2, QueuedSession DEF SubmitMapping
  <2>5. QED
    BY <2>1, <2>2, <2>3, <2>4 DEF Input
<1>3. QED
  BY <1>1, <1>2 DEF SessionInv, OfSession

\* With a new revision everything that waits is of an earlier one.
LEMMA NewRevision ==
  ASSUME TypeInv, NEW l, IsLink(l), OfSession(l), revision' = revision + 1, link'.packets = l.packets
  PROVE  OfSession(link)'
<1>1. l.packets \in Seq(PacketType) /\ revision \in Nat
  BY DEF IsLink, LinkType, TypeInv, LinkOK
<1>2. \A p \in ToSet(l.packets) : p.generation \in Nat /\ p.generation <= revision
  <2>1. \A p \in ToSet(l.packets) : p \in PacketType
    BY <1>1, ElementTypes
  <2>2. QED
    BY <2>1 DEF OfSession, PacketType
<1>3. \A p \in ToSet(l.packets) : p.generation <= revision + 1 /\ p.generation # revision + 1
  BY <1>1, <1>2
<1>4. QED
  BY <1>3 DEF OfSession

LEMMA RuntimeSession ==
  ASSUME TypeInv, SessionInv, Runtime
  PROVE  SessionInv'
<1>0. LinkOK /\ StateOK /\ IsLink(link) /\ OfSession(link) /\ OfSession(Ended(link)) /\ IsLink(Ended(link))
  BY EndedSession, EndedType DEF TypeInv, LinkOK, SessionInv
<1>1. UNCHANGED <<pid, native, commands>>
  BY DEF Runtime, session, worker
<1>2. \/ link' \in {link, Ended(link)} /\ UNCHANGED revision
      \/ link' = Ended(link) /\ revision' = revision + 1
  BY DEF Runtime, Change, Enqueue, Ask, Send, Drop
<1>3. OfSession(link)'
  <2>1. CASE link' \in {link, Ended(link)} /\ UNCHANGED revision
    BY <1>0, <1>1, <2>1 DEF OfSession
  <2>2. CASE link' = Ended(link) /\ revision' = revision + 1
    BY <1>0, <2>2, NewRevision
  <2>3. QED
    BY <1>2, <2>1, <2>2
<1>4. QED
  BY <1>1, <1>3 DEF SessionInv

\* A worker takes commands, and does not change them.
LEMMA WorkerSession ==
  ASSUME TypeInv, SessionInv, Worker
  PROVE  SessionInv'
<1>1. UNCHANGED <<link, revision, native>>
  BY DEF Worker, shared, session
<1>2. UNCHANGED pid /\ (UNCHANGED commands \/ (commands # << >> /\ commands' = Tail(commands)))
  BY DEF Worker, SetProfile, InvalidateCommands, Arm, HandleRequest, HandleInput, OldInput,
     Media, Sent, Report, Iterated, Received
<1>3. ToSet(commands') \subseteq ToSet(commands)
  BY <1>2, RemainingElements DEF TypeInv, WorkerOK
<1>4. QED
  BY <1>1, <1>2, <1>3 DEF SessionInv, OfSession

\* A replacement may start another process, and has a new revision for it.
LEMMA ReplaceSession ==
  ASSUME TypeInv, SessionInv, NEW l, IsLink(l), OfSession(l), NEW p, NEW pub, NEW sel, NEW rem,
         NEW next, NEW failed, Replace(l, p, pub, sel, rem, next, failed)
  PROVE  SessionInv'
<1>1. revision' = revision + 1 /\ link' = [Revoked(l) EXCEPT !.available = FALSE]
  BY DEF Replace
<1>2. IsLink(Revoked(l)) /\ OfSession(Revoked(l))
  BY RevokedType, RevokedSession
<1>3. link'.packets = Revoked(l).packets
  BY <1>1, <1>2, AnnouncedPackets
<1>4. OfSession(link)'
  BY <1>1, <1>2, <1>3, NewRevision
<1>5. commands' = << >> \/ UNCHANGED <<pid, commands>>
  BY DEF Replace, Exchange
<1>6. \A c \in ToSet(commands') : c.kind = "input" => c.session = <<pid', c.generation>>
  BY <1>5, NoElements DEF SessionInv
<1>7. QED
  BY <1>4, <1>6 DEF SessionInv

\* A command that is not input does not matter.
LEMMA CommandedSession ==
  ASSUME TypeInv, SessionInv, UNCHANGED <<revision, pid, native>>, OfSession(link'),
         NEW c \in CommandType, c.kind = "input" => c.session = <<pid, c.generation>>,
         commands' \in {commands, Append(commands, c)}
  PROVE  SessionInv'
<1>1. commands \in Seq(CommandType)
  BY DEF TypeInv, WorkerOK
<1>2. ToSet(commands') \subseteq ToSet(commands) \cup {c}
  BY <1>1, AppendedElements
<1>3. QED
  BY <1>2 DEF SessionInv, OfSession

\* After a status, the queue of the worker has nothing new but a request and an arm.
LEMMA StatusCommands ==
  ASSUME WorkerOK, Status
  PROVE  \E c \in CommandType :
           /\ c.kind = "arm"
           /\ ToSet(commands') \subseteq ToSet(commands) \cup {c, NativeRequest}
<1> DEFINE m == Head(messages)
<1>1. m \in StatusType
  BY DEF Status, Message, WorkerOK, MessageType, StatusType
<1>2. PICK c \in CommandType : c = [kind |-> "arm", generation |-> m.generation]
  BY <1>1 DEF StatusType, CommandType
<1> HIDE DEF m
<1>3. ASSUME NEW cs \in Seq(CommandType), Reported(m, cs)
      PROVE  ToSet(commands') \subseteq ToSet(cs) \cup {c}
  <2>1. commands' \in {cs, Append(cs, c)}
    BY <1>2, <1>3, ReportedCases
  <2>2. QED
    BY <2>1, AppendedElements
<1>4. Append(commands, NativeRequest) \in Seq(CommandType)
        /\ ToSet(Append(commands, NativeRequest)) = ToSet(commands) \cup {NativeRequest}
  BY NativeRequestType, AppendedElements DEF WorkerOK
<1>5. ToSet(commands') \subseteq ToSet(commands) \cup {c, NativeRequest}
  BY <1>3, <1>4, StatusCases DEF WorkerOK, m
<1>6. QED
  BY <1>2, <1>5

LEMMA StatusSession ==
  ASSUME TypeInv, SessionInv, Status
  PROVE  SessionInv'
<1> DEFINE m == Head(messages)
<1>0. LinkOK /\ StateOK /\ IsLink(link) /\ OfSession(link)
        /\ IsLink(Ended(link)) /\ IsLink(Revoked(link))
        /\ OfSession(Ended(link)) /\ OfSession(Revoked(link))
  BY EndedSession, RevokedSession, EndedType, RevokedType DEF TypeInv, LinkOK, SessionInv
<1>1. IsLink(AfterStatus(m)) /\ OfSession(AfterStatus(m))
  BY <1>0 DEF AfterStatus
<1>2. UNCHANGED pid
  BY DEF Status
<1>3. PICK c \in CommandType :
        c.kind = "arm" /\ ToSet(commands') \subseteq ToSet(commands) \cup {c, NativeRequest}
  BY StatusCommands DEF TypeInv
<1> HIDE DEF m
<1>4. ASSUME NEW cs, Reported(m, cs)
      PROVE  OfSession(link)'
  <2>1. native' = m.generation /\ revision' = Current(m)
    BY <1>4, ReportedCases
  <2>2. link' = AfterStatus(m) \/ \E a : link' = [AfterStatus(m) EXCEPT !.available = a]
    BY <1>4, ReportedCases DEF Published
  <2>3. link'.packets = AfterStatus(m).packets
    BY <1>1, <2>2, AnnouncedPackets
  <2>4. CASE Regenerates(m)
    BY <1>1, <2>1, <2>3, <2>4, NewRevision DEF Current
  <2>5. CASE ~Regenerates(m)
    BY <1>1, <1>2, <2>1, <2>3, <2>5 DEF Current, Regenerates, OfSession
  <2>6. QED
    BY <2>4, <2>5
<1>5. OfSession(link)'
  BY <1>0, <1>2, <1>4, StatusCases DEF OfSession, m
<1>6. QED
  BY <1>2, <1>3, <1>5, NativeRequestType DEF SessionInv

LEMMA SupervisorSession ==
  ASSUME TypeInv, SessionInv, Supervisor
  PROVE  SessionInv'
<1>0. LinkOK /\ StateOK /\ WorkerOK /\ IsLink(link) /\ OfSession(link)
        /\ IsLink(Ended(link)) /\ IsLink(Revoked(link)) /\ IsLink(Granted(link))
        /\ OfSession(Ended(link)) /\ OfSession(Revoked(link)) /\ OfSession(Granted(link))
  BY EndedSession, RevokedSession, EndedType, RevokedType, GrantedType, SamePackets
     DEF TypeInv, LinkOK, SessionInv, OfSession
<1>1. CASE Select \/ Restart \/ SwitchWorker \/ Stalls \/ FallBack
  BY <1>0, <1>1, ReplaceSession DEF Select, Restart, SwitchWorker, Stalls, FallBack
<1>2. CASE Status
  BY <1>2, StatusSession
<1>3. CASE SwitchInPlace
  <2>1. /\ revision' = revision + 1 /\ link' = [Revoked(link) EXCEPT !.available = FALSE]
        /\ UNCHANGED pid
        /\ commands' \in {commands, Append(commands, [kind |-> "set_profile", profile |-> Desired])}
    BY <1>3 DEF SwitchInPlace
  <2>2. OfSession(link)'
    <3>1. link'.packets = Revoked(link).packets
      BY <1>0, <2>1, AnnouncedPackets
    <3>2. QED
      BY <1>0, <2>1, <3>1, NewRevision
  <2>3. Desired \in Profiles
    BY DEF Desired, Profiles
  <2>4. PICK c \in CommandType : c = [kind |-> "set_profile", profile |-> Desired]
    BY <2>3 DEF CommandType
  <2>5. ToSet(commands') \subseteq ToSet(commands) \cup {c} /\ c.kind # "input"
    BY <1>0, <2>1, <2>4, AppendedElements DEF WorkerOK
  <2>6. QED
    BY <2>1, <2>2, <2>5 DEF SessionInv
<1>4. CASE Invalidate
  <2>1. /\ UNCHANGED <<revision, pid, native>>
        /\ link' = Ended(link) \/ \E a : link' = [Ended(link) EXCEPT !.available = a]
        /\ commands' \in {commands, Append(commands, [kind |-> "invalidate"])}
    BY <1>4 DEF Invalidate, Announced
  <2>2. OfSession(link')
    <3>1. link'.packets = Ended(link).packets
      BY <1>0, <2>1, AnnouncedPackets
    <3>2. QED
      BY <1>0, <3>1 DEF OfSession
  <2>3. PICK c \in CommandType : c = [kind |-> "invalidate"]
    BY DEF CommandType
  <2>4. QED
    BY <2>1, <2>2, <2>3, CommandedSession
<1>5. CASE SendMedia
  <2>1. /\ UNCHANGED <<revision, pid, native, link>>
        /\ commands' \in {commands, Append(commands, [kind |-> "media", id |-> NextId,
                                               call |-> Head(control).call, generation |-> native])}
    BY <1>5 DEF SendMedia, session
  <2>2. Head(control).call \in Calls /\ NextId \in Nat /\ native \in Nat
    BY <1>5 DEF SendMedia, Command, TypeInv, CallsOK, CallType, NextId, ReceiptsOK, StateOK
  <2>3. PICK c \in CommandType :
          c = [kind |-> "media", id |-> NextId, call |-> Head(control).call, generation |-> native]
    BY <2>2 DEF CommandType, MediaType
  <2>4. QED
    BY <1>0, <2>1, <2>3, CommandedSession
<1>6. CASE Forward
  <2>1. /\ UNCHANGED <<revision, pid, native>> /\ link.packets # << >>
        /\ link' = [link EXCEPT !.packets = Tail(@)]
        /\ \/ UNCHANGED commands
           \/ /\ Accepts(link, Head(link.packets))
              /\ commands' = Append(commands, [kind |-> "input", generation |-> native,
                                               session |-> Head(link.packets).session])
    BY <1>6 DEF Forward, session
  <2>2. link.packets \in Seq(PacketType) /\ link \in LinkType
    BY <1>0 DEF IsLink, LinkType
  <2>3. link'.packets = Tail(link.packets)
    BY <2>1, <2>2 DEF LinkType
  <2>4. OfSession(link')
    BY <1>0, <2>1, <2>2, <2>3, RemainingElements DEF OfSession
  <2>5. PICK p \in PacketType : p = Head(link.packets) /\ p \in ToSet(link.packets)
    BY <2>1, <2>2, RemainingElements
  <2>6. PICK c \in CommandType : c = [kind |-> "input", generation |-> native, session |-> p.session]
    BY <1>0 DEF PacketType, CommandType, StateOK
  <2>7. Accepts(link, p) => c.session = <<pid, c.generation>>
    BY <1>0, <2>5, <2>6 DEF Accepts, OfSession
  <2>8. CASE UNCHANGED commands
    BY <1>0, <2>1, <2>4, <2>8 DEF SessionInv, OfSession
  <2>9. CASE Accepts(link, p) /\ commands' = Append(commands, c)
    BY <2>1, <2>4, <2>7, <2>9, CommandedSession
  <2>10. QED
    BY <2>1, <2>5, <2>6, <2>8, <2>9
<1>7. CASE TooOld
  <2>1. UNCHANGED <<revision, pid, native, commands>> /\ link.packets # << >>
        /\ link' = [link EXCEPT !.packets = Tail(@)]
    BY <1>7 DEF TooOld, session, worker
  <2>2. link.packets \in Seq(PacketType) /\ link \in LinkType
    BY <1>0 DEF IsLink, LinkType
  <2>3. link'.packets = Tail(link.packets)
    BY <2>1, <2>2 DEF LinkType
  <2>4. QED
    BY <1>0, <2>1, <2>2, <2>3, RemainingElements DEF SessionInv, OfSession
<1>8. CASE Failure \/ PairingExpires \/ Granting \/ MessagesDone \/ SwitchExpires
  <2>1. UNCHANGED <<revision, pid, native, commands>>
          /\ \E l \in {link, Ended(link), Granted(link)} :
               link' = l \/ \E a : link' = [l EXCEPT !.available = a]
    BY <1>8 DEF Failure, PairingExpires, Granting, MessagesDone, SwitchExpires, session, worker
  <2>2. PICK l : IsLink(l) /\ OfSession(l) /\ (link' = l \/ \E a : link' = [l EXCEPT !.available = a])
    BY <1>0, <2>1
  <2>3. link'.packets = l.packets
    BY <2>2, AnnouncedPackets
  <2>4. QED
    BY <2>1, <2>2, <2>3 DEF SessionInv, OfSession
<1>9. CASE Finish
  <2>1. UNCHANGED <<revision, pid, native>> /\ commands' = << >>
          /\ link' = [Ended(link) EXCEPT !.available = FALSE]
    BY <1>9 DEF Finish
  <2>2. link'.packets = Ended(link).packets
    BY <1>0, <2>1, AnnouncedPackets
  <2>3. QED
    BY <1>0, <2>1, <2>2, NoElements DEF SessionInv, OfSession
<1>10. CASE \/ KeepProfile \/ StatusIgnored \/ Armed \/ Reply \/ Exited \/ Expire
            \/ StepDone \/ GiveUp
  <2>1. UNCHANGED <<link, revision, pid, native, commands>>
    BY <1>10 DEF KeepProfile, StatusIgnored, Armed, Reply, Exited, Expire, StepDone,
       GiveUp, shared, session, worker
  <2>2. QED
    BY <2>1 DEF SessionInv, OfSession
<1>11. CASE RefreshTargets \/ PairTarget
  BY <1>0, <1>11, RequestedCommand, NativeRequestType, CommandedSession DEF OfSession
<1>12. QED
  BY <1>1, <1>2, <1>3, <1>4, <1>5, <1>6, <1>7, <1>8, <1>9, <1>10, <1>11 DEF Supervisor

(***************************************************************************)
(* An input event that the worker would act on was produced for that       *)
(* worker process and for that generation of its connection, for queues of *)
(* any size, any plan of changes and failures and any number of workers.   *)
(***************************************************************************)
THEOREM InputReachesItsSession == Spec => []DeliveredToItsSession
<1> DEFINE Inv == TypeInv /\ SessionInv
<1>1. Init => Inv
  <2> SUFFICES ASSUME Init PROVE SessionInv
    BY InitType
  <2>1. link.packets = << >> /\ commands = << >>
    BY DEF Init
  <2>2. QED
    BY <2>1, NoElements DEF SessionInv, OfSession
<1>2. Inv /\ [Next]_vars => Inv'
  <2> SUFFICES ASSUME TypeInv, SessionInv, [Next]_vars
               PROVE  SessionInv'
    BY NextType
  <2>1. CASE UNCHANGED vars
    BY <2>1 DEF vars, shared, session, worker, SessionInv, OfSession
  <2>2. QED
    BY <2>1, InputSession, RuntimeSession, SupervisorSession, WorkerSession DEF Next
<1>3. Inv => DeliveredToItsSession
  <2> SUFFICES ASSUME TypeInv, SessionInv, NEW i \in DOMAIN commands, commands[i].kind = "input",
                      commands[i].generation = child.generation
               PROVE  commands[i].session = <<pid, child.generation>>
    BY DEF DeliveredToItsSession
  <2>1. commands[i] \in ToSet(commands)
    BY DEF ToSet
  <2>2. QED
    BY <2>1 DEF SessionInv
<1>4. QED
  BY <1>1, <1>2, <1>3, PTL DEF Spec
(***************************************************************************)
(* OkMeansExecuted: a receipt has a number that is never used again, and a *)
(* media command keeps its number and its call on the way to the worker,   *)
(* while the worker sends it and in the reply.                             *)
(***************************************************************************)
Numbered(x) == x.id \in 1..next_id /\ (x.id \in DOMAIN pending => pending[x.id].call = x.call)

Truthful(m) ==
  /\ m.id \in 1..next_id
  /\ (m.ok /\ m.id \in DOMAIN pending) => pending[m.id].call \in executed

ReceiptInv ==
  /\ DOMAIN pending \subseteq 1..next_id
  /\ \A c \in ToSet(commands) : c.kind = "media" => Numbered(c)
  /\ \A s \in child.sending : Numbered(s)
  /\ \A m \in ToSet(messages) : m.kind = "reply" => Truthful(m)
  /\ OkMeansExecuted

\* Receipts are forgotten, numbers go up, and what was done stays done.
Fewer ==
  /\ DOMAIN pending' \subseteq DOMAIN pending
  /\ \A id \in DOMAIN pending' : pending'[id] = pending[id]
  /\ next_id' \in Nat /\ next_id' >= next_id
  /\ executed \subseteq executed'

LEMMA FewerReceipts ==
  ASSUME TypeInv, ReceiptInv, Fewer
  PROVE  /\ DOMAIN pending' \subseteq 1..next_id'
         /\ \A x : Numbered(x) => Numbered(x)'
         /\ \A m : Truthful(m) => Truthful(m)'
<1>1. next_id \in Nat /\ 1..next_id \subseteq 1..next_id'
  BY DEF TypeInv, ReceiptsOK, Fewer
<1>2. QED
  BY <1>1 DEF Fewer, ReceiptInv, Numbered, Truthful

\* A step that adds neither a media command nor a reply
LEMMA KeptReceipts ==
  ASSUME TypeInv, ReceiptInv, Fewer, OkMeansExecuted',
         child'.sending \subseteq child.sending,
         \A c \in ToSet(commands') : c \in ToSet(commands) \/ c.kind # "media",
         \A m \in ToSet(messages') : m \in ToSet(messages) \/ m.kind # "reply"
  PROVE  ReceiptInv'
BY FewerReceipts DEF ReceiptInv

LEMMA SameReceipts ==
  ASSUME TypeInv, UNCHANGED <<pending, next_id, executed>>
  PROVE  Fewer
BY DEF Fewer, TypeInv, ReceiptsOK

LEMMA ForgottenReceipts ==
  ASSUME TypeInv, pending' = NoPending, UNCHANGED <<next_id, executed>>
  PROVE  Fewer
BY DEF Fewer, TypeInv, ReceiptsOK, NoPending

LEMMA StaleAnswers ==
  ASSUME TypeInv, OkMeansExecuted, executed' = executed,
         \A c \in Calls : answers'[c] \in {answers[c], "waiting", "stale", "timeout", "unavailable"}
  PROVE  OkMeansExecuted'
BY DEF OkMeansExecuted

LEMMA RetiredAnswers ==
  ASSUME TypeInv
  PROVE  \A c \in Calls : Retired("stale")[c] \in {answers[c], "stale"}
BY DEF Retired

\* A new number is of no command, no sending and no reply.
LEMMA SendReceipt ==
  ASSUME TypeInv, ReceiptInv, SendMedia
  PROVE  ReceiptInv'
<1> DEFINE cmd == Head(control)
<1>0. /\ next_id \in Nat /\ NextId \in Nat /\ NextId = next_id + 1 /\ NextId \notin 1..next_id
      /\ 1..next_id \subseteq 1..NextId /\ NextId \in 1..NextId
      /\ cmd.call \in Calls /\ native \in Nat
      /\ answers \in [Calls -> Answers] /\ commands \in Seq(CommandType)
  <2>1. next_id \in Nat /\ NextId = next_id + 1
    BY DEF TypeInv, ReceiptsOK, NextId
  <2>2. cmd.call \in Calls
    BY DEF SendMedia, Command, TypeInv, CallsOK, CallType
  <2>3. native \in Nat /\ answers \in [Calls -> Answers] /\ commands \in Seq(CommandType)
    BY DEF TypeInv, ReceiptsOK, StateOK, WorkerOK
  <2> HIDE DEF cmd
  <2>4. QED
    BY <2>1, <2>2, <2>3
<1>1. UNCHANGED <<child, messages, executed>>
  BY DEF SendMedia
<1>2. CASE UNCHANGED pending
  <2>1. commands' = commands /\ next_id' \in {next_id, NextId}
          /\ \E result \in {"stale", "unavailable"} : answers' = [answers EXCEPT ![cmd.call] = result]
    <3>1. \/ UNCHANGED <<pending, next_id, commands, phase>>
               /\ answers' = [answers EXCEPT ![cmd.call] = "stale"]
          \/ /\ pending' = [id \in DOMAIN pending \cup {NextId} |->
                              IF id = NextId THEN [call |-> cmd.call, generation |-> revision]
                                             ELSE pending[id]]
          \/ /\ next_id' = NextId /\ UNCHANGED commands
             /\ answers' = [answers EXCEPT ![cmd.call] = "unavailable"]
      BY DEF SendMedia
    <3>2. NextId \notin DOMAIN pending
      BY <1>0 DEF ReceiptInv
    <3>3. pending' # [id \in DOMAIN pending \cup {NextId} |->
                              IF id = NextId THEN [call |-> cmd.call, generation |-> revision]
                                             ELSE pending[id]]
      BY <1>2, <3>2
    <3>4. QED
      BY <3>1, <3>3
  <2>2. Fewer
    BY <1>0, <1>1, <1>2, <2>1 DEF Fewer
  <2>3. \A c \in Calls : answers'[c] \in {answers[c], "stale", "unavailable"}
    BY <1>0, <2>1
  <2>4. OkMeansExecuted'
    BY <1>1, <2>3, StaleAnswers DEF ReceiptInv
  <2>5. QED
    BY <1>1, <2>1, <2>2, <2>4, KeptReceipts
<1>3. CASE /\ next_id' = NextId
           /\ pending' = [id \in DOMAIN pending \cup {NextId} |->
                            IF id = NextId THEN [call |-> cmd.call, generation |-> revision]
                                           ELSE pending[id]]
           /\ commands' = Append(commands, [kind |-> "media", id |-> NextId, call |-> cmd.call,
                                            generation |-> native])
           /\ UNCHANGED answers
  <2>1. PICK new \in MediaType :
          new = [kind |-> "media", id |-> NextId, call |-> cmd.call, generation |-> native]
    BY <1>0 DEF MediaType
  <2>2. /\ DOMAIN pending' = DOMAIN pending \cup {NextId}
        /\ \A id \in 1..next_id : id \in DOMAIN pending' =>
             id \in DOMAIN pending /\ pending'[id] = pending[id]
        /\ pending'[NextId].call = cmd.call
    BY <1>0, <1>3
  <2> HIDE DEF cmd
  <2>3. Numbered(new)'
    BY <1>0, <1>3, <2>1, <2>2 DEF Numbered
  <2>4. \A x : Numbered(x) => Numbered(x)'
    BY <1>0, <1>3, <2>2 DEF Numbered
  <2>5. \A m : Truthful(m) => Truthful(m)'
    BY <1>0, <1>1, <1>3, <2>2 DEF Truthful
  <2>6. ToSet(commands') = ToSet(commands) \cup {new}
    <3>1. new \in CommandType
      BY DEF CommandType
    <3>2. QED
      BY <1>0, <1>3, <2>1, <3>1, AppendedElements
  <2>7. DOMAIN pending' \subseteq 1..next_id'
    BY <1>0, <1>3, <2>2 DEF ReceiptInv
  <2>8. OkMeansExecuted'
    BY <1>1, <1>3 DEF ReceiptInv, OkMeansExecuted
  <2>9. QED
    BY <1>1, <2>3, <2>4, <2>5, <2>6, <2>7, <2>8 DEF ReceiptInv
<1>4. QED
  BY <1>2, <1>3 DEF SendMedia

\* A reply is taken for the receipt of its number, which is then forgotten.
LEMMA ReplyReceipt ==
  ASSUME TypeInv, ReceiptInv, Reply
  PROVE  ReceiptInv'
<1> DEFINE m == Head(messages)
<1>0. messages # << >> /\ messages \in Seq(MessageType) /\ m.kind = "reply"
        /\ messages' = Tail(messages) /\ UNCHANGED <<next_id, child, commands, executed>>
  BY DEF Reply, Message, TypeInv, WorkerOK
<1>1. ToSet(messages') \subseteq ToSet(messages) /\ Truthful(m)
  BY <1>0, RemainingElements DEF ReceiptInv
<1>2. CASE m.id \notin DOMAIN pending
  <2>1. UNCHANGED <<pending, answers>>
    BY <1>2 DEF Reply
  <2>2. OkMeansExecuted'
    BY <1>0, <2>1 DEF ReceiptInv, OkMeansExecuted
  <2>3. QED
    BY <1>0, <1>1, <2>1, <2>2, SameReceipts, KeptReceipts
<1>3. CASE m.id \in DOMAIN pending
  <2>1. /\ pending' = Without(pending, m.id)
        /\ answers' = [answers EXCEPT ![pending[m.id].call] =
                         IF m.ok /\ pending[m.id].generation = revision THEN "ok" ELSE "stale"]
    BY <1>3 DEF Reply
  <2> HIDE DEF m
  <2>2. Fewer
    BY <1>0, <2>1 DEF Fewer, Without, TypeInv, ReceiptsOK
  <2>3. OkMeansExecuted'
    <3>1. answers \in [Calls -> Answers]
      BY DEF TypeInv, ReceiptsOK
    <3>2. m.ok => pending[m.id].call \in executed
      BY <1>1, <1>3 DEF Truthful
    <3>3. QED
      BY <1>0, <2>1, <3>1, <3>2 DEF OkMeansExecuted, ReceiptInv
  <2>4. QED
    BY <1>0, <1>1, <2>2, <2>3, KeptReceipts
<1>4. QED
  BY <1>2, <1>3

LEMMA ReplaceReceipt ==
  ASSUME TypeInv, ReceiptInv, NEW l, NEW p \in Profiles, NEW pub \in BOOLEAN, NEW sel \in Receivers,
         NEW rem \in Receivers, NEW next, NEW failed, Replace(l, p, pub, sel, rem, next, failed)
  PROVE  ReceiptInv'
<1>1. pending' = NoPending /\ answers' = Retired("stale") /\ UNCHANGED <<next_id, executed>>
  BY DEF Replace
<1>2. OkMeansExecuted'
  BY <1>1, RetiredAnswers, StaleAnswers DEF ReceiptInv
<1>3. \/ /\ commands' = << >> /\ messages' = << >> /\ child'.sending = {}
      \/ UNCHANGED <<child, commands, messages>>
  <2>1. PICK target \in Receivers : target = IF sel # None THEN sel ELSE rem
    BY DEF Receivers
  <2>2. Exchange(p, pub, target, next, failed)
    BY <2>1 DEF Replace
  <2>3. Fresh(p, pub, target).sending = {} /\ NoChild.sending = {}
    BY FreshType DEF NoChild
  <2>4. QED
    BY <2>2, <2>3 DEF Exchange
<1>4. QED
  BY <1>1, <1>2, <1>3, ForgottenReceipts, KeptReceipts, NoElements

LEMMA SupervisorReceipt ==
  ASSUME TypeInv, ReceiptInv, Supervisor
  PROVE  ReceiptInv'
<1>0. /\ publish \in BOOLEAN /\ selected \in Receivers /\ remembered \in Receivers
      /\ "media" \in Profiles /\ Desired \in Profiles /\ None \in Receivers
      /\ commands \in Seq(CommandType) /\ messages \in Seq(MessageType)
  BY DEF TypeInv, StateOK, WorkerOK, Profiles, Receivers, Desired
<1>1. CASE Select
  <2>1. Head(control).target \in Receivers
    BY <1>1 DEF Select, Command, TypeInv, CallsOK, CallType
  <2>2. PICK t \in Receivers, pub \in BOOLEAN : t = Head(control).target /\ pub = (t # None)
    BY <2>1
  <2>3. Replace(Ended(link), "media", pub, t, None, "control", "failed")
    BY <1>1, <2>2 DEF Select
  <2>4. QED
    BY <1>0, <2>3, ReplaceReceipt
<1>2. CASE Restart
  <2>1. Replace(Ended(link), "media", TRUE, None, None, "control", "failed")
    BY <1>2 DEF Restart
  <2>2. QED
    BY <1>0, <2>1, ReplaceReceipt
<1>3. CASE SwitchWorker \/ Stalls \/ FallBack
  <2>1. \E l, next, failed : \E p \in Profiles : Replace(l, p, publish, selected, remembered, next, failed)
    BY <1>0, <1>3 DEF SwitchWorker, Stalls, FallBack
  <2>2. QED
    BY <1>0, <2>1, ReplaceReceipt
<1>4. CASE SendMedia
  BY <1>4, SendReceipt
<1>5. CASE Reply
  BY <1>5, ReplyReceipt
<1>6. CASE SwitchInPlace
  <2>1. /\ pending' = NoPending /\ answers' = Retired("stale")
        /\ UNCHANGED <<next_id, executed, child, messages>>
        /\ commands' \in {commands, Append(commands, [kind |-> "set_profile", profile |-> Desired])}
    BY <1>6 DEF SwitchInPlace
  <2>2. PICK c \in CommandType : c = [kind |-> "set_profile", profile |-> Desired]
    BY <1>0 DEF CommandType
  <2>3. ToSet(commands') \subseteq ToSet(commands) \cup {c} /\ c.kind # "media"
    BY <1>0, <2>1, <2>2, AppendedElements
  <2>4. OkMeansExecuted'
    BY <2>1, RetiredAnswers, StaleAnswers DEF ReceiptInv
  <2>5. QED
    BY <2>1, <2>3, <2>4, ForgottenReceipts, KeptReceipts
<1>7. CASE Expire
  <2>1. PICK id \in DOMAIN pending :
          pending' = Without(pending, id) /\ answers' = [answers EXCEPT ![pending[id].call] = "timeout"]
    BY <1>7 DEF Expire
  <2>2. UNCHANGED <<next_id, executed, child, commands, messages>>
    BY <1>7 DEF Expire, worker
  <2>3. Fewer
    BY <2>1, <2>2 DEF Fewer, Without, TypeInv, ReceiptsOK
  <2>4. \A c \in Calls : answers'[c] \in {answers[c], "timeout"}
    BY <2>1 DEF TypeInv, ReceiptsOK
  <2>5. OkMeansExecuted'
    BY <2>2, <2>4, StaleAnswers DEF ReceiptInv
  <2>6. QED
    BY <2>2, <2>3, <2>5, KeptReceipts
<1>8. CASE Finish
  <2>1. /\ pending' = NoPending /\ UNCHANGED <<next_id, executed>>
        /\ answers' = [c \in Calls |-> IF c \in Queued THEN "stale" ELSE Retired("stale")[c]]
        /\ child' = NoChild /\ commands' = << >> /\ messages' = << >>
    BY <1>8 DEF Finish
  <2>2. \A c \in Calls : answers'[c] \in {answers[c], "stale"}
    BY <2>1, RetiredAnswers
  <2>3. OkMeansExecuted'
    BY <2>1, <2>2, StaleAnswers DEF ReceiptInv
  <2>4. child'.sending = {}
    BY <2>1 DEF NoChild
  <2>5. QED
    BY <2>1, <2>3, <2>4, ForgottenReceipts, KeptReceipts, NoElements
<1>9. CASE Invalidate \/ RefreshTargets \/ PairTarget \/ Status \/ Forward
  <2>1. /\ UNCHANGED <<pending, next_id, answers, executed, child>>
        /\ messages' = messages \/ (messages # << >> /\ messages' = Tail(messages))
    BY <1>9, RequestedCommand DEF Invalidate, Status, Forward, Message, receipts
  <2>2. \E c \in CommandType :
          c.kind # "media" /\ ToSet(commands') \subseteq ToSet(commands) \cup {c, NativeRequest}
    <3>0. \A c \in CommandType : commands' \in {commands, Append(commands, c)} =>
            ToSet(commands') \subseteq ToSet(commands) \cup {c, NativeRequest}
      <4> SUFFICES ASSUME NEW c \in CommandType, commands' \in {commands, Append(commands, c)}
                   PROVE  ToSet(commands') \subseteq ToSet(commands) \cup {c}
        OBVIOUS
      <4>1. ToSet(Append(commands, c)) = ToSet(commands) \cup {c}
        BY <1>0, AppendedElements
      <4>2. QED
        BY <4>1
    <3>1. CASE Invalidate
      <4>1. PICK c \in CommandType : c = [kind |-> "invalidate"]
        BY DEF CommandType
      <4>2. commands' \in {commands, Append(commands, c)}
        BY <3>1, <4>1 DEF Invalidate
      <4>3. QED
        BY <3>0, <4>1, <4>2
    <3>2. CASE Status
      BY <3>2, StatusCommands DEF TypeInv
    <3>5. CASE RefreshTargets \/ PairTarget
      BY <3>0, <3>5, RequestedCommand, NativeRequestType
    <3>3. CASE Forward
      <4>1. Head(link.packets).session \in Nat \X Nat /\ native \in Nat
        <5>1. link.packets \in Seq(PacketType) /\ link.packets # << >>
          BY <3>3 DEF Forward, TypeInv, LinkOK, IsLink, LinkType
        <5>2. Head(link.packets) \in PacketType
          BY <5>1
        <5>3. QED
          BY <5>2 DEF PacketType, TypeInv, StateOK
      <4>2. PICK c \in CommandType : c = [kind |-> "input", generation |-> native,
                                         session |-> Head(link.packets).session]
        BY <4>1 DEF CommandType
      <4>3. commands' \in {commands, Append(commands, c)}
        BY <3>3, <4>2 DEF Forward
      <4>4. QED
        BY <3>0, <4>2, <4>3
    <3>4. QED
      BY <1>9, <3>1, <3>2, <3>3, <3>5
  <2>4. PICK c \in CommandType :
          c.kind # "media" /\ ToSet(commands') \subseteq ToSet(commands) \cup {c, NativeRequest}
    BY <2>2
  <2>5. ToSet(messages') \subseteq ToSet(messages)
    BY <1>0, <2>1, RemainingElements
  <2>6. OkMeansExecuted'
    BY <2>1 DEF ReceiptInv, OkMeansExecuted
  <2>7. QED
    BY <2>1, <2>4, <2>5, <2>6, NativeRequestType, SameReceipts, KeptReceipts
<1>10. CASE \/ KeepProfile \/ StatusIgnored \/ Armed \/ Granting \/ Failure \/ Exited
            \/ MessagesDone \/ PairingExpires \/ SwitchExpires \/ TooOld \/ StepDone \/ GiveUp
  <2>1. /\ UNCHANGED <<pending, next_id, answers, executed, child, commands>>
        /\ messages' = messages \/ (messages # << >> /\ messages' = Tail(messages))
    BY <1>10 DEF KeepProfile, StatusIgnored, Armed, Granting, Failure, Exited,
       MessagesDone, PairingExpires, SwitchExpires, TooOld, StepDone, GiveUp, Message, receipts, worker
  <2>2. ToSet(messages') \subseteq ToSet(messages)
    BY <1>0, <2>1, RemainingElements
  <2>3. OkMeansExecuted'
    BY <2>1 DEF ReceiptInv, OkMeansExecuted
  <2>4. QED
    BY <2>1, <2>2, <2>3, SameReceipts, KeptReceipts
<1>11. QED
  BY <1>1, <1>2, <1>3, <1>4, <1>5, <1>6, <1>7, <1>8, <1>9, <1>10 DEF Supervisor

\* What an iteration of the worker writes
LEMMA Written ==
  ASSUME WorkerOK, NEW c \in ChildType, NEW out \in Seq(MessageType), Iterated(c, out)
  PROVE  /\ child' = [c EXCEPT !.reported = StatusOf(c)]
         /\ messages \o out \in Seq(MessageType)
         /\ StatusOf(c) \in StatusType /\ StatusOf(c) \in MessageType
         /\ \/ c.reported = StatusOf(c) /\ messages' = messages \o out
            \/ c.reported # StatusOf(c) /\ messages' = Append(messages \o out, StatusOf(c))
<1>1. StatusOf(c) \in StatusType /\ StatusOf(c) \in MessageType
  BY StatusOfType DEF MessageType
<1>2. messages \o out \in Seq(MessageType)
  BY ConcatProperties DEF WorkerOK
<1>3. PICK before \in Seq(MessageType) : before = messages \o out
  BY <1>2
<1>4. messages' = before \o (IF c.reported = StatusOf(c) THEN << >> ELSE <<StatusOf(c)>>)
  BY <1>3 DEF Iterated
<1>5. before \o << >> = before /\ before \o <<StatusOf(c)>> = Append(before, StatusOf(c))
  BY <1>1, ConcatOne
<1>6. child' = [c EXCEPT !.reported = StatusOf(c)]
  BY DEF Iterated
<1>7. QED
  BY <1>1, <1>2, <1>3, <1>4, <1>5, <1>6

\* What an iteration of the worker leaves of its elements
LEMMA WrittenElements ==
  ASSUME WorkerOK, NEW c \in ChildType, NEW out \in Seq(MessageType), Iterated(c, out)
  PROVE  /\ child'.sending = c.sending
         /\ \A m \in ToSet(messages') : m \in ToSet(messages) \/ m \in ToSet(out) \/ m.kind = "status"
<1>1. PICK st \in MessageType : st = StatusOf(c) /\ st.kind = "status" /\ st \in StatusType
  BY Written DEF StatusOf
<1>2. child' = [c EXCEPT !.reported = st]
  BY <1>1, Written
<1>3. child'.sending = c.sending
  BY <1>2 DEF ChildType
<1>4. PICK before \in Seq(MessageType) : before = messages \o out
  BY Written
<1>5. ToSet(before) = ToSet(messages) \cup ToSet(out)
  BY <1>4, ConcatElements DEF WorkerOK
<1>6. ToSet(Append(before, st)) = ToSet(before) \cup {st}
  BY AppendedElements
<1>7. messages' = before \/ messages' = Append(before, st)
  BY <1>1, <1>4, Written
<1>8. ToSet(messages') \subseteq ToSet(messages) \cup ToSet(out) \cup {st}
  BY <1>5, <1>6, <1>7
<1>9. QED
  BY <1>1, <1>3, <1>8

\* An iteration that handles neither a media command nor its end
LEMMA QuietIteration ==
  ASSUME TypeInv, ReceiptInv, NEW c \in ChildType, c.sending = child.sending,
         NEW out \in Seq(MessageType), Iterated(c, out), \A m \in ToSet(out) : m.kind # "reply",
         ToSet(commands') \subseteq ToSet(commands),
         UNCHANGED <<pending, next_id, answers, executed>>
  PROVE  ReceiptInv'
<1>1. messages \in Seq(MessageType) /\ WorkerOK
  BY DEF TypeInv, WorkerOK
<1>2. child'.sending = child.sending
  BY <1>1, WrittenElements
<1>3. \A m \in ToSet(messages') : m \in ToSet(messages) \/ m.kind # "reply"
  BY <1>1, WrittenElements
<1>4. OkMeansExecuted'
  BY DEF ReceiptInv, OkMeansExecuted
<1>5. QED
  BY <1>2, <1>3, <1>4, SameReceipts, KeptReceipts

LEMMA WorkerReceipt ==
  ASSUME TypeInv, ReceiptInv, Worker
  PROVE  ReceiptInv'
<1>0. /\ child \in ChildType /\ commands \in Seq(CommandType) /\ messages \in Seq(MessageType)
      /\ WorkerOK /\ << >> \in Seq(MessageType) /\ ToSet(<< >>) = {}
  BY NoElements DEF TypeInv, WorkerOK
<1>1. UNCHANGED <<pending, next_id, answers>>
  BY DEF Worker, receipts
<1>2. ASSUME NEW kind, Received(kind)
      PROVE  /\ ToSet(commands') \subseteq ToSet(commands) /\ Head(commands) \in ToSet(commands)
             /\ Head(commands) \in CommandType /\ Head(commands).kind = kind
  BY <1>0, <1>2, RemainingElements, ElementTypes DEF Received
<1>3. CASE SetProfile
  <2>1. PICK p \in Profiles : p = Head(commands).profile
    BY <1>2, <1>3 DEF SetProfile, CommandType, MediaType
  <2>2. PICK c \in ChildType :
          c = [Revoke(child) EXCEPT !.profile = p, !.ready = FALSE, !.mapping = FALSE,
                                    !.shown = child.generation + 1]
    BY <1>0, SetProfileType
  <2>3. c.sending = child.sending
    <3>1. PICK d \in ChildType : d = Revoke(child)
      BY <1>0, RevokeType
    <3>2. d.sending = child.sending
      BY <1>0, <3>1 DEF Revoke, ChildType
    <3>3. c.sending = d.sending
      BY <2>2, <3>1 DEF ChildType
    <3>4. QED
      BY <3>2, <3>3
  <2>4. Iterated(c, << >>) /\ UNCHANGED executed
    BY <1>3, <2>1, <2>2 DEF SetProfile
  <2>5. ToSet(commands') \subseteq ToSet(commands)
    BY <1>2, <1>3 DEF SetProfile
  <2>6. QED
    BY <1>0, <1>1, <2>3, <2>4, <2>5, QuietIteration
<1>4. CASE InvalidateCommands
  <2>1. PICK c \in ChildType : c = [Revoke(child) EXCEPT !.mapping = FALSE]
    BY <1>0, RevokeType, ChildTypes
  <2>2. c.sending = child.sending
    <3>1. PICK d \in ChildType : d = Revoke(child)
      BY <1>0, RevokeType
    <3>2. d.sending = child.sending
      BY <1>0, <3>1 DEF Revoke, ChildType
    <3>3. QED
      BY <2>1, <3>1, <3>2 DEF ChildType
  <2>3. Iterated(c, << >>) /\ UNCHANGED executed /\ ToSet(commands') \subseteq ToSet(commands)
    BY <1>2, <1>4, <2>1 DEF InvalidateCommands
  <2>4. QED
    BY <1>0, <1>1, <2>2, <2>3, QuietIteration
<1>5. CASE Arm
  <2>1. PICK g \in Nat : g = Head(commands).generation
    BY <1>2, <1>5 DEF Arm, CommandType, MediaType
  <2>2. PICK accepted \in BOOLEAN : accepted = (g = child.generation /\ child.admitted)
    OBVIOUS
  <2>3. PICK mapping \in BOOLEAN : mapping = (child.mapping \/ accepted)
    OBVIOUS
  <2>4. PICK c \in ChildType : c = [child EXCEPT !.mapping = mapping]
    BY <1>0, ChildTypes
  <2>5. PICK m \in MessageType : m = [kind |-> "armed", generation |-> g, accepted |-> accepted]
    BY DEF MessageType
  <2>6. <<m>> \in Seq(MessageType) /\ \A x \in ToSet(<<m>>) : x.kind # "reply"
    BY <2>5 DEF ToSet
  <2>7. Iterated(c, <<m>>) /\ UNCHANGED executed
    BY <1>0, <1>5, <2>1, <2>2, <2>3, <2>4, <2>5 DEF Arm, ChildType
  <2>8. c.sending = child.sending
    BY <1>0, <2>4 DEF ChildType
  <2>9. ToSet(commands') \subseteq ToSet(commands)
    BY <1>2, <1>5 DEF Arm
  <2>10. QED
    BY <1>1, <2>6, <2>7, <2>8, <2>9, QuietIteration
<1>6. CASE HandleRequest \/ HandleInput \/ Report
  <2>1. ToSet(commands') \subseteq ToSet(commands)
    BY <1>2, <1>6 DEF HandleRequest, HandleInput, Report
  <2>2. Iterated(child, << >>) /\ UNCHANGED executed
    BY <1>6 DEF HandleRequest, HandleInput, Report
  <2>3. QED
    BY <1>0, <1>1, <2>1, <2>2, QuietIteration
<1>7. CASE OldInput
  <2>1. ToSet(commands') \subseteq ToSet(commands) /\ UNCHANGED executed
    BY <1>2, <1>7 DEF OldInput
  <2>2. PICK c \in ChildType : c = [child EXCEPT !.admitted = FALSE]
    BY <1>0, ChildTypes
  <2>3. PICK status \in Seq(MessageType) :
          /\ status = IF c.reported = StatusOf(c) THEN << >> ELSE <<StatusOf(c)>>
          /\ \A m \in ToSet(status) : m.kind # "reply"
    <3>1. StatusOf(c) \in MessageType /\ StatusOf(c).kind # "reply"
      BY StatusOfType DEF MessageType, StatusOf
    <3>2. PICK m \in MessageType : m = StatusOf(c)
      BY <3>1
    <3>3. <<m>> \in Seq(MessageType) /\ \A x \in ToSet(<<m>>) : x.kind # "reply"
      BY <3>1, <3>2 DEF ToSet
    <3>4. CASE c.reported = StatusOf(c)
      BY <1>0, <3>4
    <3>5. CASE c.reported # StatusOf(c)
      BY <3>2, <3>3, <3>5
    <3>6. QED
      BY <3>4, <3>5
  <2>4. PICK f \in MessageType : f = [kind |-> "failure"]
    BY DEF MessageType
  <2>5. child' = [c EXCEPT !.reported = StatusOf(c)] /\ messages' = (messages \o status) \o <<f>>
    BY <1>7, <2>2, <2>3, <2>4 DEF OldInput
  <2>6. child'.sending = child.sending
    BY <1>0, <2>2, <2>5 DEF ChildType
  <2>7. messages \o status \in Seq(MessageType)
          /\ ToSet(messages \o status) = ToSet(messages) \cup ToSet(status)
    BY <1>0, ConcatElements, ConcatProperties
  <2>8. PICK before \in Seq(MessageType) : before = messages \o status
    BY <2>7
  <2>9. messages' = Append(before, f)
    BY <2>5, <2>8, ConcatOne
  <2>10. ToSet(messages') = ToSet(messages) \cup ToSet(status) \cup {f}
    <3>1. ToSet(Append(before, f)) = ToSet(before) \cup {f}
      BY AppendedElements
    <3>2. QED
      BY <2>7, <2>8, <2>9, <3>1
  <2>11. \A m \in ToSet(messages') : m \in ToSet(messages) \/ m.kind # "reply"
    BY <2>3, <2>4, <2>10
  <2>12. OkMeansExecuted'
    BY <1>1, <2>1 DEF ReceiptInv, OkMeansExecuted
  <2>13. QED
    BY <1>1, <2>1, <2>6, <2>11, <2>12, SameReceipts, KeptReceipts
<1>8. CASE Media
  <2>1. PICK cmd \in MediaType : cmd = Head(commands) /\ Numbered(cmd)
    <3>1. Head(commands) \in MediaType
      BY <1>2, <1>8 DEF Media, CommandType, MediaType
    <3>2. Head(commands) \in ToSet(commands) /\ Head(commands).kind = "media"
      BY <1>2, <1>8 DEF Media
    <3>3. QED
      BY <3>1, <3>2 DEF ReceiptInv
  <2>2. ToSet(commands') \subseteq ToSet(commands) /\ UNCHANGED executed
    BY <1>2, <1>8 DEF Media
  <2>3. Fewer /\ OkMeansExecuted'
    BY <1>1, <2>2, SameReceipts DEF ReceiptInv, OkMeansExecuted
  <2>4. CASE Iterated([child EXCEPT !.sending = @ \cup {[id |-> cmd.id, call |-> cmd.call,
                                                         generation |-> cmd.generation]}], << >>)
    <3>1. PICK s \in SendingType : s = [id |-> cmd.id, call |-> cmd.call, generation |-> cmd.generation]
      BY DEF MediaType, SendingType
    <3>2. child.sending \cup {s} \in SUBSET SendingType
      BY <1>0 DEF ChildType
    <3>3. PICK c \in ChildType : c = [child EXCEPT !.sending = child.sending \cup {s}]
      BY <1>0, <3>2, ChildTypes
    <3>4. Iterated(c, << >>)
      BY <1>0, <2>4, <3>1, <3>3 DEF ChildType
    <3>5. c.sending = child.sending \cup {s}
      BY <1>0, <3>3 DEF ChildType
    <3>6. child'.sending = child.sending \cup {s}
      BY <1>0, <3>4, <3>5, WrittenElements
    <3>7. \A m \in ToSet(messages') : m \in ToSet(messages) \/ m.kind # "reply"
      BY <1>0, <3>4, WrittenElements
    <3>8. Numbered(s)
      BY <2>1, <3>1 DEF Numbered
    <3>9. QED
      BY <2>2, <2>3, <3>6, <3>7, <3>8, FewerReceipts DEF ReceiptInv
  <2>5. CASE Iterated(child, <<[kind |-> "reply", id |-> cmd.id, ok |-> FALSE]>>)
    <3>1. PICK m \in MessageType : m = [kind |-> "reply", id |-> cmd.id, ok |-> FALSE]
      BY DEF MediaType, MessageType
    <3>2. Iterated(child, <<m>>)
      BY <2>5, <3>1
    <3>3. Truthful(m)
      BY <2>1, <3>1 DEF Numbered, Truthful
    <3>4. <<m>> \in Seq(MessageType) /\ ToSet(<<m>>) = {m}
      BY DEF ToSet
    <3>5. /\ child'.sending = child.sending
          /\ \A x \in ToSet(messages') : x \in ToSet(messages) \/ x = m \/ x.kind = "status"
      BY <1>0, <3>2, <3>4, WrittenElements
    <3>6. QED
      BY <2>2, <2>3, <3>3, <3>5, FewerReceipts DEF ReceiptInv
  <2>6. QED
    BY <1>8, <2>1, <2>4, <2>5 DEF Media
<1>9. CASE Sent
  <2>1. PICK s \in child.sending, ok \in BOOLEAN :
          /\ Iterated([child EXCEPT !.sending = @ \ {s}],
                      <<[kind |-> "reply", id |-> s.id, ok |-> ok]>>)
          /\ executed' = IF ok THEN executed \cup {s.call} ELSE executed
          /\ UNCHANGED commands
    BY <1>9 DEF Sent
  <2>2. s \in SendingType /\ child.sending \ {s} \in SUBSET SendingType
    BY <1>0 DEF ChildType
  <2>3. PICK c \in ChildType : c = [child EXCEPT !.sending = child.sending \ {s}]
    BY <1>0, <2>2, ChildTypes
  <2>5. PICK m \in MessageType : m = [kind |-> "reply", id |-> s.id, ok |-> ok]
    BY <2>2 DEF SendingType, MessageType
  <2>6. Iterated(c, <<m>>)
    BY <1>0, <2>1, <2>3, <2>5 DEF ChildType
  <2>7. <<m>> \in Seq(MessageType) /\ ToSet(<<m>>) = {m}
    BY DEF ToSet
  <2>8. c.sending = child.sending \ {s}
    BY <1>0, <2>3 DEF ChildType
  <2>9. child'.sending \subseteq child.sending
    BY <1>0, <2>6, <2>7, <2>8, WrittenElements
  <2>12. \A x \in ToSet(messages') : x \in ToSet(messages) \/ x = m \/ x.kind # "reply"
    BY <1>0, <2>6, <2>7, WrittenElements
  <2>13. Fewer
    BY <1>1, <2>1 DEF Fewer, TypeInv, ReceiptsOK
  <2>14. OkMeansExecuted'
    BY <1>1, <2>1 DEF ReceiptInv, OkMeansExecuted
  <2>15. Truthful(m)'
    <3>1. Numbered(s)
      BY DEF ReceiptInv
    <3>2. QED
      BY <1>1, <2>1, <2>5, <3>1 DEF Numbered, Truthful
  <2>16. QED
    BY <2>1, <2>9, <2>12, <2>13, <2>14, <2>15, FewerReceipts DEF ReceiptInv
<1>10. CASE (NativeShows \/ NativeReady \/ NativeLoss \/ NativeStall \/ Crash)
              /\ UNCHANGED <<pid, commands, messages, executed>>
  <2>1. child'.sending \subseteq child.sending
    <3>1. CASE NativeLoss
      <4>1. PICK d \in ChildType : d = Revoke(child)
        BY <1>0, RevokeType
      <4>2. d.sending = child.sending
        BY <1>0, <4>1 DEF Revoke, ChildType
      <4>3. child' = [d EXCEPT !.mapping = @ /\ ~live]
        BY <3>1, <4>1 DEF NativeLoss
      <4>4. QED
        BY <4>1, <4>2, <4>3 DEF ChildType
    <3>2. CASE NativeShows \/ NativeReady \/ NativeStall
      BY <1>0, <3>2 DEF NativeShows, NativeReady, NativeStall, ChildType
    <3>3. CASE Crash
      BY <1>0, <3>3 DEF Crash, ChildType
    <3>4. QED
      BY <1>10, <3>1, <3>2, <3>3
  <2>2. OkMeansExecuted'
    BY <1>1, <1>10 DEF ReceiptInv, OkMeansExecuted
  <2>3. QED
    BY <1>1, <1>10, <2>1, <2>2, SameReceipts, KeptReceipts
<1>11. QED
  BY <1>3, <1>4, <1>5, <1>6, <1>7, <1>8, <1>9, <1>10 DEF Worker

(***************************************************************************)
(* A media command is reported as done only if it was done, for any number *)
(* of commands, any capacity and any number of workers: the numbers of     *)
(* receipts keep the answers of other commands and processes apart.        *)
(***************************************************************************)
THEOREM AnswersAreTrue == Spec => []OkMeansExecuted
<1> DEFINE Inv == TypeInv /\ ReceiptInv
<1>1. Init => Inv
  <2> SUFFICES ASSUME Init PROVE ReceiptInv
    BY InitType
  <2>1. /\ commands = << >> /\ messages = << >> /\ pending = NoPending
        /\ \A c \in Calls : answers[c] = "unsent"
    BY DEF Init
  <2>2. child.sending = {}
    <3>1. "media" \in Profiles /\ TRUE \in BOOLEAN /\ remembered \in Receivers
      BY BoundsAssumption DEF Init, Profiles, Receivers
    <3>2. QED
      BY <3>1, FreshType DEF Init
  <2>3. DOMAIN pending = {}
    BY <2>1 DEF NoPending
  <2>4. QED
    BY <2>1, <2>2, <2>3, NoElements DEF ReceiptInv, OkMeansExecuted
<1>2. Inv /\ [Next]_vars => Inv'
  <2> SUFFICES ASSUME TypeInv, ReceiptInv, [Next]_vars
               PROVE  ReceiptInv'
    BY NextType
  <2>1. CASE Input \/ SetMappingProfile \/ Runtime
    <3>1. UNCHANGED <<pending, next_id, executed, child, commands, messages>>
      BY <2>1 DEF Input, SetMappingProfile, Runtime, receipts, worker
    <3>2. OkMeansExecuted'
      <4>1. \A c \in Calls : answers'[c] \in {answers[c], "waiting"}
        BY <2>1 DEF Input, SetMappingProfile, Runtime, Send, receipts, TypeInv, ReceiptsOK
      <4>2. QED
        BY <3>1, <4>1, StaleAnswers DEF ReceiptInv
    <3>3. QED
      BY <3>1, <3>2, SameReceipts, KeptReceipts
  <2>2. CASE UNCHANGED vars
    BY <2>2, SameReceipts, KeptReceipts DEF vars, receipts, worker, ReceiptInv, OkMeansExecuted
  <2>3. QED
    BY <2>1, <2>2, SupervisorReceipt, WorkerReceipt DEF Next
<1>3. Inv => OkMeansExecuted
  BY DEF ReceiptInv
<1>4. QED
  BY <1>1, <1>2, <1>3, PTL DEF Spec
=============================================================================
