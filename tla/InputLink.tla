----------------------------- MODULE InputLink -----------------------------
(***************************************************************************)
(* The lock-free channel between the native input thread and the thread    *)
(* that owns the transport: taprelay-core/src/passthrough.rs.              *)
(*                                                                         *)
(* Every call is a short program of atomic accesses, and the accesses of   *)
(* different threads interleave.  pc[t] is what thread t has left to run,  *)
(* first access first; one action of this module is one access.  The two   *)
(* reads of "ready == generation" are one access: ready never exceeds      *)
(* revision, so finding them equal means that they are equal at the second *)
(* read; one thread makes all the calls of set_ready.                      *)
(*                                                                         *)
(* Left out: the mouse settings and media_boundary (no other variable      *)
(* depends on them), wake (a hint), the text of a failure, and instants.   *)
(* profile_available only says whether request_profile does anything; here *)
(* a call that does nothing is a call not made.                            *)
(***************************************************************************)
EXTENDS Naturals, Sequences, FiniteSets

CONSTANTS
  Threads,
  Consumer,       \* the thread that takes the packets
  Usages,         \* sets of calls by thread; a behaviour keeps to one of them
  Capacity,       \* QUEUE_CAPACITY
  MaxRevision,    \* bounds on the three counters
  MaxEpoch,
  MaxRequest

ASSUME BoundsAssumption ==
  /\ Consumer \in Threads
  /\ Capacity \in Nat \ {0}
  /\ MaxRevision \in Nat /\ MaxEpoch \in Nat /\ MaxRequest \in Nat
  /\ MaxEpoch < 64

\* The functions of InputLink, and those of its owners that call several of them
CallNames ==
  {"set_ready", "step", "begin", "end", "disconnect", "submit", "submit_mapping",
   "map_on", "map_off", "request", "change", "replace", "revoke"}

\* The consumer alone authorizes (Supervisor::step and set_ready of the worker
\* that owns the link), and captures are started and fed by one thread, the
\* native input thread.
UsageAssumption ==
  /\ IsFiniteSet(Threads)
  /\ Usages \subseteq [Threads -> SUBSET CallNames]
  /\ \A usage \in Usages : \A t, other \in Threads :
       /\ t # Consumer => "set_ready" \notin usage[t] /\ "step" \notin usage[t]
       /\ "begin" \in usage[t] /\ "submit" \in usage[other] => t = other

ASSUME LinkUsage == UsageAssumption

VARIABLES
  mode,            \* 0 revoked; odd authorises one start; even is an active epoch
  ready,           \* the generation that set_ready stored
  revision,        \* shared with everybody who may change the transport
  next_epoch,
  mapping_epoch,   \* 0, or the session of the custom mappings
  requested,       \* odd while whole-device capture is requested
  disconnected_epoch,
  failure,         \* a failure is recorded
  queue,           \* packets on their way to the transport thread
  pc, reg,         \* what a thread has left to run, and what it has read
  \* ------- observers
  granted,         \* token -> the generation it was granted for
  stopped,         \* tokens that a stop took away, with their epochs
  gaps,            \* <<thread, epoch>>: the thread lost a packet of the epoch
  calls            \* thread -> the calls it makes

shared == <<mode, ready, revision, next_epoch, mapping_epoch, requested,
            disconnected_epoch, failure, queue>>
seen   == <<granted, stopped, gaps, calls>>
vars   == <<shared, pc, reg, seen>>

Odd(n)  == n % 2 = 1
Even(n) == n % 2 = 0

\* set_mapping_profile marks its tokens with bit 63, so that a mapping session
\* is never taken for a capture.
MappingBit == 64
Mapping(n) == MappingBit + n

-----------------------------------------------------------------------------
\* What a caller sees.

\* ready == generation
Authorized == ready = revision

\* ready(): may a capture start now?
Ready == Odd(mode) /\ ready # 0 /\ Authorized

\* Faulty variant of Epoch: an epoch outlives the generation it was granted for
EpochUnchecked == IF Even(mode) THEN mode ELSE 0

\* epoch(): the active epoch, or 0
Epoch == IF Even(mode) /\ Authorized THEN mode ELSE 0

\* accepts(packet)
Accepts(p) ==
  \/ /\ p.epoch = mapping_epoch /\ mapping_epoch # 0
     /\ p.generation = revision
     /\ mode # 0
  \/ /\ p.epoch = Epoch /\ Epoch # 0
     /\ p.generation = revision

-----------------------------------------------------------------------------
\* The programs of the calls.

SetReady == <<"ready_check", "ready_mode", "ready_store", "ready_token", "ready_cas">>
Begin    == <<"begin_load", "begin_ready", "begin_cas">>
Suspend  == <<"suspend">>
End      == <<"end_mode", "end_check", "end_mapping", "end_request">> \o Suspend
Evidence == <<"disconnect_load", "disconnect_check", "disconnect_store">>

\* Faulty variant of Disconnect: leaves the evidence and forgets to end
DisconnectWithoutEnd == Evidence

Disconnect == Evidence \o End
Fail     == End \o <<"record_failure">>
Unmap    == <<"unmap_load", "unmap_store">>
MapOn    == <<"map_on_load", "map_on_token", "map_on_store">>
Step     == <<"step_mapping">> \o SetReady \o <<"take">>    \* of the consumer
Submit   == <<"submit_load", "submit_check", "submit_stamp", "submit_send">>
SubmitMapping == <<"map_load", "map_mode", "map_check", "map_stamp", "map_send">>

\* Faulty variant of Overflow: the mapping session survives a lost packet
OverflowUnrevoked(kind) == IF kind = "capture" THEN Fail ELSE Suspend \o <<"record_failure">>

\* What a full queue leads to.  Mapping admission goes first: `end` would
\* otherwise queue ReleasePhysical, and fail again.
Overflow(kind) == IF kind = "capture" THEN Fail ELSE Unmap \o Fail

Program(call) ==
  CASE call = "set_ready"      -> SetReady
    [] call = "step"           -> Step
    [] call = "begin"          -> Begin
    [] call = "end"            -> End
    [] call = "disconnect"     -> Disconnect
    [] call = "submit"         -> Submit
    [] call = "submit_mapping" -> SubmitMapping
    [] call = "map_on"         -> MapOn
    [] call = "map_off"        -> Unmap
    [] call = "request"        -> <<"request">>
    [] call = "change"         -> End \o <<"bump">>       \* Handle::change
    [] call = "replace"        -> Suspend \o <<"bump">>   \* replace_worker
    [] call = "revoke"         -> <<"bump">> \o End       \* Authorization::revoke

-----------------------------------------------------------------------------
\* One access of thread t.

Blank == [epoch |-> 0, generation |-> 0, captured |-> 0, kind |-> "capture"]

At(t, label) == pc[t] # << >> /\ Head(pc[t]) = label

\* Go on with `rest`; a thread that has nothing left forgets what it read.
Goto(t, rest, r) ==
  /\ pc' = [pc EXCEPT ![t] = rest]
  /\ reg' = [reg EXCEPT ![t] = IF rest = << >> THEN Blank ELSE r]

Continue(t, r) == Goto(t, Tail(pc[t]), r)
Proceed(t)     == Continue(t, reg[t])
Return(t)      == Goto(t, << >>, Blank)

\* Give up the n accesses that are left of a nested call.
Abandon(t, n)  == Goto(t, SubSeq(pc[t], n + 1, Len(pc[t])), reg[t])

\* The bounds: a call is made only if the counters have room for it and for
\* the calls under way.
Uses(program, labels) == \E i \in DOMAIN program : program[i] \in labels
Tokens == {"ready_token", "map_on_token"}

WithinBounds(call) ==
  LET pending(labels) == Cardinality({t \in Threads : Uses(pc[t], labels)})
  IN /\ Uses(Program(call), {"bump"}) => revision + pending({"bump"}) < MaxRevision
     /\ Uses(Program(call), Tokens)   => next_epoch + 2 * pending(Tokens) <= MaxEpoch
     /\ Uses(Program(call), {"request"}) => requested < MaxRequest

Call(t, call) ==
  /\ pc[t] = << >>
  /\ call \in calls[t]
  /\ WithinBounds(call)
  /\ Goto(t, Program(call), [Blank EXCEPT !.captured = revision, !.generation = revision])
  /\ UNCHANGED <<shared, seen>>

\* ------- set_ready(generation)

ReadyCheck(t) ==
  /\ At(t, "ready_check")
  /\ IF reg[t].generation = revision THEN Proceed(t) ELSE Abandon(t, 5)
  /\ UNCHANGED <<shared, seen>>

ReadyMode(t) ==
  /\ At(t, "ready_mode")
  /\ IF mode = 0 THEN Proceed(t) ELSE Abandon(t, 4)
  /\ UNCHANGED <<shared, seen>>

\* Faulty variant of ReadyStore: stores whatever the revision is by now
ReadyStoreLatest(t) ==
  /\ At(t, "ready_store")
  /\ ready' = revision
  /\ Proceed(t)
  /\ UNCHANGED <<mode, revision, next_epoch, mapping_epoch, requested,
                 disconnected_epoch, failure, queue, seen>>

ReadyStore(t) ==
  /\ At(t, "ready_store")
  /\ ready' = reg[t].generation
  /\ Proceed(t)
  /\ UNCHANGED <<mode, revision, next_epoch, mapping_epoch, requested,
                 disconnected_epoch, failure, queue, seen>>

\* Faulty variant of ReadyToken: tokens and epochs run into each other
ReadyTokenByOne(t) ==
  /\ At(t, "ready_token")
  /\ next_epoch' = next_epoch + 1
  /\ Continue(t, [reg[t] EXCEPT !.epoch = next_epoch])
  /\ UNCHANGED <<mode, ready, revision, mapping_epoch, requested,
                 disconnected_epoch, failure, queue, seen>>

ReadyToken(t) ==
  /\ At(t, "ready_token")
  /\ next_epoch' = next_epoch + 2
  /\ Continue(t, [reg[t] EXCEPT !.epoch = next_epoch])
  /\ UNCHANGED <<mode, ready, revision, mapping_epoch, requested,
                 disconnected_epoch, failure, queue, seen>>

ReadyCas(t) ==
  /\ At(t, "ready_cas")
  /\ \/ /\ mode = 0
        /\ mode' = reg[t].epoch
        /\ granted' = [granted EXCEPT ![reg[t].epoch] = reg[t].generation]
     \/ /\ mode # 0
        /\ UNCHANGED <<mode, granted>>
  /\ Proceed(t)
  /\ UNCHANGED <<ready, revision, next_epoch, mapping_epoch, requested,
                 disconnected_epoch, failure, queue, stopped, gaps, calls>>

\* ------- begin

BeginLoad(t) ==
  /\ At(t, "begin_load")
  /\ IF Odd(mode) THEN Continue(t, [reg[t] EXCEPT !.epoch = mode]) ELSE Return(t)
  /\ UNCHANGED <<shared, seen>>

BeginReady(t) ==
  /\ At(t, "begin_ready")
  /\ IF Ready THEN Proceed(t) ELSE Return(t)
  /\ UNCHANGED <<shared, seen>>

\* Faulty variant of BeginCas: does not compare, and so undoes a racing stop
BeginStore(t) ==
  /\ At(t, "begin_cas")
  /\ mode' = reg[t].epoch + 1
  /\ Return(t)
  /\ UNCHANGED <<ready, revision, next_epoch, mapping_epoch, requested,
                 disconnected_epoch, failure, queue, seen>>

BeginCas(t) ==
  /\ At(t, "begin_cas")
  /\ mode' = IF mode = reg[t].epoch THEN reg[t].epoch + 1 ELSE mode
  /\ Return(t)
  /\ UNCHANGED <<ready, revision, next_epoch, mapping_epoch, requested,
                 disconnected_epoch, failure, queue, seen>>

\* ------- end, suspend, disconnect, fail

\* A mapping session survives the end of a capture, and the receiver is told
\* to let go of what the capture held.
EndMode(t) ==
  /\ At(t, "end_mode")
  /\ IF Even(mode) /\ mode # 0 THEN Proceed(t) ELSE Abandon(t, 3)
  /\ UNCHANGED <<shared, seen>>

EndCheck(t) ==
  /\ At(t, "end_check")
  /\ IF Authorized THEN Proceed(t) ELSE Abandon(t, 2)
  /\ UNCHANGED <<shared, seen>>

EndMapping(t) ==
  /\ At(t, "end_mapping")
  /\ IF mapping_epoch # 0
       THEN Goto(t, SubmitMapping \o Tail(pc[t]),
                 [reg[t] EXCEPT !.captured = revision, !.kind = "release"])
       ELSE Proceed(t)
  /\ UNCHANGED <<shared, seen>>

\* update_profile_request(false)
EndRequest(t) ==
  /\ At(t, "end_request")
  /\ requested' = IF Odd(requested) THEN requested + 1 ELSE requested
  /\ Proceed(t)
  /\ UNCHANGED <<mode, ready, revision, next_epoch, mapping_epoch,
                 disconnected_epoch, failure, queue, seen>>

\* request_profile
Request(t) ==
  /\ At(t, "request")
  /\ requested' = IF Odd(requested) THEN requested ELSE requested + 1
  /\ Proceed(t)
  /\ UNCHANGED <<mode, ready, revision, next_epoch, mapping_epoch,
                 disconnected_epoch, failure, queue, seen>>

DoSuspend(t) ==
  /\ At(t, "suspend")
  /\ mode' = 0
  /\ stopped' = IF mode = 0 THEN stopped
                ELSE stopped \cup IF Odd(mode) THEN {mode, mode + 1} ELSE {mode - 1, mode}
  /\ Proceed(t)
  /\ UNCHANGED <<ready, revision, next_epoch, mapping_epoch, requested,
                 disconnected_epoch, failure, queue, granted, gaps, calls>>

DisconnectLoad(t) ==
  /\ At(t, "disconnect_load")
  /\ IF Even(mode) /\ mode # 0
       THEN Continue(t, [reg[t] EXCEPT !.epoch = mode]) ELSE Abandon(t, 3)
  /\ UNCHANGED <<shared, seen>>

DisconnectCheck(t) ==
  /\ At(t, "disconnect_check")
  /\ IF Authorized THEN Proceed(t) ELSE Abandon(t, 2)
  /\ UNCHANGED <<shared, seen>>

DisconnectStore(t) ==
  /\ At(t, "disconnect_store")
  /\ disconnected_epoch' = reg[t].epoch
  /\ Proceed(t)
  /\ UNCHANGED <<mode, ready, revision, next_epoch, mapping_epoch, requested,
                 failure, queue, seen>>

RecordFailure(t) ==
  /\ At(t, "record_failure")
  /\ failure' = TRUE
  /\ Proceed(t)
  /\ UNCHANGED <<mode, ready, revision, next_epoch, mapping_epoch, requested,
                 disconnected_epoch, queue, seen>>

\* revision.fetch_add(1), by whoever changes the transport
Bump(t) ==
  /\ At(t, "bump")
  /\ revision' = revision + 1
  /\ Proceed(t)
  /\ UNCHANGED <<mode, ready, next_epoch, mapping_epoch, requested,
                 disconnected_epoch, failure, queue, seen>>

\* ------- set_mapping_profile

UnmapLoad(t) ==
  /\ At(t, "unmap_load")
  /\ IF mapping_epoch # 0 THEN Proceed(t) ELSE Abandon(t, 2)
  /\ UNCHANGED <<shared, seen>>

UnmapStore(t) ==
  /\ At(t, "unmap_store")
  /\ mapping_epoch' = 0
  /\ Proceed(t)
  /\ UNCHANGED <<mode, ready, revision, next_epoch, requested,
                 disconnected_epoch, failure, queue, seen>>

MapOnLoad(t) ==
  /\ At(t, "map_on_load")
  /\ IF mapping_epoch = 0 THEN Proceed(t) ELSE Return(t)
  /\ UNCHANGED <<shared, seen>>

MapOnToken(t) ==
  /\ At(t, "map_on_token")
  /\ next_epoch' = next_epoch + 2
  /\ Continue(t, [reg[t] EXCEPT !.epoch = next_epoch])
  /\ UNCHANGED <<mode, ready, revision, mapping_epoch, requested,
                 disconnected_epoch, failure, queue, seen>>

MapOnStore(t) ==
  /\ At(t, "map_on_store")
  /\ mapping_epoch' = Mapping(reg[t].epoch)
  /\ Return(t)
  /\ UNCHANGED <<mode, ready, revision, next_epoch, requested,
                 disconnected_epoch, failure, queue, seen>>

\* ------- submit: an event of the active capture

SubmitLoad(t) ==
  /\ At(t, "submit_load")
  /\ IF Even(mode) /\ mode # 0
       THEN Continue(t, [reg[t] EXCEPT !.epoch = mode]) ELSE Return(t)
  /\ UNCHANGED <<shared, seen>>

SubmitCheck(t) ==
  /\ At(t, "submit_check")
  /\ IF Authorized THEN Proceed(t) ELSE Return(t)
  /\ UNCHANGED <<shared, seen>>

\* ------- submit_mapping_event: an event of the mapping session

MapLoad(t) ==
  /\ At(t, "map_load")
  /\ IF mapping_epoch # 0
       THEN Continue(t, [reg[t] EXCEPT !.epoch = mapping_epoch,
                                       !.kind = IF @ = "release" THEN @ ELSE "mapping"])
       ELSE Abandon(t, 5)
  /\ UNCHANGED <<shared, seen>>

MapMode(t) ==
  /\ At(t, "map_mode")
  /\ IF mode # 0 THEN Proceed(t) ELSE Abandon(t, 4)
  /\ UNCHANGED <<shared, seen>>

MapCheck(t) ==
  /\ At(t, "map_check")
  /\ IF Authorized THEN Proceed(t) ELSE Abandon(t, 3)
  /\ UNCHANGED <<shared, seen>>

\* ------- both submissions

\* The packet is stamped with the revision as it is by now.
Stamp(t) ==
  /\ At(t, "submit_stamp") \/ At(t, "map_stamp")
  /\ Continue(t, [reg[t] EXCEPT !.generation = revision])
  /\ UNCHANGED <<shared, seen>>

Packet(t) ==
  [epoch |-> reg[t].epoch, generation |-> reg[t].generation, kind |-> reg[t].kind,
   captured |-> reg[t].captured, late |-> <<t, reg[t].epoch>> \in gaps]

Send(t) ==
  /\ At(t, "submit_send") \/ At(t, "map_send")
  /\ \/ /\ Len(queue) < Capacity
        /\ queue' = Append(queue, Packet(t))
        /\ Proceed(t)
        /\ UNCHANGED gaps
     \/ /\ Len(queue) = Capacity
        /\ gaps' = gaps \cup {<<t, reg[t].epoch>>}
        /\ Goto(t, Overflow(reg[t].kind) \o Tail(pc[t]), reg[t])
        /\ UNCHANGED queue
  /\ UNCHANGED <<mode, ready, revision, next_epoch, mapping_epoch, requested,
                 disconnected_epoch, failure, granted, stopped, calls>>

\* ------- the step of the consumer

\* While a mapping session is open, admission is reopened before the packets
\* are taken (Supervisor::step).
StepMapping(t) ==
  /\ At(t, "step_mapping")
  /\ IF mapping_epoch # 0
       THEN Continue(t, [reg[t] EXCEPT !.generation = revision])
       ELSE Abandon(t, 6)
  /\ UNCHANGED <<shared, seen>>

\* The packets there are taken one by one; one that is not accepted by now is
\* discarded, every other one is forwarded.
Take(t) ==
  /\ At(t, "take")
  /\ IF queue = << >>
       THEN Return(t) /\ UNCHANGED queue
       ELSE queue' = Tail(queue) /\ UNCHANGED <<pc, reg>>
  /\ UNCHANGED <<mode, ready, revision, next_epoch, mapping_epoch, requested,
                 disconnected_epoch, failure, seen>>

-----------------------------------------------------------------------------

Init ==
  /\ mode = 0 /\ ready = 0 /\ revision = 1 /\ next_epoch = 1
  /\ mapping_epoch = 0 /\ requested = 0 /\ disconnected_epoch = 0
  /\ failure = FALSE /\ queue = << >>
  /\ pc = [t \in Threads |-> << >>] /\ reg = [t \in Threads |-> Blank]
  /\ granted = [n \in {m \in 0..MaxEpoch : Odd(m)} |-> 0]
  /\ stopped = {} /\ gaps = {} /\ calls \in Usages

Authorize(t) ==
  ReadyCheck(t) \/ ReadyMode(t) \/ ReadyStore(t) \/ ReadyToken(t) \/ ReadyCas(t)

Start(t) == BeginLoad(t) \/ BeginReady(t) \/ BeginCas(t)

Stop(t) ==
  \/ EndMode(t) \/ EndCheck(t) \/ EndMapping(t) \/ EndRequest(t) \/ DoSuspend(t)
  \/ DisconnectLoad(t) \/ DisconnectCheck(t) \/ DisconnectStore(t)
  \/ RecordFailure(t) \/ Bump(t)

Map(t) ==
  UnmapLoad(t) \/ UnmapStore(t) \/ MapOnLoad(t) \/ MapOnToken(t) \/ MapOnStore(t)

Deliver(t) ==
  \/ SubmitLoad(t) \/ SubmitCheck(t) \/ MapLoad(t) \/ MapMode(t) \/ MapCheck(t)
  \/ Stamp(t) \/ Send(t)

Next ==
  \/ \E t \in Threads :
       \/ \E call \in calls[t] : Call(t, call)
       \/ Authorize(t) \/ Start(t) \/ Stop(t) \/ Map(t) \/ Deliver(t) \/ Request(t)
       \/ StepMapping(t) \/ Take(t)

Spec == Init /\ [][Next]_vars

-----------------------------------------------------------------------------
\* Properties.

Packets == {queue[i] : i \in DOMAIN queue}

TypeOK ==
  /\ mode \in 0..MaxEpoch + 1 /\ ready \in 0..MaxRevision /\ revision \in 1..MaxRevision
  /\ Odd(next_epoch) /\ next_epoch <= MaxEpoch + 2
  /\ mapping_epoch = 0 \/ mapping_epoch \in Mapping(1)..Mapping(MaxEpoch)
  /\ requested \in 0..MaxRequest + 1
  /\ disconnected_epoch \in 0..MaxEpoch + 1
  /\ failure \in BOOLEAN
  /\ Len(queue) <= Capacity
  /\ \A p \in Packets : p.epoch # 0 /\ p.generation \in 1..revision /\ p.captured \in 1..revision

\* A stop is final: neither the start that a stop overtook nor a late grant
\* brings back a token or an epoch that suspend took away ("One CAS prevents
\* a racing stop from being undone").
StopIsFinal == mode \notin stopped

\* What is active, and what may start, was granted for the present generation.
GrantedNow ==
  /\ Epoch # 0 => granted[Epoch - 1] = revision
  /\ Ready => granted[mode] = revision

\* A captured event the transport thread accepts was captured under the
\* present generation, whatever generation the packet got stamped with.
CaptureIsCurrent ==
  \A p \in Packets : p.kind = "capture" /\ Accepts(p) => p.captured = revision

\* However grants, starts and changes of the transport interleave, a capture
\* and what it sends belong to the present generation: nothing that was on its
\* way when the receiver changed reaches the next one.
OfThisGeneration == GrantedNow /\ CaptureIsCurrent

\* No thread has an event accepted after it lost one of the same session: a
\* full queue ends the capture or the mapping session, so that a lost release
\* is followed by the reset of the session and never by later events.
NoGap == \A p \in Packets : Accepts(p) => ~p.late

\* Once disconnect has returned, the epoch it left as evidence is over and
\* stays over, even when the input thread ended it first.
LossIsOver ==
  disconnected_epoch # 0
    /\ (\A t \in Threads : "disconnect" \in calls[t] => pc[t] = << >>)
      => disconnected_epoch \in stopped /\ Epoch # disconnected_epoch

\* The cleanup that `end` queues when a mapping session outlives a capture
\* (ReleasePhysical: "End whole-device capture while keeping custom mapping
\* ownership") is not discarded while that session and the generation last:
\* it is all that releases the keys the capture left down.
CleanupDelivered ==
  [][(queue # << >> /\ queue' = Tail(queue) /\ Head(queue).kind = "release"
        /\ Head(queue).epoch = mapping_epoch /\ Head(queue).generation = revision)
       => Accepts(Head(queue))]_vars

=============================================================================
