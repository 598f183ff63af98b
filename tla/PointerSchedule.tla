-------------------------- MODULE PointerSchedule --------------------------
(***************************************************************************)
(* How captured motion, wheel and clicks become reports (taprelay-core     *)
(* passthrough/flow.rs and hid/input.rs), in the worker process of either  *)
(* platform: input is merged while it waits for its turn, displacement is  *)
(* scaled by a percentage, and the wheel is given in whole notches; what   *)
(* is left over is kept for the next report.                               *)
(*                                                                         *)
(* One step of ReportSchedule::take is one iteration of its loop, so that  *)
(* the link may change in between.  Both axes of motion are alike, as are  *)
(* both of the wheel: one of each is here.  A click stands for buttons.    *)
(* A wheel is counted in units of 1/120 notch, and time in ticks since the *)
(* last report.                                                            *)
(***************************************************************************)
EXTENDS Integers, Sequences

CONSTANTS
  Inputs,             \* what the supervisor forwards: an event, and options of the link
  Intervals,          \* between the reports of a connection
  QueueCapacity,
  MaxDisplacement,    \* of a report: 32767, and one more downwards
  MaxNotches,         \* of a report: 127
  MaxInputs, MaxSessions, MaxGenerations     \* bounds on the behaviours

Notch == 120
Whole == 100

PointerAssumption ==
  /\ \A input \in Inputs :
       /\ {input.dx, input.wheel} \subseteq Int /\ {input.moves, input.click} \subseteq BOOLEAN
       /\ input.percent \in 1..Whole /\ input.rate \in Nat
  /\ Intervals \subseteq Nat \ {0}
  /\ {QueueCapacity, MaxDisplacement, MaxNotches, MaxInputs, MaxSessions, MaxGenerations} \subseteq Nat

VARIABLES
  link,       \* session, generation, and the options that came with the last input
  queue,
  sched,      \* ReportSchedule with the batch of take, and the wheel of InputReports
  seen        \* observer: what was captured, and what the receiver was shown

vars == <<link, queue, sched, seen>>

None == <<>>
Larger(a, b) == IF a > b THEN a ELSE b
Size(n) == IF n < 0 THEN -n ELSE n

\* Division of the program: towards zero
Quotient(a, b) == IF a >= 0 THEN a \div b ELSE -((-a) \div b)
Left(a, b) == a - b * Quotient(a, b)

\* InputLink::accepts, of what a worker process is sent
Accepts(packet) ==
  /\ link.ready /\ link.session # 0
  /\ packet.session = link.session /\ packet.generation = link.generation

\* mouse_wait: a rate is a limit, never more than the connection allows.
Due == sched.since >= Larger(link.rate, sched.interval)

Forgotten == [session |-> 0, generation |-> 0, percent |-> 0]

\* clear_input, and InputReports::default
Cleared(s) ==
  [s EXCEPT !.pending = None, !.batch = None, !.turn = 0, !.remainder = 0, !.owner = Forgotten, !.wheel = 0]

-----------------------------------------------------------------------------
(* What reaches the schedule.                                               *)

\* Nothing of the session is captured yet.
Fresh(s) == [s EXCEPT !.captured = 0, !.reached = 0, !.owed = 0, !.shown = 0, !.changes = 0]

\* Command::Input of the worker, and submit_mapping_event; a full queue ends the session.
Input(input) ==
  /\ seen.inputs < MaxInputs /\ link.session # 0
  /\ LET options == [link EXCEPT !.percent = input.percent, !.rate = input.rate]
         event == [dx |-> input.dx, wheel |-> input.wheel, moves |-> input.moves, click |-> input.click]
         packet == [session |-> link.session, generation |-> link.generation, event |-> event,
                    at |-> seen.captured + input.dx]
         full == Len(queue) = QueueCapacity
     IN /\ link' = IF link.ready /\ full THEN [options EXCEPT !.session = 0, !.ready = FALSE] ELSE options
        /\ IF link.ready /\ ~full
           THEN /\ queue' = Append(queue, packet)
                /\ seen' = [seen EXCEPT !.captured = packet.at, !.inputs = @ + 1]
           ELSE UNCHANGED <<queue, seen>>
  /\ UNCHANGED sched

\* Command::Arm
Arm ==
  /\ link.ready /\ link.session = 0 /\ link.last < MaxSessions
  /\ link' = [link EXCEPT !.session = link.last + 1, !.last = @ + 1]
  /\ seen' = Fresh(seen) /\ UNCHANGED <<queue, sched>>

\* set_mapping_profile(FALSE), at Invalidate and at the loss of the transport
Disarm ==
  /\ link.session # 0 /\ link' = [link EXCEPT !.session = 0]
  /\ UNCHANGED <<queue, sched, seen>>

\* A generation ends, by a callback or after a failure, such as input older than 250 ms.
Renew ==
  /\ link.generation < MaxGenerations
  /\ link' = [link EXCEPT !.generation = @ + 1, !.ready = FALSE]
  /\ sched' = Cleared(sched)
  /\ seen' = [Fresh(seen) EXCEPT !.rolled = 0, !.notches = 0]
  /\ UNCHANGED queue

\* Command::Configure: the connection has an interval, and input is admitted.
Configure(interval) ==
  /\ sched.turn = 0 /\ (~link.ready \/ sched.interval # interval)
  /\ link' = [link EXCEPT !.ready = TRUE] /\ sched' = [sched EXCEPT !.interval = interval]
  /\ UNCHANGED <<queue, seen>>

Elapse ==
  /\ ~Due /\ sched' = [sched EXCEPT !.since = @ + 1]
  /\ UNCHANGED <<link, queue, seen>>

\* A report of something else takes the slot.
Other ==
  /\ link.ready /\ sched.turn = 0 /\ sched.since >= sched.interval
  /\ sched' = [sched EXCEPT !.since = 0] /\ UNCHANGED <<link, queue, seen>>

-----------------------------------------------------------------------------
(* ReportSchedule::take, one iteration of its loop at a time                *)

\* What was put back comes before the queue.
Line == sched.pending \o queue
First == Head(Line)

\* The first packet is taken out of the line, and the schedule becomes s.
Draw(s) ==
  /\ sched.turn < QueueCapacity
  /\ sched' = [s EXCEPT !.turn = sched.turn + 1]
  /\ queue' = IF sched.pending = None THEN Tail(queue) ELSE queue
  /\ UNCHANGED <<link, seen>>
Drawn == [sched EXCEPT !.pending = None]

\* merge_continuous: displacement is added up within the range of a report; a wheel that
\* turns back is not.
Mergeable(a, b) ==
  /\ ~a.click /\ ~b.click
  /\ a.wheel = 0 \/ b.wheel = 0 \/ (a.wheel > 0 <=> b.wheel > 0)
  /\ a.dx + b.dx \in -(MaxDisplacement + 1)..MaxDisplacement
  /\ Size(a.wheel + b.wheel) <= MaxNotches * Notch

Merged(a, b) == [a EXCEPT !.dx = @ + b.dx, !.wheel = @ + b.wheel, !.moves = @ \/ b.moves]

Joins(batch, packet) ==
  /\ batch.session = packet.session /\ batch.generation = packet.generation
  /\ Mergeable(batch.event, packet.event)

\* Input of another session or generation is dropped.
Drop == Line # <<>> /\ ~Accepts(First) /\ Draw(Drawn)

Open ==
  /\ Line # <<>> /\ Accepts(First) /\ sched.batch = None /\ Due /\ ~First.event.click
  /\ Draw([Drawn EXCEPT !.batch = <<First>>])

Merge ==
  /\ Line # <<>> /\ Accepts(First) /\ sched.batch # None /\ Joins(sched.batch[1], First)
  /\ Draw([Drawn EXCEPT !.batch = <<[@[1] EXCEPT !.event = Merged(@, First.event), !.at = First.at]>>])

\* The first packet is put back until its turn; the loop is over.
PutBack ==
  /\ Line # <<>> /\ Accepts(First) /\ sched.batch = None /\ ~Due /\ sched.turn < QueueCapacity
  /\ sched' = [sched EXCEPT !.pending = <<First>>, !.turn = 0]
  /\ queue' = IF sched.pending = None THEN Tail(queue) ELSE queue
  /\ sched' # sched /\ UNCHANGED <<link, seen>>

\* Nothing was found, in as many packets as the queue can hold.
Nothing ==
  /\ sched.batch = None /\ sched.turn > 0 /\ (Line = <<>> \/ sched.turn = QueueCapacity)
  /\ sched' = [sched EXCEPT !.turn = 0] /\ UNCHANGED <<link, queue, seen>>

-----------------------------------------------------------------------------
(* The reports.                                                             *)

\* A click is reported in its place.
Click ==
  /\ Line # <<>> /\ Accepts(First) /\ sched.batch = None /\ Due /\ First.event.click
  /\ sched.turn < QueueCapacity
  /\ sched' = [Drawn EXCEPT !.since = 0, !.turn = 0]
  /\ queue' = IF sched.pending = None THEN Tail(queue) ELSE queue
  /\ seen' = [seen EXCEPT !.reached = First.at] /\ UNCHANGED link

\* Faulty variant of Carried: every report is rounded by itself
CarriedNothing(owner) == 0

\* What is left of the displacement before, in the same session and at the same percentage
Carried(owner) == IF sched.owner = owner THEN sched.remainder ELSE 0

Owner(packet) ==
  [session |-> packet.session, generation |-> packet.generation, percent |-> link.percent]

\* The displacement of a report times one hundred, and its notches
Scaled(packet) == packet.event.dx * link.percent + Carried(Owner(packet))
Turned(packet) == Quotient(sched.wheel + packet.event.wheel, Notch)

\* Event::Motion, Wheel and Pointer of a session; a wheel that makes no notch is no report.
Report(packet, s) ==
  LET moved == [s EXCEPT !.remainder = Left(Scaled(packet), Whole), !.owner = Owner(packet)]
      shown == IF packet.event.moves THEN moved ELSE s
      sent == packet.event.moves \/ Turned(packet) # 0
  IN /\ sched' = [shown EXCEPT !.wheel = Left(@ + packet.event.wheel, Notch),
                               !.since = IF sent THEN 0 ELSE @]
     /\ seen' = [seen EXCEPT !.reached = packet.at,
                             !.owed = @ + packet.event.dx * link.percent,
                             !.shown = IF packet.event.moves THEN @ + Quotient(Scaled(packet), Whole) ELSE @,
                             !.changes = IF packet.event.moves /\ s.owner # Owner(packet) THEN @ + 1 ELSE @,
                             !.rolled = @ + packet.event.wheel, !.notches = @ + Turned(packet)]

\* The batch is complete; it is reported if it is still accepted.
Closed(s) ==
  LET over == [s EXCEPT !.batch = None, !.turn = 0]
  IN IF Accepts(sched.batch[1]) THEN Report(sched.batch[1], over) ELSE sched' = over /\ UNCHANGED seen

\* There is no more to merge, or what cannot join is put back.
Finish ==
  /\ sched.batch # None /\ UNCHANGED link
  /\ IF Line = <<>> \/ sched.turn = QueueCapacity THEN Closed(sched) /\ UNCHANGED queue
     ELSE /\ Accepts(First) /\ ~Joins(sched.batch[1], First)
          /\ Closed([sched EXCEPT !.pending = <<First>>]) /\ queue' = Tail(queue)

-----------------------------------------------------------------------------
Init ==
  /\ link = [session |-> 0, last |-> 0, generation |-> 1, ready |-> FALSE, percent |-> Whole, rate |-> 0]
  /\ queue = <<>>
  /\ sched = [pending |-> None, batch |-> None, turn |-> 0, remainder |-> 0, owner |-> Forgotten,
              wheel |-> 0, since |-> 0, interval |-> 1]
  /\ seen = [captured |-> 0, reached |-> 0, owed |-> 0, shown |-> 0, changes |-> 0,
             rolled |-> 0, notches |-> 0, inputs |-> 0]

Takes == Drop \/ Open \/ Merge \/ PutBack \/ Nothing \/ Click \/ Finish

Linked ==
  \/ \E input \in Inputs : Input(input)
  \/ Arm \/ Disarm \/ Renew \/ Elapse \/ Other
  \/ \E interval \in Intervals : Configure(interval)

Next == Takes \/ Linked

Spec == Init /\ [][Next]_vars

-----------------------------------------------------------------------------
TypeOK ==
  /\ link.session \in 0..link.last /\ link.last \in 0..MaxSessions
  /\ link.generation \in 1..MaxGenerations /\ link.percent \in 1..Whole
  /\ Len(queue) <= QueueCapacity /\ Len(sched.pending) <= 1 /\ Len(sched.batch) <= 1
  /\ sched.turn \in 0..QueueCapacity /\ sched.interval \in Intervals \cup {1}

\* Everything of the session that is still to be reported, in its order
Ahead == SelectSeq(sched.batch \o Line, Accepts)

\* The receiver's pointer is where the captured one was: what is ahead leads, without a gap,
\* from the place that was reported to the place that was captured, so that a click hits
\* what it was aimed at.
Unbroken ==
  LET Before(i) == IF i = 1 THEN seen.reached ELSE Ahead[i - 1].at
  IN link.ready /\ link.session # 0 =>
       /\ \A i \in DOMAIN Ahead : Ahead[i].at = Before(i) + Ahead[i].event.dx
       /\ seen.captured = Before(Len(Ahead) + 1)

\* Scaling loses less than one count at each change of the percentage, and nothing between;
\* the wheel is never a notch away; and whatever was merged fits into one report.
Exact ==
  /\ Size(seen.owed - Whole * seen.shown) <= (Whole - 1) * seen.changes
  /\ Size(seen.rolled - Notch * seen.notches) < Notch
  /\ \A i \in DOMAIN sched.batch :
       /\ Quotient(Scaled(sched.batch[i]), Whole) \in -(MaxDisplacement + 1)..MaxDisplacement
       /\ Size(Turned(sched.batch[i])) <= MaxNotches

\* What is captured arrives where it was aimed.
Faithful == Unbroken /\ Exact
=============================================================================
