--------------------------- MODULE WorkerProcess ---------------------------
(***************************************************************************)
(* The handle of a Bluetooth worker process and what is behind it          *)
(* (bluetooth_worker/process.rs, protocol.rs, child.rs): the queue of      *)
(* commands, the writer thread, the pipe into the process, the reader      *)
(* thread and the loop of the process, the pipe back, and the thread that  *)
(* reads it.  The process owns the native Bluetooth service, and any call  *)
(* of it into the system may hang.  Stopping it asks it to shut down and   *)
(* drains what it reports, and kills it when 400 ms did not do.            *)
(*                                                                         *)
(* Each queue and pipe is bounded and each thread takes steps of its own.  *)
(* A command is its place in the order of sending; what a message says is  *)
(* left to BluetoothSupervisor, which takes this channel as given.  The    *)
(* 400 ms pass when nothing but a hung call is left to be done: a process  *)
(* that is merely slow is not modelled.                                    *)
(***************************************************************************)
EXTENDS Integers, Sequences, FiniteSets, SequencesExt

CONSTANTS
  QueueCapacity,     \* of the commands, on either side of the pipe: 1024
  IncomingCapacity,  \* of the messages that were read: 128
  PipeCapacity,      \* of the pipes, in commands or messages
  MaxOwners, MaxSends, MaxMessages   \* bounds on the behaviours

ProcessAssumption ==
  {QueueCapacity, IncomingCapacity, PipeCapacity, MaxOwners, MaxSends, MaxMessages} \subseteq Nat

VARIABLES
  host,     \* the supervisor, as far as it concerns its worker
  owners    \* Worker and its process, in the order they were started

vars == <<host, owners>>

Init_     == 0
Shutdown  == -1
Nothing   == -2

Now == Len(owners)
Current == owners[Now]

Start ==
  [\* the handle: the end of outgoing, the flag, what was sent, incoming
   outgoing |-> << >>, open |-> TRUE, stopping |-> FALSE, sent |-> << >>,
   incoming |-> << >>, receives |-> TRUE, exited |-> FALSE, killed |-> FALSE,
   \* the threads and the pipes
   writer |-> "init", held |-> Nothing, stdin |-> << >>, reader |-> TRUE, stdout |-> 0,
   \* the process
   child |-> "reading", hung |-> FALSE, listens |-> FALSE, commands |-> << >>,
   owed |-> 0, said |-> 0, handled |-> << >>]

\* What was sent and said by all of them, which the bounds are about
AlreadySent == MapThenSumSet(LAMBDA w : Len(owners[w].sent), DOMAIN owners)
Said == MapThenSumSet(LAMBDA w : owners[w].said, DOMAIN owners)

Alive(o) == o.child # "exited"

\* Sets owner w to o
Becomes(w, o) == owners' = [owners EXCEPT ![w] = o]

\* try_send of an error: lost when there is no room for it
Reported(o) ==
  IF o.receives /\ Len(o.incoming) < IncomingCapacity
  THEN [o EXCEPT !.incoming = Append(@, "failure")] ELSE o

-----------------------------------------------------------------------------
\* The threads of the handle

Room(o) == Len(o.stdin) < PipeCapacity

Written(o, command, next) ==
  IF Alive(o) THEN [o EXCEPT !.stdin = Append(@, command), !.writer = next, !.held = Nothing]
  ELSE Reported([o EXCEPT !.writer = "done", !.held = Nothing])

\* The flag is read before a command is waited for and again when it has come.
WriterTurn(w, o) ==
  /\ o.writer = "loop" /\ (o.stopping \/ ~o.open \/ o.outgoing # << >>)
  /\ Becomes(w,
       IF o.stopping \/ o.outgoing = << >> THEN [o EXCEPT !.writer = "shutdown"]
       ELSE [o EXCEPT !.writer = "checks", !.held = Head(o.outgoing), !.outgoing = Tail(@)])

WriterChecks(w, o) ==
  /\ o.writer = "checks"
  /\ Becomes(w, IF o.stopping THEN [o EXCEPT !.writer = "loop", !.held = Nothing]
                ELSE [o EXCEPT !.writer = "writes"])

\* A write waits for room in the pipe, and fails once the process is gone.
Writes(w, o) ==
  /\ Room(o) \/ ~Alive(o)
  /\ \/ o.writer = "init" /\ Becomes(w, Written(o, Init_, "loop"))
     \/ o.writer = "writes" /\ Becomes(w, Written(o, o.held, "loop"))
     \/ o.writer = "shutdown" /\ Becomes(w, Written(o, Shutdown, "done"))

\* The thread that reads the messages waits for room in incoming; at the end of
\* the pipe it reports the failure if it can.
StatusThread(w, o) ==
  /\ o.reader
  /\ \/ /\ o.stdout > 0 /\ o.receives /\ Len(o.incoming) < IncomingCapacity
        /\ Becomes(w, [o EXCEPT !.stdout = @ - 1, !.incoming = Append(@, "message")])
     \/ /\ o.stdout > 0 /\ ~o.receives
        /\ Becomes(w, [o EXCEPT !.reader = FALSE])
     \/ /\ o.stdout = 0 /\ ~Alive(o)
        /\ Becomes(w, Reported([o EXCEPT !.reader = FALSE]))

Threads(w, o) == WriterTurn(w, o) \/ WriterChecks(w, o) \/ Writes(w, o) \/ StatusThread(w, o)

-----------------------------------------------------------------------------
\* The process

Exits(o) == [o EXCEPT !.child = "exited", !.owed = 0, !.listens = FALSE]
InputEnded(o) == o.writer = "done" /\ o.stdin = << >>

\* run, up to its loop; the service may fail to start
Begins(w, o) ==
  /\ o.child = "reading"
  /\ \/ InputEnded(o) /\ Becomes(w, Exits(o))
     \/ /\ o.stdin # << >>
        /\ Becomes(w, IF Head(o.stdin) # Init_ THEN Exits(o)
                      ELSE [o EXCEPT !.child = "starting", !.stdin = Tail(@),
                                     !.handled = <<Init_>>])

Serves(w, o) ==
  /\ o.child = "starting"
  /\ Becomes(w, Exits(o)) \/ Becomes(w, [o EXCEPT !.child = "loop", !.listens = TRUE])

\* The reader thread goes on while the loop is in a native call.
Listens(w, o) ==
  /\ o.listens
  /\ \/ /\ o.stdin # << >> /\ Len(o.commands) < QueueCapacity
        /\ Becomes(w, [o EXCEPT !.stdin = Tail(@), !.commands = Append(@, Head(o.stdin))])
     \/ InputEnded(o) /\ Becomes(w, [o EXCEPT !.listens = FALSE])

\* One command of a batch, or a turn without one, and what it makes the process say
Turn(w, o) ==
  /\ o.child = "loop" /\ o.owed = 0
  /\ \/ /\ o.commands # << >>
        /\ \E n \in 0..(MaxMessages - Said) :
             Becomes(w, [o EXCEPT !.commands = Tail(@), !.handled = Append(@, Head(o.commands)),
                                  !.owed = IF Head(o.commands) = Shutdown THEN 0 ELSE n,
                                  !.said = @ + n,
                                  !.child = IF Head(o.commands) = Shutdown THEN "closing" ELSE @])
     \/ /\ o.commands = << >> /\ Said < MaxMessages
        /\ Becomes(w, [o EXCEPT !.owed = 1, !.said = @ + 1])
     \/ /\ o.commands = << >> /\ ~o.listens
        /\ Becomes(w, [o EXCEPT !.child = "closing"])

\* protocol::write to stdout waits for room, and fails once nobody reads.
Says(w, o) ==
  /\ o.owed > 0 /\ (o.stdout < PipeCapacity \/ ~o.reader)
  /\ Becomes(w, IF o.reader THEN [o EXCEPT !.owed = @ - 1, !.stdout = @ + 1] ELSE Exits(o))

\* drop(handle), which waits for the native service
Closes(w, o) == o.child = "closing" /\ Becomes(w, Exits(o))

Runs(w, o) ==
  \/ ~o.hung /\ (Begins(w, o) \/ Serves(w, o) \/ Turn(w, o) \/ Says(w, o) \/ Closes(w, o))
  \/ Listens(w, o)

\* A native call hangs, or an error ends the process.
Breaks(w, o) ==
  /\ ~o.hung /\ o.owed = 0 /\ o.child \in {"starting", "loop", "closing"}
  /\ Becomes(w, [o EXCEPT !.hung = TRUE]) \/ (o.child = "loop" /\ Becomes(w, Exits(o)))

Progress == \E w \in DOMAIN owners : Threads(w, owners[w]) \/ Runs(w, owners[w])
Quiet == ~ENABLED Progress

-----------------------------------------------------------------------------
\* The supervisor

\* stop; next says whether replace_worker or finish called it
Stopping(next) ==
  /\ host' = [at |-> "stopping", next |-> next]
  /\ Becomes(Now, [Current EXCEPT !.stopping = TRUE, !.open = FALSE])

\* An error ends the supervisor, or the full profile falls back to another worker.
Failing == \E next \in {"start", "end"} : Stopping(next)

Send ==
  /\ host.at = "running" /\ AlreadySent < MaxSends
  /\ IF Current.writer = "done" \/ Len(Current.outgoing) = QueueCapacity THEN Failing
     ELSE LET k == Len(Current.sent) + 1 IN
          /\ Becomes(Now, [Current EXCEPT !.outgoing = Append(@, k), !.sent = Append(@, k)])
          /\ UNCHANGED host

Receive ==
  /\ host.at = "running"
  /\ IF Current.incoming = << >> THEN ~Current.reader /\ Current.writer = "done" /\ Failing
     ELSE IF Head(Current.incoming) = "failure" THEN Failing
     ELSE Becomes(Now, [Current EXCEPT !.incoming = Tail(@)]) /\ UNCHANGED host

Check == host.at = "running" /\ ~Alive(Current) /\ Failing

\* A change of the profile, a selection, a restart, the end of the application
Retire == host.at = "running" /\ \E next \in {"start", "end"} : Stopping(next)

\* Mutant of Drain: stop only waits.
DrainNothing == FALSE

\* The wait of stop
Drain ==
  /\ host.at = "stopping" /\ Alive(Current) /\ Current.incoming # << >>
  /\ Becomes(Now, [Current EXCEPT !.incoming = Tail(@)]) /\ UNCHANGED host

Expired == host.at = "stopping" /\ Alive(Current) /\ Quiet /\ Current.incoming = << >>

Kill ==
  /\ Expired /\ ~Current.killed
  /\ Becomes(Now, [Exits(Current) EXCEPT !.killed = TRUE]) /\ UNCHANGED host

\* The worker is dropped: its threads go on until the process is gone.
Abandoned(o) == [o EXCEPT !.receives = FALSE, !.incoming = << >>]

\* Its process is gone: each thread finds its pipe closed.
Reaped(o) == [Abandoned(o) EXCEPT !.exited = TRUE, !.outgoing = << >>, !.held = Nothing,
                                  !.writer = "done", !.reader = FALSE, !.stdin = << >>,
                                  !.stdout = 0, !.commands = << >>]

\* Neither try_wait nor kill has to succeed: then run ends, without another start.
StopFails ==
  /\ host.at = "stopping" /\ Expired
  /\ host' = [at |-> "ended", next |-> "end"] /\ Becomes(Now, Abandoned(Current))

\* The process is reaped; the next one is started, unless the application ends meanwhile.
Stopped ==
  /\ host.at = "stopping" /\ ~Alive(Current)
  /\ LET reaped == [owners EXCEPT ![Now] = Reaped(@)] IN
       \/ /\ host.next = "start" /\ Now < MaxOwners
          /\ host' = [at |-> "running", next |-> "start"]
          /\ owners' = Append(reaped, Start)
       \/ host' = [at |-> "ended", next |-> "end"] /\ owners' = reaped

\* The application dies, and its threads with it: its ends of the pipes are closed.
HostDies ==
  /\ host.at \in {"running", "stopping"}
  /\ host' = [at |-> "died", next |-> "end"]
  /\ owners' = [w \in DOMAIN owners |->
       [Abandoned(owners[w]) EXCEPT !.open = FALSE, !.outgoing = << >>, !.held = Nothing,
                                    !.writer = "done", !.reader = FALSE]]

Init == host = [at |-> "running", next |-> "start"] /\ owners = <<Start>>

\* What the supervisor does, its wait in stop, and the threads of either side
Calls == Send \/ Receive \/ Check \/ Retire \/ HostDies
Waits == Drain \/ Kill \/ StopFails \/ Stopped
Processes == UNCHANGED host /\ (Progress \/ \E w \in DOMAIN owners : Breaks(w, owners[w]))

Next == Calls \/ Waits \/ Processes

\* The system runs the threads, and the wait of stop goes on.
Work == (Progress /\ UNCHANGED host) \/ Waits

-----------------------------------------------------------------------------
TypeOK ==
  /\ host.at \in {"running", "stopping", "ended", "died"} /\ Now \in 1..MaxOwners
  /\ \A w \in DOMAIN owners :
       /\ Len(owners[w].outgoing) <= QueueCapacity /\ Len(owners[w].commands) <= QueueCapacity
       /\ Len(owners[w].stdin) <= PipeCapacity /\ owners[w].stdout \in 0..PipeCapacity
       /\ Len(owners[w].incoming) <= IncomingCapacity

\* There is never more than one owner of the Bluetooth service, not even when a
\* stop fails or the application dies.
OneOwner == \A v, w \in DOMAIN owners : Alive(owners[v]) /\ Alive(owners[w]) => v = w

\* A process sees its initial command, then what was sent to it in that order
\* without a gap, and Shutdown at the end and only when it is retired.
InOrder ==
  \A w \in DOMAIN owners :
    LET o == owners[w]
        told == SelectSeq(o.handled, LAMBDA command : command # Shutdown)
    IN  /\ IsPrefix(told, <<Init_>> \o o.sent)
        /\ o.handled \in {told, Append(told, Shutdown)}
        /\ o.handled # told => o.stopping

\* Only a process that hangs in a native call is killed: none because its
\* reports fill the pipe while it is being stopped.
KilledIfHung == \A w \in DOMAIN owners : owners[w].killed => owners[w].hung

\* What is true of the owners at any time
Owned == OneOwner /\ InOrder /\ KilledIfHung

\* A stop ends; a process whose application is gone exits unless it hangs.
StopEnds == host.at = "stopping" ~> host.at # "stopping"
OrphanExits ==
  host.at = "died" ~> \A w \in DOMAIN owners : owners[w].hung \/ ~Alive(owners[w])
=============================================================================
