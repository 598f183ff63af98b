----------------------------- MODULE MCInputLink -----------------------------
(***************************************************************************)
(* InputLink as the supervisor of the Bluetooth worker shares it with the  *)
(* native input thread and the runtime: behaviours of whole-device capture, *)
(* and behaviours of captures next to a mapping session.  The native       *)
(* listeners, which see the link one call at a time, are behaviours of     *)
(* their own: part says whose behaviour it is, and what belongs to another *)
(* part does not move.  A fourth part is the schedule of pointer reports,  *)
(* which takes the packets out of the link's queue.                        *)
(***************************************************************************)
EXTENDS InputLink, Integers

CONSTANTS Parts,    \* of {"link", "windows", "macos", "pointer"}
          Board     \* what is typed on in the windows part

VARIABLES part,
          offer, asked, current, mapping, held,                 \* CaptureLink
          runtime, thread, request, attached, pass,             \* both listeners
          plan, down, edges, failed, quit, callback, owner, mouse, doubted,
          stop, broken, at, mapped, since, devices, motion, dropped,
          ptr_link, ptr_queue, ptr_sched, ptr_seen                          \* PointerSchedule

Windows == INSTANCE WindowsListener
             WITH Plans <- Board, Button <- "b", ToggleKey <- "t", MappingKey <- "m",
                  mode <- offer, requested <- asked
MacOS   == INSTANCE MacListener
             WITH Commands <- {"attach", "configure", "terminate"},
                  mode <- offer, requested <- asked

Moves(dx, wheel, percent, rate) ==
  [dx |-> dx, wheel |-> wheel, moves |-> dx # 0, click |-> FALSE, percent |-> percent, rate |-> rate]

\* Motion that leaves fractions, wheels of more and of less than a notch, and a click
MCInputs ==
  {Moves(3, 0, 50, 0), Moves(-1, 0, 50, 0), Moves(2, 0, 30, 2), Moves(0, 70, 50, 0), Moves(0, -240, 30, 0),
   [Moves(0, 0, 50, 0) EXCEPT !.click = TRUE]}

Pointer == INSTANCE PointerSchedule
             WITH link <- ptr_link, queue <- ptr_queue, sched <- ptr_sched, seen <- ptr_seen,
                  Inputs <- MCInputs, Intervals <- {1}, QueueCapacity <- 2,
                  MaxDisplacement <- 4, MaxNotches <- 2,
                  MaxInputs <- 3, MaxSessions <- 2, MaxGenerations <- 2

ASSUME Pointer!PointerAssumption

MCThreads == {"input", "runtime", "supervisor"}

CaptureCalls ==
  [t \in MCThreads |->
     CASE t = "input"      -> {"begin", "end", "submit", "request"}
       [] t = "runtime"    -> {"change"}
       [] t = "supervisor" -> {"set_ready", "step", "replace", "disconnect"}]

MappingCalls ==
  [t \in MCThreads |->
     CASE t = "input"      -> {"begin", "submit", "submit_mapping"}
       [] t = "runtime"    -> {"end", "map_on", "map_off"}
       [] t = "supervisor" -> {"set_ready", "step"}]

LinkUsages    == {CaptureCalls, MappingCalls}

\* A capture that the user stops while a mapping session goes on
CleanupCalls ==
  [t \in MCThreads |->
     CASE t = "input"      -> {"begin", "end"}
       [] t = "runtime"    -> {"map_on"}
       [] t = "supervisor" -> {"set_ready", "step"}]

CleanupUsages == {CleanupCalls}

\* Every policy command around one press of the toggle or of a mapping; a
\* button; two edges whose copies cross, in a listener that does not stop.
Boards ==
  {[keys |-> {"t", "m"}, commands |-> {"attach", "configure", "terminate"},
    sessions |-> TRUE, stops |-> TRUE, flight |-> 1],
   [keys |-> {"t", "b"}, commands |-> {"attach"},
    sessions |-> FALSE, stops |-> TRUE, flight |-> 1],
   [keys |-> {"t", "a"}, commands |-> {"attach"},
    sessions |-> FALSE, stops |-> FALSE, flight |-> 2]}

NoBoard == {}

-----------------------------------------------------------------------------
windows_only == <<plan, down, edges, failed, quit, callback, owner, mouse, doubted>>
macos_only   == <<stop, broken, at, mapped, since, devices, motion, dropped>>
listeners    == <<offer, asked, current, mapping, held, runtime, thread, request, attached, pass>>
pointers     == <<ptr_link, ptr_queue, ptr_sched, ptr_seen>>
all          == <<vars, part, listeners, windows_only, macos_only, pointers>>

NoLink ==
  /\ mode = 0 /\ ready = 0 /\ revision = 1 /\ next_epoch = 1
  /\ mapping_epoch = 0 /\ requested = 0 /\ disconnected_epoch = 0
  /\ failure = FALSE /\ queue = << >> /\ pc = << >> /\ reg = << >>
  /\ granted = << >> /\ stopped = {} /\ gaps = {} /\ calls = << >>
NoWindows ==
  /\ plan = 0 /\ down = 0 /\ edges = 0 /\ failed = 0 /\ quit = 0
  /\ callback = 0 /\ owner = 0 /\ mouse = 0 /\ doubted = 0
NoMacOS ==
  /\ stop = 0 /\ broken = 0 /\ at = 0 /\ mapped = 0 /\ since = 0
  /\ devices = 0 /\ motion = 0 /\ dropped = 0
NoListener ==
  /\ offer = 0 /\ asked = 0 /\ current = 0 /\ mapping = 0 /\ held = 0
  /\ runtime = 0 /\ thread = 0 /\ request = 0 /\ attached = 0 /\ pass = 0

NoPointer == ptr_link = 0 /\ ptr_queue = 0 /\ ptr_sched = 0 /\ ptr_seen = 0

PartsInit ==
  /\ part \in Parts
  /\ \/ part = "link" /\ Init /\ NoWindows /\ NoMacOS /\ NoListener /\ NoPointer
     \/ part = "windows" /\ Windows!Init /\ NoLink /\ NoMacOS /\ NoPointer
     \/ part = "macos" /\ MacOS!Init /\ NoLink /\ NoWindows /\ NoPointer
     \/ part = "pointer" /\ Pointer!Init /\ NoLink /\ NoWindows /\ NoMacOS /\ NoListener

InLink == part = "link" /\ UNCHANGED <<part, windows_only, macos_only, listeners, pointers>>
InWin  == part = "windows" /\ UNCHANGED <<part, vars, macos_only, pointers>>
InMac  == part = "macos" /\ UNCHANGED <<part, vars, windows_only, pointers>>
InPointer == part = "pointer" /\ UNCHANGED <<part, vars, listeners, windows_only, macos_only>>

PartsNext ==
  \/ InLink /\ \E t \in Threads : \E call \in calls[t] : Call(t, call)
  \/ InLink /\ \E t \in Threads : Authorize(t)
  \/ InLink /\ \E t \in Threads : Start(t)
  \/ InLink /\ \E t \in Threads : Stop(t)
  \/ InLink /\ \E t \in Threads : Map(t)
  \/ InLink /\ \E t \in Threads : Deliver(t)
  \/ InLink /\ \E t \in Threads : Request(t)
  \/ InLink /\ \E t \in Threads : StepMapping(t)
  \/ InLink /\ \E t \in Threads : Take(t)
  \/ InWin /\ \E what \in {"hook", "raw", "timer"} : Windows!SyncPassthrough(what)
  \/ InWin /\ \E copy \in {"hook", "raw"} : Windows!Observed(copy)
  \/ InWin /\ Windows!CallbackEnds
  \/ InWin /\ Windows!SessionLost
  \/ InWin /\ Windows!PolicyMessage
  \/ InWin /\ Windows!Start
  \/ InWin /\ \E command \in plan.commands : Windows!Request(command)
  \/ InWin /\ Windows!RequestFails
  \/ InWin /\ Windows!StopItself
  \/ InWin /\ Windows!DropHandle
  \/ InWin /\ Windows!Exit
  \/ InWin /\ Windows!Joined
  \/ InWin /\ \E k \in plan.keys : Windows!Edge(k)
  \/ InWin /\ Windows!HookLost
  \/ InWin /\ Windows!OtherThreads
  \/ InMac /\ MacOS!TogglePassthrough
  \/ InMac /\ MacOS!MappingKey
  \/ InMac /\ MacOS!RelativeMotion
  \/ InMac /\ MacOS!FlushMotion
  \/ InMac /\ MacOS!CallbackFails
  \/ InMac /\ MacOS!StopAfterCallback
  \/ InMac /\ MacOS!DeviceAdded
  \/ InMac /\ MacOS!DeviceRemoved
  \/ InMac /\ MacOS!Exit
  \/ InMac /\ MacOS!Revoked
  \/ InMac /\ MacOS!Checked
  \/ InMac /\ MacOS!SyncEpoch
  \/ InMac /\ MacOS!Tick
  \/ InMac /\ MacOS!Result
  \/ InMac /\ MacOS!PolicyCommand
  \/ InMac /\ \E command \in {"attach", "configure", "terminate"} : MacOS!Request(command)
  \/ InMac /\ MacOS!RequestFails
  \/ InMac /\ MacOS!Start
  \/ InMac /\ MacOS!DropHandle
  \/ InMac /\ MacOS!Joined
  \/ InMac /\ MacOS!OtherThreads
  \/ InPointer /\ Pointer!Takes
  \/ InPointer /\ Pointer!Linked

PartsSpec == PartsInit /\ [][PartsNext]_all

-----------------------------------------------------------------------------
\* The shapes of the states
TypesOK ==
  /\ part = "link" => TypeOK
  /\ part = "windows" => Windows!TypeOK
  /\ part = "macos" => MacOS!TypeOK
  /\ part = "pointer" => Pointer!TypeOK

\* Owned and Settled, of the listeners: what the receiver was given has an owner in a
\* listener that runs, and the router agrees with the keyboard about every key.
Owned ==
  /\ part = "windows" => Windows!Owned /\ Windows!Settled
  /\ part = "macos" => MacOS!Owned

\* Faithful, of the pointer: what is captured arrives where it was aimed, within one count
\* for each change of the percentage and one notch.
Faithful == part = "pointer" => Pointer!Faithful
=============================================================================
