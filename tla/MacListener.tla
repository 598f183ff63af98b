---------------------------- MODULE MacListener ----------------------------
(***************************************************************************)
(* The input listener of macOS: taprelay-macos/src/input.rs, with          *)
(* input/capture.rs, raw.rs, motion.rs and tap.rs.  One thread runs a      *)
(* loop: policy commands of the runtime, callbacks of the event tap and of *)
(* the HID manager, and then the checks and `sync`; other threads change   *)
(* the InputLink between two of its steps.                                 *)
(*                                                                         *)
(* Keys come once, from the event tap; of the router only what the link    *)
(* hears of is left: the toggle, the key of a custom mapping, and the      *)
(* motion of a capture, which has a queue of its own.  Left out: the       *)
(* other edges (module InputRouter), wheel, Caps Lock, which edges are     *)
(* consumed, and a link that replaces another.                             *)
(***************************************************************************)
EXTENDS CaptureLink

CONSTANT Commands   \* policy commands the runtime gives

VARIABLES
  runtime,          \* the runtime thread: idle, waiting for an answer, joining
  thread,           \* none, running or gone
  stop, broken,     \* Shared.stop; Policy.error is set
  request,          \* the policy command in the channel, or none
  at,               \* where the loop is: callbacks, sync or result
  attached,         \* Policy.link
  pass, mapped,     \* the router: passthrough, and the key of the mapping held
  since,            \* capture::Session has started
  devices,          \* a physical keyboard and a relative mouse are there
  motion,           \* samples wait in Motion
  dropped           \* the result of set_foreground releases the mapping

policy == <<attached, pass, mapped, since, motion>>
loop   == <<stop, broken, at, dropped, devices>>
handle == <<runtime, thread, request>>
listener_vars == <<link, held, policy, loop, handle>>

Running(where) == thread = "running" /\ at = where

-----------------------------------------------------------------------------
\* The capture.

\* What the router releases when it ends a capture or is terminated
Freed == IF mapped /\ held = "yes" THEN Released(pass) ELSE held

LinkEnds == IF attached THEN End ELSE LinkKept

\* stop_capture, after the outputs of the router were processed
StopCapture == LinkEnds /\ since' = FALSE /\ motion' = FALSE

\* end_capture and fail_capture: outside a capture the mapping stays held
EndCapture ==
  /\ pass' = FALSE
  /\ IF pass THEN mapped' = FALSE /\ held' = Freed ELSE UNCHANGED <<mapped, held>>
  /\ StopCapture

Quiet == UNCHANGED <<link, held, pass, mapped, since, motion>>

-----------------------------------------------------------------------------
\* Callbacks of the run loop; none runs once stop is set.

Callback == Running("callbacks") /\ UNCHANGED <<handle, attached, at, dropped>>

\* The shortcut of passthrough; a profile that is not available is not requested.
TogglePassthrough ==
  /\ Callback /\ ~stop
  /\ \/ (pass \/ (attached /\ requested)) /\ EndCapture
     \/ /\ ~pass /\ attached /\ ~requested
        /\ RequestProfile \/ LinkKept
        /\ UNCHANGED <<held, pass, mapped, since, motion>>
  /\ UNCHANGED <<stop, broken, devices>>

\* The key of a mapping goes down, or up again.
MappingKey ==
  /\ Callback /\ ~stop
  /\ mapped' = ~mapped
  /\ IF mapped THEN held' = IF held = "yes" THEN Released(FALSE) ELSE held
     ELSE mapping /\ held' = IF attached /\ Admits THEN "yes" ELSE held
  /\ UNCHANGED <<link, pass, since, motion, stop, broken, devices>>

\* value_changed: relative motion is queued in a capture only.
RelativeMotion ==
  /\ Callback
  /\ pass /\ since
  /\ motion' = TRUE
  /\ UNCHANGED <<link, held, pass, mapped, since, stop, broken, devices>>

\* flush_motion
FlushMotion ==
  /\ Callback
  /\ motion
  /\ motion' = FALSE
  /\ UNCHANGED <<link, held, pass, mapped, since, stop, broken, devices>>

\* An error of the tap, of the HID manager or of the replay, a key without a
\* usage, a queue that is full.  Left out: the queue of replays, which every
\* round empties, is full (it would stop the capture before the releases).
CallbackFails ==
  /\ Callback
  /\ broken' = TRUE
  /\ EndCapture
  /\ UNCHANGED <<stop, devices>>

\* A callback that finds the policy locked, or panics
StopAfterCallback ==
  /\ Callback
  /\ stop' = TRUE
  /\ Quiet
  /\ UNCHANGED <<broken, devices>>

DeviceAdded ==
  /\ Callback
  /\ devices' = TRUE
  /\ Quiet
  /\ UNCHANGED <<stop, broken>>

\* One keyboard or mouse goes; others may be left.
DeviceRemoved ==
  /\ Callback
  /\ devices' \in {devices, FALSE}
  /\ IF pass \/ (attached /\ requested) THEN EndCapture ELSE Quiet
  /\ UNCHANGED <<stop, broken>>

-----------------------------------------------------------------------------
\* The rest of an iteration.

\* After the callbacks: a listener that has to stop leaves the loop.
Leaves == thread' = "gone" /\ request' = "none"

Exit ==
  /\ Running("callbacks")
  /\ stop \/ broken
  /\ Leaves
  /\ EndCapture
  /\ UNCHANGED <<runtime, attached, loop>>

\* The session, Secure Input or a permission is lost.
Revoked ==
  /\ Running("callbacks") /\ ~stop /\ ~broken
  /\ broken' = TRUE
  /\ Leaves
  /\ EndCapture
  /\ UNCHANGED <<runtime, attached, stop, at, dropped, devices>>

\* set_foreground cancels a mapping that is out of scope; the release waits
\* in the result until sync has run.
Checked ==
  /\ Running("callbacks") /\ ~stop /\ ~broken
  /\ at' = "sync"
  /\ \E out \in {FALSE, mapped} :
       dropped' = out /\ mapped' = (mapped /\ ~out)
  /\ UNCHANGED <<link, held, attached, pass, since, motion, stop, broken, devices, handle>>

\* sync, first part: a capture that somebody else ended
SyncEpoch ==
  /\ Running("sync")
  /\ at' = "tick"
  /\ IF pass /\ ~(attached /\ Capturing) THEN EndCapture ELSE Quiet
  /\ UNCHANGED <<attached, stop, broken, dropped, devices, handle>>

\* capture::Session::tick.  The tap, or Secure Input, may stand in the way.
Transport == attached /\ requested /\ IF since THEN Capturing ELSE Ready

Tick ==
  /\ Running("tick")
  /\ at' = "result"
  /\ \/ ~Transport /\ since /\ EndCapture
     \/ ~Transport /\ ~since /\ Quiet
     \/ Transport /\ EndCapture                   \* Failed, or a stalled mouse
     \/ Transport /\ devices /\ since /\ Quiet
     \/ /\ Transport /\ devices /\ ~since
        /\ Begin
        /\ since' = TRUE /\ motion' = FALSE
        /\ pass' = TRUE
        /\ mapped' = FALSE /\ held' = Freed
     \/ /\ Transport /\ devices /\ ~since
        /\ BeginFails
        /\ UNCHANGED <<since, motion, pass, mapped>>
  /\ UNCHANGED <<attached, stop, broken, dropped, devices, handle>>

\* The result is processed, and the loop starts again.
Result ==
  /\ Running("result")
  /\ at' = "callbacks"
  /\ dropped' = FALSE
  /\ held' = IF dropped /\ held = "yes" THEN Released(FALSE) ELSE held
  /\ UNCHANGED <<link, policy, stop, broken, devices, handle>>

-----------------------------------------------------------------------------
\* The policy commands.

AttachPassthrough ==
  /\ EndCapture
  /\ attached' = TRUE

\* The new settings may end the capture, or the mapping.
Configure ==
  /\ UNCHANGED attached
  /\ \/ Quiet
     \/ /\ mapped' = FALSE /\ held' = Freed
        /\ pass' = FALSE
        /\ IF pass THEN StopCapture ELSE UNCHANGED <<link, since, motion>>

Terminate ==
  /\ UNCHANGED attached
  /\ mapped' = FALSE /\ held' = Freed
  /\ pass' = FALSE
  /\ StopCapture

PolicyCommand ==
  /\ Running("callbacks") /\ ~stop
  /\ \/ request = "attach" /\ AttachPassthrough
     \/ request = "configure" /\ Configure
     \/ request = "terminate" /\ Terminate
  /\ request' = "none"
  /\ runtime' = IF runtime = "waiting" THEN "idle" ELSE runtime
  /\ UNCHANGED <<thread, loop>>

Request(command) ==
  /\ runtime = "idle" /\ thread # "none"
  /\ (command = "attach") = ~attached
  /\ request' = command
  /\ runtime' = "waiting"
  /\ UNCHANGED <<link, held, policy, loop, thread>>

\* No answer within half a second, or no thread: the runtime stops the
\* listener and ends the link itself, and the next tick replaces the session.
RequestFails ==
  /\ runtime = "waiting"
  /\ runtime' = "idle"
  /\ stop' = TRUE
  /\ IF attached THEN End /\ held' = "no" ELSE UNCHANGED <<link, held>>
  /\ UNCHANGED <<policy, broken, at, dropped, devices, thread, request>>

-----------------------------------------------------------------------------
\* The life of the listener.

Start ==
  /\ runtime = "idle" /\ thread = "none"
  /\ thread' = "running" /\ at' = "callbacks"
  /\ stop' = FALSE /\ broken' = FALSE /\ request' = "none"
  /\ attached' = FALSE /\ pass' = FALSE /\ mapped' = FALSE
  /\ since' = FALSE /\ motion' = FALSE /\ devices' = FALSE /\ dropped' = FALSE
  /\ UNCHANGED <<link, held, runtime>>

\* Drop for InputHandle
DropHandle ==
  /\ runtime = "idle" /\ thread # "none"
  /\ runtime' = "joining"
  /\ stop' = TRUE
  /\ UNCHANGED <<link, held, policy, broken, at, dropped, devices, thread, request>>

\* The join; the tick that finds a listener gone replaces the generation.
Joined ==
  /\ runtime = "joining" /\ thread = "gone"
  /\ runtime' = "idle" /\ thread' = "none"
  /\ End \/ LinkKept
  /\ held' = "no"
  /\ UNCHANGED <<policy, loop, request>>

OtherThreads == Others /\ UNCHANGED <<policy, loop, handle>>

Init ==
  /\ LinkInit
  /\ runtime = "idle" /\ thread = "none" /\ stop = FALSE /\ broken = FALSE
  /\ request = "none" /\ at = "callbacks"
  /\ attached = FALSE /\ pass = FALSE /\ mapped = FALSE /\ since = FALSE
  /\ devices = FALSE /\ motion = FALSE /\ dropped = FALSE

Next ==
  \/ TogglePassthrough \/ MappingKey \/ RelativeMotion \/ FlushMotion
  \/ CallbackFails \/ StopAfterCallback \/ DeviceAdded \/ DeviceRemoved
  \/ Exit \/ Revoked \/ Checked \/ SyncEpoch \/ Tick \/ Result
  \/ PolicyCommand \/ (\E command \in Commands : Request(command)) \/ RequestFails
  \/ Start \/ DropHandle \/ Joined \/ OtherThreads

Spec == Init /\ [][Next]_listener_vars

-----------------------------------------------------------------------------
\* Properties.

TypeOK ==
  /\ LinkTypeOK
  /\ runtime \in {"idle", "waiting", "joining"} /\ thread \in {"none", "running", "gone"}
  /\ request \in {"none"} \cup Commands
  /\ at \in {"callbacks", "sync", "tick", "result"}
  /\ {stop, broken, attached, pass, mapped, since, devices, motion, dropped} \subseteq BOOLEAN

\* What the receiver was given has an owner in a listener that runs: a live
\* capture the router in passthrough, with a physical keyboard and mouse; the
\* output of a mapping the key that was pressed for it, or the release that
\* the loop is about to process, except where that was refused outside a
\* capture.  Motion waits in a capture only.
Owned ==
  /\ Capturing => thread = "running" /\ attached /\ pass /\ since /\ devices
  /\ held = "yes" /\ thread = "running" => mapped \/ dropped
  /\ motion => pass /\ since

=============================================================================
