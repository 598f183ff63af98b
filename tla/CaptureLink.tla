---------------------------- MODULE CaptureLink ----------------------------
(***************************************************************************)
(* What a native listener sees of the InputLink: taprelay-core/src/        *)
(* passthrough.rs with every call taken as one step.  Module InputLink has *)
(* the same calls one atomic access at a time; here the accesses of the    *)
(* other threads come between the calls of the listener, and the tokens    *)
(* and generations are reduced to what the listener can tell.              *)
(***************************************************************************)

VARIABLES
  requested,  \* capture_requested
  mode,       \* "closed", "offered" for one start, or "capturing"
  current,    \* ready is the generation of now
  mapping,    \* a mapping session is open
  held        \* observer: the receiver holds the output of the mapping, or
              \* its release was refused outside a capture

link == <<requested, mode, current, mapping>>

\* epoch() # 0
Capturing == mode = "capturing" /\ current

\* ready()
Ready == mode = "offered" /\ current

\* submit_mapping finds the session admitted
Admits == mapping /\ mode # "closed" /\ current

\* What becomes of a held output when its mapping is released
Released(captured) == IF Admits THEN "no" ELSE IF captured THEN "yes" ELSE "refused"

\* end, and fail but for its text
End == requested' = FALSE /\ mode' = "closed" /\ UNCHANGED <<current, mapping>>

\* begin, for a caller that found Ready
Begin == mode' = "capturing" /\ UNCHANGED <<requested, current, mapping>>

\* request_profile, where the profile is available
RequestProfile == requested' = TRUE /\ UNCHANGED <<mode, current, mapping>>

LinkKept == UNCHANGED link

\* ------- the other threads

\* set_ready; the generation may change before its last access
Grant ==
  /\ mode = "closed"
  /\ mode' = "offered"
  /\ current' \in BOOLEAN
  /\ UNCHANGED <<requested, mapping, held>>

\* Somebody changes the generation, and the worker starts from neutral.
Revise ==
  /\ current
  /\ current' = FALSE
  /\ held' = "no"
  /\ UNCHANGED <<requested, mode, mapping>>

\* suspend or end by the supervisor or the runtime, which replace the worker
\* or the generation with it
Close ==
  /\ mode # "closed"
  /\ mode' = "closed"
  /\ requested' \in {requested, FALSE}
  /\ held' = "no"
  /\ UNCHANGED <<current, mapping>>

\* set_mapping_profile; the receiver is neutral when a session ends
SetMappingProfile ==
  /\ mapping' = ~mapping
  /\ held' = "no"
  /\ UNCHANGED <<requested, mode, current>>

\* begin, for a caller that found Ready, returns false: another thread came between the
\* two, or after the capture was on; what was asked for stays asked for.
BeginFails ==
  /\ Ready
  /\ \/ Close \/ Revise
     \/ mode' = "capturing" /\ current' = FALSE /\ held' = "no" /\ UNCHANGED <<requested, mapping>>

Others == Grant \/ Revise \/ Close \/ SetMappingProfile

LinkInit ==
  /\ requested = FALSE /\ mode = "closed" /\ current = FALSE /\ mapping = FALSE
  /\ held = "no"

LinkTypeOK ==
  /\ requested \in BOOLEAN /\ mode \in {"closed", "offered", "capturing"}
  /\ current \in BOOLEAN /\ mapping \in BOOLEAN /\ held \in {"no", "yes", "refused"}
=============================================================================
