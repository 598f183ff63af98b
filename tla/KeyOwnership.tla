---------------------------- MODULE KeyOwnership ----------------------------
(***************************************************************************)
(* What input routing promises about one press of a key, without saying    *)
(* how it decides: a press goes to exactly one party, and what comes after *)
(* it follows the same way until the key is physically released.  The only *)
(* other thing that may happen to a held key is that it is taken away from *)
(* its owner, and then nobody gets the rest of that press.                 *)
(***************************************************************************)
CONSTANT Codes
VARIABLE owner

Owners == {"up", "local", "remote", "captured", "suppressed"}

Of(kind) == {c \in Codes : owner[c] = kind}

Init == owner = [c \in Codes |-> "up"]

\* c gets a new owner while the captured presses of S are taken away; that
\* happens when c is a modifier that a repeating shortcut depends on.
Hand(c, to, S) ==
  owner' = [x \in Codes |-> IF x = c THEN to
                            ELSE IF x \in S THEN "suppressed" ELSE owner[x]]

Press(c) ==
  /\ owner[c] = "up"
  /\ \E to \in {"local", "remote", "captured"}, S \in SUBSET Of("captured") :
       Hand(c, to, S)

Release(c) ==
  /\ owner[c] # "up"
  /\ \E S \in SUBSET Of("captured") : Hand(c, "up", S)

\* Captured presses may be taken away one by one ...
Cancel(S) ==
  owner' = [c \in Codes |-> IF c \in S THEN "suppressed" ELSE owner[c]]

\* ... presses of the computer or of the receiver only all at once.
Isolate ==
  owner' = [c \in Codes |-> IF owner[c] = "up" THEN "up" ELSE "suppressed"]

Next ==
  \/ \E c \in Codes : Press(c) \/ Release(c)
  \/ \E S \in SUBSET Of("captured") : Cancel(S)
  \/ Isolate

Spec == Init /\ [][Next]_owner
=============================================================================
