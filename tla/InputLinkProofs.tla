-------------------------- MODULE InputLinkProofs --------------------------
(***************************************************************************)
(* Proofs about InputLink for every set of threads and calls that keeps    *)
(* UsageAssumption, and every value of the bounds.                         *)
(***************************************************************************)
EXTENDS InputLink, TLAPS, SequenceTheorems, FiniteSetTheorems

-----------------------------------------------------------------------------
(***************************************************************************)
(* What a thread has left to run.  Accesses that are not nested in one     *)
(* another's calls are of two kinds: those of calls that neither end a     *)
(* capture nor send for a mapping (Brief), and the others (Lengthy).       *)
(***************************************************************************)
Brief ==
  {"step_mapping", "ready_check", "ready_mode", "ready_store", "ready_token", "ready_cas",
   "take", "begin_load", "begin_ready", "begin_cas", "map_on_load", "map_on_token",
   "map_on_store", "submit_load", "submit_check", "submit_stamp", "submit_send", "request"}

Lengthy ==
  {"end_mode", "end_check", "end_mapping", "end_request", "suspend", "bump", "record_failure",
   "disconnect_load", "disconnect_check", "disconnect_store", "unmap_load", "unmap_store",
   "map_load", "map_mode", "map_check", "map_stamp", "map_send"}

\* The accesses a program can end with
Last == {"ready_cas", "take", "begin_cas", "map_on_store", "submit_send", "request",
         "suspend", "bump", "record_failure", "unmap_store", "map_send"}

\* What can come after an access in a program
After(label) ==
  CASE label = "step_mapping"     -> {"ready_check"}
    [] label = "ready_check"      -> {"ready_mode"}
    [] label = "ready_mode"       -> {"ready_store"}
    [] label = "ready_store"      -> {"ready_token"}
    [] label = "ready_token"      -> {"ready_cas"}
    [] label = "ready_cas"        -> {"take"}
    [] label = "begin_load"       -> {"begin_ready"}
    [] label = "begin_ready"      -> {"begin_cas"}
    [] label = "map_on_load"      -> {"map_on_token"}
    [] label = "map_on_token"     -> {"map_on_store"}
    [] label = "submit_load"      -> {"submit_check"}
    [] label = "submit_check"     -> {"submit_stamp"}
    [] label = "submit_stamp"     -> {"submit_send"}
    [] label = "end_mode"         -> {"end_check"}
    [] label = "end_check"        -> {"end_mapping"}
    [] label = "end_mapping"      -> {"end_request"}
    [] label = "end_request"      -> {"suspend"}
    [] label = "suspend"          -> {"bump", "record_failure"}
    [] label = "bump"             -> {"end_mode"}
    [] label = "record_failure"   -> {"end_request"}
    [] label = "disconnect_load"  -> {"disconnect_check"}
    [] label = "disconnect_check" -> {"disconnect_store"}
    [] label = "disconnect_store" -> {"end_mode"}
    [] label = "unmap_load"       -> {"unmap_store"}
    [] label = "unmap_store"      -> {"end_mode"}
    [] label = "map_load"         -> {"map_mode"}
    [] label = "map_mode"         -> {"map_check"}
    [] label = "map_check"        -> {"map_stamp"}
    [] label = "map_stamp"        -> {"map_send"}
    [] label = "map_send"         -> {"end_request"}
    [] OTHER                      -> {}

\* Whether s follows After and ends where a program can end
Ordered(s) ==
  \A i \in 1..Len(s) : IF i = Len(s) THEN s[i] \in Last ELSE s[i + 1] \in After(s[i])

\* The programs under way: only the consumer stores grants.
Path(s) == (s \in Seq(Brief) \/ s \in Seq(Lengthy)) /\ Ordered(s)

\* At most one access of s takes a token
OneToken(s) == \A i, j \in 1..Len(s) : s[i] \in Tokens /\ s[j] \in Tokens => i = j

LEMMA TailOfPath ==
  ASSUME NEW s, Path(s), s # << >>
  PROVE  /\ Path(Tail(s))
         /\ Tail(s) = << >> => Head(s) \in Last
         /\ Tail(s) # << >> => Head(Tail(s)) \in After(Head(s))
         /\ Len(s) \in Nat \ {0} /\ Head(s) = s[1] /\ Len(Tail(s)) = Len(s) - 1
         /\ \A i \in 1..Len(s) - 1 : Tail(s)[i] = s[i + 1]
<1>1. ASSUME NEW S, s \in Seq(S)
      PROVE  /\ Tail(s) \in Seq(S) /\ Len(s) \in Nat \ {0} /\ Len(Tail(s)) = Len(s) - 1
             /\ \A i \in 1..Len(s) - 1 : Tail(s)[i] = s[i + 1]
             /\ Tail(s) = << >> <=> Len(s) = 1
             /\ Head(s) = s[1] /\ (Tail(s) # << >> => Head(Tail(s)) = Tail(s)[1])
  <2>1. /\ Tail(s) \in Seq(S) /\ Len(Tail(s)) = Len(s) - 1
        /\ \A i \in 1..Len(Tail(s)) : Tail(s)[i] = s[i + 1]
    BY <1>1, HeadTailProperties
  <2>2. Len(s) \in Nat \ {0}
    BY <1>1, EmptySeq
  <2>3. Tail(s) = << >> <=> Len(Tail(s)) = 0
    BY <2>1, EmptySeq
  <2>4. QED
    BY <1>1, <2>1, <2>2, <2>3
<1> DEFINE rest == Tail(s)
<1>2. /\ Len(s) \in Nat \ {0} /\ Len(rest) = Len(s) - 1
      /\ \A i \in 1..Len(s) - 1 : rest[i] = s[i + 1]
      /\ rest = << >> <=> Len(s) = 1
      /\ rest \in Seq(Brief) \/ rest \in Seq(Lengthy)
      /\ Head(s) = s[1] /\ (rest # << >> => Head(rest) = rest[1])
  BY <1>1 DEF Path
<1> HIDE DEF rest
<1>3. Ordered(rest)
  <2>. SUFFICES ASSUME NEW i \in 1..Len(s) - 1
                PROVE  IF i = Len(s) - 1 THEN rest[i] \in Last
                                         ELSE rest[i + 1] \in After(rest[i])
    BY <1>2 DEF Ordered
  <2>1. i + 1 \in 1..Len(s)
    BY <1>2
  <2>2. IF i + 1 = Len(s) THEN s[i + 1] \in Last ELSE s[i + 1 + 1] \in After(s[i + 1])
    BY <2>1 DEF Path, Ordered
  <2>3. rest[i] = s[i + 1] /\ (i # Len(s) - 1 => rest[i + 1] = s[i + 1 + 1])
    BY <1>2
  <2>4. QED
    BY <1>2, <2>2, <2>3
<1>4. IF 1 = Len(s) THEN s[1] \in Last ELSE s[1 + 1] \in After(s[1])
  <2>1. 1 \in 1..Len(s)
    BY <1>2
  <2>2. QED
    BY <2>1 DEF Path, Ordered
<1>5. Len(s) # 1 => rest[1] = s[1 + 1]
  BY <1>2
<1>6. QED
  BY <1>2, <1>3, <1>4, <1>5 DEF Path, rest

LEMMA RestOfPath ==
  ASSUME NEW s, Path(s), NEW n \in Nat, n <= Len(s)
  PROVE  LET rest == SubSeq(s, n + 1, Len(s))
         IN  /\ Path(rest) /\ Len(rest) = Len(s) - n
             /\ \A i \in 1..Len(s) - n : rest[i] = s[i + n]
             /\ rest # << >> => n < Len(s) /\ Head(rest) = s[n + 1]
             /\ Len(s) \in Nat
<1> DEFINE rest == SubSeq(s, n + 1, Len(s))
<1>1. ASSUME NEW S, s \in Seq(S)
      PROVE  /\ rest \in Seq(S) /\ Len(s) \in Nat /\ Len(rest) = Len(s) - n
             /\ \A i \in 1..Len(s) - n : rest[i] = s[i + n]
             /\ rest = << >> <=> Len(s) = n
             /\ rest # << >> => Head(rest) = rest[1]
  <2>1. Len(s) \in Nat /\ \A i \in 1..Len(s) : s[i] \in S
    BY <1>1, LenProperties, ElementOfSeq
  <2>2. /\ rest \in Seq(S)
        /\ Len(rest) = IF n + 1 <= Len(s) THEN Len(s) - (n + 1) + 1 ELSE 0
        /\ \A i \in 1..Len(s) - (n + 1) + 1 : rest[i] = s[n + 1 + i - 1]
    BY <2>1, SubSeqProperties
  <2>3. rest = << >> <=> Len(rest) = 0
    BY <2>2, EmptySeq, LenProperties
  <2>4. QED
    BY <2>1, <2>2, <2>3
<1>2. /\ Len(s) \in Nat /\ Len(rest) = Len(s) - n
      /\ \A i \in 1..Len(s) - n : rest[i] = s[i + n]
      /\ rest = << >> <=> Len(s) = n
      /\ rest # << >> => Head(rest) = rest[1]
      /\ rest \in Seq(Brief) \/ rest \in Seq(Lengthy)
  BY <1>1 DEF Path
<1> HIDE DEF rest
<1>3. Ordered(rest)
  <2>. SUFFICES ASSUME NEW i \in 1..Len(s) - n
                PROVE  IF i = Len(s) - n THEN rest[i] \in Last ELSE rest[i + 1] \in After(rest[i])
    BY <1>2 DEF Ordered
  <2>0. i + n \in 1..Len(s)
    BY <1>2
  <2>1. IF i + n = Len(s) THEN s[i + n] \in Last ELSE s[i + n + 1] \in After(s[i + n])
    BY <2>0 DEF Path, Ordered
  <2>2. i # Len(s) - n => rest[i + 1] = s[i + n + 1]
    <3>0. Len(s) \in Nat
      BY <1>2
    <3>1. i + 1 + n = i + n + 1 /\ (i # Len(s) - n => i + 1 \in 1..Len(s) - n)
      BY <3>0
    <3>2. ASSUME i # Len(s) - n PROVE rest[i + 1] = s[i + 1 + n]
      <4>1. i + 1 \in 1..Len(s) - n
        BY <3>1, <3>2
      <4>2. QED
        BY <1>2, <4>1
    <3>3. QED
      BY <3>1, <3>2
  <2>3. QED
    BY <1>2, <2>1, <2>2
<1>4. Path(rest)
  BY <1>2, <1>3 DEF Path
<1>5. ASSUME rest # << >> PROVE n < Len(s) /\ Head(rest) = s[n + 1]
  <2>1. n < Len(s) /\ 1 \in 1..Len(s) - n
    BY <1>2, <1>5
  <2>2. rest[1] = s[1 + n] /\ 1 + n = n + 1
    BY <1>2, <2>1
  <2>3. QED
    BY <1>2, <1>5, <2>1, <2>2
<1>6. QED
  BY <1>2, <1>4, <1>5 DEF rest

LEMMA JoinedPath ==
  ASSUME NEW a \in Seq(Lengthy), NEW b \in Seq(Lengthy), a # << >>, Ordered(b),
         \A i \in 1..Len(a) : i # Len(a) => a[i + 1] \in After(a[i]),
         IF b = << >> THEN a[Len(a)] \in Last ELSE b[1] \in After(a[Len(a)])
  PROVE  /\ a \o b \in Seq(Lengthy) /\ Ordered(a \o b)
         /\ a \o b # << >> /\ Head(a \o b) = a[1]
<1>1. /\ a \o b \in Seq(Lengthy) /\ Len(a \o b) = Len(a) + Len(b)
      /\ \A i \in 1..Len(a) + Len(b) :
           (a \o b)[i] = IF i <= Len(a) THEN a[i] ELSE b[i - Len(a)]
      /\ Len(a) \in Nat \ {0} /\ Len(b) \in Nat /\ (b = << >> <=> Len(b) = 0)
  BY ConcatProperties, LenProperties, EmptySeq
<1> DEFINE c == a \o b
<1> HIDE DEF c
<1>2. Ordered(c)
  <2>. SUFFICES ASSUME NEW i \in 1..Len(a) + Len(b)
                PROVE  IF i = Len(a) + Len(b) THEN c[i] \in Last ELSE c[i + 1] \in After(c[i])
    BY <1>1 DEF Ordered, c
  <2>1. CASE i < Len(a)
    BY <1>1, <2>1 DEF Ordered, c
  <2>2. CASE i = Len(a)
    BY <1>1, <2>2 DEF Ordered, c
  <2>3. CASE i > Len(a)
    <3>1. i - Len(a) \in 1..Len(b)
      BY <1>1, <2>3
    <3>2. IF i - Len(a) = Len(b) THEN b[i - Len(a)] \in Last
                                 ELSE b[i - Len(a) + 1] \in After(b[i - Len(a)])
      BY <1>1, <3>1 DEF Ordered
    <3>3. c[i] = b[i - Len(a)] /\ (i # Len(a) + Len(b) => c[i + 1] = b[i - Len(a) + 1])
      <4>1. i + 1 - Len(a) = i - Len(a) + 1 /\ ~(i <= Len(a)) /\ ~(i + 1 <= Len(a))
        BY <1>1, <2>3
      <4>2. i # Len(a) + Len(b) => i + 1 \in 1..Len(a) + Len(b)
        <5>1. Len(a) \in Nat /\ Len(b) \in Nat
          BY <1>1
        <5>2. QED
          BY <5>1
      <4>3. c[i] = b[i - Len(a)]
        BY <1>1, <4>1 DEF c
      <4>4. ASSUME i # Len(a) + Len(b) PROVE c[i + 1] = b[i + 1 - Len(a)]
        BY <1>1, <4>1, <4>2, <4>4 DEF c
      <4>5. QED
        BY <4>1, <4>3, <4>4
    <3>4. QED
      BY <1>1, <3>2, <3>3
  <2>4. QED
    BY <1>1, <2>1, <2>2, <2>3
<1>3. a \o b # << >> /\ Head(a \o b) = a[1]
  BY <1>1, EmptySeq
<1>4. QED
  BY <1>1, <1>2, <1>3 DEF c

LEMMA NextLabel ==
  ASSUME NEW s, Path(s), NEW i \in 1..Len(s)
  PROVE  /\ Len(s) \in Nat
         /\ s[i] \notin Last => i + 1 \in 1..Len(s)
         /\ i + 1 \in 1..Len(s) => s[i + 1] \in After(s[i])
<1>1. Len(s) \in Nat
  BY LenProperties DEF Path
<1>2. IF i = Len(s) THEN s[i] \in Last ELSE s[i + 1] \in After(s[i])
  BY DEF Path, Ordered
<1>3. i # Len(s) => i + 1 \in 1..Len(s)
  BY <1>1
<1>4. i + 1 \in 1..Len(s) => i # Len(s)
  BY <1>1
<1>5. QED
  BY <1>1, <1>2, <1>3, <1>4

\* The calls whose last accesses an early return leaves out
LEMMA ReadyChain ==
  ASSUME NEW s, Path(s), s # << >>
  PROVE  /\ s[1] = "ready_mode" =>
              /\ 4 <= Len(s) /\ \A i \in 1..4 : s[i] # "suspend"
              /\ 5 <= Len(s) => s[5] = "take"
         /\ s[1] = "ready_check" =>
              /\ 5 <= Len(s) /\ \A i \in 1..5 : s[i] # "suspend"
              /\ 6 <= Len(s) => s[6] = "take"
         /\ s[1] = "step_mapping" =>
              /\ 6 <= Len(s) /\ \A i \in 1..6 : s[i] # "suspend"
              /\ 7 <= Len(s) => s[7] = "take"
<1>1. /\ Len(s) \in Nat \ {0}
      /\ \A i \in 1..Len(s) : /\ s[i] \notin Last => i + 1 \in 1..Len(s)
                              /\ i + 1 \in 1..Len(s) => s[i + 1] \in After(s[i])
  BY NextLabel, TailOfPath
<1>2. /\ 1 \in 1..Len(s)
      /\ s[1] \notin Last => 2 \in 1..Len(s)
      /\ 2 \in 1..Len(s) => s[2] \in After(s[1]) /\ (s[2] \notin Last => 3 \in 1..Len(s))
      /\ 3 \in 1..Len(s) => s[3] \in After(s[2]) /\ (s[3] \notin Last => 4 \in 1..Len(s))
      /\ 4 \in 1..Len(s) => s[4] \in After(s[3]) /\ (s[4] \notin Last => 5 \in 1..Len(s))
      /\ 5 \in 1..Len(s) => s[5] \in After(s[4]) /\ (s[5] \notin Last => 6 \in 1..Len(s))
      /\ 6 \in 1..Len(s) => s[6] \in After(s[5])
      /\ 7 \in 1..Len(s) => s[7] \in After(s[6])
  BY <1>1
<1>3. \A n \in 1..7 : n <= Len(s) <=> n \in 1..Len(s)
  BY <1>1
<1>4. ASSUME s[1] = "ready_mode"
      PROVE  /\ 4 <= Len(s) /\ \A i \in 1..4 : s[i] # "suspend"
             /\ 5 <= Len(s) => s[5] = "take"
  BY <1>2, <1>3, <1>4 DEF Last, After
<1>5. ASSUME s[1] = "ready_check"
      PROVE  /\ 5 <= Len(s) /\ \A i \in 1..5 : s[i] # "suspend"
             /\ 6 <= Len(s) => s[6] = "take"
  BY <1>2, <1>3, <1>5 DEF Last, After
<1>6. ASSUME s[1] = "step_mapping"
      PROVE  /\ 6 <= Len(s) /\ \A i \in 1..6 : s[i] # "suspend"
             /\ 7 <= Len(s) => s[7] = "take"
  BY <1>2, <1>3, <1>6 DEF Last, After
<1>7. QED
  BY <1>4, <1>5, <1>6

LEMMA LengthyChain ==
  ASSUME NEW s, Path(s), s # << >>
  PROVE  /\ s[1] = "end_check" =>
              2 <= Len(s) /\ s[2] # "suspend" /\ (3 <= Len(s) => s[3] = "end_request")
         /\ s[1] = "end_mode" =>
              /\ 3 <= Len(s) /\ \A i \in 1..3 : s[i] # "suspend"
              /\ 4 <= Len(s) => s[4] = "end_request"
         /\ s[1] = "disconnect_check" =>
              2 <= Len(s) /\ s[2] # "suspend" /\ (3 <= Len(s) => s[3] = "end_mode")
         /\ s[1] = "disconnect_load" =>
              /\ 3 <= Len(s) /\ \A i \in 1..3 : s[i] # "suspend"
              /\ 4 <= Len(s) => s[4] = "end_mode"
         /\ s[1] = "unmap_load" =>
              2 <= Len(s) /\ s[2] # "suspend" /\ (3 <= Len(s) => s[3] = "end_mode")
         /\ s[1] = "map_check" =>
              /\ 3 <= Len(s) /\ \A i \in 1..3 : s[i] # "suspend"
              /\ 4 <= Len(s) => s[4] = "end_request"
         /\ s[1] = "map_mode" =>
              /\ 4 <= Len(s) /\ \A i \in 1..4 : s[i] # "suspend"
              /\ 5 <= Len(s) => s[5] = "end_request"
         /\ s[1] = "map_load" =>
              /\ 5 <= Len(s) /\ \A i \in 1..5 : s[i] # "suspend"
              /\ 6 <= Len(s) => s[6] = "end_request"
<1>1. /\ Len(s) \in Nat \ {0}
      /\ \A i \in 1..Len(s) : /\ s[i] \notin Last => i + 1 \in 1..Len(s)
                              /\ i + 1 \in 1..Len(s) => s[i + 1] \in After(s[i])
  BY NextLabel, TailOfPath
<1>2. /\ 1 \in 1..Len(s)
      /\ 2 \in 1..Len(s) => s[2] \in After(s[1]) /\ (s[2] \notin Last => 3 \in 1..Len(s))
      /\ s[1] \notin Last => 2 \in 1..Len(s)
      /\ 3 \in 1..Len(s) => s[3] \in After(s[2]) /\ (s[3] \notin Last => 4 \in 1..Len(s))
      /\ 4 \in 1..Len(s) => s[4] \in After(s[3]) /\ (s[4] \notin Last => 5 \in 1..Len(s))
      /\ 5 \in 1..Len(s) => s[5] \in After(s[4]) /\ (s[5] \notin Last => 6 \in 1..Len(s))
      /\ 6 \in 1..Len(s) => s[6] \in After(s[5])
  BY <1>1
<1>3. \A n \in 1..6 : n <= Len(s) <=> n \in 1..Len(s)
  BY <1>1
<1>4. ASSUME s[1] \in {"end_check", "end_mode", "disconnect_check", "disconnect_load", "unmap_load"}
      PROVE  /\ s[1] = "end_check" =>
                  2 <= Len(s) /\ s[2] # "suspend" /\ (3 <= Len(s) => s[3] = "end_request")
             /\ s[1] = "end_mode" =>
                  /\ 3 <= Len(s) /\ \A i \in 1..3 : s[i] # "suspend"
                  /\ 4 <= Len(s) => s[4] = "end_request"
             /\ s[1] = "disconnect_check" =>
                  2 <= Len(s) /\ s[2] # "suspend" /\ (3 <= Len(s) => s[3] = "end_mode")
             /\ s[1] = "disconnect_load" =>
                  /\ 3 <= Len(s) /\ \A i \in 1..3 : s[i] # "suspend"
                  /\ 4 <= Len(s) => s[4] = "end_mode"
             /\ s[1] = "unmap_load" =>
                  2 <= Len(s) /\ s[2] # "suspend" /\ (3 <= Len(s) => s[3] = "end_mode")
  BY <1>2, <1>3, <1>4 DEF Last, After
<1>5. ASSUME s[1] \in {"map_check", "map_mode", "map_load"}
      PROVE  /\ s[1] = "map_check" =>
                  /\ 3 <= Len(s) /\ \A i \in 1..3 : s[i] # "suspend"
                  /\ 4 <= Len(s) => s[4] = "end_request"
             /\ s[1] = "map_mode" =>
                  /\ 4 <= Len(s) /\ \A i \in 1..4 : s[i] # "suspend"
                  /\ 5 <= Len(s) => s[5] = "end_request"
             /\ s[1] = "map_load" =>
                  /\ 5 <= Len(s) /\ \A i \in 1..5 : s[i] # "suspend"
                  /\ 6 <= Len(s) => s[6] = "end_request"
  BY <1>2, <1>3, <1>5 DEF Last, After
<1>6. QED
  BY <1>4, <1>5

-----------------------------------------------------------------------------
(***************************************************************************)
(* How a step changes what its thread has left.                            *)
(***************************************************************************)
Registers == [epoch : Nat, generation : Nat, captured : Nat,
              kind : {"capture", "mapping", "release"}]

PathInv ==
  /\ pc \in [Threads -> Seq(Brief) \cup Seq(Lengthy)]
  /\ reg \in [Threads -> Registers]
  /\ \A t \in Threads : Path(pc[t]) /\ OneToken(pc[t])

\* Thread t goes to one of `heads`, or to the end of its call, without
\* forgetting a suspend it owes or planning another token.
Moved(t, heads) ==
  /\ PathInv'
  /\ \A u \in Threads \ {t} : pc'[u] = pc[u] /\ reg'[u] = reg[u]
  /\ pc'[t] # << >> => Head(pc'[t]) \in heads
  /\ Uses(pc[t], {"suspend"}) /\ ~At(t, "suspend") => Uses(pc'[t], {"suspend"})
  /\ Uses(pc'[t], Tokens) => Uses(pc[t], Tokens) /\ ~At(t, "ready_token") /\ ~At(t, "map_on_token")

LEMMA BlankRegisters == Blank \in Registers
BY DEF Blank, Registers

LEMMA DomainOfPath ==
  ASSUME NEW s, Path(s)
  PROVE  DOMAIN s = 1..Len(s) /\ Len(s) \in Nat /\ (s = << >> <=> Len(s) = 0)
BY LenProperties, EmptySeq DEF Path

\* Leaving out n accesses, none of them a suspend
LEMMA Leaving ==
  ASSUME PathInv, NEW t \in Threads, NEW n \in 1..Len(pc[t]), NEW r \in Registers,
         NEW heads, n + 1 <= Len(pc[t]) => pc[t][n + 1] \in heads,
         \A i \in 1..n : pc[t][i] # "suspend" \/ At(t, "suspend"),
         Goto(t, SubSeq(pc[t], n + 1, Len(pc[t])), r)
  PROVE  Moved(t, heads)
<1> DEFINE s == pc[t]
           rest == SubSeq(s, n + 1, Len(s))
<1>1. Path(s) /\ OneToken(s) /\ Len(s) \in Nat /\ DOMAIN s = 1..Len(s) /\ n \in Nat /\ n <= Len(s)
  BY DomainOfPath DEF PathInv
<1>2. /\ Path(rest) /\ Len(rest) = Len(s) - n
      /\ \A i \in 1..Len(s) - n : rest[i] = s[i + n]
      /\ rest # << >> => n < Len(s) /\ Head(rest) = s[n + 1]
  BY <1>1, RestOfPath
<1>3. DOMAIN rest = 1..Len(s) - n
  BY <1>2, DomainOfPath
<1>4. /\ pc' = [pc EXCEPT ![t] = rest]
      /\ reg' = [reg EXCEPT ![t] = IF rest = << >> THEN Blank ELSE r]
  BY DEF Goto
<1>5. pc \in [Threads -> Seq(Brief) \cup Seq(Lengthy)] /\ reg \in [Threads -> Registers]
  BY DEF PathInv
<1> HIDE DEF rest
<1>6. /\ pc' \in [Threads -> Seq(Brief) \cup Seq(Lengthy)] /\ reg' \in [Threads -> Registers]
      /\ pc'[t] = rest
      /\ \A u \in Threads \ {t} : pc'[u] = pc[u] /\ reg'[u] = reg[u]
  BY <1>2, <1>4, <1>5, BlankRegisters DEF Path
<1> DEFINE Shift(i) == i + n
<1>7. \A i \in 1..Len(s) - n : Shift(i) \in 1..Len(s) /\ rest[i] = s[Shift(i)]
  BY <1>1, <1>2
<1>8. \A i, j \in 1..Len(s) - n : Shift(i) = Shift(j) => i = j
  BY <1>1
<1> HIDE DEF Shift
<1>9. OneToken(rest)
  <2>. SUFFICES ASSUME NEW i \in 1..Len(s) - n, NEW j \in 1..Len(s) - n,
                       rest[i] \in Tokens, rest[j] \in Tokens
                PROVE  i = j
    BY <1>2 DEF OneToken
  <2>1. Shift(i) \in 1..Len(s) /\ Shift(j) \in 1..Len(s)
    BY <1>7
  <2>2. s[Shift(i)] \in Tokens /\ s[Shift(j)] \in Tokens
    BY <1>7
  <2>3. Shift(i) = Shift(j)
    BY <1>1, <2>1, <2>2 DEF OneToken
  <2>4. QED
    BY <1>8, <2>3
<1>10. PathInv'
  BY <1>2, <1>6, <1>9 DEF PathInv
<1>11. ASSUME Uses(s, {"suspend"}), ~At(t, "suspend")
       PROVE  Uses(rest, {"suspend"})
  <2>1. PICK i \in 1..Len(s) : s[i] = "suspend"
    BY <1>1, <1>11 DEF Uses
  <2>2. i \notin 1..n
    BY <1>11, <2>1
  <2>3. i - n \in 1..Len(s) - n /\ i - n + n = i
    BY <1>1, <2>2
  <2>4. rest[i - n] = "suspend"
    BY <1>2, <2>1, <2>3
  <2>5. QED
    BY <1>3, <2>3, <2>4 DEF Uses
<1>12. ASSUME Uses(rest, Tokens)
       PROVE  Uses(s, Tokens) /\ s[1] \notin Tokens
  <2>1. PICK i \in 1..Len(s) - n : rest[i] \in Tokens
    BY <1>3, <1>12 DEF Uses
  <2>2. i + n \in 1..Len(s) /\ s[i + n] \in Tokens /\ i + n # 1 /\ 1 \in 1..Len(s)
    BY <1>1, <1>2, <2>1
  <2>3. QED
    BY <1>1, <2>2 DEF Uses, OneToken
<1>13. s # << >> => Head(s) = s[1]
  BY <1>1, TailOfPath
<1>14. pc'[t] # << >> => Head(pc'[t]) \in heads
  BY <1>1, <1>2, <1>6
<1>15. QED
  BY <1>6, <1>10, <1>11, <1>12, <1>13, <1>14 DEF Moved, At, Tokens

\* Running a nested program before the rest of the call
LEMMA Nesting ==
  ASSUME PathInv, NEW t \in Threads, pc[t] # << >>, NEW r \in Registers,
         NEW program \in Seq(Lengthy), program # << >>, Ordered(program),
         Tail(pc[t]) \in Seq(Lengthy),
         Tail(pc[t]) # << >> => Tail(pc[t])[1] \in After(program[Len(program)]),
         Goto(t, program \o Tail(pc[t]), r), ~At(t, "suspend")
  PROVE  Moved(t, {program[1]})
<1> DEFINE s == pc[t]
           rest == Tail(s)
           next == program \o rest
<1>1. /\ Path(s) /\ Path(rest) /\ DOMAIN s = 1..Len(s) /\ DOMAIN rest = 1..Len(rest)
      /\ Len(s) \in Nat \ {0} /\ Len(rest) = Len(s) - 1 /\ Head(s) = s[1]
      /\ \A i \in 1..Len(s) - 1 : rest[i] = s[i + 1]
  BY TailOfPath, DomainOfPath DEF PathInv
<1>2. Len(program) \in Nat \ {0} /\ \A i \in 1..Len(program) : program[i] \in Lengthy
  BY EmptySeq, ElementOfSeq
<1>3. \A i \in 1..Len(program) : i # Len(program) => program[i + 1] \in After(program[i])
  BY DEF Ordered
<1>4. rest = << >> => program[Len(program)] \in Last
  <2>1. Len(program) \in 1..Len(program)
    BY <1>2
  <2>2. QED
    BY <2>1 DEF Ordered
<1>5. next \in Seq(Lengthy) /\ Ordered(next) /\ next # << >> /\ Head(next) = program[1]
  BY <1>1, <1>3, <1>4, JoinedPath DEF Path
<1>6. /\ Len(next) = Len(program) + Len(rest)
      /\ \A i \in 1..Len(program) + Len(rest) :
           next[i] = IF i <= Len(program) THEN program[i] ELSE rest[i - Len(program)]
  BY ConcatProperties
<1>7. /\ pc' = [pc EXCEPT ![t] = next]
      /\ reg' = [reg EXCEPT ![t] = IF next = << >> THEN Blank ELSE r]
  BY DEF Goto
<1>8. pc \in [Threads -> Seq(Brief) \cup Seq(Lengthy)] /\ reg \in [Threads -> Registers]
  BY DEF PathInv
<1>9. DOMAIN next = 1..Len(next) /\ \A i \in 1..Len(next) : next[i] \in Lengthy
  BY <1>5, LenProperties, ElementOfSeq
<1> HIDE DEF next
<1>10. /\ pc' \in [Threads -> Seq(Brief) \cup Seq(Lengthy)] /\ reg' \in [Threads -> Registers]
       /\ pc'[t] = next
       /\ \A u \in Threads \ {t} : pc'[u] = pc[u] /\ reg'[u] = reg[u]
  BY <1>5, <1>7, <1>8, BlankRegisters
<1>11. Tokens \cap Lengthy = {}
  BY DEF Tokens, Lengthy
<1>12. OneToken(next) /\ ~Uses(next, Tokens)
  BY <1>9, <1>11 DEF OneToken, Uses
<1>13. PathInv'
  BY <1>5, <1>10, <1>12 DEF PathInv, Path
<1>14. ASSUME Uses(s, {"suspend"})
       PROVE  Uses(next, {"suspend"})
  <2>1. PICK i \in 1..Len(s) : s[i] = "suspend"
    BY <1>1, <1>14 DEF Uses
  <2>2. i # 1
    BY <1>1, <2>1 DEF At
  <2>3. i - 1 \in 1..Len(s) - 1 /\ i - 1 + 1 = i
    BY <1>1, <2>2
  <2>4. rest[i - 1] = "suspend"
    BY <1>1, <2>1, <2>3
  <2>5. /\ Len(program) + (i - 1) \in 1..Len(program) + Len(rest)
        /\ ~(Len(program) + (i - 1) <= Len(program))
        /\ Len(program) + (i - 1) - Len(program) = i - 1
    BY <1>1, <1>2, <2>3
  <2>6. next[Len(program) + (i - 1)] = "suspend"
    BY <1>6, <2>4, <2>5
  <2>7. QED
    BY <1>6, <1>9, <2>5, <2>6 DEF Uses
<1>15. QED
  BY <1>5, <1>10, <1>12, <1>13, <1>14 DEF Moved

LEMMA EndIs ==
  End = <<"end_mode", "end_check", "end_mapping", "end_request", "suspend">>
<1> DEFINE a == <<"end_mode", "end_check", "end_mapping", "end_request">>
           e == <<"end_mode", "end_check", "end_mapping", "end_request", "suspend">>
<1>1. a \in Seq(Lengthy) /\ Suspend \in Seq(Lengthy) /\ e \in Seq(Lengthy)
  BY DEF Suspend, Lengthy
<1>2. Len(a) = 4 /\ Len(Suspend) = 1 /\ Len(e) = 5
  BY DEF Suspend
<1>3. /\ End \in Seq(Lengthy) /\ Len(End) = 5
      /\ \A i \in 1..5 : End[i] = IF i <= 4 THEN a[i] ELSE Suspend[i - 4]
  <2>1. End = a \o Suspend
    BY DEF End
  <2> HIDE DEF a
  <2>2. /\ a \o Suspend \in Seq(Lengthy) /\ Len(a \o Suspend) = Len(a) + Len(Suspend)
        /\ \A i \in 1..Len(a) + Len(Suspend) :
             (a \o Suspend)[i] = IF i <= Len(a) THEN a[i] ELSE Suspend[i - Len(a)]
    BY <1>1, ConcatProperties
  <2>3. QED
    BY <1>2, <2>1, <2>2
<1>4. \A i \in 1..5 : End[i] = e[i]
  BY <1>3 DEF Suspend
<1>5. QED
  <2> HIDE DEF e
  <2>1. End = e
    BY <1>1, <1>2, <1>3, <1>4, SeqEqual
  <2>2. QED
    BY <2>1 DEF e

\* A program that can run inside another one, from its first to its last access
Nests(program, first, last) ==
  /\ program \in Seq(Lengthy) /\ Ordered(program) /\ program # << >>
  /\ program[1] = first /\ program[Len(program)] = last

LEMMA ShortPrograms ==
  /\ Nests(Suspend, "suspend", "suspend") /\ Nests(<<"bump">>, "bump", "bump")
  /\ Nests(<<"record_failure">>, "record_failure", "record_failure")
  /\ Nests(Unmap, "unmap_load", "unmap_store")
  /\ Nests(SubmitMapping, "map_load", "map_send")
<1>1. /\ Len(Suspend) = 1 /\ Len(<<"bump">>) = 1 /\ Len(<<"record_failure">>) = 1
      /\ Len(Unmap) = 2 /\ Len(SubmitMapping) = 5
  BY DEF Suspend, Unmap, SubmitMapping
<1>2. Nests(Suspend, "suspend", "suspend")
  BY <1>1 DEF Nests, Suspend, Ordered, Last, Lengthy
<1>3. Nests(<<"bump">>, "bump", "bump")
  BY <1>1 DEF Nests, Ordered, Last, Lengthy
<1>4. Nests(<<"record_failure">>, "record_failure", "record_failure")
  BY <1>1 DEF Nests, Ordered, Last, Lengthy
<1>5. Nests(Unmap, "unmap_load", "unmap_store")
  BY <1>1 DEF Nests, Unmap, Ordered, Last, After, Lengthy
<1>6. Nests(SubmitMapping, "map_load", "map_send")
  <2>1. SubmitMapping \in Seq(Lengthy) /\ SubmitMapping # << >>
    BY DEF SubmitMapping, Lengthy
  <2>2. Ordered(SubmitMapping)
    BY <1>1 DEF SubmitMapping, Ordered, Last, After
  <2>3. QED
    BY <1>1, <2>1, <2>2 DEF Nests, SubmitMapping
<1>7. QED
  BY <1>2, <1>3, <1>4, <1>5, <1>6

LEMMA EndNests == Nests(End, "end_mode", "suspend")
<1> DEFINE e == <<"end_mode", "end_check", "end_mapping", "end_request", "suspend">>
<1>1. Len(e) = 5 /\ e \in Seq(Lengthy) /\ e # << >> /\ e[1] = "end_mode" /\ e[5] = "suspend"
  BY DEF Lengthy
<1>2. Ordered(e)
  BY <1>1 DEF Ordered, Last, After
<1>3. QED
  BY <1>1, <1>2, EndIs DEF Nests

\* One program after another
LEMMA NestingInTurn ==
  ASSUME NEW a, NEW b, NEW first, NEW last, NEW next, NEW end,
         Nests(a, first, last), Nests(b, next, end), next \in After(last)
  PROVE  Nests(a \o b, first, end)
<1>1. /\ a \o b \in Seq(Lengthy) /\ Len(a \o b) = Len(a) + Len(b)
      /\ \A i \in 1..Len(a) + Len(b) :
           (a \o b)[i] = IF i <= Len(a) THEN a[i] ELSE b[i - Len(a)]
      /\ Len(a) \in Nat \ {0} /\ Len(b) \in Nat \ {0}
  BY ConcatProperties, EmptySeq DEF Nests
<1>2. \A i \in 1..Len(a) : i # Len(a) => a[i + 1] \in After(a[i])
  BY DEF Nests, Ordered
<1>3. a \o b # << >> /\ Ordered(a \o b)
  BY <1>2, JoinedPath DEF Nests
<1> DEFINE c == a \o b
<1>4. c[1] = a[1]
  <2>1. 1 \in 1..Len(a) + Len(b) /\ 1 <= Len(a)
    BY <1>1
  <2>2. QED
    BY <1>1, <2>1
<1>5. c[Len(a) + Len(b)] = b[Len(b)]
  <2>1. /\ Len(a) + Len(b) \in 1..Len(a) + Len(b) /\ ~(Len(a) + Len(b) <= Len(a))
        /\ Len(a) + Len(b) - Len(a) = Len(b)
    BY <1>1
  <2> HIDE DEF c
  <2>2. QED
    BY <1>1, <2>1 DEF c
<1>6. QED
  BY <1>1, <1>3, <1>4, <1>5 DEF Nests

LEMMA NestedPrograms ==
  /\ Nests(Fail, "end_mode", "record_failure")
  /\ Nests(Unmap \o Fail, "unmap_load", "record_failure")
  /\ Nests(End \o <<"bump">>, "end_mode", "bump")
  /\ Nests(Suspend \o <<"bump">>, "suspend", "bump")
  /\ Nests(<<"bump">> \o End, "bump", "suspend")
<1>1. "record_failure" \in After("suspend") /\ "end_mode" \in After("unmap_store")
      /\ "bump" \in After("suspend") /\ "end_mode" \in After("bump")
  BY DEF After
<1>2. Nests(Fail, "end_mode", "record_failure")
  BY <1>1, EndNests, ShortPrograms, NestingInTurn DEF Fail
<1>3. Nests(Unmap \o Fail, "unmap_load", "record_failure")
  BY <1>1, <1>2, ShortPrograms, NestingInTurn
<1>4. Nests(End \o <<"bump">>, "end_mode", "bump")
  BY <1>1, EndNests, ShortPrograms, NestingInTurn
<1>5. Nests(Suspend \o <<"bump">>, "suspend", "bump")
  BY <1>1, ShortPrograms, NestingInTurn
<1>6. Nests(<<"bump">> \o End, "bump", "suspend")
  BY <1>1, EndNests, ShortPrograms, NestingInTurn
<1>7. QED
  BY <1>2, <1>3, <1>4, <1>5, <1>6

LEMMA DisconnectNests == Nests(Disconnect, "disconnect_load", "suspend")
<1>1. /\ Evidence \in Seq(Lengthy) /\ Len(Evidence) = 3 /\ Evidence # << >>
      /\ Evidence[1] = "disconnect_load" /\ Evidence[2] = "disconnect_check"
      /\ Evidence[3] = "disconnect_store"
  BY DEF Evidence, Lengthy
<1>2. \A i \in 1..Len(Evidence) : i # Len(Evidence) => Evidence[i + 1] \in After(Evidence[i])
  BY <1>1 DEF After
<1>3. "end_mode" \in After(Evidence[Len(Evidence)])
  BY <1>1 DEF After
<1>4. End \in Seq(Lengthy) /\ Ordered(End) /\ End # << >> /\ End[1] = "end_mode"
      /\ End[Len(End)] = "suspend" /\ Len(End) = 5
  BY EndNests, EndIs DEF Nests
<1>5. /\ Disconnect \in Seq(Lengthy) /\ Ordered(Disconnect) /\ Disconnect # << >>
  <2>1. IF End = << >> THEN Evidence[Len(Evidence)] \in Last ELSE End[1] \in After(Evidence[Len(Evidence)])
    BY <1>3, <1>4
  <2>2. QED
    BY <1>1, <1>2, <1>4, <2>1, JoinedPath DEF Disconnect
<1>6. /\ Len(Disconnect) = Len(Evidence) + Len(End)
      /\ \A i \in 1..Len(Evidence) + Len(End) :
           Disconnect[i] = IF i <= Len(Evidence) THEN Evidence[i] ELSE End[i - Len(Evidence)]
  BY <1>1, <1>4, ConcatProperties DEF Disconnect
<1>7. Disconnect[1] = "disconnect_load" /\ Disconnect[8] = "suspend" /\ Len(Disconnect) = 8
  BY <1>1, <1>4, <1>6
<1>8. QED
  BY <1>5, <1>7 DEF Nests

LEMMA BriefPrograms ==
  \A program \in {SetReady, Begin, MapOn, Submit, Step, <<"request">>} :
    Path(program) /\ OneToken(program) /\ program # << >>
<1>1. /\ Len(SetReady) = 5 /\ Len(Begin) = 3 /\ Len(MapOn) = 3 /\ Len(Submit) = 4
      /\ Len(<<"request">>) = 1
  BY DEF SetReady, Begin, MapOn, Submit
<1>2. Path(SetReady) /\ OneToken(SetReady) /\ SetReady # << >>
  <2>1. SetReady \in Seq(Brief) /\ SetReady # << >>
    BY DEF SetReady, Brief
  <2>2. Ordered(SetReady)
    BY <1>1 DEF SetReady, Ordered, Last, After
  <2>3. OneToken(SetReady)
    BY <1>1 DEF SetReady, OneToken, Tokens
  <2>4. QED
    BY <2>1, <2>2, <2>3 DEF Path
<1>3. Path(Begin) /\ OneToken(Begin) /\ Begin # << >>
  <2>1. Begin \in Seq(Brief) /\ Begin # << >>
    BY DEF Begin, Brief
  <2>2. Ordered(Begin)
    BY <1>1 DEF Begin, Ordered, Last, After
  <2>3. OneToken(Begin)
    BY <1>1 DEF Begin, OneToken, Tokens
  <2>4. QED
    BY <2>1, <2>2, <2>3 DEF Path
<1>4. Path(MapOn) /\ OneToken(MapOn) /\ MapOn # << >>
  <2>1. MapOn \in Seq(Brief) /\ MapOn # << >>
    BY DEF MapOn, Brief
  <2>2. Ordered(MapOn)
    BY <1>1 DEF MapOn, Ordered, Last, After
  <2>3. OneToken(MapOn)
    BY <1>1 DEF MapOn, OneToken, Tokens
  <2>4. QED
    BY <2>1, <2>2, <2>3 DEF Path
<1>5. Path(Submit) /\ OneToken(Submit) /\ Submit # << >>
  <2>1. Submit \in Seq(Brief) /\ Submit # << >>
    BY DEF Submit, Brief
  <2>2. Ordered(Submit)
    BY <1>1 DEF Submit, Ordered, Last, After
  <2>3. OneToken(Submit)
    BY <1>1 DEF Submit, OneToken, Tokens
  <2>4. QED
    BY <2>1, <2>2, <2>3 DEF Path
<1>6. Path(<<"request">>) /\ OneToken(<<"request">>) /\ <<"request">> # << >>
  BY <1>1 DEF Path, Brief, Ordered, Last, OneToken, Tokens
<1>7. Path(Step) /\ OneToken(Step) /\ Step # << >>
  <2> DEFINE e == <<"step_mapping", "ready_check", "ready_mode", "ready_store",
                    "ready_token", "ready_cas", "take">>
  <2>1. Len(e) = 7 /\ e \in Seq(Brief) /\ e # << >>
    BY DEF Brief
  <2>2. Ordered(e)
    BY <2>1 DEF Ordered, Last, After
  <2>3. OneToken(e)
    BY <2>1 DEF OneToken, Tokens
  <2>4. Step = e
    <3> DEFINE a == <<"step_mapping">>
               c == <<"take">>
    <3>1. a \in Seq(Brief) /\ c \in Seq(Brief) /\ SetReady \in Seq(Brief)
      BY DEF Brief, SetReady
    <3>2. Len(a) = 1 /\ Len(c) = 1
      OBVIOUS
    <3>3. a[1] = "step_mapping" /\ c[1] = "take"
      OBVIOUS
    <3>4. /\ SetReady[1] = "ready_check" /\ SetReady[2] = "ready_mode" /\ SetReady[3] = "ready_store"
          /\ SetReady[4] = "ready_token" /\ SetReady[5] = "ready_cas"
      BY DEF SetReady
    <3>5. Step = (a \o SetReady) \o c
      BY DEF Step
    <3> HIDE DEF a, c
    <3>6. /\ a \o SetReady \in Seq(Brief) /\ Len(a \o SetReady) = Len(a) + Len(SetReady)
          /\ \A i \in 1..Len(a) + Len(SetReady) :
               (a \o SetReady)[i] = IF i <= Len(a) THEN a[i] ELSE SetReady[i - Len(a)]
      BY <3>1, ConcatProperties
    <3> DEFINE b == a \o SetReady
    <3>7. /\ b[1] = "step_mapping" /\ b[2] = "ready_check" /\ b[3] = "ready_mode"
          /\ b[4] = "ready_store" /\ b[5] = "ready_token" /\ b[6] = "ready_cas"
          /\ b \in Seq(Brief) /\ Len(b) = 6
      BY <1>1, <3>2, <3>3, <3>4, <3>6
    <3> HIDE DEF b
    <3>8. /\ b \o c \in Seq(Brief) /\ Len(b \o c) = Len(b) + Len(c)
          /\ \A i \in 1..Len(b) + Len(c) :
               (b \o c)[i] = IF i <= Len(b) THEN b[i] ELSE c[i - Len(b)]
      BY <3>1, <3>7, ConcatProperties
    <3>9. Step = b \o c
      BY <3>5 DEF b
    <3>10. Len(Step) = 7 /\ Step \in Seq(Brief) /\ \A i \in 1..7 : Step[i] = e[i]
      BY <3>2, <3>3, <3>7, <3>8, <3>9
    <3>11. QED
      <4> HIDE DEF e
      <4>1. QED
        BY <2>1, <3>10, SeqEqual
  <2>5. QED
    BY <2>1, <2>2, <2>3, <2>4 DEF Path
<1>8. QED
  BY <1>2, <1>3, <1>4, <1>5, <1>6, <1>7

LEMMA LengthyHasNoToken ==
  ASSUME NEW s \in Seq(Lengthy)
  PROVE  OneToken(s) /\ ~Uses(s, Tokens)
<1>1. DOMAIN s = 1..Len(s) /\ \A i \in 1..Len(s) : s[i] \in Lengthy
  BY LenProperties, ElementOfSeq
<1>2. QED
  BY <1>1 DEF OneToken, Uses, Lengthy, Tokens

\* What each call begins with
LEMMA Programs ==
  ASSUME NEW call \in CallNames
  PROVE  Path(Program(call)) /\ OneToken(Program(call)) /\ Program(call) # << >>
<1>1. CASE call \in {"set_ready", "step", "begin", "submit", "map_on", "request"}
  BY <1>1, BriefPrograms DEF Program
<1>2. CASE call \in {"end", "disconnect", "submit_mapping", "map_off", "change", "replace", "revoke"}
  <2>1. \E first, last : Nests(Program(call), first, last)
    BY <1>2, EndNests, DisconnectNests, ShortPrograms, NestedPrograms DEF Program
  <2>2. QED
    BY <2>1, LengthyHasNoToken DEF Nests, Path
<1>3. QED
  BY <1>1, <1>2 DEF CallNames

\* With what thread t goes on
Carries(t, r) == pc'[t] # << >> => reg'[t] = r

LEMMA GotoCarries ==
  ASSUME PathInv, NEW t \in Threads, NEW rest, NEW r, Goto(t, rest, r)
  PROVE  pc'[t] = rest /\ Carries(t, r)
BY DEF PathInv, Goto, Carries

LEMMA Continuing ==
  ASSUME PathInv, NEW t \in Threads, NEW label, At(t, label), NEW r \in Registers, Continue(t, r)
  PROVE  Moved(t, After(label)) /\ Carries(t, r)
<1> DEFINE s == pc[t]
<1>1. Path(s) /\ s # << >> /\ Head(s) = label
  BY DEF PathInv, At
<1>2. /\ Len(s) \in Nat \ {0} /\ s[1] = label
      /\ 1 + 1 <= Len(s) => s[1 + 1] \in After(label)
  <2>1. Len(s) \in Nat \ {0} /\ s[1] = label
    BY <1>1, TailOfPath
  <2>2. 1 \in 1..Len(s)
    BY <2>1
  <2>3. 1 + 1 \in 1..Len(s) => s[1 + 1] \in After(s[1])
    BY <1>1, <2>2, NextLabel
  <2>4. QED
    BY <2>1, <2>3
<1>3. Tail(s) = SubSeq(s, 1 + 1, Len(s))
  <2>1. s \in Seq(Brief) \/ s \in Seq(Lengthy)
    BY <1>1 DEF Path
  <2>2. QED
    BY <1>1, <2>1, TailIsSubSeq
<1>4. Goto(t, SubSeq(s, 1 + 1, Len(s)), r)
  BY <1>3 DEF Continue
<1>5. \A i \in 1..1 : s[i] # "suspend" \/ At(t, "suspend")
  BY <1>1, <1>2 DEF At
<1>6. 1 \in 1..Len(s)
  BY <1>2
<1>7. Moved(t, After(label))
  BY <1>2, <1>4, <1>5, <1>6, Leaving
<1>8. QED
  BY <1>4, <1>7, GotoCarries

LEMMA Proceeding ==
  ASSUME PathInv, NEW t \in Threads, NEW label, At(t, label), Proceed(t)
  PROVE  Moved(t, After(label)) /\ Carries(t, reg[t])
BY Continuing DEF Proceed, PathInv

LEMMA Returning ==
  ASSUME PathInv, NEW t \in Threads, NEW label \in Brief, At(t, label), Return(t)
  PROVE  Moved(t, {}) /\ pc'[t] = << >>
<1> DEFINE s == pc[t]
<1>1. Path(s) /\ s # << >> /\ Head(s) = label
  BY DEF PathInv, At
<1>2. Len(s) \in Nat \ {0} /\ s[1] = label /\ DOMAIN s = 1..Len(s)
  BY <1>1, TailOfPath, DomainOfPath
<1>3. s \in Seq(Brief)
  <2>1. s \in Seq(Lengthy) => s[1] \in Lengthy
    BY <1>2, ElementOfSeq
  <2>2. Brief \cap Lengthy = {}
    BY DEF Brief, Lengthy
  <2>3. QED
    BY <1>1, <1>2, <2>1, <2>2 DEF Path
<1>4. \A i \in 1..Len(s) : s[i] # "suspend"
  <2>1. \A i \in 1..Len(s) : s[i] \in Brief
    BY <1>3, ElementOfSeq
  <2>2. QED
    BY <2>1 DEF Brief
<1>5. SubSeq(s, Len(s) + 1, Len(s)) = << >>
  BY <1>2, SubSeqEmpty
<1>6. Len(s) \in 1..Len(s) /\ ~(Len(s) + 1 <= Len(s))
  BY <1>2
<1>7. Moved(t, {})
  <2>1. Goto(t, SubSeq(s, Len(s) + 1, Len(s)), Blank)
    BY <1>5 DEF Return
  <2>2. QED
    BY <1>4, <1>6, <2>1, Leaving, BlankRegisters
<1>8. QED
  BY <1>7, GotoCarries DEF Return

LEMMA Abandoning ==
  ASSUME PathInv, NEW t \in Threads, NEW n \in Nat,
         \/ n = 6 /\ At(t, "step_mapping")
         \/ n = 5 /\ At(t, "ready_check")
         \/ n = 4 /\ At(t, "ready_mode")
         \/ n = 3 /\ At(t, "end_mode")
         \/ n = 2 /\ At(t, "end_check")
         \/ n = 3 /\ At(t, "disconnect_load")
         \/ n = 2 /\ At(t, "disconnect_check")
         \/ n = 2 /\ At(t, "unmap_load")
         \/ n = 5 /\ At(t, "map_load")
         \/ n = 4 /\ At(t, "map_mode")
         \/ n = 3 /\ At(t, "map_check"),
         Abandon(t, n)
  PROVE  /\ Moved(t, {"take", "end_request", "end_mode"}) /\ Carries(t, reg[t])
         /\ pc'[t] # << >> =>
              CASE At(t, "step_mapping") \/ At(t, "ready_check") \/ At(t, "ready_mode")
                     -> Head(pc'[t]) = "take"
                [] At(t, "disconnect_load") \/ At(t, "disconnect_check") \/ At(t, "unmap_load")
                     -> Head(pc'[t]) = "end_mode"
                [] OTHER -> Head(pc'[t]) = "end_request"
<1> DEFINE s == pc[t]
           landing == CASE At(t, "step_mapping") \/ At(t, "ready_check") \/ At(t, "ready_mode")
                             -> "take"
                        [] At(t, "disconnect_load") \/ At(t, "disconnect_check") \/ At(t, "unmap_load")
                             -> "end_mode"
                        [] OTHER -> "end_request"
<1>1. Path(s) /\ s # << >> /\ Head(s) = s[1] /\ Len(s) \in Nat \ {0} /\ reg[t] \in Registers
  BY TailOfPath DEF PathInv, At
<1>2. /\ n <= Len(s)
      /\ \A i \in 1..n : s[i] # "suspend"
      /\ n + 1 <= Len(s) => s[n + 1] = landing
  <2>1. CASE \/ n = 6 /\ At(t, "step_mapping")
             \/ n = 5 /\ At(t, "ready_check")
             \/ n = 4 /\ At(t, "ready_mode")
    BY <1>1, <2>1, ReadyChain DEF At
  <2>2. CASE \/ n = 3 /\ At(t, "end_mode")
             \/ n = 2 /\ At(t, "end_check")
             \/ n = 3 /\ At(t, "disconnect_load")
             \/ n = 2 /\ At(t, "disconnect_check")
             \/ n = 2 /\ At(t, "unmap_load")
    BY <1>1, <2>2, LengthyChain DEF At
  <2>3. CASE \/ n = 5 /\ At(t, "map_load")
             \/ n = 4 /\ At(t, "map_mode")
             \/ n = 3 /\ At(t, "map_check")
    BY <1>1, <2>3, LengthyChain DEF At
  <2>4. QED
    BY <2>1, <2>2, <2>3
<1>3. n \in 1..Len(s)
  BY <1>1, <1>2
<1> HIDE DEF landing
<1>4. Moved(t, {landing})
  <2>1. Goto(t, SubSeq(s, n + 1, Len(s)), reg[t])
    BY DEF Abandon
  <2>2. QED
    BY <1>1, <1>2, <1>3, <2>1, Leaving
<1>5. Carries(t, reg[t])
  BY GotoCarries DEF Abandon
<1>6. QED
  BY <1>4, <1>5 DEF landing, Moved

-----------------------------------------------------------------------------
(***************************************************************************)
(* What a step of a thread does, whatever else is under way.  The accesses *)
(* that the invariants speak of are reached in one way only.               *)
(***************************************************************************)
core == <<mode, ready, revision, next_epoch, mapping_epoch, disconnected_epoch, queue,
          granted, stopped, gaps, calls>>

GoesTo(t, label) == pc'[t] # << >> /\ Head(pc'[t]) = label

\* The variables that the invariants speak of change in these accesses only.
Effects(t) ==
  \/ UNCHANGED core
  \/ ReadyStore(t) \/ ReadyToken(t) \/ ReadyCas(t) \/ BeginCas(t)
  \/ DoSuspend(t) \/ DisconnectStore(t) \/ Bump(t)
  \/ UnmapStore(t) \/ MapOnToken(t) \/ MapOnStore(t) \/ Send(t) \/ Take(t)

ArrivesAuthorize(t) ==
  /\ GoesTo(t, "step_mapping") => UNCHANGED core /\ "step" \in calls[t]
  /\ GoesTo(t, "ready_check") =>
       /\ UNCHANGED core /\ reg'[t].generation = revision
       /\ "set_ready" \in calls[t] \/ At(t, "step_mapping")
  /\ GoesTo(t, "ready_mode") => UNCHANGED core /\ At(t, "ready_check") /\ reg'[t] = reg[t]
  /\ GoesTo(t, "ready_store") =>
       UNCHANGED core /\ At(t, "ready_mode") /\ mode = 0 /\ reg'[t] = reg[t]
  /\ GoesTo(t, "ready_token") => ReadyStore(t) /\ reg'[t] = reg[t]
  /\ GoesTo(t, "ready_cas") => ReadyToken(t) /\ reg'[t] = [reg[t] EXCEPT !.epoch = next_epoch]

ArrivesCapture(t) ==
  /\ GoesTo(t, "begin_load") => UNCHANGED core /\ "begin" \in calls[t]
  /\ GoesTo(t, "begin_ready") =>
       /\ UNCHANGED core /\ At(t, "begin_load") /\ Odd(mode)
       /\ reg'[t] = [reg[t] EXCEPT !.epoch = mode]
  /\ GoesTo(t, "begin_cas") => UNCHANGED core /\ At(t, "begin_ready") /\ reg'[t] = reg[t]
  /\ GoesTo(t, "submit_load") =>
       /\ UNCHANGED core /\ "submit" \in calls[t] /\ pc[t] = << >>
       /\ reg'[t] = [Blank EXCEPT !.captured = revision, !.generation = revision]
  /\ GoesTo(t, "submit_check") =>
       /\ UNCHANGED core /\ At(t, "submit_load") /\ Even(mode) /\ mode # 0
       /\ reg'[t] = [reg[t] EXCEPT !.epoch = mode]
  /\ GoesTo(t, "submit_stamp") => UNCHANGED core /\ At(t, "submit_check") /\ reg'[t] = reg[t]
  /\ GoesTo(t, "submit_send") =>
       /\ UNCHANGED core /\ At(t, "submit_stamp")
       /\ reg'[t] = [reg[t] EXCEPT !.generation = revision]

ArrivesMapping(t) ==
  /\ GoesTo(t, "map_on_store") => MapOnToken(t) /\ reg'[t] = [reg[t] EXCEPT !.epoch = next_epoch]
  /\ GoesTo(t, "map_load") => UNCHANGED core /\ reg'[t].captured = revision
  /\ GoesTo(t, "map_mode") =>
       /\ UNCHANGED core /\ At(t, "map_load") /\ mapping_epoch # 0
       /\ reg'[t].epoch = mapping_epoch /\ reg'[t].captured = reg[t].captured
       /\ reg'[t].kind # "capture"
  /\ GoesTo(t, "map_check") => UNCHANGED core /\ At(t, "map_mode") /\ reg'[t] = reg[t]
  /\ GoesTo(t, "map_stamp") => UNCHANGED core /\ At(t, "map_check") /\ reg'[t] = reg[t]
  /\ GoesTo(t, "map_send") =>
       /\ UNCHANGED core /\ At(t, "map_stamp")
       /\ reg'[t] = [reg[t] EXCEPT !.generation = revision]

ArrivesEvidence(t) ==
  /\ GoesTo(t, "disconnect_load") => UNCHANGED core /\ "disconnect" \in calls[t]
  /\ GoesTo(t, "disconnect_check") =>
       /\ UNCHANGED core /\ At(t, "disconnect_load") /\ Even(mode) /\ mode # 0
       /\ reg'[t] = [reg[t] EXCEPT !.epoch = mode]
  /\ GoesTo(t, "disconnect_store") =>
       UNCHANGED core /\ At(t, "disconnect_check") /\ reg'[t] = reg[t]
  \* a thread leaves set_mapping_profile(None) with no session open
  /\ At(t, "unmap_load") =>
       UNCHANGED core /\ (GoesTo(t, "unmap_store") \/ mapping_epoch = 0)
  /\ At(t, "unmap_store") => UnmapStore(t)

Arrives(t) ==
  ArrivesAuthorize(t) /\ ArrivesCapture(t) /\ ArrivesMapping(t) /\ ArrivesEvidence(t)

Steps(t) ==
  /\ PathInv'
  /\ \A u \in Threads \ {t} : pc'[u] = pc[u] /\ reg'[u] = reg[u]
  /\ Uses(pc[t], {"suspend"}) /\ ~At(t, "suspend") => Uses(pc'[t], {"suspend"})
  /\ \/ \E call \in calls[t] : Call(t, call)
     \/ Uses(pc'[t], Tokens) =>
          Uses(pc[t], Tokens) /\ ~At(t, "ready_token") /\ ~At(t, "map_on_token")
  /\ Effects(t) /\ Arrives(t)

\* A step to labels no Arrives speaks of
Unnoted == {"take", "end_request", "end_mode", "end_check", "end_mapping", "suspend", "bump",
            "record_failure", "unmap_load", "unmap_store", "map_on_load", "map_on_token", "request"}

LEMMA ArrivesUnnoted ==
  ASSUME NEW t, NEW heads, heads \subseteq Unnoted, Moved(t, heads), Effects(t),
         ~At(t, "unmap_load"), ~At(t, "unmap_store")
  PROVE  Steps(t)
<1>1. \A label : GoesTo(t, label) => label \in Unnoted
  BY DEF GoesTo, Moved
<1>2. ArrivesAuthorize(t)
  BY <1>1 DEF ArrivesAuthorize, Unnoted
<1>3. ArrivesCapture(t)
  BY <1>1 DEF ArrivesCapture, Unnoted
<1>4. ArrivesMapping(t)
  BY <1>1 DEF ArrivesMapping, Unnoted
<1>5. ArrivesEvidence(t)
  BY <1>1 DEF ArrivesEvidence, Unnoted
<1>6. QED
  BY <1>2, <1>3, <1>4, <1>5 DEF Moved, Steps, Arrives

\* A step to one access that Arrives speaks of
LEMMA ArrivesOne ==
  ASSUME NEW t, NEW label, Moved(t, {label}), Effects(t), At(t, "unmap_load") \/ At(t, "unmap_store") => FALSE,
         GoesTo(t, label) => Arrives(t)
  PROVE  Steps(t)
<1>1. \A other : GoesTo(t, other) => other = label
  BY DEF GoesTo, Moved
<1>2. CASE GoesTo(t, label)
  BY <1>2 DEF Moved, Steps
<1>3. CASE ~GoesTo(t, label)
  <2>1. \A other : ~GoesTo(t, other)
    BY <1>1, <1>3
  <2>2. Arrives(t)
    BY <2>1 DEF Arrives, ArrivesAuthorize, ArrivesCapture, ArrivesMapping, ArrivesEvidence
  <2>3. QED
    BY <2>2 DEF Moved, Steps
<1>4. QED
  BY <1>2, <1>3

Counters ==
  /\ mode \in Nat /\ ready \in Nat /\ revision \in Nat /\ next_epoch \in Nat
  /\ mapping_epoch \in Nat /\ disconnected_epoch \in Nat

LEMMA SameCore == UNCHANGED <<shared, seen>> => UNCHANGED core
BY DEF shared, seen, core

\* The three ways an access ends: it goes on, it leaves out accesses, it returns.
LEMMA StepsOn ==
  ASSUME PathInv, NEW t \in Threads, NEW label, NEW next, NEW r \in Registers,
         At(t, label), label \notin {"unmap_load", "unmap_store"}, After(label) = {next},
         Continue(t, r), Effects(t), GoesTo(t, next) /\ reg'[t] = r => Arrives(t)
  PROVE  Steps(t)
<1>1. Moved(t, {next}) /\ Carries(t, r)
  BY Continuing
<1>2. GoesTo(t, next) => Arrives(t)
  BY <1>1 DEF GoesTo, Carries
<1>3. QED
  BY <1>1, <1>2, ArrivesOne DEF At

LEMMA StepsUnnoted ==
  ASSUME PathInv, NEW t \in Threads, NEW label, NEW r \in Registers,
         At(t, label), label \notin {"unmap_load", "unmap_store"}, After(label) \subseteq Unnoted,
         Continue(t, r), Effects(t)
  PROVE  Steps(t)
<1>1. Moved(t, After(label))
  BY Continuing
<1>2. QED
  BY <1>1, ArrivesUnnoted DEF At

LEMMA StepsOut ==
  ASSUME PathInv, NEW t \in Threads, NEW n \in Nat, Abandon(t, n), UNCHANGED core,
         \/ n = 6 /\ At(t, "step_mapping")
         \/ n = 5 /\ At(t, "ready_check")
         \/ n = 4 /\ At(t, "ready_mode")
         \/ n = 3 /\ At(t, "end_mode")
         \/ n = 2 /\ At(t, "end_check")
         \/ n = 3 /\ At(t, "disconnect_load")
         \/ n = 2 /\ At(t, "disconnect_check")
         \/ n = 5 /\ At(t, "map_load")
         \/ n = 4 /\ At(t, "map_mode")
         \/ n = 3 /\ At(t, "map_check")
  PROVE  Steps(t)
<1>1. Moved(t, {"take", "end_request", "end_mode"})
  BY Abandoning
<1>2. QED
  BY <1>1, ArrivesUnnoted DEF Effects, At, Unnoted

LEMMA StepsBack ==
  ASSUME PathInv, NEW t \in Threads, NEW label \in Brief, At(t, label), Return(t), Effects(t)
  PROVE  Steps(t)
<1>1. Moved(t, {})
  BY Returning
<1>2. QED
  BY <1>1, ArrivesUnnoted DEF At, Brief

LEMMA AuthorizeSteps ==
  ASSUME PathInv, Counters, NEW t \in Threads, Authorize(t)
  PROVE  Steps(t)
<1>1. reg[t] \in Registers
  BY DEF PathInv
<1>2. CASE ReadyCheck(t)
  <2>1. UNCHANGED core /\ At(t, "ready_check") /\ Effects(t)
    BY <1>2, SameCore DEF ReadyCheck, Effects
  <2>2. CASE Proceed(t)
    <3>1. GoesTo(t, "ready_mode") /\ reg'[t] = reg[t] => Arrives(t)
      BY <2>1 DEF GoesTo, Arrives, ArrivesAuthorize, ArrivesCapture, ArrivesMapping,
                  ArrivesEvidence, At
    <3>2. QED
      BY <1>1, <2>1, <2>2, <3>1, StepsOn DEF Proceed, After
  <2>3. QED
    BY <1>2, <2>1, <2>2, StepsOut DEF ReadyCheck
<1>3. CASE ReadyMode(t)
  <2>1. UNCHANGED core /\ At(t, "ready_mode") /\ Effects(t)
    BY <1>3, SameCore DEF ReadyMode, Effects
  <2>2. CASE Proceed(t) /\ mode = 0
    <3>1. GoesTo(t, "ready_store") /\ reg'[t] = reg[t] => Arrives(t)
      BY <2>1, <2>2 DEF GoesTo, Arrives, ArrivesAuthorize, ArrivesCapture, ArrivesMapping,
                        ArrivesEvidence, At
    <3>2. QED
      BY <1>1, <2>1, <2>2, <3>1, StepsOn DEF Proceed, After
  <2>3. QED
    BY <1>3, <2>1, <2>2, StepsOut DEF ReadyMode
<1>4. CASE ReadyStore(t)
  <2>1. At(t, "ready_store") /\ Continue(t, reg[t]) /\ Effects(t)
    BY <1>4 DEF ReadyStore, Effects, Proceed
  <2>2. GoesTo(t, "ready_token") /\ reg'[t] = reg[t] => Arrives(t)
    BY <1>4, <2>1 DEF GoesTo, Arrives, ArrivesAuthorize, ArrivesCapture, ArrivesMapping,
                      ArrivesEvidence, At
  <2>3. QED
    BY <1>1, <2>1, <2>2, StepsOn DEF After
<1>5. CASE ReadyToken(t)
  <2> DEFINE r == [reg[t] EXCEPT !.epoch = next_epoch]
  <2>1. At(t, "ready_token") /\ Continue(t, r) /\ Effects(t)
    BY <1>5 DEF ReadyToken, Effects
  <2>2. r \in Registers
    BY <1>1 DEF Registers, Counters
  <2>3. GoesTo(t, "ready_cas") /\ reg'[t] = r => Arrives(t)
    BY <1>5, <2>1 DEF GoesTo, Arrives, ArrivesAuthorize, ArrivesCapture, ArrivesMapping,
                      ArrivesEvidence, At
  <2> HIDE DEF r
  <2>4. QED
    BY <2>1, <2>2, <2>3, StepsOn DEF After
<1>6. CASE ReadyCas(t)
  <2>1. At(t, "ready_cas") /\ Continue(t, reg[t]) /\ Effects(t)
    BY <1>6 DEF ReadyCas, Effects, Proceed
  <2>2. QED
    BY <1>1, <2>1, StepsUnnoted DEF After, Unnoted
<1>7. QED
  BY <1>2, <1>3, <1>4, <1>5, <1>6 DEF Authorize

LEMMA StartSteps ==
  ASSUME PathInv, Counters, NEW t \in Threads, Start(t)
  PROVE  Steps(t)
<1>1. reg[t] \in Registers
  BY DEF PathInv
<1>2. CASE BeginLoad(t)
  <2> DEFINE r == [reg[t] EXCEPT !.epoch = mode]
  <2>1. UNCHANGED core /\ At(t, "begin_load") /\ Effects(t)
    BY <1>2, SameCore DEF BeginLoad, Effects
  <2>2. r \in Registers
    BY <1>1 DEF Registers, Counters
  <2>3. CASE Odd(mode) /\ Continue(t, r)
    <3>1. GoesTo(t, "begin_ready") /\ reg'[t] = r => Arrives(t)
      BY <2>1, <2>3 DEF GoesTo, Arrives, ArrivesAuthorize, ArrivesCapture, ArrivesMapping,
                        ArrivesEvidence, At
    <3> HIDE DEF r
    <3>2. QED
      BY <2>1, <2>2, <2>3, <3>1, StepsOn DEF After
  <2>4. CASE Return(t)
    BY <2>1, <2>4, StepsBack DEF Brief
  <2>5. QED
    BY <1>2, <2>3, <2>4 DEF BeginLoad
<1>3. CASE BeginReady(t)
  <2>1. UNCHANGED core /\ At(t, "begin_ready") /\ Effects(t)
    BY <1>3, SameCore DEF BeginReady, Effects
  <2>2. CASE Proceed(t)
    <3>1. GoesTo(t, "begin_cas") /\ reg'[t] = reg[t] => Arrives(t)
      BY <2>1 DEF GoesTo, Arrives, ArrivesAuthorize, ArrivesCapture, ArrivesMapping,
                  ArrivesEvidence, At
    <3>2. QED
      BY <1>1, <2>1, <2>2, <3>1, StepsOn DEF Proceed, After
  <2>3. CASE Return(t)
    BY <2>1, <2>3, StepsBack DEF Brief
  <2>4. QED
    BY <1>3, <2>2, <2>3 DEF BeginReady
<1>4. CASE BeginCas(t)
  <2>1. At(t, "begin_cas") /\ Return(t) /\ Effects(t)
    BY <1>4 DEF BeginCas, Effects
  <2>2. QED
    BY <2>1, StepsBack DEF Brief
<1>5. QED
  BY <1>2, <1>3, <1>4 DEF Start

LEMMA RestIsLengthy ==
  ASSUME PathInv, NEW t \in Threads, NEW label, At(t, label),
         label \in Lengthy \/ label = "submit_send"
  PROVE  /\ Tail(pc[t]) \in Seq(Lengthy)
         /\ Tail(pc[t]) # << >> => Tail(pc[t])[1] \in After(label)
<1> DEFINE s == pc[t]
<1>1. Path(s) /\ s # << >> /\ Head(s) = label
  BY DEF PathInv, At
<1>2. /\ Path(Tail(s)) /\ s[1] = label /\ Len(s) \in Nat \ {0} /\ Len(Tail(s)) = Len(s) - 1
      /\ Tail(s) # << >> => Head(Tail(s)) \in After(label)
  BY <1>1, TailOfPath
<1>3. Tail(s) # << >> => Head(Tail(s)) = Tail(s)[1]
  BY <1>2, TailOfPath
<1>4. CASE label \in Lengthy
  <2>1. s \in Seq(Brief) => s[1] \in Brief
    BY <1>2, ElementOfSeq
  <2>2. Brief \cap Lengthy = {}
    BY DEF Brief, Lengthy
  <2>3. s \in Seq(Lengthy)
    BY <1>1, <1>2, <1>4, <2>1, <2>2 DEF Path
  <2>4. Tail(s) \in Seq(Lengthy)
    BY <1>1, <2>3, HeadTailProperties
  <2>5. QED
    BY <1>2, <1>3, <2>4
<1>5. CASE label = "submit_send"
  <2>1. Tail(s) = << >>
    BY <1>2, <1>5 DEF After
  <2>2. QED
    BY <2>1, EmptySeq
<1>6. QED
  BY <1>4, <1>5

LEMMA StopSteps ==
  ASSUME PathInv, Counters, NEW t \in Threads, Stop(t)
  PROVE  Steps(t)
<1>1. reg[t] \in Registers
  BY DEF PathInv
<1>2. CASE EndMode(t)
  <2>1. UNCHANGED core /\ At(t, "end_mode") /\ Effects(t)
    BY <1>2, SameCore DEF EndMode, Effects
  <2>2. QED
    BY <1>1, <1>2, <2>1, StepsOut, StepsUnnoted DEF EndMode, Proceed, After, Unnoted
<1>3. CASE EndCheck(t)
  <2>1. UNCHANGED core /\ At(t, "end_check") /\ Effects(t)
    BY <1>3, SameCore DEF EndCheck, Effects
  <2>2. QED
    BY <1>1, <1>3, <2>1, StepsOut, StepsUnnoted DEF EndCheck, Proceed, After, Unnoted
<1>4. CASE EndMapping(t)
  <2> DEFINE r == [reg[t] EXCEPT !.captured = revision, !.kind = "release"]
  <2>1. UNCHANGED core /\ At(t, "end_mapping") /\ Effects(t)
    BY <1>4, SameCore DEF EndMapping, Effects
  <2>2. CASE Proceed(t)
    BY <1>1, <2>1, <2>2, StepsUnnoted DEF Proceed, After, Unnoted
  <2>3. CASE Goto(t, SubmitMapping \o Tail(pc[t]), r)
    <3>1. r \in Registers /\ r.captured = revision
      BY <1>1 DEF Registers, Counters
    <3> HIDE DEF r
    <3>2. /\ SubmitMapping \in Seq(Lengthy) /\ SubmitMapping # << >> /\ Ordered(SubmitMapping)
          /\ SubmitMapping[1] = "map_load" /\ SubmitMapping[Len(SubmitMapping)] = "map_send"
      BY ShortPrograms DEF Nests
    <3>3. /\ Tail(pc[t]) \in Seq(Lengthy)
          /\ Tail(pc[t]) # << >> => Tail(pc[t])[1] \in After("map_send")
      <4>1. After("map_send") = After("end_mapping")
        BY DEF After
      <4>2. QED
        BY <2>1, <4>1, RestIsLengthy DEF Lengthy
    <3>4. pc[t] # << >> /\ ~At(t, "suspend")
      BY <2>1 DEF At
    <3>5. Moved(t, {"map_load"})
      BY <2>3, <3>1, <3>2, <3>3, <3>4, Nesting
    <3>6. Carries(t, r)
      BY <2>3, GotoCarries
    <3>7. GoesTo(t, "map_load") => Arrives(t)
      BY <2>1, <3>1, <3>6 DEF Carries, GoesTo, Arrives, ArrivesAuthorize, ArrivesCapture,
                              ArrivesMapping, ArrivesEvidence, At
    <3>8. QED
      BY <2>1, <3>5, <3>7, ArrivesOne DEF At
  <2>4. QED
    BY <1>4, <2>2, <2>3 DEF EndMapping
<1>5. CASE EndRequest(t)
  <2>1. At(t, "end_request") /\ Continue(t, reg[t]) /\ Effects(t)
    BY <1>5 DEF EndRequest, Effects, Proceed, core, seen
  <2>2. QED
    BY <1>1, <2>1, StepsUnnoted DEF After, Unnoted
<1>6. CASE DoSuspend(t)
  <2>1. At(t, "suspend") /\ Continue(t, reg[t]) /\ Effects(t)
    BY <1>6 DEF DoSuspend, Effects, Proceed
  <2>2. QED
    BY <1>1, <2>1, StepsUnnoted DEF After, Unnoted
<1>7. CASE DisconnectLoad(t)
  <2> DEFINE r == [reg[t] EXCEPT !.epoch = mode]
  <2>1. UNCHANGED core /\ At(t, "disconnect_load") /\ Effects(t)
    BY <1>7, SameCore DEF DisconnectLoad, Effects
  <2>2. r \in Registers
    BY <1>1 DEF Registers, Counters
  <2>3. CASE Even(mode) /\ mode # 0 /\ Continue(t, r)
    <3>1. GoesTo(t, "disconnect_check") /\ reg'[t] = r => Arrives(t)
      BY <2>1, <2>3 DEF GoesTo, Arrives, ArrivesAuthorize, ArrivesCapture, ArrivesMapping,
                        ArrivesEvidence, At
    <3> HIDE DEF r
    <3>2. QED
      BY <2>1, <2>2, <2>3, <3>1, StepsOn DEF After
  <2>4. QED
    BY <1>7, <2>1, <2>3, StepsOut DEF DisconnectLoad
<1>8. CASE DisconnectCheck(t)
  <2>1. UNCHANGED core /\ At(t, "disconnect_check") /\ Effects(t)
    BY <1>8, SameCore DEF DisconnectCheck, Effects
  <2>2. CASE Proceed(t)
    <3>1. GoesTo(t, "disconnect_store") /\ reg'[t] = reg[t] => Arrives(t)
      BY <2>1 DEF GoesTo, Arrives, ArrivesAuthorize, ArrivesCapture, ArrivesMapping,
                  ArrivesEvidence, At
    <3>2. QED
      BY <1>1, <2>1, <2>2, <3>1, StepsOn DEF Proceed, After
  <2>3. QED
    BY <1>8, <2>1, <2>2, StepsOut DEF DisconnectCheck
<1>9. CASE DisconnectStore(t)
  <2>1. At(t, "disconnect_store") /\ Continue(t, reg[t]) /\ Effects(t)
    BY <1>9 DEF DisconnectStore, Effects, Proceed
  <2>2. QED
    BY <1>1, <2>1, StepsUnnoted DEF After, Unnoted
<1>10. CASE RecordFailure(t)
  <2>1. At(t, "record_failure") /\ Continue(t, reg[t]) /\ Effects(t)
    BY <1>10 DEF RecordFailure, Effects, Proceed, core, seen
  <2>2. QED
    BY <1>1, <2>1, StepsUnnoted DEF After, Unnoted
<1>11. CASE Bump(t)
  <2>1. At(t, "bump") /\ Continue(t, reg[t]) /\ Effects(t)
    BY <1>11 DEF Bump, Effects, Proceed
  <2>2. QED
    BY <1>1, <2>1, StepsUnnoted DEF After, Unnoted
<1>12. QED
  BY <1>2, <1>3, <1>4, <1>5, <1>6, <1>7, <1>8, <1>9, <1>10, <1>11 DEF Stop

LEMMA MapSteps ==
  ASSUME PathInv, Counters, NEW t \in Threads, Map(t)
  PROVE  Steps(t)
<1>1. reg[t] \in Registers
  BY DEF PathInv
<1>2. CASE UnmapLoad(t)
  <2>1. UNCHANGED core /\ At(t, "unmap_load") /\ Effects(t)
    BY <1>2, SameCore DEF UnmapLoad, Effects
  <2>2. CASE Proceed(t)
    <3>1. Moved(t, {"unmap_store"})
      BY <2>1, <2>2, Proceeding DEF After
    <3>2. pc'[t] # << >>
      <4>1. Tail(pc[t]) # << >>
        BY <2>1, TailOfPath DEF At, PathInv, Last
      <4>2. QED
        BY <2>2, <4>1, GotoCarries DEF Proceed, Continue
    <3>3. GoesTo(t, "unmap_store") /\ Head(pc'[t]) = "unmap_store"
      BY <3>1, <3>2 DEF Moved, GoesTo
    <3>4. Arrives(t)
      BY <2>1, <3>3 DEF GoesTo, Arrives, ArrivesAuthorize, ArrivesCapture, ArrivesMapping,
                        ArrivesEvidence, At
    <3>5. QED
      BY <2>1, <3>1, <3>4 DEF Moved, Steps
  <2>3. CASE mapping_epoch = 0 /\ Abandon(t, 2)
    <3>1. /\ Moved(t, {"take", "end_request", "end_mode"})
          /\ pc'[t] # << >> => Head(pc'[t]) \in {"take", "end_request", "end_mode"}
      BY <2>1, <2>3, Abandoning DEF Moved
    <3>2. Arrives(t)
      BY <2>1, <2>3, <3>1 DEF GoesTo, Arrives, ArrivesAuthorize, ArrivesCapture, ArrivesMapping,
                              ArrivesEvidence, At
    <3>3. QED
      BY <2>1, <3>1, <3>2 DEF Moved, Steps
  <2>4. QED
    BY <1>2, <2>2, <2>3 DEF UnmapLoad
<1>3. CASE UnmapStore(t)
  <2>1. At(t, "unmap_store") /\ Proceed(t) /\ Effects(t)
    BY <1>3 DEF UnmapStore, Effects
  <2>2. /\ Moved(t, {"end_mode"})
        /\ pc'[t] # << >> => Head(pc'[t]) = "end_mode"
    BY <2>1, Proceeding DEF Moved, After
  <2>3. Arrives(t)
    BY <1>3, <2>1, <2>2 DEF GoesTo, Arrives, ArrivesAuthorize, ArrivesCapture, ArrivesMapping,
                            ArrivesEvidence, At
  <2>4. QED
    BY <2>1, <2>2, <2>3 DEF Moved, Steps
<1>4. CASE MapOnLoad(t)
  <2>1. At(t, "map_on_load") /\ Effects(t)
    BY <1>4, SameCore DEF MapOnLoad, Effects
  <2>2. QED
    BY <1>1, <1>4, <2>1, StepsUnnoted, StepsBack DEF MapOnLoad, Proceed, After, Unnoted, Brief
<1>5. CASE MapOnToken(t)
  <2> DEFINE r == [reg[t] EXCEPT !.epoch = next_epoch]
  <2>1. At(t, "map_on_token") /\ Continue(t, r) /\ Effects(t)
    BY <1>5 DEF MapOnToken, Effects
  <2>2. r \in Registers
    BY <1>1 DEF Registers, Counters
  <2>3. GoesTo(t, "map_on_store") /\ reg'[t] = r => Arrives(t)
    BY <1>5, <2>1 DEF GoesTo, Arrives, ArrivesAuthorize, ArrivesCapture, ArrivesMapping,
                      ArrivesEvidence, At
  <2> HIDE DEF r
  <2>4. QED
    BY <2>1, <2>2, <2>3, StepsOn DEF After
<1>6. CASE MapOnStore(t)
  <2>1. At(t, "map_on_store") /\ Return(t) /\ Effects(t)
    BY <1>6 DEF MapOnStore, Effects
  <2>2. QED
    BY <2>1, StepsBack DEF Brief
<1>7. QED
  BY <1>2, <1>3, <1>4, <1>5, <1>6 DEF Map

LEMMA DeliverSteps ==
  ASSUME PathInv, Counters, NEW t \in Threads, Deliver(t)
  PROVE  Steps(t)
<1>1. reg[t] \in Registers
  BY DEF PathInv
<1>2. CASE SubmitLoad(t)
  <2> DEFINE r == [reg[t] EXCEPT !.epoch = mode]
  <2>1. UNCHANGED core /\ At(t, "submit_load") /\ Effects(t)
    BY <1>2, SameCore DEF SubmitLoad, Effects
  <2>2. r \in Registers
    BY <1>1 DEF Registers, Counters
  <2>3. CASE Even(mode) /\ mode # 0 /\ Continue(t, r)
    <3>1. GoesTo(t, "submit_check") /\ reg'[t] = r => Arrives(t)
      BY <2>1, <2>3 DEF GoesTo, Arrives, ArrivesAuthorize, ArrivesCapture, ArrivesMapping,
                        ArrivesEvidence, At
    <3> HIDE DEF r
    <3>2. QED
      BY <2>1, <2>2, <2>3, <3>1, StepsOn DEF After
  <2>4. QED
    BY <1>2, <2>1, <2>3, StepsBack DEF SubmitLoad, Brief
<1>3. CASE SubmitCheck(t)
  <2>1. UNCHANGED core /\ At(t, "submit_check") /\ Effects(t)
    BY <1>3, SameCore DEF SubmitCheck, Effects
  <2>2. CASE Proceed(t)
    <3>1. GoesTo(t, "submit_stamp") /\ reg'[t] = reg[t] => Arrives(t)
      BY <2>1 DEF GoesTo, Arrives, ArrivesAuthorize, ArrivesCapture, ArrivesMapping,
                  ArrivesEvidence, At
    <3>2. QED
      BY <1>1, <2>1, <2>2, <3>1, StepsOn DEF Proceed, After
  <2>3. QED
    BY <1>3, <2>1, <2>2, StepsBack DEF SubmitCheck, Brief
<1>4. CASE MapLoad(t)
  <2> DEFINE r == [reg[t] EXCEPT !.epoch = mapping_epoch,
                                 !.kind = IF @ = "release" THEN @ ELSE "mapping"]
  <2>1. UNCHANGED core /\ At(t, "map_load") /\ Effects(t)
    BY <1>4, SameCore DEF MapLoad, Effects
  <2>2. /\ r \in Registers /\ r.epoch = mapping_epoch /\ r.captured = reg[t].captured
        /\ r.kind # "capture"
    BY <1>1 DEF Registers, Counters
  <2>3. CASE mapping_epoch # 0 /\ Continue(t, r)
    <3> HIDE DEF r
    <3>1. GoesTo(t, "map_mode") /\ reg'[t] = r => Arrives(t)
      BY <2>1, <2>2, <2>3 DEF GoesTo, Arrives, ArrivesAuthorize, ArrivesCapture, ArrivesMapping,
                              ArrivesEvidence, At
    <3>2. QED
      BY <2>1, <2>2, <2>3, <3>1, StepsOn DEF After
  <2>4. QED
    BY <1>4, <2>1, <2>3, StepsOut DEF MapLoad
<1>5. CASE MapMode(t)
  <2>1. UNCHANGED core /\ At(t, "map_mode") /\ Effects(t)
    BY <1>5, SameCore DEF MapMode, Effects
  <2>2. CASE Proceed(t)
    <3>1. GoesTo(t, "map_check") /\ reg'[t] = reg[t] => Arrives(t)
      BY <2>1 DEF GoesTo, Arrives, ArrivesAuthorize, ArrivesCapture, ArrivesMapping,
                  ArrivesEvidence, At
    <3>2. QED
      BY <1>1, <2>1, <2>2, <3>1, StepsOn DEF Proceed, After
  <2>3. QED
    BY <1>5, <2>1, <2>2, StepsOut DEF MapMode
<1>6. CASE MapCheck(t)
  <2>1. UNCHANGED core /\ At(t, "map_check") /\ Effects(t)
    BY <1>6, SameCore DEF MapCheck, Effects
  <2>2. CASE Proceed(t)
    <3>1. GoesTo(t, "map_stamp") /\ reg'[t] = reg[t] => Arrives(t)
      BY <2>1 DEF GoesTo, Arrives, ArrivesAuthorize, ArrivesCapture, ArrivesMapping,
                  ArrivesEvidence, At
    <3>2. QED
      BY <1>1, <2>1, <2>2, <3>1, StepsOn DEF Proceed, After
  <2>3. QED
    BY <1>6, <2>1, <2>2, StepsOut DEF MapCheck
<1>7. CASE Stamp(t)
  <2> DEFINE r == [reg[t] EXCEPT !.generation = revision]
  <2>1. UNCHANGED core /\ Effects(t) /\ Continue(t, r)
    BY <1>7, SameCore DEF Stamp, Effects
  <2>2. r \in Registers
    BY <1>1 DEF Registers, Counters
  <2>3. CASE At(t, "submit_stamp")
    <3>1. GoesTo(t, "submit_send") /\ reg'[t] = r => Arrives(t)
      BY <2>1, <2>3 DEF GoesTo, Arrives, ArrivesAuthorize, ArrivesCapture, ArrivesMapping,
                        ArrivesEvidence, At
    <3> HIDE DEF r
    <3>2. QED
      BY <2>1, <2>2, <2>3, <3>1, StepsOn DEF After
  <2>4. CASE At(t, "map_stamp")
    <3>1. GoesTo(t, "map_send") /\ reg'[t] = r => Arrives(t)
      BY <2>1, <2>4 DEF GoesTo, Arrives, ArrivesAuthorize, ArrivesCapture, ArrivesMapping,
                        ArrivesEvidence, At
    <3> HIDE DEF r
    <3>2. QED
      BY <2>1, <2>2, <2>4, <3>1, StepsOn DEF After
  <2>5. QED
    BY <1>7, <2>3, <2>4 DEF Stamp
<1>8. CASE Send(t)
  <2>1. PICK label \in {"submit_send", "map_send"} : At(t, label)
    BY <1>8 DEF Send
  <2>2. Effects(t)
    BY <1>8 DEF Effects
  <2>3. CASE Proceed(t)
    BY <1>1, <2>1, <2>2, <2>3, StepsUnnoted DEF Proceed, After, Unnoted
  <2>4. CASE Goto(t, Overflow(reg[t].kind) \o Tail(pc[t]), reg[t])
    <3> DEFINE program == Overflow(reg[t].kind)
    <3>1. /\ program \in Seq(Lengthy) /\ program # << >> /\ Ordered(program)
          /\ program[1] \in {"end_mode", "unmap_load"}
          /\ program[Len(program)] = "record_failure"
      BY NestedPrograms DEF Nests, Overflow
    <3>2. /\ Tail(pc[t]) \in Seq(Lengthy)
          /\ Tail(pc[t]) # << >> => Tail(pc[t])[1] \in After("record_failure")
      <4>1. Tail(pc[t]) \in Seq(Lengthy) /\ (Tail(pc[t]) # << >> => Tail(pc[t])[1] \in After(label))
        BY <2>1, RestIsLengthy DEF Lengthy
      <4>2. After("submit_send") = {} /\ After("map_send") = After("record_failure")
        BY DEF After
      <4>3. QED
        BY <2>1, <4>1, <4>2
    <3>3. pc[t] # << >> /\ ~At(t, "suspend") /\ ~At(t, "unmap_load") /\ ~At(t, "unmap_store")
      BY <2>1 DEF At
    <3> HIDE DEF program
    <3>4. Moved(t, {program[1]})
      <4>1. Goto(t, program \o Tail(pc[t]), reg[t])
        BY <2>4 DEF program
      <4>2. QED
        BY <1>1, <3>1, <3>2, <3>3, <4>1, Nesting
    <3>5. QED
      BY <2>2, <3>1, <3>3, <3>4, ArrivesUnnoted DEF Unnoted
  <2>5. QED
    BY <1>8, <2>3, <2>4 DEF Send
<1>9. QED
  BY <1>2, <1>3, <1>4, <1>5, <1>6, <1>7, <1>8 DEF Deliver

LEMMA OtherSteps ==
  ASSUME PathInv, Counters, NEW t \in Threads, Request(t) \/ StepMapping(t) \/ Take(t)
  PROVE  Steps(t)
<1>1. reg[t] \in Registers
  BY DEF PathInv
<1>2. CASE Request(t)
  <2>1. At(t, "request") /\ Continue(t, reg[t]) /\ Effects(t)
    BY <1>2 DEF Request, Effects, Proceed, core, seen
  <2>2. QED
    BY <1>1, <2>1, StepsUnnoted DEF After, Unnoted
<1>3. CASE StepMapping(t)
  <2> DEFINE r == [reg[t] EXCEPT !.generation = revision]
  <2>1. UNCHANGED core /\ At(t, "step_mapping") /\ Effects(t)
    BY <1>3, SameCore DEF StepMapping, Effects
  <2>2. r \in Registers /\ r.generation = revision
    BY <1>1 DEF Registers, Counters
  <2>3. CASE Continue(t, r)
    <3> HIDE DEF r
    <3>1. GoesTo(t, "ready_check") /\ reg'[t] = r => Arrives(t)
      BY <2>1, <2>2 DEF GoesTo, Arrives, ArrivesAuthorize, ArrivesCapture, ArrivesMapping,
                        ArrivesEvidence, At
    <3>2. QED
      BY <2>1, <2>2, <2>3, <3>1, StepsOn DEF After
  <2>4. QED
    BY <1>3, <2>1, <2>3, StepsOut DEF StepMapping
<1>4. CASE Take(t)
  <2>1. At(t, "take") /\ Effects(t)
    BY <1>4 DEF Take, Effects
  <2>2. CASE Return(t)
    BY <2>1, <2>2, StepsBack DEF Brief
  <2>3. CASE UNCHANGED <<pc, reg>>
    <3>1. PathInv' /\ \A label : GoesTo(t, label) => label = "take"
      BY <2>1, <2>3 DEF PathInv, Registers, Path, OneToken, Ordered, GoesTo, At
    <3>2. Arrives(t)
      BY <2>1, <3>1 DEF Arrives, ArrivesAuthorize, ArrivesCapture, ArrivesMapping,
                        ArrivesEvidence, At
    <3>3. QED
      BY <2>1, <2>3, <3>1, <3>2 DEF Steps, At
  <2>4. QED
    BY <1>4, <2>2, <2>3 DEF Take
<1>5. QED
  BY <1>2, <1>3, <1>4

LEMMA CallSteps ==
  ASSUME PathInv, Counters, calls \in [Threads -> SUBSET CallNames],
         NEW t \in Threads, NEW call \in calls[t], Call(t, call)
  PROVE  Steps(t)
<1> DEFINE r == [Blank EXCEPT !.captured = revision, !.generation = revision]
<1>1. /\ r \in Registers /\ r.captured = revision /\ r.generation = revision
  BY DEF Registers, Blank, Counters
<1>2. UNCHANGED core /\ pc[t] = << >> /\ Goto(t, Program(call), r)
  BY SameCore DEF Call
<1>3. call \in CallNames
  OBVIOUS
<1>4. Path(Program(call)) /\ OneToken(Program(call)) /\ Program(call) # << >>
  BY <1>3, Programs
<1> DEFINE program == Program(call)
<1>5. /\ pc' = [pc EXCEPT ![t] = program]
      /\ reg' = [reg EXCEPT ![t] = IF program = << >> THEN Blank ELSE r]
  BY <1>2 DEF Goto
<1>6. pc \in [Threads -> Seq(Brief) \cup Seq(Lengthy)] /\ reg \in [Threads -> Registers]
  BY DEF PathInv
<1> HIDE DEF r, program
<1>7. /\ pc' \in [Threads -> Seq(Brief) \cup Seq(Lengthy)] /\ reg' \in [Threads -> Registers]
      /\ pc'[t] = program /\ reg'[t] = r
      /\ \A u \in Threads \ {t} : pc'[u] = pc[u] /\ reg'[u] = reg[u]
  BY <1>1, <1>4, <1>5, <1>6 DEF Path, program
<1>8. PathInv'
  BY <1>4, <1>7 DEF PathInv, program
<1>9. ~Uses(pc[t], {"suspend"})
  BY <1>2 DEF Uses
<1>10. Arrives(t)
  <2>1. CASE call \in {"set_ready", "step", "begin", "submit", "map_on", "request"}
    <3>1. Head(program) = CASE call = "set_ready" -> "ready_check"
                            [] call = "step" -> "step_mapping"
                            [] call = "begin" -> "begin_load"
                            [] call = "submit" -> "submit_load"
                            [] call = "map_on" -> "map_on_load"
                            [] call = "request" -> "request"
      <4>1. Head(program) = program[1]
        BY <1>4, TailOfPath DEF program
      <4>2. Step[1] = "step_mapping"
        BY BriefPrograms DEF Step, SetReady
      <4>3. QED
        BY <2>1, <4>1, <4>2 DEF program, Program, SetReady, Begin, Submit, MapOn
    <3>2. QED
      BY <1>1, <1>2, <1>7, <2>1, <3>1 DEF r, GoesTo, Arrives, ArrivesAuthorize, ArrivesCapture,
           ArrivesMapping, ArrivesEvidence, At
  <2>2. CASE call \in {"end", "disconnect", "submit_mapping", "map_off", "change", "replace", "revoke"}
    <3>1. /\ Head(program) \in {"end_mode", "disconnect_load", "map_load", "unmap_load", "suspend", "bump"}
          /\ Head(program) = "disconnect_load" => call = "disconnect"
      <4>1. Head(program) = program[1]
        BY <1>4, TailOfPath DEF program
      <4>2. QED
        BY <2>2, <4>1, EndNests, DisconnectNests, ShortPrograms, NestedPrograms
           DEF program, Program, Nests
    <3>2. QED
      BY <1>1, <1>2, <1>7, <2>2, <3>1 DEF GoesTo, Arrives, ArrivesAuthorize, ArrivesCapture,
           ArrivesMapping, ArrivesEvidence, At
  <2>3. QED
    BY <1>3, <2>1, <2>2 DEF CallNames
<1>11. QED
  BY <1>2, <1>7, <1>8, <1>9, <1>10 DEF Steps, Effects

\* Every step is a step of one thread.
LEMMA SomeThreadSteps ==
  ASSUME PathInv, Counters, calls \in [Threads -> SUBSET CallNames], Next
  PROVE  \E t \in Threads : Steps(t)
BY CallSteps, AuthorizeSteps, StartSteps, StopSteps, MapSteps, DeliverSteps, OtherSteps DEF Next

-----------------------------------------------------------------------------
(***************************************************************************)
(* Admission.  A stop is final because the token that the consumer is      *)
(* about to grant is new: it is odd, below next_epoch, and nobody has been *)
(* given it.  What is active was granted for the generation in ready,      *)
(* because ready changes only while nothing is granted.                    *)
(***************************************************************************)
\* The token of the epoch n, or n itself
Token(n) == IF Odd(n) THEN n ELSE n - 1

Grantable == {m \in 0..MaxEpoch : Odd(m)}

AtOneOf(t, labels) == \E label \in labels : At(t, label)

Authorizing(t) ==
  /\ AtOneOf(t, {"step_mapping", "ready_check", "ready_mode", "ready_store", "ready_token",
                 "ready_cas"}) => t = Consumer
  /\ AtOneOf(t, {"ready_check", "ready_mode", "ready_store", "ready_token", "ready_cas"}) =>
       reg[t].generation <= revision
  /\ AtOneOf(t, {"ready_store", "ready_token", "ready_cas"}) => mode = 0
  /\ AtOneOf(t, {"ready_token", "ready_cas"}) => ready = reg[t].generation
  /\ At(t, "ready_cas") =>
       /\ reg[t].epoch \in Grantable /\ reg[t].epoch < next_epoch
       /\ reg[t].epoch \notin stopped
  /\ AtOneOf(t, {"begin_ready", "begin_cas"}) => Odd(reg[t].epoch)

Stopped ==
  /\ stopped \subseteq Nat \ {0}
  /\ \A n \in stopped : n < next_epoch
  /\ \A n \in Nat : Odd(n) => (n \in stopped <=> n + 1 \in stopped)

Granting ==
  /\ granted \in [Grantable -> Nat]
  /\ mode # 0 => Token(mode) \in Grantable /\ granted[Token(mode)] = ready

Planners == {t \in Threads : Uses(pc[t], Tokens)}

Room == next_epoch + 2 * Cardinality(Planners) <= MaxEpoch + 2

AdmissionInv ==
  /\ PathInv /\ Counters /\ calls \in Usages
  /\ Odd(next_epoch) /\ Room
  /\ ready <= revision
  /\ Stopped /\ mode < next_epoch /\ mode \notin stopped
  /\ Granting
  /\ \A t \in Threads : Authorizing(t)

LEMMA OddAndEven ==
  ASSUME NEW n \in Nat
  PROVE  /\ Odd(n) <=> ~Even(n)
         /\ Odd(n) => n # 0 /\ Even(n + 1) /\ Odd(n + 2) /\ n + 1 \in Nat
         /\ Even(n) /\ n # 0 => n - 1 \in Nat /\ Odd(n - 1) /\ n - 1 + 1 = n
         /\ Even(n) => Odd(n + 1)
BY DEF Odd, Even

LEMMA CallsTyped ==
  ASSUME calls \in Usages
  PROVE  /\ calls \in [Threads -> SUBSET CallNames] /\ IsFiniteSet(Threads)
         /\ \A t \in Threads : "set_ready" \in calls[t] \/ "step" \in calls[t] => t = Consumer
         /\ \A t, other \in Threads : "begin" \in calls[t] /\ "submit" \in calls[other] => t = other
BY LinkUsage DEF UsageAssumption

\* A thread that goes on to take a token has its place in Room.
LEMMA RoomStep ==
  ASSUME AdmissionInv, NEW t \in Threads, Steps(t)
  PROVE  Room' /\ (At(t, "ready_token") => next_epoch \in Grantable)
<1>1. /\ IsFiniteSet(Threads) /\ Planners \subseteq Threads /\ Planners' \subseteq Threads
      /\ next_epoch \in Nat /\ Odd(next_epoch) /\ Room /\ MaxEpoch \in Nat
  BY CallsTyped, BoundsAssumption DEF AdmissionInv, Planners, Counters
<1>2. /\ IsFiniteSet(Planners) /\ IsFiniteSet(Planners')
      /\ Cardinality(Planners) \in Nat /\ Cardinality(Planners') \in Nat
  BY <1>1, FS_Subset, FS_CardinalityType
<1>3. \A u \in Threads \ {t} : u \in Planners' <=> u \in Planners
  BY DEF Steps, Planners, Uses
<1>4. CASE \E call \in calls[t] : Call(t, call)
  <2>1. PICK call \in calls[t] : Call(t, call)
    BY <1>4
  <2>2. pc[t] = << >> /\ UNCHANGED next_epoch
    BY <2>1 DEF Call, shared
  <2>3. t \notin Planners
    BY <2>2 DEF Planners, Uses
  <2>4. CASE Uses(pc'[t], Tokens)
    <3>1. Planners' = Planners \cup {t}
      BY <1>1, <1>3, <2>4 DEF Planners
    <3>2. Cardinality(Planners') = Cardinality(Planners) + 1
      BY <1>2, <2>3, <3>1, FS_AddElement
    <3>3. pc'[t] = Program(call)
      BY <2>1, GotoCarries DEF Call, AdmissionInv
    <3>4. next_epoch + 2 * Cardinality(Planners) <= MaxEpoch
      BY <2>1, <2>4, <3>3 DEF Call, WithinBounds, Planners
    <3>5. QED
      BY <1>1, <1>2, <2>2, <3>2, <3>4 DEF Room, At
  <2>5. CASE ~Uses(pc'[t], Tokens)
    <3>1. Planners' = Planners
      BY <1>1, <1>3, <2>3, <2>5 DEF Planners
    <3>2. QED
      BY <1>1, <2>2, <3>1 DEF Room, At
  <2>6. QED
    BY <2>4, <2>5
<1>5. CASE Uses(pc'[t], Tokens) =>
             Uses(pc[t], Tokens) /\ ~At(t, "ready_token") /\ ~At(t, "map_on_token")
  <2>1. Planners' \subseteq Planners
    BY <1>1, <1>3, <1>5 DEF Planners
  <2>2. Cardinality(Planners') <= Cardinality(Planners)
    BY <1>2, <2>1, FS_Subset
  <2>3. CASE At(t, "ready_token") \/ At(t, "map_on_token")
    <3>1. Uses(pc[t], Tokens)
      <4>1. 1 \in DOMAIN pc[t] /\ pc[t][1] \in Tokens
        BY <2>3, TailOfPath, DomainOfPath DEF At, AdmissionInv, PathInv, Tokens
      <4>2. QED
        BY <4>1 DEF Uses
    <3>2. t \in Planners /\ t \notin Planners'
      BY <1>5, <2>3, <3>1 DEF Planners
    <3>3. Planners' \subseteq Planners \ {t}
      BY <2>1, <3>2
    <3>4. /\ IsFiniteSet(Planners \ {t})
          /\ Cardinality(Planners \ {t}) = Cardinality(Planners) - 1
      BY <1>2, <3>2, FS_RemoveElement
    <3>5. Cardinality(Planners') <= Cardinality(Planners) - 1
      BY <3>3, <3>4, FS_Subset
    <3>6. next_epoch' \in {next_epoch, next_epoch + 2}
      BY DEF Steps, Effects, core, ReadyStore, ReadyToken, ReadyCas, BeginCas, DoSuspend,
             DisconnectStore, Bump, UnmapStore, MapOnToken, MapOnStore, Send, Take
    <3>7. Cardinality(Planners) >= 1
      BY <1>2, <3>5
    <3>8. next_epoch <= MaxEpoch
      BY <1>1, <1>2, <3>7 DEF Room
    <3>9. QED
      BY <1>1, <1>2, <3>5, <3>6, <3>8 DEF Room, Grantable
  <2>4. CASE ~(At(t, "ready_token") \/ At(t, "map_on_token"))
    <3>1. UNCHANGED next_epoch
      BY <2>4 DEF Steps, Effects, core, ReadyStore, ReadyToken, ReadyCas, BeginCas, DoSuspend,
             DisconnectStore, Bump, UnmapStore, MapOnToken, MapOnStore, Send, Take
    <3>2. QED
      BY <1>1, <1>2, <2>2, <2>4, <3>1 DEF Room
  <2>5. QED
    BY <2>3, <2>4
<1>6. QED
  BY <1>4, <1>5 DEF Steps

\* The annotation of a thread that does not move
LEMMA AuthorizingStays ==
  ASSUME NEW u \in Threads, Authorizing(u), pc'[u] = pc[u], reg'[u] = reg[u],
         revision <= revision', revision \in Nat, revision' \in Nat, reg[u] \in Registers,
         AtOneOf(u, {"ready_store", "ready_token", "ready_cas"}) => mode' = mode,
         AtOneOf(u, {"ready_token", "ready_cas"}) => ready' = ready,
         At(u, "ready_cas") =>
           /\ next_epoch \in Nat /\ next_epoch' \in Nat /\ next_epoch <= next_epoch'
           /\ stopped' = stopped
  PROVE  Authorizing(u)'
<1>1. \A label : At(u, label)' <=> At(u, label)
  BY DEF At
<1>2. \A labels : AtOneOf(u, labels)' <=> AtOneOf(u, labels)
  BY <1>1 DEF AtOneOf
<1>3. reg[u].generation \in Nat /\ reg[u].epoch \in Nat
  BY DEF Registers
<1>4. reg[u].epoch \in Grantable /\ At(u, "ready_cas") => reg[u].epoch < next_epoch'
  BY <1>3 DEF Authorizing
<1>5. AtOneOf(u, {"ready_check", "ready_mode", "ready_store", "ready_token", "ready_cas"}) =>
        reg[u].generation <= revision'
  BY <1>3 DEF Authorizing
<1>6. QED
  BY <1>1, <1>2, <1>4, <1>5 DEF Authorizing, Grantable

\* The annotation of the thread that moves
LEMMA AuthorizingMoves ==
  ASSUME AdmissionInv, NEW t \in Threads, Steps(t)
  PROVE  Authorizing(t)'
<1>1. Authorizing(t) /\ reg[t] \in Registers /\ ArrivesAuthorize(t) /\ ArrivesCapture(t)
  BY DEF AdmissionInv, PathInv, Steps, Arrives
<1>2. \A label : At(t, label)' <=> GoesTo(t, label)
  BY DEF At, GoesTo
<1>3. \A label : At(t, label) => \A labels : label \in labels => AtOneOf(t, labels)
  BY DEF AtOneOf
<1>4. \A u \in Threads : "set_ready" \in calls[u] \/ "step" \in calls[u] => u = Consumer
  BY CallsTyped DEF AdmissionInv
<1>5. Counters /\ ready <= revision /\ Odd(next_epoch)
  BY DEF AdmissionInv
<1>6. CASE GoesTo(t, "step_mapping") \/ GoesTo(t, "ready_check")
  <2>1. t = Consumer /\ UNCHANGED core
    BY <1>1, <1>3, <1>4, <1>6 DEF ArrivesAuthorize, Authorizing
  <2>2. GoesTo(t, "ready_check") => reg'[t].generation = revision
    BY <1>1 DEF ArrivesAuthorize
  <2>3. revision' = revision
    BY <2>1 DEF core
  <2>4. QED
    BY <1>2, <1>5, <1>6, <2>1, <2>2, <2>3 DEF Authorizing, AtOneOf, GoesTo, Counters
<1>7. CASE GoesTo(t, "ready_mode")
  <2>1. At(t, "ready_check") /\ reg'[t] = reg[t] /\ UNCHANGED core
    BY <1>1, <1>7 DEF ArrivesAuthorize
  <2>2. t = Consumer /\ reg[t].generation <= revision /\ revision' = revision
    BY <1>1, <1>3, <2>1 DEF Authorizing, core
  <2>3. QED
    BY <1>2, <1>7, <2>1, <2>2 DEF Authorizing, AtOneOf, GoesTo
<1>8. CASE GoesTo(t, "ready_store")
  <2>1. At(t, "ready_mode") /\ reg'[t] = reg[t] /\ mode = 0 /\ UNCHANGED core
    BY <1>1, <1>8 DEF ArrivesAuthorize
  <2>2. t = Consumer /\ reg[t].generation <= revision /\ revision' = revision /\ mode' = 0
    BY <1>1, <1>3, <2>1 DEF Authorizing, core
  <2>3. QED
    BY <1>2, <1>8, <2>1, <2>2 DEF Authorizing, AtOneOf, GoesTo
<1>9. CASE GoesTo(t, "ready_token")
  <2>1. ReadyStore(t) /\ reg'[t] = reg[t]
    BY <1>1, <1>9 DEF ArrivesAuthorize
  <2>2. /\ At(t, "ready_store") /\ ready' = reg[t].generation
        /\ revision' = revision /\ mode' = mode
    BY <2>1 DEF ReadyStore
  <2>3. t = Consumer /\ reg[t].generation <= revision /\ mode = 0
    BY <1>1, <1>3, <2>2 DEF Authorizing
  <2>4. QED
    BY <1>2, <1>9, <2>1, <2>2, <2>3 DEF Authorizing, AtOneOf, GoesTo
<1>10. CASE GoesTo(t, "ready_cas")
  <2>1. ReadyToken(t) /\ reg'[t] = [reg[t] EXCEPT !.epoch = next_epoch]
    BY <1>1, <1>10 DEF ArrivesAuthorize
  <2>2. /\ At(t, "ready_token") /\ ready' = ready /\ revision' = revision /\ mode' = mode
        /\ stopped' = stopped /\ next_epoch' = next_epoch + 2
    BY <2>1 DEF ReadyToken, seen
  <2>3. /\ t = Consumer /\ reg[t].generation <= revision /\ mode = 0
        /\ ready = reg[t].generation
    BY <1>1, <1>3, <2>2 DEF Authorizing
  <2>4. reg'[t].epoch = next_epoch /\ reg'[t].generation = reg[t].generation
    BY <1>1, <2>1 DEF Registers
  <2>5. next_epoch \in Grantable /\ next_epoch \notin stopped /\ next_epoch < next_epoch'
    <3>1. next_epoch \in Grantable
      BY <2>2, RoomStep
    <3>2. next_epoch \in Nat /\ next_epoch \notin stopped
      BY DEF AdmissionInv, Counters, Stopped
    <3>3. QED
      BY <2>2, <3>1, <3>2
  <2>6. QED
    BY <1>2, <1>10, <2>2, <2>3, <2>4, <2>5 DEF Authorizing, AtOneOf, GoesTo, Grantable
<1>11. CASE GoesTo(t, "begin_ready")
  <2>1. Odd(mode) /\ reg'[t] = [reg[t] EXCEPT !.epoch = mode]
    BY <1>1, <1>11 DEF ArrivesCapture
  <2>2. Odd(reg'[t].epoch)
    BY <1>1, <2>1 DEF Registers
  <2>3. QED
    BY <1>2, <1>11, <2>2 DEF Authorizing, AtOneOf, GoesTo, Odd
<1>12. CASE GoesTo(t, "begin_cas")
  <2>1. At(t, "begin_ready") /\ reg'[t] = reg[t]
    BY <1>1, <1>12 DEF ArrivesCapture
  <2>2. Odd(reg[t].epoch)
    BY <1>1, <1>3, <2>1 DEF Authorizing
  <2>3. QED
    BY <1>2, <1>12, <2>1, <2>2 DEF Authorizing, AtOneOf, GoesTo, Odd
<1>13. CASE ~AtOneOf(t, {"step_mapping", "ready_check", "ready_mode", "ready_store", "ready_token",
                         "ready_cas", "begin_ready", "begin_cas"})'
  BY <1>13 DEF Authorizing, AtOneOf
<1>14. QED
  BY <1>2, <1>6, <1>7, <1>8, <1>9, <1>10, <1>11, <1>12, <1>13 DEF AtOneOf

\* What each access does to the admission
AdmissionEffect(t) ==
  /\ Counters' /\ calls' = calls /\ Odd(next_epoch') /\ ready' <= revision'
  /\ revision <= revision' /\ next_epoch <= next_epoch'
  /\ Stopped' /\ mode' < next_epoch' /\ mode' \notin stopped' /\ Granting'
  /\ \A u \in Threads \ {t} :
       /\ AtOneOf(u, {"ready_store", "ready_token", "ready_cas"}) => mode' = mode /\ stopped' = stopped
       /\ AtOneOf(u, {"ready_token", "ready_cas"}) => ready' = ready

LEMMA UnchangedAdmission ==
  ASSUME AdmissionInv, NEW t \in Threads,
         UNCHANGED <<mode, ready, granted, stopped, calls>>,
         revision' \in {revision, revision + 1}, next_epoch' \in {next_epoch, next_epoch + 2},
         mapping_epoch' \in Nat, disconnected_epoch' \in Nat
  PROVE  AdmissionEffect(t)
<1>1. Counters /\ Odd(next_epoch) /\ ready <= revision /\ Stopped /\ mode < next_epoch
      /\ mode \notin stopped /\ Granting
  BY DEF AdmissionInv
<1>2. Counters' /\ ready' <= revision' /\ revision <= revision' /\ next_epoch <= next_epoch'
      /\ mode' < next_epoch'
  BY <1>1 DEF Counters
<1>3. Odd(next_epoch')
  BY <1>1, OddAndEven DEF Counters
<1>4. Stopped'
  <2>1. \A n \in stopped : n < next_epoch'
    BY <1>1 DEF Stopped, Counters
  <2>2. QED
    BY <1>1, <2>1 DEF Stopped, Odd
<1>5. Granting'
  BY <1>1 DEF Granting, Grantable, Token, Odd
<1>6. QED
  BY <1>1, <1>2, <1>3, <1>4, <1>5 DEF AdmissionEffect

LEMMA AuthorizeEffect ==
  ASSUME AdmissionInv, NEW t \in Threads, ReadyStore(t) \/ ReadyCas(t)
  PROVE  AdmissionEffect(t)
<1>1. /\ Counters /\ Odd(next_epoch) /\ ready <= revision /\ Stopped /\ mode < next_epoch
      /\ mode \notin stopped /\ Granting /\ reg[t] \in Registers
      /\ \A u \in Threads : Authorizing(u)
  BY DEF AdmissionInv, PathInv
<1>2. At(t, "ready_store") \/ At(t, "ready_cas")
  BY DEF ReadyStore, ReadyCas
<1>3. AtOneOf(t, {"ready_store", "ready_token", "ready_cas"})
  BY <1>2 DEF AtOneOf
<1>4. mode = 0 /\ t = Consumer /\ reg[t].generation <= revision /\ reg[t].generation \in Nat
  BY <1>1, <1>2, <1>3 DEF Authorizing, AtOneOf, Registers
<1>5. \A u \in Threads \ {t} : ~AtOneOf(u, {"ready_store", "ready_token", "ready_cas"})
  BY <1>1, <1>4 DEF Authorizing, AtOneOf
<1>6. \A u \in Threads \ {t} : ~AtOneOf(u, {"ready_token", "ready_cas"})
  BY <1>5 DEF AtOneOf
<1>7. CASE ReadyStore(t)
  <2>1. /\ UNCHANGED <<mode, revision, next_epoch, mapping_epoch, disconnected_epoch, granted,
                       stopped, calls>>
        /\ ready' = reg[t].generation
    BY <1>7 DEF ReadyStore, seen
  <2>2. Counters' /\ ready' <= revision' /\ Granting'
    BY <1>1, <1>4, <2>1 DEF Counters, Granting, Grantable, Odd
  <2>3. Stopped' /\ Odd(next_epoch')
    BY <1>1, <2>1 DEF Stopped, Odd
  <2>4. QED
    BY <1>1, <1>5, <1>6, <2>1, <2>2, <2>3 DEF AdmissionEffect, Counters
<1>8. CASE ReadyCas(t)
  <2> DEFINE e == reg[t].epoch
  <2>1. At(t, "ready_cas")
    BY <1>8 DEF ReadyCas
  <2>2. e \in Grantable /\ e < next_epoch /\ e \notin stopped /\ ready = reg[t].generation
    BY <1>1, <2>1 DEF Authorizing, AtOneOf
  <2>3. /\ UNCHANGED <<ready, revision, next_epoch, mapping_epoch, disconnected_epoch, stopped, calls>>
        /\ mode' = e /\ granted' = [granted EXCEPT ![e] = reg[t].generation]
    BY <1>4, <1>8 DEF ReadyCas
  <2> HIDE DEF e
  <2>4. Token(e) = e /\ e \in Nat /\ e # 0
    BY <2>2, OddAndEven DEF Token, Grantable
  <2>5. Counters' /\ mode' < next_epoch' /\ mode' \notin stopped'
    BY <1>1, <2>2, <2>3, <2>4 DEF Counters
  <2>6. Granting'
    <3>1. granted' \in [Grantable -> Nat] /\ granted'[e] = ready'
      BY <1>1, <1>4, <2>2, <2>3 DEF Granting
    <3>2. QED
      BY <2>2, <2>3, <2>4, <3>1 DEF Granting
  <2>7. Stopped' /\ Odd(next_epoch')
    BY <1>1, <2>3 DEF Stopped, Odd
  <2>8. QED
    BY <1>1, <1>5, <1>6, <2>3, <2>5, <2>6, <2>7 DEF AdmissionEffect, Counters
<1>9. QED
  BY <1>7, <1>8

LEMMA StartEffect ==
  ASSUME AdmissionInv, NEW t \in Threads, BeginCas(t)
  PROVE  AdmissionEffect(t)
<1>1. /\ Counters /\ Odd(next_epoch) /\ ready <= revision /\ Stopped /\ mode < next_epoch
      /\ mode \notin stopped /\ Granting /\ reg[t] \in Registers
      /\ \A u \in Threads : Authorizing(u)
  BY DEF AdmissionInv, PathInv
<1>2. At(t, "begin_cas")
  BY DEF BeginCas
<1>3. Odd(reg[t].epoch)
  BY <1>1, <1>2 DEF Authorizing, AtOneOf
<1>4. UNCHANGED <<ready, revision, next_epoch, mapping_epoch, disconnected_epoch, granted, stopped, calls>>
  BY DEF BeginCas, seen
<1>5. CASE mode # reg[t].epoch
  <2>1. mode' = mode
    BY <1>5 DEF BeginCas
  <2>2. QED
    BY <1>1, <1>4, <2>1, UnchangedAdmission DEF Counters
<1>6. CASE mode = reg[t].epoch
  <2>1. mode' = mode + 1 /\ Odd(mode)
    BY <1>3, <1>6 DEF BeginCas
  <2>2. /\ mode \in Nat /\ mode # 0 /\ Even(mode + 1) /\ ~Odd(mode + 1) /\ mode + 1 \in Nat
        /\ mode + 1 - 1 = mode
    BY <1>1, <2>1, OddAndEven DEF Counters
  <2>3. mode + 1 < next_epoch
    <3>1. mode + 1 # next_epoch
      BY <1>1, <2>2
    <3>2. QED
      BY <1>1, <2>2, <3>1 DEF Counters
  <2>4. mode + 1 \notin stopped
    BY <1>1, <2>1, <2>2 DEF Stopped
  <2>5. Token(mode) = mode /\ Token(mode + 1) = mode
    BY <2>1, <2>2 DEF Token
  <2>6. Granting'
    BY <1>1, <1>4, <2>1, <2>2, <2>5 DEF Granting
  <2>7. Stopped' /\ Odd(next_epoch') /\ Counters'
    BY <1>1, <1>4, <2>1, <2>2 DEF Stopped, Odd, Counters
  <2>8. \A u \in Threads \ {t} : /\ ~AtOneOf(u, {"ready_store", "ready_token", "ready_cas"})
                                 /\ ~AtOneOf(u, {"ready_token", "ready_cas"})
    BY <1>1, <2>2 DEF Authorizing, AtOneOf
  <2>9. QED
    BY <1>1, <1>4, <2>1, <2>3, <2>4, <2>6, <2>7, <2>8 DEF AdmissionEffect, Counters
<1>7. QED
  BY <1>5, <1>6

LEMMA SuspendEffect ==
  ASSUME AdmissionInv, NEW t \in Threads, DoSuspend(t)
  PROVE  /\ AdmissionEffect(t) /\ mode' = 0 /\ stopped \subseteq stopped'
         /\ mode # 0 => mode \in stopped'
<1>1. /\ Counters /\ Odd(next_epoch) /\ ready <= revision /\ Stopped /\ mode < next_epoch
      /\ mode \notin stopped /\ Granting
      /\ \A u \in Threads : Authorizing(u)
  BY DEF AdmissionInv, PathInv
<1>2. /\ UNCHANGED <<ready, revision, next_epoch, mapping_epoch, disconnected_epoch, granted, calls>>
      /\ mode' = 0
      /\ stopped' = IF mode = 0 THEN stopped
                    ELSE stopped \cup IF Odd(mode) THEN {mode, mode + 1} ELSE {mode - 1, mode}
  BY DEF DoSuspend
<1>3. CASE mode = 0
  <2>1. UNCHANGED <<mode, stopped>>
    BY <1>2, <1>3
  <2>2. QED
    BY <1>1, <1>2, <1>3, <2>1, UnchangedAdmission DEF Counters
<1>4. CASE mode # 0
  <2> DEFINE k == Token(mode)
  <2>1. k \in Nat /\ k # 0 /\ Odd(k) /\ mode \in {k, k + 1} /\ mode \in Nat
    BY <1>1, <1>4, OddAndEven DEF Token, Counters
  <2>2. stopped' = stopped \cup {k, k + 1}
    BY <1>1, <1>2, <1>4, OddAndEven DEF Token, Counters
  <2> HIDE DEF k
  <2>3. k + 1 < next_epoch
    <3>1. k + 1 # next_epoch /\ next_epoch \in Nat
      BY <1>1, <2>1, OddAndEven DEF Counters
    <3>2. QED
      BY <1>1, <2>1, <3>1
  <2>4. 0 \notin stopped'
    <3>1. 0 \notin stopped
      BY <1>1 DEF Stopped
    <3>2. QED
      BY <2>1, <2>2, <3>1
  <2>5. Stopped'
    <3>1. stopped' \subseteq Nat \ {0} /\ \A n \in stopped' : n < next_epoch'
      BY <1>1, <1>2, <2>1, <2>2, <2>3 DEF Stopped, Counters
    <3>2. ASSUME NEW n \in Nat, Odd(n)
          PROVE  n \in stopped' <=> n + 1 \in stopped'
      <4>1. n \in stopped <=> n + 1 \in stopped
        BY <1>1, <3>2 DEF Stopped
      <4>2. n \in {k, k + 1} <=> n + 1 \in {k, k + 1}
        BY <2>1, <3>2, OddAndEven
      <4>3. QED
        BY <2>2, <4>1, <4>2
    <3>3. QED
      BY <3>1, <3>2 DEF Stopped, Odd
  <2>6. Counters' /\ Granting' /\ Odd(next_epoch') /\ mode' < next_epoch'
    BY <1>1, <1>2, <2>1, <2>3 DEF Counters, Granting, Grantable, Odd
  <2>7. \A u \in Threads \ {t} : /\ ~AtOneOf(u, {"ready_store", "ready_token", "ready_cas"})
                                 /\ ~AtOneOf(u, {"ready_token", "ready_cas"})
    BY <1>1, <1>4 DEF Authorizing, AtOneOf
  <2>8. QED
    BY <1>1, <1>2, <2>1, <2>2, <2>4, <2>5, <2>6, <2>7 DEF AdmissionEffect, Counters
<1>5. QED
  BY <1>3, <1>4

LEMMA AdmissionStep ==
  ASSUME AdmissionInv, NEW t \in Threads, Steps(t)
  PROVE  AdmissionInv' /\ AdmissionEffect(t)
<1>1. Counters /\ reg \in [Threads -> Registers] /\ \A u \in Threads : Authorizing(u)
  BY DEF AdmissionInv, PathInv
<1>2. AdmissionEffect(t)
  <2>1. CASE UNCHANGED core
    <3>1. /\ UNCHANGED <<mode, ready, granted, stopped, calls>>
          /\ revision' = revision /\ next_epoch' = next_epoch
          /\ mapping_epoch' = mapping_epoch /\ disconnected_epoch' = disconnected_epoch
      BY <2>1 DEF core
    <3>2. QED
      BY <1>1, <3>1, UnchangedAdmission DEF Counters
  <2>2. CASE ReadyStore(t) \/ ReadyCas(t)
    BY <2>2, AuthorizeEffect
  <2>3. CASE BeginCas(t)
    BY <2>3, StartEffect
  <2>4. CASE DoSuspend(t)
    BY <2>4, SuspendEffect
  <2>5. CASE ReadyToken(t) \/ MapOnToken(t)
    <3>1. /\ UNCHANGED <<mode, ready, granted, stopped, calls>>
          /\ revision' = revision /\ next_epoch' = next_epoch + 2
          /\ mapping_epoch' = mapping_epoch /\ disconnected_epoch' = disconnected_epoch
      BY <2>5 DEF ReadyToken, MapOnToken, seen
    <3>2. QED
      BY <1>1, <3>1, UnchangedAdmission DEF Counters
  <2>6. CASE Bump(t)
    <3>1. /\ UNCHANGED <<mode, ready, granted, stopped, calls>>
          /\ revision' = revision + 1 /\ next_epoch' = next_epoch
          /\ mapping_epoch' = mapping_epoch /\ disconnected_epoch' = disconnected_epoch
      BY <2>6 DEF Bump, seen
    <3>2. QED
      BY <1>1, <3>1, UnchangedAdmission DEF Counters
  <2>7. CASE DisconnectStore(t)
    <3>1. /\ UNCHANGED <<mode, ready, granted, stopped, calls>>
          /\ revision' = revision /\ next_epoch' = next_epoch
          /\ mapping_epoch' = mapping_epoch /\ disconnected_epoch' = reg[t].epoch
      BY <2>7 DEF DisconnectStore, seen
    <3>2. reg[t].epoch \in Nat
      BY <1>1 DEF Registers
    <3>3. QED
      BY <1>1, <3>1, <3>2, UnchangedAdmission DEF Counters
  <2>8. CASE UnmapStore(t)
    <3>1. /\ UNCHANGED <<mode, ready, granted, stopped, calls>>
          /\ revision' = revision /\ next_epoch' = next_epoch
          /\ mapping_epoch' = 0 /\ disconnected_epoch' = disconnected_epoch
      BY <2>8 DEF UnmapStore, seen
    <3>2. QED
      BY <1>1, <3>1, UnchangedAdmission DEF Counters
  <2>9. CASE MapOnStore(t)
    <3>1. /\ UNCHANGED <<mode, ready, granted, stopped, calls>>
          /\ revision' = revision /\ next_epoch' = next_epoch
          /\ mapping_epoch' = Mapping(reg[t].epoch) /\ disconnected_epoch' = disconnected_epoch
      BY <2>9 DEF MapOnStore, seen
    <3>2. Mapping(reg[t].epoch) \in Nat
      BY <1>1 DEF Registers, Mapping, MappingBit
    <3>3. QED
      BY <1>1, <3>1, <3>2, UnchangedAdmission DEF Counters
  <2>10. CASE Send(t) \/ Take(t)
    <3>1. /\ UNCHANGED <<mode, ready, granted, stopped, calls>>
          /\ revision' = revision /\ next_epoch' = next_epoch
          /\ mapping_epoch' = mapping_epoch /\ disconnected_epoch' = disconnected_epoch
      BY <2>10 DEF Send, Take, seen
    <3>2. QED
      BY <1>1, <3>1, UnchangedAdmission DEF Counters
  <2>11. QED
    BY <2>1, <2>2, <2>3, <2>4, <2>5, <2>6, <2>7, <2>8, <2>9, <2>10 DEF Steps, Effects
<1>3. \A u \in Threads : Authorizing(u)'
  <2>1. ASSUME NEW u \in Threads, u # t
        PROVE  Authorizing(u)'
    <3>1. pc'[u] = pc[u] /\ reg'[u] = reg[u] /\ Authorizing(u) /\ reg[u] \in Registers
      BY <1>1, <2>1 DEF Steps
    <3>2. revision <= revision' /\ revision \in Nat /\ revision' \in Nat
          /\ next_epoch <= next_epoch' /\ next_epoch \in Nat /\ next_epoch' \in Nat
      BY <1>1, <1>2 DEF AdmissionEffect, Counters
    <3>3. /\ AtOneOf(u, {"ready_store", "ready_token", "ready_cas"}) => mode' = mode /\ stopped' = stopped
          /\ AtOneOf(u, {"ready_token", "ready_cas"}) => ready' = ready
      BY <1>2, <2>1 DEF AdmissionEffect
    <3>4. At(u, "ready_cas") => stopped' = stopped
      BY <3>3 DEF AtOneOf
    <3>5. QED
      BY <3>1, <3>2, <3>3, <3>4, AuthorizingStays
  <2>2. QED
    BY <2>1, AuthorizingMoves
<1>4. Room'
  BY RoomStep
<1>5. PathInv'
  BY DEF Steps
<1>6. QED
  BY <1>2, <1>3, <1>4, <1>5 DEF AdmissionEffect, AdmissionInv

LEMMA AdmissionStutters ==
  ASSUME AdmissionInv, UNCHANGED vars
  PROVE  AdmissionInv'
<1>1. UNCHANGED <<mode, ready, revision, next_epoch, mapping_epoch, disconnected_epoch,
                  granted, stopped, calls, pc, reg>>
  BY DEF vars, shared, seen
<1>2. PathInv'
  BY <1>1 DEF AdmissionInv, PathInv, Path, Ordered, OneToken
<1>3. Room'
  BY <1>1 DEF AdmissionInv, Room, Planners, Uses
<1>4. \A t \in Threads : Authorizing(t)'
  BY <1>1 DEF AdmissionInv, Authorizing, AtOneOf, At, Grantable, Odd
<1>5. Counters' /\ Odd(next_epoch)' /\ Stopped' /\ Granting' /\ (ready <= revision)'
      /\ (mode < next_epoch)' /\ (mode \notin stopped)' /\ (calls \in Usages)'
  BY <1>1 DEF AdmissionInv, Counters, Stopped, Granting, Grantable, Token, Odd
<1>6. QED
  BY <1>2, <1>3, <1>4, <1>5 DEF AdmissionInv

LEMMA AdmissionInit ==
  ASSUME Init
  PROVE  AdmissionInv
<1>1. /\ mode = 0 /\ ready = 0 /\ revision = 1 /\ next_epoch = 1
      /\ mapping_epoch = 0 /\ disconnected_epoch = 0
      /\ pc = [t \in Threads |-> << >>] /\ reg = [t \in Threads |-> Blank]
      /\ granted = [n \in Grantable |-> 0]
      /\ stopped = {} /\ calls \in Usages
  BY DEF Init, Grantable
<1>2. PathInv
  <2>1. << >> \in Seq(Brief) /\ Len(<< >>) = 0
    BY EmptySeq
  <2>2. Path(<< >>) /\ OneToken(<< >>)
    BY <2>1 DEF Path, Ordered, OneToken
  <2>3. QED
    BY <1>1, <2>1, <2>2, BlankRegisters DEF PathInv
<1>3. Room
  <2>1. Planners = {}
    BY <1>1 DEF Planners, Uses
  <2>2. Cardinality(Planners) = 0
    BY <2>1, FS_EmptySet
  <2>3. QED
    BY <1>1, <2>2, BoundsAssumption DEF Room
<1>4. \A t \in Threads : Authorizing(t)
  BY <1>1 DEF Authorizing, AtOneOf, At
<1>5. QED
  BY <1>1, <1>2, <1>3, <1>4 DEF AdmissionInv, Counters, Stopped, Granting, Odd

LEMMA AdmissionAlways == Spec => []AdmissionInv
<1>1. Init => AdmissionInv
  BY AdmissionInit
<1>2. AdmissionInv /\ [Next]_vars => AdmissionInv'
  <2>1. ASSUME AdmissionInv, Next PROVE AdmissionInv'
    <3>1. PathInv /\ Counters /\ calls \in [Threads -> SUBSET CallNames]
      BY <2>1, CallsTyped DEF AdmissionInv
    <3>2. QED
      BY <2>1, <3>1, SomeThreadSteps, AdmissionStep
  <2>2. QED
    BY <2>1, AdmissionStutters
<1>3. QED
  BY <1>1, <1>2, PTL DEF Spec

(***************************************************************************)
(* StopIsFinal: "One CAS prevents a racing stop from being undone".        *)
(***************************************************************************)
THEOREM StopsAreFinal == Spec => []StopIsFinal
<1>1. AdmissionInv => StopIsFinal
  BY DEF AdmissionInv, StopIsFinal
<1>2. QED
  BY <1>1, AdmissionAlways, PTL

\* What is active, and what may start, was granted for this generation.
LEMMA GrantedNowHolds ==
  ASSUME AdmissionInv
  PROVE  GrantedNow
<1>1. mode # 0 => Token(mode) \in Grantable /\ granted[Token(mode)] = ready
  BY DEF AdmissionInv, Granting
<1>2. mode \in Nat /\ revision \in Nat
  BY DEF AdmissionInv, Counters
<1>3. Epoch # 0 => Epoch = mode /\ Even(mode) /\ ready = revision
  BY DEF Epoch, Authorized
<1>4. Ready => Odd(mode) /\ mode # 0 /\ ready = revision
  BY <1>2, OddAndEven DEF Ready, Authorized
<1>5. Even(mode) /\ mode # 0 => Token(mode) = mode - 1
  BY <1>2, OddAndEven DEF Token
<1>6. Odd(mode) => Token(mode) = mode
  BY DEF Token
<1>7. QED
  BY <1>1, <1>3, <1>4, <1>5, <1>6 DEF GrantedNow

-----------------------------------------------------------------------------
(***************************************************************************)
(* Captured events.  An epoch that was begun stays one, and the generation *)
(* it was granted for does not change: the events sent for it were         *)
(* captured no earlier than it was granted.                                *)
(***************************************************************************)
\* A thread at its suspend does nothing else.
LEMMA SuspendsAtSuspend ==
  ASSUME NEW t, At(t, "suspend"),
         \/ \E call \in calls[t] : Call(t, call)
         \/ Authorize(t) \/ Start(t) \/ Stop(t) \/ Map(t) \/ Deliver(t) \/ Request(t)
         \/ StepMapping(t) \/ Take(t)
  PROVE  DoSuspend(t)
<1>1. \A label : At(t, label) => label = "suspend"
  BY DEF At
<1>2. ~\E call \in calls[t] : Call(t, call)
  BY DEF Call, At
<1>3. ~Authorize(t) /\ ~Start(t)
  BY <1>1 DEF Authorize, ReadyCheck, ReadyMode, ReadyStore, ReadyToken, ReadyCas,
              Start, BeginLoad, BeginReady, BeginCas
<1>4. ~Map(t)
  BY <1>1 DEF Map, UnmapLoad, UnmapStore, MapOnLoad, MapOnToken, MapOnStore
<1>5. ~Deliver(t) /\ ~Request(t) /\ ~StepMapping(t) /\ ~Take(t)
  BY <1>1 DEF Deliver, SubmitLoad, SubmitCheck, MapLoad, MapMode, MapCheck, Stamp, Send,
              Request, StepMapping, Take
<1>6. Stop(t) => DoSuspend(t)
  BY <1>1 DEF Stop, EndMode, EndCheck, EndMapping, EndRequest, DisconnectLoad, DisconnectCheck,
              DisconnectStore, RecordFailure, Bump
<1>7. QED
  BY <1>2, <1>3, <1>4, <1>5, <1>6

\* What the invariants below need of a step
Moves(t) == Steps(t) /\ (At(t, "suspend") => DoSuspend(t))

LEMMA SomeThreadMoves ==
  ASSUME AdmissionInv, Next
  PROVE  \E t \in Threads : Moves(t)
<1>1. PathInv /\ Counters /\ calls \in [Threads -> SUBSET CallNames]
  BY CallsTyped DEF AdmissionInv
<1>2. PICK t \in Threads : \/ \E call \in calls[t] : Call(t, call)
                           \/ Authorize(t) \/ Start(t) \/ Stop(t) \/ Map(t) \/ Deliver(t)
                           \/ Request(t) \/ StepMapping(t) \/ Take(t)
  BY DEF Next
<1>3. Steps(t)
  BY <1>1, <1>2, CallSteps, AuthorizeSteps, StartSteps, StopSteps, MapSteps, DeliverSteps,
     OtherSteps
<1>4. At(t, "suspend") => DoSuspend(t)
  BY <1>2, SuspendsAtSuspend
<1>5. QED
  BY <1>3, <1>4 DEF Moves

\* The four ways the mode changes, and what a grant writes
LEMMA ModeMoves ==
  ASSUME AdmissionInv, NEW t \in Threads, Steps(t)
  PROVE  /\ stopped \subseteq stopped'
         /\ \/ mode' = mode
            \/ mode' = 0 /\ mode \in stopped'
            \/ mode = 0 /\ Odd(mode')
            \/ At(t, "begin_cas") /\ Odd(mode) /\ mode' = mode + 1
         /\ \/ granted' = granted
            \/ /\ mode = 0 /\ Odd(mode') /\ mode' \in Grantable /\ mode' \notin stopped
               /\ \E g \in Nat : granted' = [granted EXCEPT ![mode'] = g]
<1>1. CASE ReadyCas(t)
  <2>1. /\ reg[t] \in Registers /\ Authorizing(t) /\ At(t, "ready_cas")
        /\ stopped' = stopped
    BY <1>1 DEF AdmissionInv, PathInv, ReadyCas
  <2>2. /\ reg[t].epoch \in Grantable /\ reg[t].epoch \notin stopped
        /\ reg[t].generation \in Nat /\ Odd(reg[t].epoch)
    BY <2>1 DEF Authorizing, Registers, Grantable
  <2>3. QED
    BY <1>1, <2>1, <2>2 DEF ReadyCas
<1>2. CASE BeginCas(t)
  <2>1. /\ Authorizing(t) /\ At(t, "begin_cas") /\ stopped' = stopped /\ granted' = granted
        /\ mode' = IF mode = reg[t].epoch THEN reg[t].epoch + 1 ELSE mode
    BY <1>2 DEF AdmissionInv, BeginCas, seen
  <2>2. Odd(reg[t].epoch)
    BY <2>1 DEF Authorizing, AtOneOf
  <2>3. QED
    BY <2>1, <2>2
<1>3. CASE DoSuspend(t)
  <2>1. granted' = granted
    BY <1>3 DEF DoSuspend
  <2>2. mode' = 0 /\ stopped \subseteq stopped' /\ (mode # 0 => mode \in stopped')
    BY <1>3, SuspendEffect
  <2>3. QED
    BY <2>1, <2>2
<1>4. CASE UNCHANGED <<mode, stopped, granted>>
  BY <1>4
<1>5. CASE \/ UNCHANGED core \/ ReadyStore(t) \/ ReadyToken(t) \/ DisconnectStore(t) \/ Bump(t)
           \/ UnmapStore(t) \/ MapOnToken(t) \/ MapOnStore(t) \/ Send(t) \/ Take(t)
  <2>1. UNCHANGED <<mode, stopped, granted>>
    BY <1>5 DEF core, ReadyStore, ReadyToken, DisconnectStore, Bump, UnmapStore, MapOnToken,
                MapOnStore, Send, Take, seen
  <2>2. QED
    BY <1>4, <2>1
<1>6. QED
  BY <1>1, <1>2, <1>3, <1>5 DEF Steps, Effects

\* The epoch e was granted, and is active or over.
Begun(e) ==
  /\ e \in Nat /\ e # 0 /\ Even(e) /\ e - 1 \in Grantable
  /\ e = mode \/ e \in stopped

LEMMA BegunStays ==
  ASSUME AdmissionInv, NEW t \in Threads, Steps(t), NEW e, Begun(e)
  PROVE  Begun(e)' /\ granted'[e - 1] = granted[e - 1]
<1>1. e \in Nat /\ e # 0 /\ Even(e) /\ e - 1 \in Grantable /\ (e = mode \/ e \in stopped)
  BY DEF Begun
<1>2. ~Odd(e) /\ e - 1 \in Nat /\ Odd(e - 1) /\ e - 1 + 1 = e
  BY <1>1, OddAndEven
<1>3. e = mode' \/ e \in stopped'
  BY <1>1, <1>2, ModeMoves
<1>4. granted'[e - 1] = granted[e - 1]
  <2>1. CASE granted' = granted
    BY <2>1
  <2>2. ASSUME mode = 0, mode' \in Grantable, mode' \notin stopped,
               NEW g \in Nat, granted' = [granted EXCEPT ![mode'] = g]
        PROVE  granted'[e - 1] = granted[e - 1]
    <3>1. e \in stopped
      BY <1>1, <2>2
    <3>2. e - 1 \in stopped
      BY <1>2, <3>1 DEF AdmissionInv, Stopped
    <3>3. granted \in [Grantable -> Nat]
      BY DEF AdmissionInv, Granting
    <3>4. QED
      BY <1>1, <2>2, <3>2, <3>3
  <2>3. QED
    BY <2>1, <2>2, ModeMoves
<1>5. QED
  BY <1>1, <1>3, <1>4 DEF Begun, Grantable, Even, Odd

\* What a thread that sends for a capture, or starts one, knows
Capturing(t) ==
  /\ AtOneOf(t, {"begin_load", "begin_ready", "begin_cas"}) => "begin" \in calls[t]
  /\ AtOneOf(t, {"submit_load", "submit_check", "submit_stamp", "submit_send"}) =>
       "submit" \in calls[t] /\ reg[t].kind = "capture" /\ reg[t].captured <= revision
  /\ At(t, "submit_load") =>
       (Even(mode) /\ mode # 0 => granted[mode - 1] <= reg[t].captured)
  /\ AtOneOf(t, {"submit_check", "submit_stamp", "submit_send"}) =>
       Begun(reg[t].epoch) /\ granted[reg[t].epoch - 1] <= reg[t].captured
  /\ AtOneOf(t, {"map_mode", "map_check", "map_stamp", "map_send"}) => reg[t].kind # "capture"

FromCapture(p) ==
  Begun(p.epoch) /\ granted[p.epoch - 1] <= p.captured /\ p.captured <= revision

Entries == [epoch : Nat, generation : Nat, kind : {"capture", "mapping", "release"},
            captured : Nat, late : BOOLEAN]

CaptureInv ==
  /\ AdmissionInv
  /\ queue \in Seq(Entries)
  /\ \A t \in Threads : Capturing(t)
  /\ \A i \in 1..Len(queue) : queue[i].kind = "capture" => FromCapture(queue[i])

LEMMA CapturingStays ==
  ASSUME CaptureInv, NEW t \in Threads, Steps(t), NEW u \in Threads, u # t
  PROVE  Capturing(u)'
<1>1. /\ pc'[u] = pc[u] /\ reg'[u] = reg[u] /\ reg[u] \in Registers /\ Capturing(u)
  BY DEF Steps, CaptureInv, AdmissionInv, PathInv
<1>2. \A label : At(u, label)' <=> At(u, label)
  BY <1>1 DEF At
<1>3. \A labels : AtOneOf(u, labels)' <=> AtOneOf(u, labels)
  BY <1>2 DEF AtOneOf
<1>4. AdmissionEffect(t) /\ AdmissionInv
  BY AdmissionStep DEF CaptureInv
<1>5. calls' = calls /\ revision <= revision' /\ revision \in Nat /\ revision' \in Nat
  BY <1>4 DEF AdmissionEffect, AdmissionInv, Counters
<1>6. reg[u].captured <= revision => reg[u].captured <= revision'
  BY <1>1, <1>5 DEF Registers
<1>7. ASSUME At(u, "submit_load"), Even(mode'), mode' # 0
      PROVE  granted'[mode' - 1] <= reg[u].captured
  <2>1. "submit" \in calls[u]
    BY <1>1, <1>7 DEF Capturing, AtOneOf
  <2>2. ~At(t, "begin_cas")
    <3>1. At(t, "begin_cas") => "begin" \in calls[t]
      BY DEF CaptureInv, Capturing, AtOneOf
    <3>2. QED
      BY <2>1, <3>1, CallsTyped DEF CaptureInv, AdmissionInv
  <2>3. mode' \in Nat
    BY <1>4 DEF AdmissionEffect, Counters
  <2>4. mode' = mode /\ granted' = granted
    BY <1>4, <1>7, <2>2, <2>3, ModeMoves, OddAndEven
  <2>5. QED
    BY <1>1, <1>7, <2>4 DEF Capturing, Even
<1>8. ASSUME AtOneOf(u, {"submit_check", "submit_stamp", "submit_send"})
      PROVE  Begun(reg[u].epoch)' /\ granted'[reg[u].epoch - 1] <= reg[u].captured
  <2>1. Begun(reg[u].epoch) /\ granted[reg[u].epoch - 1] <= reg[u].captured
    BY <1>1, <1>8 DEF Capturing
  <2>2. PICK e \in Nat : e = reg[u].epoch
    BY <1>1 DEF Registers
  <2>3. Begun(e)' /\ granted'[e - 1] = granted[e - 1]
    BY <1>4, <2>1, <2>2, BegunStays
  <2>4. e = reg'[u].epoch
    BY <1>1, <2>2
  <2>5. Begun(reg[u].epoch)'
    BY <2>3, <2>4 DEF Begun
  <2>6. QED
    BY <2>1, <2>2, <2>3, <2>5
<1>9. QED
  BY <1>1, <1>2, <1>3, <1>5, <1>6, <1>7, <1>8 DEF Capturing, Even

LEMMA CapturingMoves ==
  ASSUME CaptureInv, NEW t \in Threads, Steps(t)
  PROVE  Capturing(t)'
<1>1. /\ Capturing(t) /\ reg[t] \in Registers /\ ArrivesCapture(t) /\ ArrivesMapping(t)
      /\ reg'[t] \in Registers /\ Counters /\ ready <= revision /\ Granting
  BY DEF CaptureInv, AdmissionInv, PathInv, Steps, Arrives
<1>2. \A label : At(t, label)' <=> GoesTo(t, label)
  BY DEF At, GoesTo
<1>3. \A label : At(t, label) => \A labels : label \in labels => AtOneOf(t, labels)
  BY DEF AtOneOf
<1>4. ASSUME UNCHANGED core
      PROVE  /\ UNCHANGED <<mode, revision, granted, stopped, calls>>
             /\ \A e : Begun(e) => Begun(e)'
  BY <1>4 DEF core, Begun, Grantable, Even, Odd
<1>5. CASE GoesTo(t, "begin_load") \/ GoesTo(t, "begin_ready") \/ GoesTo(t, "begin_cas")
  <2>1. UNCHANGED core /\ "begin" \in calls[t]
    BY <1>1, <1>3, <1>5 DEF ArrivesCapture, Capturing
  <2>2. QED
    BY <1>2, <1>4, <1>5, <2>1 DEF Capturing, AtOneOf, GoesTo
<1>6. CASE GoesTo(t, "submit_load")
  <2>1. /\ UNCHANGED core /\ "submit" \in calls[t]
        /\ reg'[t] = [Blank EXCEPT !.captured = revision, !.generation = revision]
    BY <1>1, <1>6 DEF ArrivesCapture
  <2>2. reg'[t].kind = "capture" /\ reg'[t].captured = revision
    BY <2>1 DEF Blank
  <2>3. Even(mode) /\ mode # 0 => granted[mode - 1] = ready
    BY <1>1, OddAndEven DEF Granting, Token, Counters
  <2>4. QED
    BY <1>1, <1>2, <1>4, <1>6, <2>1, <2>2, <2>3 DEF Capturing, AtOneOf, GoesTo, Counters, Even
<1>7. CASE GoesTo(t, "submit_check")
  <2>1. /\ UNCHANGED core /\ At(t, "submit_load") /\ Even(mode) /\ mode # 0
        /\ reg'[t] = [reg[t] EXCEPT !.epoch = mode]
    BY <1>1, <1>7 DEF ArrivesCapture
  <2>2. /\ reg'[t].kind = reg[t].kind /\ reg'[t].captured = reg[t].captured
        /\ reg'[t].epoch = mode
    BY <1>1, <2>1 DEF Registers
  <2>3. /\ "submit" \in calls[t] /\ reg[t].kind = "capture" /\ reg[t].captured <= revision
        /\ granted[mode - 1] <= reg[t].captured
    BY <1>1, <1>3, <2>1 DEF Capturing
  <2>4. Begun(mode)
    BY <1>1, <2>1, OddAndEven DEF Begun, Granting, Token, Counters
  <2>5. Begun(reg[t].epoch)'
    BY <1>4, <2>1, <2>2, <2>4 DEF Begun, Grantable, Even, Odd
  <2>6. QED
    BY <1>2, <1>4, <1>7, <2>1, <2>2, <2>3, <2>5 DEF Capturing, AtOneOf, GoesTo
<1>8. CASE GoesTo(t, "submit_stamp") \/ GoesTo(t, "submit_send")
  <2>1. /\ UNCHANGED core /\ AtOneOf(t, {"submit_check", "submit_stamp", "submit_send"})
        /\ reg'[t].kind = reg[t].kind /\ reg'[t].captured = reg[t].captured
        /\ reg'[t].epoch = reg[t].epoch
    BY <1>1, <1>3, <1>8 DEF ArrivesCapture, Registers
  <2>2. AtOneOf(t, {"submit_load", "submit_check", "submit_stamp", "submit_send"})
    BY <2>1 DEF AtOneOf
  <2>3. /\ "submit" \in calls[t] /\ reg[t].kind = "capture" /\ reg[t].captured <= revision
        /\ Begun(reg[t].epoch) /\ granted[reg[t].epoch - 1] <= reg[t].captured
    BY <1>1, <2>1, <2>2 DEF Capturing
  <2>4. Begun(reg[t].epoch)'
    BY <1>4, <2>1, <2>3 DEF Begun, Grantable, Even, Odd
  <2>5. QED
    BY <1>2, <1>4, <1>8, <2>1, <2>3, <2>4 DEF Capturing, AtOneOf, GoesTo
<1>9. CASE GoesTo(t, "map_mode")
  BY <1>1, <1>2, <1>9 DEF ArrivesMapping, Capturing, AtOneOf, GoesTo
<1>10. CASE GoesTo(t, "map_check") \/ GoesTo(t, "map_stamp") \/ GoesTo(t, "map_send")
  <2>1. /\ AtOneOf(t, {"map_mode", "map_check", "map_stamp", "map_send"})
        /\ reg'[t].kind = reg[t].kind
    BY <1>1, <1>3, <1>10 DEF ArrivesMapping, Registers
  <2>2. reg[t].kind # "capture"
    BY <1>1, <2>1 DEF Capturing
  <2>3. QED
    BY <1>2, <1>10, <2>1, <2>2 DEF Capturing, AtOneOf, GoesTo
<1>11. CASE ~AtOneOf(t, {"begin_load", "begin_ready", "begin_cas", "submit_load", "submit_check",
                         "submit_stamp", "submit_send", "map_mode", "map_check", "map_stamp",
                         "map_send"})'
  BY <1>11 DEF Capturing, AtOneOf
<1>12. QED
  BY <1>2, <1>5, <1>6, <1>7, <1>8, <1>9, <1>10, <1>11 DEF AtOneOf

\* The queue grows by what a sender has read, or loses its head.
LEMMA QueueMoves ==
  ASSUME queue \in Seq(Entries), PathInv, NEW t \in Threads, Steps(t)
  PROVE  \/ queue' = queue
         \/ Send(t) /\ queue' = Append(queue, Packet(t)) /\ Packet(t) \in Entries
         \/ queue # << >> /\ queue' = Tail(queue)
<1>1. Packet(t) \in Entries
  BY DEF Packet, Entries, PathInv, Registers
<1>2. CASE Send(t)
  BY <1>1, <1>2 DEF Send
<1>3. CASE Take(t)
  BY <1>3 DEF Take
<1>4. CASE \/ UNCHANGED core \/ ReadyStore(t) \/ ReadyToken(t) \/ ReadyCas(t) \/ BeginCas(t)
           \/ DoSuspend(t) \/ DisconnectStore(t) \/ Bump(t)
           \/ UnmapStore(t) \/ MapOnToken(t) \/ MapOnStore(t)
  BY <1>4 DEF core, ReadyStore, ReadyToken, ReadyCas, BeginCas, DoSuspend, DisconnectStore, Bump,
              UnmapStore, MapOnToken, MapOnStore
<1>5. QED
  BY <1>2, <1>3, <1>4 DEF Steps, Effects

\* What holds of the packets under way, and of the one that is sent, holds after.
LEMMA QueueKeeps ==
  ASSUME queue \in Seq(Entries), PathInv, NEW t \in Threads, Steps(t), NEW Kept, NEW Known,
         \A i \in 1..Len(queue) : queue[i] \in Kept,
         Send(t) /\ Packet(t) \in Entries => Packet(t) \in Known,
         (Kept \cup Known) \subseteq Entries
  PROVE  queue' \in Seq(Entries) /\ \A i \in 1..Len(queue') : queue'[i] \in Kept \cup Known
<1>1. CASE queue' = queue
  BY <1>1
<1>2. CASE Send(t) /\ queue' = Append(queue, Packet(t)) /\ Packet(t) \in Entries
  <2> DEFINE p == Packet(t)
  <2>1. p \in Entries /\ p \in Known /\ queue' = Append(queue, p)
    BY <1>2
  <2> HIDE DEF p
  <2>2. /\ Append(queue, p) \in Seq(Entries) /\ Len(Append(queue, p)) = Len(queue) + 1
        /\ \A i \in 1..Len(queue) : Append(queue, p)[i] = queue[i]
        /\ Append(queue, p)[Len(queue) + 1] = p
    BY <2>1, AppendProperties
  <2>3. Len(queue) \in Nat
    BY LenProperties
  <2>4. \A i \in 1..Len(queue) + 1 : i \in 1..Len(queue) \/ i = Len(queue) + 1
    BY <2>3
  <2>5. QED
    BY <2>1, <2>2, <2>4
<1>3. CASE queue # << >> /\ queue' = Tail(queue)
  <2>1. /\ Tail(queue) \in Seq(Entries) /\ Len(Tail(queue)) = Len(queue) - 1
        /\ \A i \in 1..Len(Tail(queue)) : Tail(queue)[i] = queue[i + 1]
    BY <1>3, HeadTailProperties
  <2>2. \A i \in 1..Len(queue) - 1 : i + 1 \in 1..Len(queue)
    BY LenProperties
  <2>3. QED
    BY <1>3, <2>1, <2>2
<1>4. QED
  BY <1>1, <1>2, <1>3, QueueMoves

LEMMA FromCaptureStays ==
  ASSUME AdmissionInv, NEW t \in Threads, Steps(t), NEW p \in Entries, FromCapture(p)
  PROVE  FromCapture(p)'
<1>1. p.epoch \in Nat /\ p.captured \in Nat
  BY DEF Entries
<1>2. Begun(p.epoch) /\ granted[p.epoch - 1] <= p.captured /\ p.captured <= revision
  BY DEF FromCapture
<1>3. Begun(p.epoch)' /\ granted'[p.epoch - 1] = granted[p.epoch - 1]
  BY <1>2, BegunStays
<1>4. revision <= revision' /\ revision \in Nat /\ revision' \in Nat
  BY AdmissionStep DEF AdmissionEffect, AdmissionInv, Counters
<1>5. QED
  BY <1>1, <1>2, <1>3, <1>4 DEF FromCapture

LEMMA CaptureStep ==
  ASSUME CaptureInv, NEW t \in Threads, Steps(t)
  PROVE  CaptureInv'
<1>1. AdmissionInv /\ PathInv /\ queue \in Seq(Entries) /\ reg[t] \in Registers
  BY DEF CaptureInv, AdmissionInv, PathInv
<1> DEFINE Good == {p \in Entries : p.kind = "capture" => FromCapture(p)'}
<1>2. \A i \in 1..Len(queue) : queue[i] \in Good
  <2>1. ASSUME NEW i \in 1..Len(queue)
        PROVE  queue[i] \in Good
    <3>1. queue[i] \in Entries
      BY <1>1, ElementOfSeq
    <3>2. queue[i].kind = "capture" => FromCapture(queue[i])
      BY DEF CaptureInv
    <3>3. PICK p \in Entries : p = queue[i]
      BY <3>1
    <3>4. p.kind = "capture" => FromCapture(p)'
      BY <1>1, <3>2, <3>3, FromCaptureStays
    <3>5. QED
      BY <3>3, <3>4
  <2>2. QED
    BY <2>1
<1>3. ASSUME Send(t), Packet(t) \in Entries
      PROVE  Packet(t) \in Good
  <2>1. PICK p \in Entries : p = Packet(t)
    BY <1>3
  <2>2. /\ p.epoch = reg[t].epoch /\ p.kind = reg[t].kind /\ p.captured = reg[t].captured
    BY <2>1 DEF Packet
  <2>3. CASE At(t, "submit_send")
    <3>1. AtOneOf(t, {"submit_check", "submit_stamp", "submit_send"})
          /\ AtOneOf(t, {"submit_load", "submit_check", "submit_stamp", "submit_send"})
      BY <2>3 DEF AtOneOf
    <3>2. /\ Begun(reg[t].epoch) /\ granted[reg[t].epoch - 1] <= reg[t].captured
          /\ reg[t].captured <= revision
      BY <3>1 DEF CaptureInv, Capturing
    <3>3. FromCapture(p)
      BY <2>2, <3>2 DEF FromCapture
    <3>4. QED
      BY <1>1, <2>1, <3>3, FromCaptureStays
  <2>4. CASE At(t, "map_send")
    <3>1. AtOneOf(t, {"map_mode", "map_check", "map_stamp", "map_send"})
      BY <2>4 DEF AtOneOf
    <3>2. reg[t].kind # "capture"
      BY <3>1 DEF CaptureInv, Capturing
    <3>3. QED
      BY <2>1, <2>2, <3>2
  <2>5. QED
    BY <1>3, <2>3, <2>4 DEF Send
<1>4. Good \cup Good \subseteq Entries
  OBVIOUS
<1>5. queue' \in Seq(Entries) /\ \A i \in 1..Len(queue') : queue'[i] \in Good
  <2> HIDE DEF Good
  <2>1. QED
    BY <1>1, <1>2, <1>3, <1>4, QueueKeeps
<1>6. \A i \in 1..Len(queue') : queue'[i].kind = "capture" => FromCapture(queue[i])'
  BY <1>5 DEF FromCapture, Begun
<1>7. \A u \in Threads : Capturing(u)'
  BY CapturingStays, CapturingMoves
<1>8. QED
  BY <1>1, <1>5, <1>6, <1>7, AdmissionStep DEF CaptureInv

LEMMA CaptureStutters ==
  ASSUME CaptureInv, UNCHANGED vars
  PROVE  CaptureInv'
<1>1. UNCHANGED <<mode, revision, granted, stopped, calls, pc, reg, queue>>
  BY DEF vars, shared, seen
<1>2. \A t \in Threads : Capturing(t)'
  BY <1>1 DEF CaptureInv, Capturing, AtOneOf, At, Begun, Grantable, Even, Odd
<1>3. \A i \in 1..Len(queue)' : (queue[i].kind = "capture" => FromCapture(queue[i]))'
  BY <1>1 DEF CaptureInv, FromCapture, Begun, Grantable, Even, Odd
<1>4. QED
  BY <1>1, <1>2, <1>3, AdmissionStutters DEF CaptureInv

LEMMA CaptureInit ==
  ASSUME Init
  PROVE  CaptureInv
<1>1. queue = << >> /\ pc = [t \in Threads |-> << >>]
  BY DEF Init
<1>2. queue \in Seq(Entries) /\ Len(queue) = 0
  BY <1>1, EmptySeq
<1>3. \A t \in Threads : Capturing(t)
  BY <1>1 DEF Capturing, AtOneOf, At
<1>4. QED
  BY <1>2, <1>3, AdmissionInit DEF CaptureInv

-----------------------------------------------------------------------------
(***************************************************************************)
(* The mapping session.  Its tokens are used once: no thread is about to   *)
(* open again a session that has been left, and no epoch of a capture is a *)
(* mapping session.                                                        *)
(***************************************************************************)
\* m was a mapping session, and no thread is about to open it again.
Issued(m) ==
  /\ m \in Nat /\ MappingBit < m /\ m < Mapping(next_epoch)
  /\ \A t \in Threads : At(t, "map_on_store") => Mapping(reg[t].epoch) # m

LEMMA IssuedStays ==
  ASSUME AdmissionInv, NEW t \in Threads, Steps(t), NEW m, Issued(m)
  PROVE  /\ Issued(m)'
         /\ m = mapping_epoch' => m = mapping_epoch
<1>1. m \in Nat /\ MappingBit < m /\ m < Mapping(next_epoch)
  BY DEF Issued
<1>2. /\ next_epoch <= next_epoch' /\ next_epoch \in Nat /\ next_epoch' \in Nat
      /\ reg \in [Threads -> Registers]
  BY AdmissionStep DEF AdmissionEffect, AdmissionInv, Counters, PathInv
<1>3. m < Mapping(next_epoch)'
  <2>1. \A a, b, c \in Nat : a < MappingBit + b /\ b <= c => a < MappingBit + c
    BY DEF MappingBit
  <2>2. m < MappingBit + next_epoch
    BY <1>1 DEF Mapping
  <2>3. m < MappingBit + next_epoch'
    BY <1>1, <1>2, <2>1, <2>2
  <2>4. QED
    BY <2>3 DEF Mapping
<1>4. ASSUME NEW u \in Threads, At(u, "map_on_store")'
      PROVE  Mapping(reg'[u].epoch) # m
  <2>1. CASE u # t
    <3>1. At(u, "map_on_store") /\ reg'[u] = reg[u]
      BY <1>4, <2>1 DEF Steps, At
    <3>2. QED
      BY <3>1 DEF Issued
  <2>2. CASE u = t
    <3>1. GoesTo(t, "map_on_store")
      BY <1>4, <2>2 DEF GoesTo, At
    <3>2. reg'[t] = [reg[t] EXCEPT !.epoch = next_epoch]
      BY <3>1 DEF Steps, Arrives, ArrivesMapping
    <3>3. reg'[t].epoch = next_epoch
      BY <1>2, <3>2 DEF Registers
    <3>4. QED
      BY <1>1, <1>2, <2>2, <3>3 DEF Mapping, MappingBit
  <2>3. QED
    BY <2>1, <2>2
<1>5. Issued(m)'
  BY <1>1, <1>3, <1>4 DEF Issued, Mapping, MappingBit
<1>6. ASSUME m = mapping_epoch' PROVE m = mapping_epoch
  <2>1. CASE MapOnStore(t)
    BY <1>6, <2>1 DEF Issued, MapOnStore
  <2>2. CASE UnmapStore(t)
    BY <1>1, <1>6, <2>2 DEF UnmapStore, MappingBit
  <2>3. CASE \/ UNCHANGED core \/ ReadyStore(t) \/ ReadyToken(t) \/ ReadyCas(t) \/ BeginCas(t)
             \/ DoSuspend(t) \/ DisconnectStore(t) \/ Bump(t)
             \/ MapOnToken(t) \/ Send(t) \/ Take(t)
    BY <1>6, <2>3 DEF core, ReadyStore, ReadyToken, ReadyCas, BeginCas, DoSuspend, DisconnectStore,
                      Bump, MapOnToken, Send, Take
  <2>4. QED
    BY <2>1, <2>2, <2>3 DEF Steps, Effects
<1>7. QED
  BY <1>5, <1>6

LEMMA EpochsApart ==
  ASSUME NEW e, Begun(e)
  PROVE  ~Issued(e) /\ e <= MappingBit
BY BoundsAssumption DEF Begun, Issued, Grantable, MappingBit

MappingSends(t) ==
  /\ AtOneOf(t, {"map_mode", "map_check", "map_stamp", "map_send"}) => Issued(reg[t].epoch)
  /\ At(t, "map_on_store") => reg[t].epoch # 0 /\ reg[t].epoch < next_epoch

MappingInv ==
  /\ CaptureInv
  /\ mapping_epoch # 0 => Issued(mapping_epoch)
  /\ \A t \in Threads : MappingSends(t)
  /\ \A t, u \in Threads :
       At(t, "map_on_store") /\ At(u, "map_on_store") /\ t # u => reg[t].epoch # reg[u].epoch
  /\ \A i \in 1..Len(queue) : queue[i].kind # "capture" => Issued(queue[i].epoch)

LEMMA MappingSendsStays ==
  ASSUME MappingInv, NEW t \in Threads, Steps(t), NEW u \in Threads, u # t
  PROVE  MappingSends(u)'
<1>1. /\ pc'[u] = pc[u] /\ reg'[u] = reg[u] /\ reg[u] \in Registers /\ MappingSends(u)
      /\ AdmissionInv
  BY DEF Steps, MappingInv, CaptureInv, AdmissionInv, PathInv
<1>2. \A label : At(u, label)' <=> At(u, label)
  BY <1>1 DEF At
<1>3. \A labels : AtOneOf(u, labels)' <=> AtOneOf(u, labels)
  BY <1>2 DEF AtOneOf
<1>4. next_epoch <= next_epoch' /\ next_epoch \in Nat /\ next_epoch' \in Nat
  BY <1>1, AdmissionStep DEF AdmissionEffect, AdmissionInv, Counters
<1>5. PICK e \in Nat : e = reg[u].epoch
  BY <1>1 DEF Registers
<1>6. ASSUME AtOneOf(u, {"map_mode", "map_check", "map_stamp", "map_send"})
      PROVE  Issued(reg[u].epoch)'
  <2>1. Issued(e)
    BY <1>1, <1>5, <1>6 DEF MappingSends
  <2>2. Issued(e)' /\ e = reg'[u].epoch
    BY <1>1, <1>5, <2>1, IssuedStays
  <2>3. QED
    BY <2>2 DEF Issued
<1>7. ASSUME At(u, "map_on_store")
      PROVE  reg[u].epoch # 0 /\ reg[u].epoch < next_epoch'
  <2>1. e # 0 /\ e < next_epoch
    BY <1>1, <1>5, <1>7 DEF MappingSends
  <2>2. QED
    BY <1>4, <1>5, <2>1
<1>8. QED
  BY <1>1, <1>2, <1>3, <1>6, <1>7 DEF MappingSends

LEMMA MappingSendsMoves ==
  ASSUME MappingInv, NEW t \in Threads, Steps(t)
  PROVE  MappingSends(t)'
<1>1. /\ MappingSends(t) /\ reg[t] \in Registers /\ ArrivesMapping(t) /\ Counters /\ AdmissionInv
      /\ Odd(next_epoch)
  BY DEF MappingInv, CaptureInv, AdmissionInv, PathInv, Steps, Arrives
<1>2. \A label : At(t, label)' <=> GoesTo(t, label)
  BY DEF At, GoesTo
<1>3. CASE GoesTo(t, "map_on_store")
  <2>1. MapOnToken(t) /\ reg'[t].epoch = next_epoch
    BY <1>1, <1>3 DEF ArrivesMapping, Registers
  <2>2. next_epoch # 0 /\ next_epoch < next_epoch'
    BY <1>1, <2>1, OddAndEven DEF MapOnToken, Counters
  <2>3. QED
    BY <1>2, <1>3, <2>1, <2>2 DEF MappingSends, AtOneOf, GoesTo
<1>4. CASE GoesTo(t, "map_mode")
  <2>1. mapping_epoch # 0 /\ reg'[t].epoch = mapping_epoch
    BY <1>1, <1>4 DEF ArrivesMapping
  <2>2. Issued(mapping_epoch)
    BY <2>1 DEF MappingInv
  <2>3. PICK e \in Nat : e = mapping_epoch
    BY <1>1 DEF Counters
  <2>4. Issued(e)' /\ e = reg'[t].epoch
    BY <1>1, <2>1, <2>2, <2>3, IssuedStays
  <2>5. Issued(reg[t].epoch)'
    BY <2>4 DEF Issued
  <2>6. QED
    BY <1>2, <1>4, <2>5 DEF MappingSends, AtOneOf, GoesTo
<1>5. CASE GoesTo(t, "map_check") \/ GoesTo(t, "map_stamp") \/ GoesTo(t, "map_send")
  <2>1. /\ At(t, "map_mode") \/ At(t, "map_check") \/ At(t, "map_stamp")
        /\ reg'[t].epoch = reg[t].epoch
    BY <1>1, <1>5 DEF ArrivesMapping, Registers
  <2>2. AtOneOf(t, {"map_mode", "map_check", "map_stamp", "map_send"})
    BY <2>1 DEF AtOneOf
  <2>3. PICK e \in Nat : e = reg[t].epoch
    BY <1>1 DEF Registers
  <2>4. Issued(e)
    BY <1>1, <2>2, <2>3 DEF MappingSends
  <2>5. Issued(e)' /\ e = reg'[t].epoch
    BY <1>1, <2>1, <2>3, <2>4, IssuedStays
  <2>6. Issued(reg[t].epoch)'
    BY <2>5 DEF Issued
  <2>7. QED
    BY <1>2, <1>5, <2>6 DEF MappingSends, AtOneOf, GoesTo
<1>6. CASE ~AtOneOf(t, {"map_on_store", "map_mode", "map_check", "map_stamp", "map_send"})'
  BY <1>6 DEF MappingSends, AtOneOf
<1>7. QED
  BY <1>2, <1>3, <1>4, <1>5, <1>6 DEF AtOneOf

\* Two threads never open the same session.
LEMMA SessionsDiffer ==
  ASSUME MappingInv, NEW t \in Threads, Steps(t),
         NEW u \in Threads, u # t, At(u, "map_on_store")', At(t, "map_on_store")'
  PROVE  reg'[u].epoch # reg'[t].epoch
<1>1. /\ MappingSends(u) /\ reg[t] \in Registers /\ reg[u] \in Registers /\ ArrivesMapping(t)
      /\ next_epoch \in Nat
  BY DEF MappingInv, CaptureInv, AdmissionInv, PathInv, Steps, Arrives, Counters
<1>2. At(u, "map_on_store") /\ reg'[u] = reg[u]
  BY DEF Steps, At
<1>3. reg'[t].epoch = next_epoch
  BY <1>1 DEF ArrivesMapping, GoesTo, At, Registers
<1>4. reg[u].epoch \in Nat /\ reg[u].epoch < next_epoch
  BY <1>1, <1>2 DEF MappingSends, Registers
<1>5. QED
  BY <1>1, <1>2, <1>3, <1>4

LEMMA MappingStep ==
  ASSUME MappingInv, NEW t \in Threads, Steps(t)
  PROVE  MappingInv'
<1>1. /\ CaptureInv /\ AdmissionInv /\ PathInv /\ queue \in Seq(Entries) /\ Counters
      /\ reg[t] \in Registers
  BY DEF MappingInv, CaptureInv, AdmissionInv, PathInv
<1>2. mapping_epoch' # 0 => Issued(mapping_epoch)'
  <2>1. CASE mapping_epoch' = mapping_epoch /\ mapping_epoch # 0
    <3>1. Issued(mapping_epoch)
      BY <2>1 DEF MappingInv
    <3>2. PICK m \in Nat : m = mapping_epoch
      BY <1>1 DEF Counters
    <3>3. Issued(m)' /\ m = mapping_epoch'
      BY <1>1, <2>1, <3>1, <3>2, IssuedStays
    <3>4. QED
      BY <3>3 DEF Issued
  <2>2. CASE MapOnStore(t)
    <3>1. /\ At(t, "map_on_store") /\ mapping_epoch' = Mapping(reg[t].epoch)
          /\ next_epoch' = next_epoch /\ pc'[t] = << >>
      BY <1>1, <2>2 DEF MapOnStore, Return, Goto, PathInv
    <3>2. reg[t].epoch # 0 /\ reg[t].epoch < next_epoch
      BY <3>1 DEF MappingInv, MappingSends
    <3>3. PICK e \in Nat : e = reg[t].epoch
      BY <1>1 DEF Registers
    <3>4. MappingBit < Mapping(e) /\ Mapping(e) < Mapping(next_epoch) /\ Mapping(e) \in Nat
      BY <1>1, <3>2, <3>3 DEF Mapping, MappingBit, Counters
    <3>5. ASSUME NEW u \in Threads, At(u, "map_on_store")'
          PROVE  Mapping(reg'[u].epoch) # Mapping(e)
      <4>1. u # t /\ At(u, "map_on_store") /\ reg'[u] = reg[u] /\ reg[u] \in Registers
        BY <1>1, <3>1, <3>5 DEF At, Steps, PathInv
      <4>2. reg[u].epoch # e /\ reg[u].epoch \in Nat
        BY <3>1, <3>3, <4>1 DEF MappingInv, Registers
      <4>3. QED
        BY <3>3, <4>1, <4>2 DEF Mapping, MappingBit
    <3>6. mapping_epoch' = Mapping(e)
      BY <3>1, <3>3
    <3>7. QED
      BY <3>1, <3>4, <3>5, <3>6 DEF Issued, Mapping
  <2>3. CASE mapping_epoch' = 0
    BY <2>3
  <2>4. CASE \/ UNCHANGED core \/ ReadyStore(t) \/ ReadyToken(t) \/ ReadyCas(t) \/ BeginCas(t)
             \/ DoSuspend(t) \/ DisconnectStore(t) \/ Bump(t)
             \/ MapOnToken(t) \/ Send(t) \/ Take(t)
    <3>1. mapping_epoch' = mapping_epoch
      BY <2>4 DEF core, ReadyStore, ReadyToken, ReadyCas, BeginCas, DoSuspend, DisconnectStore,
                  Bump, MapOnToken, Send, Take
    <3>2. QED
      BY <2>1, <2>3, <3>1
  <2>5. CASE UnmapStore(t)
    BY <2>3, <2>5 DEF UnmapStore
  <2>6. QED
    BY <2>2, <2>4, <2>5 DEF Steps, Effects
<1> DEFINE Good == {p \in Entries : p.kind # "capture" => Issued(p.epoch)'}
<1>3. ASSUME NEW p \in Entries, p.kind # "capture" => Issued(p.epoch)
      PROVE  p \in Good
  BY <1>1, <1>3, IssuedStays
<1>4. \A i \in 1..Len(queue) : queue[i] \in Good
  <2>1. ASSUME NEW i \in 1..Len(queue)
        PROVE  queue[i] \in Good
    <3>1. PICK p \in Entries : p = queue[i]
      BY <1>1, ElementOfSeq
    <3>2. p.kind # "capture" => Issued(p.epoch)
      BY <3>1 DEF MappingInv
    <3>3. QED
      BY <1>3, <3>1, <3>2
  <2>2. QED
    BY <2>1
<1>5. ASSUME Send(t), Packet(t) \in Entries
      PROVE  Packet(t) \in Good
  <2>1. PICK p \in Entries : p = Packet(t)
    BY <1>5
  <2>2. p.epoch = reg[t].epoch /\ p.kind = reg[t].kind
    BY <2>1 DEF Packet
  <2>3. CASE At(t, "submit_send")
    <3>1. AtOneOf(t, {"submit_load", "submit_check", "submit_stamp", "submit_send"})
      BY <2>3 DEF AtOneOf
    <3>2. reg[t].kind = "capture"
      BY <1>1, <3>1 DEF CaptureInv, Capturing
    <3>3. QED
      BY <1>3, <2>1, <2>2, <3>2
  <2>4. CASE At(t, "map_send")
    <3>1. AtOneOf(t, {"map_mode", "map_check", "map_stamp", "map_send"})
      BY <2>4 DEF AtOneOf
    <3>2. Issued(reg[t].epoch)
      BY <3>1 DEF MappingInv, MappingSends
    <3>3. QED
      BY <1>3, <2>1, <2>2, <3>2
  <2>5. QED
    BY <1>5, <2>3, <2>4 DEF Send
<1>6. Good \cup Good \subseteq Entries
  OBVIOUS
<1>7. \A i \in 1..Len(queue') : queue'[i] \in Good
  <2> HIDE DEF Good
  <2>1. QED
    BY <1>1, <1>4, <1>5, <1>6, QueueKeeps
<1>8. \A i \in 1..Len(queue') : queue'[i].kind # "capture" => Issued(queue[i].epoch)'
  BY <1>7 DEF Issued
<1>9. \A u \in Threads : MappingSends(u)'
  BY MappingSendsStays, MappingSendsMoves
<1>10. ASSUME NEW u \in Threads, NEW v \in Threads, u # v,
              At(u, "map_on_store")', At(v, "map_on_store")'
       PROVE  reg'[u].epoch # reg'[v].epoch
  <2>1. CASE u # t /\ v # t
    <3>1. /\ At(u, "map_on_store") /\ reg'[u] = reg[u]
          /\ At(v, "map_on_store") /\ reg'[v] = reg[v]
      BY <1>10, <2>1 DEF Steps, At
    <3>2. QED
      BY <1>10, <3>1 DEF MappingInv
  <2>2. QED
    BY <1>10, <2>1, SessionsDiffer
<1>11. QED
  BY <1>1, <1>2, <1>8, <1>9, <1>10, CaptureStep DEF MappingInv

LEMMA MappingStutters ==
  ASSUME MappingInv, UNCHANGED vars
  PROVE  MappingInv'
<1>1. UNCHANGED <<mapping_epoch, next_epoch, pc, reg, queue>>
  BY DEF vars, shared, seen
<1>2. \A m : Issued(m) => Issued(m)'
  BY <1>1 DEF Issued, At, Mapping
<1>3. \A t \in Threads : MappingSends(t)'
  BY <1>1 DEF MappingInv, MappingSends, AtOneOf, At, Issued, Mapping
<1>4. \A i \in 1..Len(queue)' : (queue[i].kind # "capture" => Issued(queue[i].epoch))'
  BY <1>1 DEF MappingInv, Issued, At, Mapping
<1>5. mapping_epoch' # 0 => Issued(mapping_epoch)'
  BY <1>1 DEF MappingInv, Issued, At, Mapping
<1>6. \A t, u \in Threads :
        At(t, "map_on_store")' /\ At(u, "map_on_store")' /\ t # u => reg'[t].epoch # reg'[u].epoch
  BY <1>1 DEF MappingInv, At
<1>7. QED
  BY <1>1, <1>3, <1>4, <1>5, <1>6, CaptureStutters DEF MappingInv

LEMMA MappingInit ==
  ASSUME Init
  PROVE  MappingInv
<1>1. queue = << >> /\ pc = [t \in Threads |-> << >>] /\ mapping_epoch = 0
  BY DEF Init
<1>2. Len(queue) = 0
  BY <1>1, EmptySeq
<1>3. \A t \in Threads : \A label : ~At(t, label)
  BY <1>1 DEF At
<1>4. \A t \in Threads : MappingSends(t)
  BY <1>3 DEF MappingSends, AtOneOf
<1>5. QED
  BY <1>1, <1>2, <1>3, <1>4, CaptureInit DEF MappingInv

-----------------------------------------------------------------------------
(***************************************************************************)
(* The evidence of a disconnect.  The thread that leaves an epoch as       *)
(* evidence has a suspend ahead, and stays so until the epoch is over.     *)
(***************************************************************************)
\* A thread that will suspend
Ending(t) == Uses(pc[t], {"suspend"})

\* The programs of end and disconnect reach their suspend.
LEMMA EndsInSuspend ==
  ASSUME NEW s, Path(s), s # << >>, Head(s) \in {"disconnect_store", "end_mode"}
  PROVE  Uses(s, {"suspend"})
<1>1. /\ Len(s) \in Nat \ {0} /\ DOMAIN s = 1..Len(s) /\ Head(s) = s[1]
      /\ \A i \in 1..Len(s) : /\ s[i] \notin Last => i + 1 \in 1..Len(s)
                              /\ i + 1 \in 1..Len(s) => s[i + 1] \in After(s[i])
  BY NextLabel, TailOfPath, DomainOfPath
<1>2. ASSUME NEW i \in 1..Len(s), s[i] = "end_mode"
      PROVE  Uses(s, {"suspend"})
  <2> DEFINE Next1(j) == j + 1
  <2>1. ASSUME NEW j \in 1..Len(s), s[j] \in {"end_mode", "end_check", "end_mapping", "end_request"}
        PROVE  Next1(j) \in 1..Len(s) /\ s[Next1(j)] \in After(s[j])
    BY <1>1, <2>1 DEF Last
  <2> HIDE DEF Next1
  <2>2. Next1(i) \in 1..Len(s) /\ s[Next1(i)] = "end_check"
    BY <1>2, <2>1 DEF After
  <2>3. Next1(Next1(i)) \in 1..Len(s) /\ s[Next1(Next1(i))] = "end_mapping"
    BY <2>1, <2>2 DEF After
  <2>4. Next1(Next1(Next1(i))) \in 1..Len(s) /\ s[Next1(Next1(Next1(i)))] = "end_request"
    BY <2>1, <2>3 DEF After
  <2>5. \E k \in 1..Len(s) : s[k] = "suspend"
    BY <2>1, <2>4 DEF After
  <2>6. QED
    BY <1>1, <2>5 DEF Uses
<1>3. CASE Head(s) = "end_mode"
  BY <1>1, <1>2, <1>3
<1>4. CASE Head(s) = "disconnect_store"
  <2>1. 1 \in 1..Len(s) /\ s[1] = "disconnect_store"
    BY <1>1, <1>4
  <2>2. "disconnect_store" \notin Last /\ After("disconnect_store") = {"end_mode"}
    BY DEF Last, After
  <2>3. \E i \in 1..Len(s) : s[i] = "end_mode"
    BY <1>1, <2>1, <2>2
  <2>4. QED
    BY <1>2, <2>3
<1>5. QED
  BY <1>3, <1>4

LEMMA EndingStays ==
  ASSUME AdmissionInv, NEW t \in Threads, Moves(t), NEW u \in Threads, Ending(u)
  PROVE  Ending(u)' \/ (u = t /\ DoSuspend(t))
<1>1. CASE u # t
  <2>1. pc'[u] = pc[u]
    BY <1>1 DEF Moves, Steps
  <2>2. QED
    BY <2>1 DEF Ending, Uses
<1>2. CASE u = t
  BY <1>2 DEF Moves, Steps, Ending
<1>3. QED
  BY <1>1, <1>2

EvidenceInv ==
  /\ MappingInv
  /\ \A t \in Threads :
       /\ AtOneOf(t, {"disconnect_load", "disconnect_check", "disconnect_store"}) =>
            "disconnect" \in calls[t]
       /\ AtOneOf(t, {"disconnect_check", "disconnect_store"}) => Begun(reg[t].epoch)
  /\ disconnected_epoch # 0 =>
       /\ Begun(disconnected_epoch)
       /\ \/ disconnected_epoch \in stopped
          \/ \E t \in Threads : "disconnect" \in calls[t] /\ Ending(t)

LEMMA DisconnectingStays ==
  ASSUME EvidenceInv, NEW t \in Threads, Moves(t), NEW u \in Threads
  PROVE  /\ AtOneOf(u, {"disconnect_load", "disconnect_check", "disconnect_store"})' =>
              "disconnect" \in calls'[u]
         /\ AtOneOf(u, {"disconnect_check", "disconnect_store"})' => Begun(reg[u].epoch)'
<1>1. /\ AdmissionInv /\ reg[u] \in Registers /\ Steps(t) /\ Counters
      /\ Granting /\ calls' = calls
  BY AdmissionStep DEF EvidenceInv, MappingInv, CaptureInv, AdmissionInv, PathInv, Moves,
     AdmissionEffect
<1>2. /\ AtOneOf(u, {"disconnect_load", "disconnect_check", "disconnect_store"}) =>
           "disconnect" \in calls[u]
      /\ AtOneOf(u, {"disconnect_check", "disconnect_store"}) => Begun(reg[u].epoch)
  BY DEF EvidenceInv
<1>3. ASSUME NEW e \in Nat, Begun(e), reg'[u].epoch = e
      PROVE  Begun(reg[u].epoch)'
  <2>1. Begun(e)'
    BY <1>1, <1>3, BegunStays
  <2>2. QED
    BY <1>3, <2>1 DEF Begun
<1>4. CASE u # t
  <2>1. pc'[u] = pc[u] /\ reg'[u] = reg[u]
    BY <1>1, <1>4 DEF Steps
  <2>2. \A labels : AtOneOf(u, labels)' <=> AtOneOf(u, labels)
    BY <2>1 DEF AtOneOf, At
  <2>3. PICK e \in Nat : e = reg[u].epoch
    BY <1>1 DEF Registers
  <2>4. QED
    BY <1>1, <1>2, <1>3, <2>1, <2>2, <2>3
<1>5. CASE u = t
  <2>1. ArrivesEvidence(t)
    BY <1>1 DEF Steps, Arrives
  <2>2. \A label : At(t, label)' <=> GoesTo(t, label)
    BY DEF At, GoesTo
  <2>3. \A label : At(t, label) => \A labels : label \in labels => AtOneOf(t, labels)
    BY DEF AtOneOf
  <2>4. CASE GoesTo(t, "disconnect_load")
    BY <1>1, <1>5, <2>1, <2>2, <2>4 DEF ArrivesEvidence, AtOneOf, GoesTo
  <2>5. CASE GoesTo(t, "disconnect_check")
    <3>1. /\ At(t, "disconnect_load") /\ Even(mode) /\ mode # 0
          /\ reg'[t].epoch = mode
      BY <1>1, <1>5, <2>1, <2>5 DEF ArrivesEvidence, Registers
    <3>2. "disconnect" \in calls[t]
      BY <1>2, <1>5, <2>3, <3>1
    <3>3. Begun(mode) /\ mode \in Nat
      BY <1>1, <3>1, OddAndEven DEF Begun, Granting, Token, Counters
    <3>4. PICK e \in Nat : e = mode
      BY <3>3
    <3>5. Begun(reg[t].epoch)'
      BY <1>3, <1>5, <3>1, <3>3, <3>4
    <3>6. QED
      BY <1>1, <1>5, <3>2, <3>5
  <2>6. CASE GoesTo(t, "disconnect_store")
    <3>1. At(t, "disconnect_check") /\ reg'[t] = reg[t]
      BY <2>1, <2>6 DEF ArrivesEvidence
    <3>2. "disconnect" \in calls[t] /\ Begun(reg[t].epoch)
      BY <1>2, <1>5, <2>3, <3>1
    <3>3. PICK e \in Nat : e = reg[t].epoch
      BY <1>1, <1>5 DEF Registers
    <3>4. Begun(reg[t].epoch)'
      BY <1>3, <1>5, <3>1, <3>2, <3>3
    <3>5. QED
      BY <1>1, <1>5, <3>2, <3>4
  <2>7. QED
    BY <1>5, <2>2, <2>4, <2>5, <2>6 DEF AtOneOf
<1>6. QED
  BY <1>4, <1>5

LEMMA EvidenceStep ==
  ASSUME EvidenceInv, NEW t \in Threads, Moves(t)
  PROVE  EvidenceInv'
<1>1. /\ AdmissionInv /\ reg[t] \in Registers /\ Steps(t) /\ Counters /\ MappingInv
      /\ calls' = calls /\ PathInv /\ PathInv'
  BY AdmissionStep DEF EvidenceInv, MappingInv, CaptureInv, AdmissionInv, PathInv, Moves, Steps,
     AdmissionEffect
<1>2. stopped \subseteq stopped'
  BY <1>1, ModeMoves
<1>3. ASSUME disconnected_epoch' # 0
      PROVE  /\ Begun(disconnected_epoch)'
             /\ \/ disconnected_epoch' \in stopped'
                \/ \E u \in Threads : "disconnect" \in calls'[u] /\ Ending(u)'
  <2>1. CASE DisconnectStore(t)
    <3>1. At(t, "disconnect_store") /\ disconnected_epoch' = reg[t].epoch
      BY <2>1 DEF DisconnectStore
    <3>2. "disconnect" \in calls[t] /\ Begun(reg[t].epoch)
      BY <3>1 DEF EvidenceInv, AtOneOf
    <3>3. PICK e \in Nat : e = reg[t].epoch
      BY <1>1 DEF Registers
    <3>4. Begun(e)' /\ disconnected_epoch' = e
      BY <1>1, <3>1, <3>2, <3>3, BegunStays
    <3>5. Ending(t)
      BY <1>1, <3>1, EndsInSuspend DEF Ending, At, PathInv
    <3>6. Ending(t)'
      BY <1>1, <3>1, <3>5 DEF Steps, Ending, At
    <3>7. QED
      BY <1>1, <3>2, <3>4, <3>6 DEF Begun
  <2>2. CASE disconnected_epoch' = disconnected_epoch
    <3>1. /\ Begun(disconnected_epoch)
          /\ \/ disconnected_epoch \in stopped
             \/ \E u \in Threads : "disconnect" \in calls[u] /\ Ending(u)
      BY <1>3, <2>2 DEF EvidenceInv
    <3>2. PICK e \in Nat : e = disconnected_epoch
      BY <1>1 DEF Counters
    <3>3. Begun(e) /\ Begun(e)' /\ disconnected_epoch' = e
      BY <1>1, <2>2, <3>1, <3>2, BegunStays
    <3>4. CASE disconnected_epoch \in stopped
      BY <1>2, <2>2, <3>3, <3>4 DEF Begun
    <3>5. ASSUME NEW u \in Threads, "disconnect" \in calls[u], Ending(u),
                 disconnected_epoch \notin stopped
          PROVE  \/ disconnected_epoch' \in stopped'
                 \/ \E v \in Threads : "disconnect" \in calls'[v] /\ Ending(v)'
      <4>1. CASE Ending(u)'
        BY <1>1, <3>5, <4>1
      <4>2. CASE DoSuspend(t)
        <5>1. mode # 0 /\ e = mode
          BY <3>2, <3>3, <3>5 DEF Begun
        <5>2. mode \in stopped'
          BY <1>1, <4>2, <5>1, SuspendEffect
        <5>3. QED
          BY <3>3, <5>1, <5>2
      <4>3. QED
        BY <1>1, <3>5, <4>1, <4>2, EndingStays
    <3>6. QED
      BY <3>1, <3>3, <3>4, <3>5 DEF Begun
  <2>3. CASE \/ UNCHANGED core \/ ReadyStore(t) \/ ReadyToken(t) \/ ReadyCas(t) \/ BeginCas(t)
             \/ DoSuspend(t) \/ Bump(t) \/ UnmapStore(t) \/ MapOnStore(t)
             \/ MapOnToken(t) \/ Send(t) \/ Take(t)
    BY <2>2, <2>3 DEF core, ReadyStore, ReadyToken, ReadyCas, BeginCas, DoSuspend, Bump, UnmapStore,
                      MapOnStore, MapOnToken, Send, Take
  <2>4. QED
    BY <1>1, <2>1, <2>3 DEF Steps, Effects
<1>4. QED
  BY <1>1, <1>3, DisconnectingStays, MappingStep DEF EvidenceInv

LEMMA EvidenceStutters ==
  ASSUME EvidenceInv, UNCHANGED vars
  PROVE  EvidenceInv'
<1>1. UNCHANGED <<mode, disconnected_epoch, stopped, calls, pc, reg>>
  BY DEF vars, shared, seen
<1>2. \A t \in Threads :
        /\ AtOneOf(t, {"disconnect_load", "disconnect_check", "disconnect_store"})' =>
             "disconnect" \in calls'[t]
        /\ AtOneOf(t, {"disconnect_check", "disconnect_store"})' => Begun(reg[t].epoch)'
  BY <1>1 DEF EvidenceInv, AtOneOf, At, Begun, Grantable, Even, Odd
<1>3. disconnected_epoch' # 0 =>
        /\ Begun(disconnected_epoch)'
        /\ \/ disconnected_epoch' \in stopped'
           \/ \E t \in Threads : "disconnect" \in calls'[t] /\ Ending(t)'
  BY <1>1 DEF EvidenceInv, Begun, Grantable, Even, Odd, Ending, Uses
<1>4. QED
  BY <1>2, <1>3, MappingStutters DEF EvidenceInv

LEMMA EvidenceInit ==
  ASSUME Init
  PROVE  EvidenceInv
<1>1. pc = [t \in Threads |-> << >>] /\ disconnected_epoch = 0
  BY DEF Init
<1>2. QED
  BY <1>1, MappingInit DEF EvidenceInv, AtOneOf, At

LEMMA EvidenceAlways == Spec => []EvidenceInv
<1>1. Init => EvidenceInv
  BY EvidenceInit
<1>2. EvidenceInv /\ [Next]_vars => EvidenceInv'
  <2>1. ASSUME EvidenceInv, Next PROVE EvidenceInv'
    BY <2>1, SomeThreadMoves, EvidenceStep DEF EvidenceInv, MappingInv, CaptureInv
  <2>2. QED
    BY <2>1, EvidenceStutters
<1>3. QED
  BY <1>1, <1>2, PTL DEF Spec

(***************************************************************************)
(* LossIsOver: when every call of disconnect has returned, the epoch it    *)
(* left as evidence is over, even if another thread ended it first.        *)
(***************************************************************************)
THEOREM LossesAreOver == Spec => []LossIsOver
<1>1. EvidenceInv => LossIsOver
  <2>1. SUFFICES ASSUME EvidenceInv, disconnected_epoch # 0,
                        \A t \in Threads : "disconnect" \in calls[t] => pc[t] = << >>
                 PROVE  disconnected_epoch \in stopped /\ Epoch # disconnected_epoch
    BY DEF LossIsOver
  <2>2. \A t \in Threads : pc[t] = << >> => ~Ending(t)
    BY DEF Ending, Uses
  <2>3. disconnected_epoch \in stopped
    BY <2>1, <2>2 DEF EvidenceInv
  <2>4. mode \notin stopped
    BY <2>1 DEF EvidenceInv, MappingInv, CaptureInv, AdmissionInv
  <2>5. QED
    BY <2>1, <2>3, <2>4 DEF Epoch
<1>2. QED
  BY <1>1, EvidenceAlways, PTL

(***************************************************************************)
(* OfThisGeneration: a capture and what it sends belong to the present     *)
(* generation, whatever generation a packet got stamped with.              *)
(***************************************************************************)
THEOREM CapturesAreCurrent == Spec => []OfThisGeneration
<1>1. ASSUME EvidenceInv PROVE OfThisGeneration
  <2>1. /\ AdmissionInv /\ queue \in Seq(Entries) /\ mode \in Nat /\ revision \in Nat
        /\ mapping_epoch # 0 => Issued(mapping_epoch)
        /\ \A i \in 1..Len(queue) : queue[i].kind = "capture" => FromCapture(queue[i])
    BY <1>1 DEF EvidenceInv, MappingInv, CaptureInv, AdmissionInv, Counters
  <2>2. ASSUME NEW i \in 1..Len(queue), queue[i].kind = "capture", Accepts(queue[i])
        PROVE  queue[i].captured = revision
    <3>1. PICK p \in Entries : p = queue[i]
      BY <2>1, ElementOfSeq
    <3>2. /\ Begun(p.epoch) /\ granted[p.epoch - 1] <= p.captured /\ p.captured <= revision
          /\ p.captured \in Nat
      BY <2>1, <2>2, <3>1 DEF FromCapture, Entries
    <3>3. ~(p.epoch = mapping_epoch /\ mapping_epoch # 0)
      BY <2>1, <3>2, EpochsApart
    <3>4. p.epoch = Epoch /\ Epoch # 0
      BY <2>2, <3>1, <3>3 DEF Accepts
    <3>5. granted[p.epoch - 1] = revision
      BY <2>1, <3>4, GrantedNowHolds DEF GrantedNow
    <3>6. QED
      BY <2>1, <3>1, <3>2, <3>5
  <2>3. DOMAIN queue = 1..Len(queue)
    BY <2>1, LenProperties
  <2>4. CaptureIsCurrent
    BY <2>2, <2>3 DEF CaptureIsCurrent, Packets
  <2>5. QED
    BY <2>1, <2>4, GrantedNowHolds DEF OfThisGeneration
<1>2. QED
  BY <1>1, EvidenceAlways, PTL

-----------------------------------------------------------------------------
(***************************************************************************)
(* Lost events.  A thread that lost an event of a session still has to end *)
(* it, or the session is over: it sends nothing more of it.                *)
(***************************************************************************)
\* What a thread that lost an event of the session e still has to do
Lost(t, e) ==
  \/ /\ Begun(e)
     /\ e \in stopped \/ Ending(t)
  \/ /\ Issued(e)
     /\ e # mapping_epoch \/ At(t, "unmap_load") \/ At(t, "unmap_store")

LateIsOver(p) ==
  p.late => IF p.kind = "capture" THEN p.epoch \in stopped ELSE p.epoch # mapping_epoch

GapInv ==
  /\ EvidenceInv
  /\ gaps \subseteq Threads \X Nat
  /\ \A t \in Threads, e \in Nat : <<t, e>> \in gaps => Lost(t, e)
  /\ \A i \in 1..Len(queue) : LateIsOver(queue[i])

LEMMA LostStays ==
  ASSUME EvidenceInv, NEW t \in Threads, Moves(t), NEW u \in Threads, NEW e \in Nat, Lost(u, e)
  PROVE  Lost(u, e)'
<1>1. /\ AdmissionInv /\ Steps(t)
      /\ mapping_epoch # 0 => Issued(mapping_epoch)
  BY DEF EvidenceInv, MappingInv, CaptureInv, Moves
<1>2. CASE Begun(e) /\ (e \in stopped \/ Ending(u))
  <2>1. Begun(e)' /\ stopped \subseteq stopped'
    BY <1>1, <1>2, BegunStays, ModeMoves
  <2>2. CASE DoSuspend(t) /\ e \notin stopped
    <3>1. mode = e /\ e # 0
      BY <1>2, <2>2 DEF Begun
    <3>2. e \in stopped'
      BY <1>1, <2>2, <3>1, SuspendEffect
    <3>3. QED
      BY <2>1, <3>2 DEF Lost
  <2>3. CASE e \in stopped
    BY <2>1, <2>3 DEF Lost
  <2>4. CASE Ending(u)'
    BY <2>1, <2>4 DEF Lost
  <2>5. QED
    BY <1>1, <1>2, <2>2, <2>3, <2>4, EndingStays
<1>3. CASE Issued(e) /\ (e # mapping_epoch \/ At(u, "unmap_load") \/ At(u, "unmap_store"))
  <2>1. Issued(e)' /\ (e = mapping_epoch' => e = mapping_epoch)
    BY <1>1, <1>3, IssuedStays
  <2>2. CASE e # mapping_epoch
    BY <2>1, <2>2 DEF Lost
  <2>3. CASE u # t
    <3>1. \A label : At(u, label)' <=> At(u, label)
      BY <1>1, <2>3 DEF Steps, At
    <3>2. QED
      BY <1>3, <2>1, <3>1 DEF Lost
  <2>4. CASE u = t /\ At(t, "unmap_load") /\ e = mapping_epoch
    <3>1. GoesTo(t, "unmap_store") \/ mapping_epoch = 0
      BY <1>1, <2>4 DEF Steps, Arrives, ArrivesEvidence
    <3>2. e # 0
      BY <1>3 DEF Issued, MappingBit
    <3>3. At(t, "unmap_store")'
      BY <2>4, <3>1, <3>2 DEF GoesTo, At
    <3>4. QED
      BY <2>1, <2>4, <3>3 DEF Lost
  <2>5. CASE u = t /\ At(t, "unmap_store")
    <3>1. mapping_epoch' = 0
      BY <1>1, <2>5 DEF Steps, Arrives, ArrivesEvidence, UnmapStore
    <3>2. e # 0
      BY <1>3 DEF Issued, MappingBit
    <3>3. QED
      BY <2>1, <3>1, <3>2 DEF Lost
  <2>6. QED
    BY <1>3, <2>2, <2>3, <2>4, <2>5
<1>4. QED
  BY <1>2, <1>3 DEF Lost

\* A thread that finds the queue full sets out to end the session.
LEMMA OverflowEnds ==
  ASSUME PathInv, NEW t \in Threads, NEW label \in {"submit_send", "map_send"}, At(t, label),
         Goto(t, Overflow(reg[t].kind) \o Tail(pc[t]), reg[t]), PathInv'
  PROVE  IF reg[t].kind = "capture" THEN Ending(t)' ELSE At(t, "unmap_load")'
<1> DEFINE program == Overflow(reg[t].kind)
           rest == Tail(pc[t])
<1>1. /\ program \in Seq(Lengthy) /\ program # << >>
      /\ program[1] = IF reg[t].kind = "capture" THEN "end_mode" ELSE "unmap_load"
  BY NestedPrograms DEF Nests, Overflow
<1>2. rest \in Seq(Lengthy)
  BY RestIsLengthy DEF Lengthy
<1>3. pc'[t] = program \o rest
  BY DEF Goto, PathInv
<1> HIDE DEF program, rest
<1>4. /\ Len(program \o rest) = Len(program) + Len(rest)
      /\ \A i \in 1..Len(program) + Len(rest) :
           (program \o rest)[i] = IF i <= Len(program) THEN program[i] ELSE rest[i - Len(program)]
      /\ Len(program) \in Nat \ {0} /\ Len(rest) \in Nat
      /\ program \o rest \in Seq(Lengthy)
  BY <1>1, <1>2, ConcatProperties, EmptySeq, LenProperties
<1>5. pc'[t] # << >> /\ pc'[t][1] = program[1]
  BY <1>3, <1>4, EmptySeq
<1>6. Path(pc'[t])
  BY DEF PathInv
<1>7. Head(pc'[t]) = program[1]
  BY <1>5, <1>6, TailOfPath
<1>8. QED
  BY <1>1, <1>5, <1>6, <1>7, EndsInSuspend DEF Ending, At

\* A thread about to send has no suspend ahead in a submit.
LEMMA SubmitsToTheEnd ==
  ASSUME PathInv, NEW t \in Threads, At(t, "submit_send")
  PROVE  ~Ending(t)
<1>1. Path(pc[t]) /\ pc[t] # << >> /\ Head(pc[t]) = "submit_send"
  BY DEF PathInv, At
<1>2. /\ DOMAIN pc[t] = 1..Len(pc[t]) /\ Len(pc[t]) \in Nat \ {0} /\ pc[t][1] = "submit_send"
  BY <1>1, DomainOfPath, TailOfPath
<1>3. After("submit_send") = {}
  BY DEF After
<1>4. Len(pc[t]) = 1
  <2>1. 1 \in 1..Len(pc[t])
    BY <1>2
  <2>2. IF 1 = Len(pc[t]) THEN pc[t][1] \in Last ELSE pc[t][1 + 1] \in After(pc[t][1])
    BY <1>1, <2>1 DEF Path, Ordered
  <2>3. QED
    BY <1>2, <1>3, <2>2
<1>5. QED
  BY <1>2, <1>4 DEF Ending, Uses

LEMMA GapsStep ==
  ASSUME GapInv, NEW t \in Threads, Moves(t)
  PROVE  /\ gaps' \subseteq Threads \X Nat
         /\ \A u \in Threads, e \in Nat : <<u, e>> \in gaps' => Lost(u, e)'
<1>1. /\ EvidenceInv /\ PathInv /\ PathInv' /\ Steps(t) /\ reg[t] \in Registers /\ AdmissionInv
      /\ gaps \subseteq Threads \X Nat
  BY DEF GapInv, EvidenceInv, MappingInv, CaptureInv, AdmissionInv, PathInv, Moves, Steps
<1>2. \A u \in Threads, e \in Nat : <<u, e>> \in gaps => Lost(u, e)'
  BY LostStays DEF GapInv
<1>3. CASE gaps' = gaps
  BY <1>1, <1>2, <1>3
<1>4. CASE Send(t) /\ gaps' # gaps
  <2>1. /\ gaps' = gaps \cup {<<t, reg[t].epoch>>}
        /\ Goto(t, Overflow(reg[t].kind) \o Tail(pc[t]), reg[t])
        /\ mapping_epoch' = mapping_epoch
    BY <1>4 DEF Send
  <2>2. PICK label \in {"submit_send", "map_send"} : At(t, label)
    BY <1>4 DEF Send
  <2>3. IF reg[t].kind = "capture" THEN Ending(t)' ELSE At(t, "unmap_load")'
    BY <1>1, <2>1, <2>2, OverflowEnds
  <2>4. PICK e \in Nat : e = reg[t].epoch
    BY <1>1 DEF Registers
  <2>5. ASSUME label = "submit_send" PROVE Lost(t, e)'
    <3>1. /\ AtOneOf(t, {"submit_check", "submit_stamp", "submit_send"})
          /\ AtOneOf(t, {"submit_load", "submit_check", "submit_stamp", "submit_send"})
      BY <2>2, <2>5 DEF AtOneOf
    <3>2. Begun(e) /\ reg[t].kind = "capture"
      BY <1>1, <2>4, <3>1 DEF EvidenceInv, MappingInv, CaptureInv, Capturing
    <3>3. Begun(e)'
      BY <1>1, <3>2, BegunStays
    <3>4. QED
      BY <2>3, <3>2, <3>3 DEF Lost
  <2>6. ASSUME label = "map_send" PROVE Lost(t, e)'
    <3>1. AtOneOf(t, {"map_mode", "map_check", "map_stamp", "map_send"})
      BY <2>2, <2>6 DEF AtOneOf
    <3>2. Issued(e) /\ reg[t].kind # "capture"
      BY <1>1, <2>4, <3>1 DEF EvidenceInv, MappingInv, CaptureInv, Capturing, MappingSends
    <3>3. Issued(e)'
      BY <1>1, <3>2, IssuedStays
    <3>4. QED
      BY <2>3, <3>2, <3>3 DEF Lost
  <2>7. Lost(t, e)'
    BY <2>5, <2>6
  <2>8. gaps' = gaps \cup {<<t, e>>}
    BY <2>1, <2>4
  <2>9. QED
    BY <1>1, <1>2, <2>7, <2>8
<1>5. CASE \/ UNCHANGED core \/ ReadyStore(t) \/ ReadyToken(t) \/ ReadyCas(t) \/ BeginCas(t)
           \/ DoSuspend(t) \/ DisconnectStore(t) \/ Bump(t) \/ UnmapStore(t) \/ MapOnStore(t)
           \/ MapOnToken(t) \/ Take(t)
  BY <1>3, <1>5 DEF core, ReadyStore, ReadyToken, ReadyCas, BeginCas, DoSuspend, DisconnectStore,
                    Bump, UnmapStore, MapOnStore, MapOnToken, Take, seen
<1>6. QED
  BY <1>1, <1>3, <1>4, <1>5 DEF Steps, Effects

LEMMA LateStep ==
  ASSUME GapInv, NEW t \in Threads, Moves(t)
  PROVE  \A i \in 1..Len(queue') : LateIsOver(queue[i])'
<1>1. /\ EvidenceInv /\ CaptureInv /\ PathInv /\ Steps(t) /\ reg[t] \in Registers /\ AdmissionInv
      /\ queue \in Seq(Entries)
      /\ \A i \in 1..Len(queue) : queue[i].kind # "capture" => Issued(queue[i].epoch)
  BY DEF GapInv, EvidenceInv, MappingInv, CaptureInv, AdmissionInv, PathInv, Moves
<1> DEFINE Good == {p \in Entries : LateIsOver(p)'}
<1>2. ASSUME NEW p \in Entries, LateIsOver(p), p.kind # "capture" => Issued(p.epoch)
      PROVE  p \in Good
  <2>1. stopped \subseteq stopped'
    BY <1>1, ModeMoves
  <2>2. p.kind # "capture" => (p.epoch = mapping_epoch' => p.epoch = mapping_epoch)
    BY <1>1, <1>2, IssuedStays
  <2>3. QED
    BY <1>2, <2>1, <2>2 DEF LateIsOver
<1>3. \A i \in 1..Len(queue) : queue[i] \in Good
  <2>1. ASSUME NEW i \in 1..Len(queue)
        PROVE  queue[i] \in Good
    <3>1. PICK p \in Entries : p = queue[i]
      BY <1>1, ElementOfSeq
    <3>2. LateIsOver(p) /\ (p.kind # "capture" => Issued(p.epoch))
      BY <1>1, <3>1 DEF GapInv
    <3>3. QED
      BY <1>2, <3>1, <3>2
  <2>2. QED
    BY <2>1
<1>4. ASSUME Send(t), Packet(t) \in Entries
      PROVE  Packet(t) \in Good
  <2>1. PICK p \in Entries : p = Packet(t)
    BY <1>4
  <2>2. /\ p.epoch = reg[t].epoch /\ p.kind = reg[t].kind
        /\ p.late <=> <<t, reg[t].epoch>> \in gaps
    BY <2>1 DEF Packet
  <2>3. PICK e \in Nat : e = reg[t].epoch
    BY <1>1 DEF Registers
  <2>4. p.late => Lost(t, e)
    BY <2>2, <2>3 DEF GapInv
  <2>5. CASE At(t, "submit_send")
    <3>1. /\ AtOneOf(t, {"submit_check", "submit_stamp", "submit_send"})
          /\ AtOneOf(t, {"submit_load", "submit_check", "submit_stamp", "submit_send"})
      BY <2>5 DEF AtOneOf
    <3>2. Begun(e) /\ p.kind = "capture"
      BY <1>1, <2>2, <2>3, <3>1 DEF CaptureInv, Capturing
    <3>3. ~Issued(e) /\ ~Ending(t)
      BY <1>1, <2>5, <3>2, EpochsApart, SubmitsToTheEnd
    <3>4. LateIsOver(p)
      BY <2>2, <2>3, <2>4, <3>2, <3>3 DEF LateIsOver, Lost
    <3>5. QED
      BY <1>2, <2>1, <3>2, <3>4
  <2>6. CASE At(t, "map_send")
    <3>1. AtOneOf(t, {"map_mode", "map_check", "map_stamp", "map_send"})
      BY <2>6 DEF AtOneOf
    <3>2. Issued(e) /\ p.kind # "capture"
      BY <1>1, <2>2, <2>3, <3>1 DEF EvidenceInv, MappingInv, CaptureInv, Capturing, MappingSends
    <3>3. ~Begun(e) /\ ~At(t, "unmap_load") /\ ~At(t, "unmap_store")
      BY <2>6, <3>2, EpochsApart DEF At
    <3>4. LateIsOver(p)
      BY <2>2, <2>3, <2>4, <3>2, <3>3 DEF LateIsOver, Lost
    <3>5. QED
      BY <1>2, <2>1, <2>2, <2>3, <3>2, <3>4
  <2>7. QED
    BY <1>4, <2>5, <2>6 DEF Send
<1>5. Good \cup Good \subseteq Entries
  OBVIOUS
<1>6. \A i \in 1..Len(queue') : queue'[i] \in Good
  <2> HIDE DEF Good
  <2>1. QED
    BY <1>1, <1>3, <1>4, <1>5, QueueKeeps
<1>7. QED
  BY <1>6 DEF LateIsOver

LEMMA GapAlways == Spec => []GapInv
<1>1. Init => GapInv
  <2>1. ASSUME Init PROVE gaps = {} /\ queue = << >> /\ Len(queue) = 0
    BY <2>1, EmptySeq DEF Init
  <2>2. QED
    BY <2>1, EvidenceInit DEF GapInv
<1>2. GapInv /\ [Next]_vars => GapInv'
  <2>1. ASSUME GapInv, Next PROVE GapInv'
    <3>1. PICK t \in Threads : Moves(t)
      BY <2>1, SomeThreadMoves DEF GapInv, EvidenceInv, MappingInv, CaptureInv
    <3>2. EvidenceInv'
      BY <2>1, <3>1, EvidenceStep DEF GapInv
    <3>3. QED
      BY <2>1, <3>1, <3>2, GapsStep, LateStep DEF GapInv
  <2>2. ASSUME GapInv, UNCHANGED vars PROVE GapInv'
    <3>1. UNCHANGED <<mode, mapping_epoch, next_epoch, stopped, gaps, queue, pc, reg>>
      BY <2>2 DEF vars, shared, seen
    <3>2. \A t \in Threads, e \in Nat : <<t, e>> \in gaps' => Lost(t, e)'
      BY <2>2, <3>1 DEF GapInv, Lost, Begun, Grantable, Even, Odd, Issued, Mapping, Ending, Uses, At
    <3>3. \A i \in 1..Len(queue)' : LateIsOver(queue[i])'
      BY <2>2, <3>1 DEF GapInv, LateIsOver
    <3>4. EvidenceInv'
      BY <2>2, EvidenceStutters DEF GapInv
    <3>5. QED
      BY <2>2, <3>1, <3>2, <3>3, <3>4 DEF GapInv
  <2>3. QED
    BY <2>1, <2>2
<1>3. QED
  BY <1>1, <1>2, PTL DEF Spec

(***************************************************************************)
(* NoGap: a full queue ends the capture or the mapping session, so that a  *)
(* lost event is followed by nothing of the session it belonged to.        *)
(***************************************************************************)
THEOREM NoGaps == Spec => []NoGap
<1>1. ASSUME GapInv PROVE NoGap
  <2>1. /\ queue \in Seq(Entries) /\ mode \notin stopped /\ mode < next_epoch
        /\ mode \in Nat /\ next_epoch \in Nat
        /\ mapping_epoch # 0 => Issued(mapping_epoch)
        /\ \A i \in 1..Len(queue) : /\ queue[i].kind = "capture" => FromCapture(queue[i])
                                    /\ queue[i].kind # "capture" => Issued(queue[i].epoch)
                                    /\ LateIsOver(queue[i])
        /\ Room
    BY <1>1 DEF GapInv, EvidenceInv, MappingInv, CaptureInv, AdmissionInv, Counters
  <2>2. mode <= MappingBit
    <3>1. IsFiniteSet(Planners)
      BY <1>1, CallsTyped, FS_Subset DEF Planners, GapInv, EvidenceInv, MappingInv, CaptureInv,
                                         AdmissionInv
    <3>2. Cardinality(Planners) \in Nat
      BY <3>1, FS_CardinalityType
    <3>3. next_epoch <= MaxEpoch + 2
      BY <2>1, <3>2, BoundsAssumption DEF Room
    <3>4. QED
      BY <2>1, <3>3, BoundsAssumption DEF MappingBit
  <2>3. ASSUME NEW i \in 1..Len(queue), Accepts(queue[i]), queue[i].late
        PROVE  FALSE
    <3>1. PICK p \in Entries : p = queue[i]
      BY <2>1, ElementOfSeq
    <3>2. (p.epoch = mapping_epoch /\ mapping_epoch # 0) \/ (p.epoch = mode /\ Epoch # 0)
      BY <2>3, <3>1 DEF Accepts, Epoch
    <3>3. CASE p.kind = "capture"
      <4>1. p.epoch \in stopped /\ Begun(p.epoch)
        BY <2>1, <2>3, <3>1, <3>3 DEF LateIsOver, FromCapture
      <4>2. QED
        BY <2>1, <3>2, <4>1, EpochsApart
    <3>4. CASE p.kind # "capture"
      <4>1. p.epoch # mapping_epoch /\ Issued(p.epoch)
        BY <2>1, <2>3, <3>1, <3>4 DEF LateIsOver
      <4>2. MappingBit < p.epoch /\ MappingBit \in Nat /\ p.epoch \in Nat
        BY <4>1 DEF Issued, MappingBit
      <4>3. QED
        BY <2>1, <2>2, <3>2, <4>1, <4>2
    <3>5. QED
      BY <3>3, <3>4
  <2>4. DOMAIN queue = 1..Len(queue)
    BY <2>1, LenProperties
  <2>5. QED
    BY <2>3, <2>4 DEF NoGap, Packets
<1>2. QED
  BY <1>1, GapAlways, PTL

=============================================================================
