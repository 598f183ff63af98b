----------------------------- MODULE HidReports -----------------------------
(***************************************************************************)
(* From a key of the computer to what the receiver understands: the key's  *)
(* usage (KeyTables), the owners of outputs (mapping.rs), the bytes of the *)
(* three reports (hid.rs, hid/input.rs), and the report descriptors that   *)
(* the receiver reads them by.                                             *)
(*                                                                         *)
(* Bytes are numbers; a descriptor is the sequence of its items, each with *)
(* its data.  The descriptor is read the way the HID class definition      *)
(* says (external).  No key is a shortcut here, and no two keys of one     *)
(* code are held together: InputRouter has the routing.                    *)
(***************************************************************************)
EXTENDS KeyTables, Sequences, FiniteSets, SequencesExt

CONSTANT
  Plans   \* a set of records: the platform and the profile, the keys that may be pressed,
          \* the order of those that come in an order, how many things are held at once, the keys
          \* that are picked as mapped outputs and with which modifiers, the buttons, the media
          \* commands, the displacements and wheel deltas, and how many pointer events there are

VARIABLES
  desk,     \* the plan; the pressed keys and buttons, the outputs and taps that are held, and
            \* how far the mouse was moved and the wheels were turned
  wire,     \* the session's encoder: owners of outputs, owners of consumer usages, what is
            \* left of the wheels' notches, and whether it failed
  shown     \* the receiver's view of the descriptor, what it reads in the last report of each kind, how far it has moved
            \* and how many notches it has scrolled

-----------------------------------------------------------------------------
\* The descriptors
KeyboardItems ==
  << <<\h05,\h01>>, <<\h09,\h06>>, <<\hA1,\h01>>, <<\h85,\h02>>, <<\h05,\h07>>,
     <<\h19,\hE0>>, <<\h29,\hE7>>, <<\h15,\h00>>, <<\h25,\h01>>, <<\h75,\h01>>,
     <<\h95,\h08>>, <<\h81,\h02>>, <<\h75,\h08>>, <<\h95,\h01>>, <<\h81,\h01>>,
     <<\h19,\h00>>, <<\h29,\hDF>>, <<\h15,\h00>>, <<\h26,\hDF,\h00>>, <<\h75,\h08>>,
     <<\h95,\h12>>, <<\h81,\h00>>, <<\hC0>> >>

ConsumerItems ==
  << <<\h05,\h0C>>, <<\h09,\h01>>, <<\hA1,\h01>>, <<\h85,\h01>>, <<\h15,\h00>>,
     <<\h26,\hFF,\h03>>, <<\h75,\h10>>, <<\h95,\h06>>, <<\h19,\h00>>, <<\h2A,\hFF,\h03>>,
     <<\h81,\h00>>, <<\hC0>> >>

MouseItems ==
  << <<\h05,\h01>>, <<\h09,\h02>>, <<\hA1,\h01>>, <<\h85,\h03>>, <<\h09,\h01>>,
     <<\hA1,\h00>>, <<\h05,\h09>>, <<\h19,\h01>>, <<\h29,\h05>>, <<\h15,\h00>>,
     <<\h25,\h01>>, <<\h75,\h01>>, <<\h95,\h05>>, <<\h81,\h02>>, <<\h75,\h03>>,
     <<\h95,\h01>>, <<\h81,\h01>>, <<\h05,\h01>>, <<\h09,\h30>>, <<\h09,\h31>>,
     <<\h16,\h00,\h80>>, <<\h26,\hFF,\h7F>>, <<\h75,\h10>>, <<\h95,\h02>>, <<\h81,\h06>>,
     <<\h09,\h38>>, <<\h15,\h81>>, <<\h25,\h7F>>, <<\h75,\h08>>, <<\h95,\h01>>,
     <<\h81,\h06>>, <<\h05,\h0C>>, <<\h0A,\h38,\h02>>, <<\h81,\h06>>, <<\hC0>>, <<\hC0>> >>

ReportMap(profile) == IF profile = "full" THEN KeyboardItems \o ConsumerItems \o MouseItems ELSE ConsumerItems

Consumer == 1
Keyboard == 2
Mouse    == 3

PayloadLength == [kind \in {Consumer, Keyboard, Mouse} |-> CASE kind = Consumer -> 12
                                                             [] kind = Keyboard -> 20
                                                             [] kind = Mouse    -> 7]

-----------------------------------------------------------------------------
\* How a receiver reads a descriptor: the fields of each report, in bits from its start
Unsigned(bytes) == LET all == bytes \o <<0, 0, 0>> IN all[1] + 256 * all[2] + 65536 * all[3]

Signed(value, bits) == IF value >= 2 ^ (bits - 1) THEN value - 2 ^ bits ELSE value

NoUsages == [listed |-> <<>>, first |-> 0]

Bit(flags, n) == (flags \div 2 ^ n) % 2 = 1

Field(p, flags) ==
  [id |-> p.id, start |-> p.ends[p.id], size |-> p.size, count |-> p.count, min |-> p.min, max |-> p.max,
   page |-> p.page, usages |-> p.usages, constant |-> Bit(flags, 0), variable |-> Bit(flags, 1)]

Item(p, item) ==
  LET data == Tail(item)  number == Unsigned(data)
  IN CASE item[1] - Len(data) = \h04 -> [p EXCEPT !.page = number]
       [] item[1] - Len(data) = \h14 -> [p EXCEPT !.min = Signed(number, 8 * Len(data))]
       [] item[1] - Len(data) = \h24 -> [p EXCEPT !.max = Signed(number, 8 * Len(data))]
       [] item[1] - Len(data) = \h74 -> [p EXCEPT !.size = number]
       [] item[1] - Len(data) = \h84 -> [p EXCEPT !.id = number]
       [] item[1] - Len(data) = \h94 -> [p EXCEPT !.count = number]
       [] item[1] - Len(data) = \h08 -> [p EXCEPT !.usages.listed = Append(@, number)]
       [] item[1] - Len(data) = \h18 -> [p EXCEPT !.usages.first = number]
       [] item[1] - Len(data) = \h80 -> [p EXCEPT !.fields = @ \cup {Field(p, number)}, !.usages = NoUsages,
                                                  !.ends[p.id] = @ + p.size * p.count]
       [] item[1] - Len(data) \in {\hA0, \hC0} -> [p EXCEPT !.usages = NoUsages]
       [] OTHER -> p

Parsed(profile) ==
  LET p == FoldLeft(Item, [page |-> 0, min |-> 0, max |-> 0, size |-> 0, count |-> 0, id |-> Consumer,
                           usages |-> NoUsages, ends |-> <<0, 0, 0>>, fields |-> {}], ReportMap(profile))
  IN [kind \in {Consumer, Keyboard, Mouse} |->
        [bits |-> p.ends[kind], fields |-> {f \in p.fields : f.id = kind}]]

\* A field's element is read from the bytes it lies in, at most three.
Element(field, payload, n) ==
  LET at == field.start + n * field.size
      bytes == SubSeq(payload, at \div 8 + 1, (at + field.size - 1) \div 8 + 1)
      value == (Unsigned(bytes) \div 2 ^ (at % 8)) % 2 ^ field.size
  IN IF field.min < 0 THEN Signed(value, field.size) ELSE value

UsageOf(field, n, value) ==
  CASE ~field.variable              -> field.usages.first + value - field.min
    [] field.usages.listed = <<>>   -> field.usages.first + n
    [] OTHER                        -> field.usages.listed[n + 1]

\* What a report says: <<page, usage, value>>.  Values that are out of their field's range
\* say nothing, nor does a report of another length.
Reads(kind, payload) ==
  LET Says(field, n) ==
        LET value == Element(field, payload, n)
            usage == UsageOf(field, n, value)
        IN IF field.constant \/ value < field.min \/ value > field.max \/ value = 0 \/ usage = 0 THEN {}
           ELSE {<<field.page, usage, IF field.variable THEN value ELSE 1>>}
  IN IF Len(payload) * 8 # shown.map[kind].bits THEN {}
     ELSE UNION {UNION {Says(field, n) : n \in 0 .. field.count - 1} : field \in shown.map[kind].fields}

Usage(reads, page, usage) ==
  IF \E r \in reads : r[1] = page /\ r[2] = usage
  THEN (CHOOSE r \in reads : r[1] = page /\ r[2] = usage)[3] ELSE 0

-----------------------------------------------------------------------------
\* The encoders
Error == <<>>

Zeros(n) == [i \in 1 .. n |-> 0]

Sorted(S) == [i \in 1 .. Cardinality(S) |-> CHOOSE n \in S : Cardinality({m \in S : m < n}) = i - 1]

Bits(S) == MapThenSumSet(LAMBDA n : 2 ^ n, S)

Low(number)  == number % 256
Word(number) == <<Low(number), (number % 65536) \div 256>>

\* OutputOwners::update
UpdateByKey(owners, owner, keys, buttons, down) ==
  IF down THEN owners \cup {[owner |-> owner, keys |-> keys, buttons |-> buttons]}
  ELSE {[o EXCEPT !.keys = @ \ keys, !.buttons = @ \ buttons] : o \in owners}

Update(owners, owner, keys, buttons, down) ==
  {o \in owners : o.owner # owner} \cup (IF down THEN {[owner |-> owner, keys |-> keys, buttons |-> buttons]} ELSE {})

KeysOf(owners)    == UNION {o.keys : o \in owners}
ButtonsOf(owners) == UNION {o.buttons : o \in owners}

KeyboardReport(keys) ==
  LET slots == keys \cap (1 .. \hDF)
      free  == PayloadLength[Keyboard] - 2 - Cardinality(slots)
  IN IF free < 0 THEN Error
     ELSE <<Bits({m \in 0 .. 7 : \hE0 + m \in keys}), 0>> \o Sorted(slots) \o Zeros(free)

MouseReport(buttons, dx, dy, vertical, horizontal) ==
  <<Bits(buttons)>> \o Word(dx) \o Word(dy) \o <<Low(vertical), Low(horizontal)>>

ConsumerReport(consumers) ==
  LET usages == {c[1] : c \in consumers}
      slots  == PayloadLength[Consumer] \div 2
      Byte(i) == LET word == IF (i + 1) \div 2 > Cardinality(usages) THEN <<0, 0>>
                             ELSE Word(Sorted(usages)[(i + 1) \div 2])
                 IN word[IF i % 2 = 1 THEN 1 ELSE 2]
  IN IF Cardinality(usages) > slots THEN Error ELSE [i \in 1 .. 2 * slots |-> Byte(i)]

\* Whole notches, rounded towards zero; what is left waits for the next event.
Notches(total) == IF total >= 0 THEN total \div 120 ELSE -((-total) \div 120)

Turned(steps, reverse) == IF reverse THEN -steps ELSE steps

InByte(steps, reverse) == steps \in -128 .. 127 /\ (reverse => steps # -128)

-----------------------------------------------------------------------------
plan == desk.plan

Code(k) ==
  IF plan.platform = "windows" THEN KeyboardCode(k.vk, k.scan, k.extended)
  ELSE LET reported == NormalizeNative(k.native, plan.platform = "mac iso")  \* by an ISO keyboard (external)
       IN Internal(NormalizeNative(reported, plan.platform = "mac iso"))

UsageFor(k) ==
  IF plan.platform = "windows" THEN KeyboardUsage(k.vk, k.scan, k.extended)
  ELSE <<\h07, MacUsage(Code(k))>>

\* The next encoder, and the report it makes; what it has no report for ends the session.
Sends(w, kind, payload) ==
  /\ wire' = [w EXCEPT !.failed = payload = Error]
  /\ shown' = IF payload = Error THEN shown ELSE [shown EXCEPT !.reads[kind] = Reads(kind, payload)]

SendsKeyboard(owners) == Sends([wire EXCEPT !.owners = owners], Keyboard, KeyboardReport(KeysOf(owners)))
SendsMouse(owners)    == Sends([wire EXCEPT !.owners = owners], Mouse, MouseReport(ButtonsOf(owners), 0, 0, 0, 0))
SendsConsumer(consumers) == Sends([wire EXCEPT !.consumers = consumers], Consumer, ConsumerReport(consumers))

\* Event::Key
KeyEdge(usage, down) ==
  LET owner == <<usage[2], "key">>
  IN IF usage[1] = \h07
     THEN SendsKeyboard(Update(wire.owners, <<"key", usage[2]>>, {usage[2]}, {}, down))
     ELSE SendsConsumer(IF down THEN wire.consumers \cup {owner} ELSE wire.consumers \ {owner})

Going == ~wire.failed

Holding == Cardinality(desk.pressed) + Cardinality(desk.held) + Cardinality(desk.commands)

Press(k) ==
  /\ Going /\ k \notin desk.pressed /\ Holding < plan.most
  /\ \A i, j \in DOMAIN plan.first : plan.first[i] = k /\ j < i => plan.first[j] \in desk.pressed
  /\ \A j \in desk.pressed : Code(j) # Code(k)
  /\ desk' = [desk EXCEPT !.pressed = @ \cup {k}]
  /\ KeyEdge(UsageFor(k), TRUE)

Release(k) ==
  /\ Going /\ k \in desk.pressed
  /\ \A i, j \in DOMAIN plan.first : plan.first[i] = k /\ j > i => plan.first[j] \notin desk.pressed
  /\ desk' = [desk EXCEPT !.pressed = @ \ {k}]
  /\ KeyEdge(UsageFor(k), FALSE)

\* Event::Button
Click(button, down) ==
  /\ Going /\ (button \in desk.buttons) # down
  /\ desk' = [desk EXCEPT !.buttons = IF down THEN @ \cup {button} ELSE @ \ {button}]
  /\ SendsMouse(Update(wire.owners, <<"button", button>>, {}, {button}, down))

\* MappingOutput::from_shortcut, and Event::Mapping of that output
Modifiers == <<"ctrl", "shift", "alt", "win">>

OutputOf(pick) ==
  {OutputKeys[KeyboardCode(pick.key.vk, pick.key.scan, pick.key.extended)]}
  \cup {\hE0 + i - 1 : i \in {n \in 1 .. 4 : Modifiers[n] \in pick.modifiers}}

Map(pick, down) ==
  /\ Going /\ (pick \in desk.held) # down /\ (down => Holding < plan.most)
  /\ desk' = [desk EXCEPT !.held = IF down THEN @ \cup {pick} ELSE @ \ {pick}]
  /\ SendsKeyboard(Update(wire.owners, <<"mapping", pick>>, OutputOf(pick), {}, down))

\* Session::media, and the end of a tap's pulse
Media(command, down) ==
  LET owner == <<MediaUsage[command], IF command \in SeekKeys THEN "seek" ELSE "tap">>
  IN /\ Going /\ (command \in desk.commands) # down /\ (down => Holding < plan.most)
     /\ desk' = [desk EXCEPT !.commands = IF down THEN @ \cup {command} ELSE @ \ {command}]
     /\ SendsConsumer(IF down THEN wire.consumers \cup {owner} ELSE wire.consumers \ {owner})

\* Event::Motion, Wheel and Pointer: a wheel event that makes no notch has no report.
InWord(d) == d[1] \in -32768 .. 32767 /\ d[2] \in -32768 .. 32767

Point(d, deltas, reverse) ==
  LET total  == [n \in {1, 2} |-> wire.wheel[n] + deltas[n]]
      steps  == [n \in {1, 2} |-> Notches(total[n])]
      fits   == InWord(d) /\ \A n \in {1, 2} : InByte(steps[n], reverse)
      report == MouseReport(ButtonsOf(wire.owners), d[1], d[2], Turned(steps[1], reverse), Turned(steps[2], reverse))
      reads  == Reads(Mouse, report)
      silent == d = <<0, 0>> /\ steps = <<0, 0>>
  IN /\ Going /\ desk.events < plan.events
     /\ desk' = [desk EXCEPT !.events = @ + 1, !.moved = <<@[1] + d[1], @[2] + d[2]>>,
                             !.turned = <<@[1] + deltas[1], @[2] + deltas[2]>>,
                             !.far = ~InWord(d) \/ \E n \in {1, 2} : steps[n] \notin -127 .. 127]
     /\ wire' = [wire EXCEPT !.failed = ~fits,
                             !.wheel = IF fits THEN <<total[1] - 120 * steps[1], total[2] - 120 * steps[2]>> ELSE @]
     /\ shown' = IF ~fits \/ silent THEN shown
                 ELSE [shown EXCEPT !.reads[Mouse] = {r \in reads : r[1] = 9},
                                    !.moved = <<@[1] + Usage(reads, 1, \h30), @[2] + Usage(reads, 1, \h31)>>,
                                    !.scrolled = <<@[1] + Turned(Usage(reads, 1, \h38), reverse),
                                                   @[2] + Turned(Usage(reads, \h0C, \h238), reverse)>>]

-----------------------------------------------------------------------------
Init ==
  /\ desk \in {[plan |-> p, pressed |-> {}, buttons |-> {}, held |-> {}, commands |-> {},
                events |-> 0, moved |-> <<0, 0>>, turned |-> <<0, 0>>, far |-> FALSE] : p \in Plans}
  /\ wire = [owners |-> {}, consumers |-> {}, wheel |-> <<0, 0>>, failed |-> FALSE]
  /\ shown = [map |-> Parsed(plan.profile), reads |-> [kind \in {Consumer, Keyboard, Mouse} |-> {}], moved |-> <<0, 0>>, scrolled |-> <<0, 0>>]

Edges ==
  \/ \E k \in plan.keys : Press(k) \/ Release(k)
  \/ \E pick \in plan.picks, down \in BOOLEAN : Map(pick, down)

Others ==
  \/ \E button \in plan.buttons, down \in BOOLEAN : Click(button, down)
  \/ \E command \in plan.commands, down \in BOOLEAN : Media(command, down)
  \/ \E d \in plan.moves, deltas \in plan.wheels, reverse \in BOOLEAN : Point(d, deltas, reverse)

-----------------------------------------------------------------------------
TypeOK ==
  /\ desk.pressed \subseteq plan.keys /\ desk.buttons \subseteq plan.buttons /\ desk.held \subseteq plan.picks
  /\ wire.failed \in BOOLEAN /\ wire.wheel[1] \in -119 .. 119 /\ wire.wheel[2] \in -119 .. 119
  /\ DOMAIN shown.reads = {Consumer, Keyboard, Mouse}

\* What a key means, by another table than the one it was looked up in: the table of the
\* other platform, that of the mapped outputs, or that of the media commands.
Named == (\hAF :> "VolumeUp") @@ (\hAE :> "VolumeDown") @@ (\hB3 :> "PlayPause")

Meaning(k) ==
  CASE plan.platform # "windows" -> KeyboardUsage(k.vk, k.scan, k.extended)
    [] k.vk \in DOMAIN Named     -> <<\h0C, MediaUsage[Named[k.vk]]>>
    [] k.native # Absent         -> <<\h07, MacUsage(Internal(k.native))>>
    [] OTHER                     -> <<\h07, OutputKeys[k.vk]>>

LeftCodes == [ctrl |-> \hA2, shift |-> \hA0, alt |-> \hA4, win |-> \h5B]

Picked(pick) ==
  {<<\h07, MacUsage(Internal(pick.key.native))>>}
  \cup {<<\h07, MacUsage(LeftCodes[m])>> : m \in pick.modifiers}

Meant == {Meaning(k) : k \in desk.pressed} \cup UNION {Picked(pick) : pick \in desk.held}
         \cup {<<\h0C, MediaUsage[c]>> : c \in desk.commands}

\* The receiver, which knows the descriptor only, understands what is held on the computer:
\* exactly those keys, controls and buttons, the way the mouse went and the notches the wheels
\* were turned, but for the part of one that waits; and the session fails for nothing else
\* than more keys or controls than a report has room for, or a distance that no report can
\* tell.
Understood ==
  LET plain    == {m \in Meant : m[1] = \h07 /\ m[2] < \hE0}
      controls == {m \in Meant : m[1] = \h0C}
  IN IF wire.failed THEN Cardinality(plain) > 18 \/ Cardinality(controls) > 6 \/ desk.far
     ELSE /\ {<<r[1], r[2]>> : r \in shown.reads[Keyboard] \cup shown.reads[Consumer]} = Meant
          /\ shown.reads[Mouse] = {<<9, b + 1, 1>> : b \in desk.buttons}
          /\ shown.moved = desk.moved
          /\ \A n \in {1, 2} : 120 * shown.scrolled[n] + wire.wheel[n] = desk.turned[n]
=============================================================================
