-------------------------- MODULE InputPathProofs ---------------------------
(***************************************************************************)
(* InputPath for any buttons, keys and positions, rings and sockets of any *)
(* size: the rings do not overflow, and the Mac comes into step with the   *)
(* viewer, although mouse_lock locks nothing.                              *)
(*                                                                         *)
(* What a sequence of events makes of a state is said without recursion:   *)
(* there are states between them, each of which follows from the one       *)
(* before it.                                                              *)
(***************************************************************************)
EXTENDS InputPath, SequenceTheorems, TLAPS

\* The elements of s take x to y, each by a step of R between states of T.
Chain(T, R, s, x, y) ==
  \E f \in [0 .. Len(s) -> T] :
    /\ f[0] = x /\ f[Len(s)] = y
    /\ \A i \in 1 .. Len(s) : <<f[i - 1], s[i], f[i]>> \in R

\* The events of the ring s take what the Mac has down from x to y.
Events(S) == [what : S, up : BOOLEAN]
EventSteps(S) ==
  {t \in (SUBSET S) \X Events(S) \X (SUBSET S) : t[3] = Put(t[1], t[2])}
Leads(S, s, x, y) == Chain(SUBSET S, EventSteps(S), s, x, y)

\* What the viewer holds, and what a message makes of it.
States == [buttons : SUBSET Buttons, keys : SUBSET Keys]

After(st, m) ==
  IF m.type = "key"
  THEN [st EXCEPT !.keys = Put(@, Event(m.key, m.up))]
  ELSE [st EXCEPT !.buttons = m.buttons]

\* A message of a click changes one button, one of a move none.
Fits(st, m) ==
  m.type = "mouse" =>
    IF m.move = NoMove THEN \E b \in Buttons : m.buttons = Toggle(st.buttons, b)
                       ELSE m.buttons = st.buttons

\* The messages of the socket s take the state from x to y.
MessageSteps ==
  {t \in States \X Messages \X States : t[3] = After(t[1], t[2]) /\ Fits(t[1], t[2])}
Flow(s, x, y) == Chain(States, MessageSteps, s, x, y)

\* A message of a key or a click puts one event in a ring.
Cost(m) == IF m.type = "key" \/ m.move = NoMove THEN 1 ELSE 0

\* The messages of s put k events in the rings: g is what those after each do.
Costs(s, k) ==
  \E g \in [0 .. Len(s) -> Nat] :
    /\ g[0] = k /\ g[Len(s)] = 0
    /\ \A i \in 1 .. Len(s) : g[i - 1] = g[i] + Cost(s[i])
    /\ \A i \in 0 .. Len(s) : g[i] <= Len(s) - i

\* What is in the socket and in the rings.
SeqInv ==
  /\ socket \in Seq(Messages)
  /\ button_buffer \in Seq(Events(Buttons)) /\ key_buffer \in Seq(Events(Keys))

\* Where the worker can be in which message.
WorkInv ==
  /\ wpc = "idle" <=> msg = None
  /\ wpc \in {"key", "done"} => msg.type = "key"
  /\ wpc \in {"mode", "zero", "move", "add", "moved"} => msg.type = "mouse" /\ msg.move # NoMove
  /\ wpc = "buttons" => msg.type = "mouse"
  /\ wpc \in {"zero", "move", "add"} => (relative_mouse <=> msg.move = Relative)
  /\ msg.type = "mouse" =>
       IF wpc = "buttons" /\ msg.move = NoMove
       THEN msg.buttons = last_buttons \/ \E b \in Buttons : msg.buttons = Toggle(last_buttons, b)
       ELSE msg.buttons = last_buttons

\* The buttons, and the keys, once the worker is done with its message.
NextButtons == IF msg.type = "mouse" THEN msg.buttons ELSE last_buttons
NextKeys(ks) == IF wpc = "key" THEN Put(ks, Event(msg.key, msg.up)) ELSE ks

\* What has become of each event the viewer sent: it is in the socket, with
\* the worker, in a ring, or the Mac has it. ks are the keys that are down once
\* the ring is drained.
FlowInv ==
  /\ Leads(Buttons, button_buffer, mouse_button, last_buttons)
  /\ \E ks \in SUBSET Keys :
       /\ Leads(Keys, key_buffer, mac_keys, ks)
       /\ Flow(socket, [buttons |-> NextButtons, keys |-> NextKeys(ks)],
               [buttons |-> held, keys |-> down])

\* The events on their way leave room in both rings.
Owed == IF wpc = "key" \/ (wpc = "buttons" /\ Changed # {}) THEN 1 ELSE 0
RoomInv ==
  \E k \in Nat :
    /\ Costs(socket, k)
    /\ Len(button_buffer) + Len(key_buffer) + Owed + k <= MaxPending

\* An event in a ring has an interrupt on its way or under way, or one that
\* came before the Mac started.
IrqInv ==
  /\ button_buffer # <<>> =>
       \/ flag \/ wpc = "pushed" \/ cpu \in {"read", "test", "zero", "mode", "buttons"}
       \/ cpu = "guest" /\ skipped
  /\ key_buffer # <<>> =>
       \/ flag \/ wpc = "pushed" \/ cpu \in {"read", "test", "zero", "mode", "buttons", "keys"}
       \/ cpu = "guest" /\ skipped

\* The inductive invariant.
Inv == TypeOK /\ SeqInv /\ WorkInv /\ FlowInv /\ RoomInv /\ IrqInv

-----------------------------------------------------------------------------
\* Nothing takes a state to itself.
LEMMA ChainNone ==
  ASSUME NEW T, NEW R, NEW x, NEW y
  PROVE  Chain(T, R, <<>>, x, y) <=> x = y /\ x \in T
<1>1. ASSUME Chain(T, R, <<>>, x, y) PROVE x = y /\ x \in T
  BY <1>1 DEF Chain
<1>2. ASSUME x = y, x \in T PROVE Chain(T, R, <<>>, x, y)
  <2> DEFINE f == [i \in 0 .. 0 |-> x]
  <2>1. f \in [0 .. Len(<<>>) -> T] /\ f[0] = x /\ f[Len(<<>>)] = y
    BY <1>2
  <2>2. 1 .. Len(<<>>) = {}
    OBVIOUS
  <2> QED
    BY <2>1, <2>2 DEF Chain
<1> QED
  BY <1>1, <1>2

\* One more element takes one more step.
LEMMA ChainAppend ==
  ASSUME NEW T, NEW R, NEW E, NEW s \in Seq(E), NEW e \in E, NEW x, NEW y, NEW z \in T,
         Chain(T, R, s, x, y), <<y, e, z>> \in R
  PROVE  Chain(T, R, Append(s, e), x, z)
<1>1. PICK f \in [0 .. Len(s) -> T] :
        /\ f[0] = x /\ f[Len(s)] = y
        /\ \A i \in 1 .. Len(s) : <<f[i - 1], s[i], f[i]>> \in R
  BY DEF Chain
<1> DEFINE n == Len(s)
           new == Append(s, e)
           g == [i \in 0 .. n + 1 |-> IF i = n + 1 THEN z ELSE f[i]]
<1>2. n \in Nat /\ Len(new) = n + 1 /\ new[n + 1] = e /\ \A i \in 1 .. n : new[i] = s[i]
  OBVIOUS
<1>3. g \in [0 .. n + 1 -> T] /\ g[0] = x /\ g[n + 1] = z
  BY <1>1, <1>2
<1>4. g[n] = y /\ \A i \in 0 .. n : g[i] = f[i]
  BY <1>1, <1>2
<1> HIDE DEF n, new, g
<1>5. ASSUME NEW i \in 1 .. n + 1 PROVE <<g[i - 1], new[i], g[i]>> \in R
  <2>1. CASE i = n + 1
    <3>1. i - 1 = n
      BY <2>1, <1>2
    <3> QED
      BY <2>1, <3>1, <1>2, <1>3, <1>4
  <2>2. CASE i # n + 1
    <3>1. i \in 1 .. n /\ i - 1 \in 0 .. n /\ i \in 0 .. n
      BY <2>2, <1>2
    <3> QED
      BY <3>1, <1>1, <1>2, <1>4 DEF n
  <2> QED
    BY <2>1, <2>2
<1>6. Chain(T, R, new, x, z)
  BY <1>2, <1>3, <1>5 DEF Chain
<1> QED
  BY <1>6 DEF new

\* The first element takes the first step.
LEMMA ChainTail ==
  ASSUME NEW T, NEW R, NEW E, NEW s \in Seq(E), s # <<>>, NEW x, NEW y, Chain(T, R, s, x, y)
  PROVE  \E z \in T : <<x, Head(s), z>> \in R /\ Chain(T, R, Tail(s), z, y)
<1>1. PICK f \in [0 .. Len(s) -> T] :
        /\ f[0] = x /\ f[Len(s)] = y
        /\ \A i \in 1 .. Len(s) : <<f[i - 1], s[i], f[i]>> \in R
  BY DEF Chain
<1> DEFINE n == Len(s) - 1
           t == Tail(s)
           g == [i \in 0 .. n |-> f[i + 1]]
<1>2. n \in Nat /\ Len(s) = n + 1 /\ Len(t) = n /\ s[1] = Head(s)
      /\ \A i \in 1 .. n : t[i] = s[i + 1]
  OBVIOUS
<1>3. g \in [0 .. n -> T] /\ g[0] = f[1] /\ g[n] = y
  BY <1>1, <1>2
<1>4. ASSUME NEW i \in 1 .. n PROVE <<g[i - 1], t[i], g[i]>> \in R
  <2>1. i + 1 \in 1 .. Len(s) /\ i - 1 \in 0 .. n /\ i \in 0 .. n
    BY <1>2
  <2>2. g[i - 1] = f[i] /\ g[i] = f[i + 1] /\ t[i] = s[i + 1] /\ (i + 1) - 1 = i
    BY <2>1, <1>2
  <2> QED
    BY <2>1, <2>2, <1>1
<1>5. Chain(T, R, t, f[1], y)
  BY <1>2, <1>3, <1>4 DEF Chain
<1>6. 1 \in 1 .. Len(s) /\ 1 - 1 = 0
  BY <1>2
<1>7. <<x, Head(s), f[1]>> \in R /\ f[1] \in T
  BY <1>1, <1>2, <1>6
<1> QED
  BY <1>5, <1>7

\* The same of the events a socket's messages put in the rings.
LEMMA CostsNone == Costs(<<>>, 0)
<1> DEFINE g == [i \in 0 .. 0 |-> 0]
<1>1. g \in [0 .. Len(<<>>) -> Nat] /\ g[0] = 0 /\ g[Len(<<>>)] = 0 /\ Len(<<>>) = 0
  OBVIOUS
<1>2. 1 .. Len(<<>>) = {} /\ \A i \in 0 .. Len(<<>>) : g[i] <= Len(<<>>) - i
  BY <1>1
<1> QED
  BY <1>1, <1>2 DEF Costs

\* No message puts two events in the rings.
LEMMA CostsBound ==
  ASSUME NEW E, NEW s \in Seq(E), NEW k \in Nat, Costs(s, k)
  PROVE  k <= Len(s)
<1>1. 0 \in 0 .. Len(s) /\ Len(s) \in Nat
  OBVIOUS
<1> QED
  BY <1>1 DEF Costs

\* One more message.
LEMMA CostsAppend ==
  ASSUME NEW E, NEW s \in Seq(E), NEW e \in E, NEW k \in Nat, Costs(s, k)
  PROVE  Costs(Append(s, e), k + Cost(e))
<1> DEFINE n == Len(s)
           c == Cost(e)
           new == Append(s, e)
<1>1. PICK f \in [0 .. n -> Nat] :
        /\ f[0] = k /\ f[n] = 0
        /\ \A i \in 1 .. n : f[i - 1] = f[i] + Cost(s[i])
        /\ \A i \in 0 .. n : f[i] <= n - i
  BY DEF Costs
<1> DEFINE g == [i \in 0 .. n + 1 |-> IF i = n + 1 THEN 0 ELSE f[i] + c]
<1>2. n \in Nat /\ Len(new) = n + 1 /\ new[n + 1] = e /\ \A i \in 1 .. n : new[i] = s[i]
  OBVIOUS
<1>3. c \in 0 .. 1 /\ \A i \in 1 .. n : Cost(s[i]) \in 0 .. 1
  BY DEF Cost
<1> HIDE DEF n, c, new
<1>5. \A i \in 0 .. n : g[i] = f[i] + c
  BY <1>1, <1>2
<1>4. g \in [0 .. n + 1 -> Nat] /\ g[0] = k + c /\ g[n + 1] = 0
  <2>1. 0 \in 0 .. n /\ n + 1 \in 0 .. n + 1 /\ \A i \in 0 .. n + 1 : i = n + 1 \/ i \in 0 .. n
    BY <1>2
  <2>2. \A i \in 0 .. n : f[i] + c \in Nat
    BY <1>1, <1>3
  <2>3. g \in [0 .. n + 1 -> Nat]
    BY <2>1, <2>2
  <2> QED
    BY <1>1, <1>5, <2>1, <2>3
<1> HIDE DEF g
<1>6. ASSUME NEW i \in 1 .. n + 1 PROVE g[i - 1] = g[i] + Cost(new[i])
  <2>1. CASE i = n + 1
    BY <2>1, <1>1, <1>2, <1>3, <1>4, <1>5 DEF c
  <2>2. CASE i # n + 1
    <3>1. i \in 1 .. n /\ i - 1 \in 0 .. n /\ i \in 0 .. n
      BY <2>2, <1>2
    <3>2. g[i - 1] = f[i - 1] + c /\ g[i] = f[i] + c /\ f[i - 1] = f[i] + Cost(s[i])
      BY <3>1, <1>1, <1>5
    <3>3. f[i] \in Nat /\ f[i - 1] \in Nat /\ Cost(s[i]) \in 0 .. 1 /\ Cost(new[i]) = Cost(s[i])
      BY <3>1, <1>1, <1>2, <1>3
    <3> QED
      BY <3>2, <3>3, <1>3
  <2> QED
    BY <2>1, <2>2
<1>7. ASSUME NEW i \in 0 .. n + 1 PROVE g[i] <= n + 1 - i
  <2>1. CASE i = n + 1
    BY <2>1, <1>2, <1>4
  <2>2. CASE i # n + 1
    <3>1. i \in 0 .. n
      BY <2>2, <1>2
    <3>2. f[i] \in Nat /\ f[i] <= n - i /\ g[i] = f[i] + c
      BY <3>1, <1>1, <1>5
    <3> QED
      BY <3>1, <3>2, <1>2, <1>3
  <2> QED
    BY <2>1, <2>2
<1>8. Costs(new, k + c)
  <2>1. g \in [0 .. Len(new) -> Nat] /\ g[0] = k + c /\ g[Len(new)] = 0
    BY <1>2, <1>4
  <2>2. \A i \in 1 .. Len(new) : g[i - 1] = g[i] + Cost(new[i])
    BY <1>2, <1>6
  <2>3. \A i \in 0 .. Len(new) : g[i] <= Len(new) - i
    BY <1>2, <1>7
  <2> QED
    BY <2>1, <2>2, <2>3 DEF Costs
<1> QED
  BY <1>8 DEF new, c

\* One message less.
LEMMA CostsTail ==
  ASSUME NEW E, NEW s \in Seq(E), s # <<>>, NEW k \in Nat, Costs(s, k)
  PROVE  \E j \in Nat : k = j + Cost(Head(s)) /\ Costs(Tail(s), j)
<1> DEFINE n == Len(s) - 1
           t == Tail(s)
<1>1. PICK f \in [0 .. Len(s) -> Nat] :
        /\ f[0] = k /\ f[Len(s)] = 0
        /\ \A i \in 1 .. Len(s) : f[i - 1] = f[i] + Cost(s[i])
        /\ \A i \in 0 .. Len(s) : f[i] <= Len(s) - i
  BY DEF Costs
<1> DEFINE g == [i \in 0 .. n |-> f[i + 1]]
<1>2. n \in Nat /\ Len(s) = n + 1 /\ Len(t) = n /\ s[1] = Head(s)
      /\ \A i \in 1 .. n : t[i] = s[i + 1]
  OBVIOUS
<1> HIDE DEF n, t
<1>4. \A i \in 0 .. n : g[i] = f[i + 1] /\ i + 1 \in 0 .. Len(s)
  BY <1>1, <1>2
<1>3. g \in [0 .. n -> Nat] /\ g[0] = f[1] /\ g[n] = 0
  <2>1. 0 \in 0 .. n /\ 0 + 1 = 1 /\ n \in 0 .. n
    BY <1>2
  <2>2. g[0] = f[1] /\ g[n] = f[n + 1]
    BY <2>1, <1>4
  <2>3. g \in [0 .. n -> Nat]
    BY <1>1, <1>4
  <2> QED
    BY <2>2, <2>3, <1>1, <1>2
<1> HIDE DEF g
<1>5. ASSUME NEW i \in 1 .. n PROVE g[i - 1] = g[i] + Cost(t[i])
  <2>1. i + 1 \in 1 .. Len(s) /\ i - 1 \in 0 .. n /\ i \in 0 .. n /\ (i - 1) + 1 = i
        /\ (i + 1) - 1 = i
    BY <1>2
  <2>2. g[i - 1] = f[i] /\ g[i] = f[i + 1] /\ t[i] = s[i + 1]
    BY <2>1, <1>2, <1>4
  <2> QED
    BY <2>1, <2>2, <1>1
<1>6. ASSUME NEW i \in 0 .. n PROVE g[i] <= n - i
  <2>1. g[i] = f[i + 1] /\ f[i + 1] \in Nat /\ f[i + 1] <= Len(s) - (i + 1)
    BY <1>1, <1>2, <1>4
  <2> QED
    BY <2>1, <1>2
<1>7. f[1] \in Nat /\ Costs(t, f[1])
  <2>1. /\ g \in [0 .. Len(t) -> Nat] /\ g[0] = f[1] /\ g[Len(t)] = 0
        /\ \A i \in 1 .. Len(t) : g[i - 1] = g[i] + Cost(t[i])
        /\ \A i \in 0 .. Len(t) : g[i] <= Len(t) - i
    BY <1>2, <1>3, <1>5, <1>6
  <2>2. 1 \in 0 .. Len(s)
    BY <1>2
  <2> QED
    BY <2>1, <2>2, <1>1 DEF Costs
<1>8. 1 \in 1 .. Len(s) /\ 1 - 1 = 0
  BY <1>2
<1>9. k = f[1] + Cost(Head(s))
  BY <1>1, <1>2, <1>8
<1> QED
  BY <1>7, <1>9 DEF t
\* A message is of the mouse or of a key.
LEMMA MessageKinds ==
  ASSUME NEW m \in Messages
  PROVE  \/ /\ m.type = "mouse" /\ m.buttons \in SUBSET Buttons
            /\ m.move \in Relative .. MaxPosition
         \/ m.type = "key" /\ m.key \in Keys /\ m.up \in BOOLEAN
  BY DEF Messages

\* The worker's message, when it has none, is none.
LEMMA NoneHasNoType == None.type = "none" /\ None \notin Messages
<1>1. None.type = "none"
  BY DEF None
<1> QED
  BY <1>1, MessageKinds

\* One button more or less is still of the buttons.
LEMMA ToggleIn == \A S, T, x : T \in SUBSET S /\ x \in S => Toggle(T, x) \in SUBSET S
  BY DEF Toggle

\* What the viewer sends is a message.
MouseMessage(S, p) == [type |-> "mouse", buttons |-> S, move |-> p]
KeyMessage(k, u) == [type |-> "key", key |-> k, up |-> u]

\* A message of the mouse is one that counts if it is of a click.
LEMMA MouseSent ==
  ASSUME NEW S \in SUBSET Buttons, NEW p \in Relative .. MaxPosition
  PROVE  MouseMessage(S, p) \in Messages /\ Cost(MouseMessage(S, p)) = (IF p = NoMove THEN 1 ELSE 0)
  BY DEF Messages, MouseMessage, Cost

\* A message of a key counts.
LEMMA KeySent ==
  ASSUME NEW k \in Keys, NEW u \in BOOLEAN
  PROVE  KeyMessage(k, u) \in Messages /\ Cost(KeyMessage(k, u)) = 1
  BY DEF Messages, KeyMessage, Cost

\* What a move's message holds is not what a click's does.
LEMMA MovesAreMoves ==
  /\ NoMove \in Relative .. MaxPosition
  /\ \A p \in 1 .. MaxPosition \cup {Relative} : p \in Relative .. MaxPosition /\ p # NoMove
  BY InputAssumption DEF NoMove, Relative

\* What SendButton puts in the socket.
LEMMA ButtonSent ==
  ASSUME TypeOK, NEW b \in Buttons, SendButton(b)
  PROVE  /\ held' \in SUBSET Buttons /\ socket' = Append(socket, MouseMessage(held', NoMove))
         /\ MouseMessage(held', NoMove) \in Messages /\ Cost(MouseMessage(held', NoMove)) = 1
<1>1. held' \in SUBSET Buttons
  BY ToggleIn DEF SendButton, TypeOK
<1> QED
  BY <1>1, MouseSent, MovesAreMoves DEF SendButton, Send, MouseMessage

\* What SendKey puts in the socket.
LEMMA KeyIsSent ==
  ASSUME TypeOK, NEW k \in Keys, SendKey(k)
  PROVE  /\ socket' = Append(socket, KeyMessage(k, k \in down))
         /\ KeyMessage(k, k \in down) \in Messages /\ Cost(KeyMessage(k, k \in down)) = 1
<1>1. (k \in down) \in BOOLEAN
  OBVIOUS
<1>2. socket' = Append(socket, KeyMessage(k, k \in down))
  BY DEF SendKey, Send, KeyMessage
<1> QED
  BY <1>1, <1>2, KeySent

\* What SendMove puts in the socket.
LEMMA MoveSent ==
  ASSUME TypeOK, NEW p \in 1 .. MaxPosition \cup {Relative}, SendMove(p)
  PROVE  /\ socket' = Append(socket, MouseMessage(held, p))
         /\ MouseMessage(held, p) \in Messages /\ Cost(MouseMessage(held, p)) = 0
<1>1. held \in SUBSET Buttons
  BY DEF TypeOK
<1>2. socket' = Append(socket, MouseMessage(held, p))
  BY DEF SendMove, Send, MouseMessage
<1> QED
  BY <1>1, <1>2, MouseSent, MovesAreMoves

\* What a sequence of S has.
LEMMA Elements ==
  ASSUME NEW S, NEW s \in Seq(S)
  PROVE  /\ \A i \in DOMAIN s : s[i] \in S
         /\ s # <<>> => /\ Head(s) \in S /\ Tail(s) \in Seq(S)
                        /\ Len(s) \in Nat \ {0} /\ Len(Tail(s)) = Len(s) - 1
         /\ \A e \in S : Append(s, e) \in Seq(S) /\ Len(Append(s, e)) = Len(s) + 1
         /\ Len(s) \in Nat
  OBVIOUS

\* What an event makes of a set.
LEMMA PutIn == \A S : \A T \in SUBSET S, e \in Events(S) : Put(T, e) \in SUBSET S
  BY DEF Put, Events

\* What goes into a ring is an event.
LEMMA EventIn == \A S : \A x \in S, u \in BOOLEAN : Event(x, u) \in Events(S)
  BY DEF Event, Events


\* There is room for an event that is owed.
LEMMA Room ==
  ASSUME SeqInv, RoomInv, Owed = 1
  PROVE  /\ \A e : Push(button_buffer, e) = Append(button_buffer, e)
         /\ \A e : Push(key_buffer, e) = Append(key_buffer, e)
<1>1. PICK k \in Nat : Len(button_buffer) + Len(key_buffer) + Owed + k <= MaxPending
  BY DEF RoomInv
<1>2. Len(button_buffer) \in Nat /\ Len(key_buffer) \in Nat
  BY Elements DEF SeqInv
<1>3. Len(button_buffer) # RingSize - 1 /\ Len(key_buffer) # RingSize - 1
  BY <1>1, <1>2, InputAssumption
<1> QED
  BY <1>3 DEF Push

\* What is within MaxPending is within each ring.
LEMMA FitsRings ==
  ASSUME NEW m \in Nat, NEW n \in Nat, NEW o \in 0 .. 1, NEW k \in Nat, m + n + o + k <= MaxPending
  PROVE  m <= RingSize - 1 /\ n <= RingSize - 1
  BY InputAssumption

\* A step that changes neither the socket nor how much there is.
LEMMA SameRoom ==
  ASSUME RoomInv, UNCHANGED <<socket, button_buffer, key_buffer>>, Owed' = Owed
  PROVE  RoomInv'
  BY DEF RoomInv

\* Nor does one that leaves the worker where it is.
LEMMA SameOwed ==
  ASSUME UNCHANGED <<wpc, msg, last_buttons>>
  PROVE  Owed' = Owed
  BY DEF Owed, Changed

\* A message in which no button changed.
LEMMA NoChange ==
  ASSUME msg \in Messages, last_buttons \in SUBSET Buttons, msg.type = "mouse"
  PROVE  Changed = {} <=> msg.buttons = last_buttons
  BY DEF Changed

\* The message that comes next fits what the worker has.
LEMMA FirstFits ==
  ASSUME SeqInv, FlowInv, msg = None, socket # <<>>
  PROVE  Head(socket).type = "mouse" =>
           IF Head(socket).move = NoMove
           THEN \E b \in Buttons : Head(socket).buttons = Toggle(last_buttons, b)
           ELSE Head(socket).buttons = last_buttons
<1>1. PICK x \in States : x.buttons = last_buttons /\ Fits(x, Head(socket))
  <2>1. NextButtons = last_buttons
    BY NoneHasNoType DEF NextButtons
  <2>2. PICK ks, y : Flow(socket, [buttons |-> last_buttons, keys |-> NextKeys(ks)], y)
    BY <2>1 DEF FlowInv
  <2> DEFINE x == [buttons |-> last_buttons, keys |-> NextKeys(ks)]
  <2>3. x.buttons = last_buttons
    OBVIOUS
  <2> HIDE DEF x
  <2>4. PICK z \in States : <<x, Head(socket), z>> \in MessageSteps
    BY <2>2, ChainTail DEF SeqInv, Flow, x
  <2>5. x \in States /\ Fits(x, Head(socket))
    BY <2>4 DEF MessageSteps
  <2> QED
    BY <2>3, <2>5
<1> QED
  BY <1>1 DEF Fits

\* One button at most changed, and with it the buttons are the message's.
LEMMA OneChanges ==
  ASSUME WorkInv, wpc = "buttons", NEW b \in Changed
  PROVE  /\ msg.type = "mouse" /\ b \in Buttons /\ Toggle(last_buttons, b) = msg.buttons
         /\ Put(last_buttons, Event(b, b \notin msg.buttons)) = msg.buttons
<1>1. PICK a \in Buttons : msg.buttons = Toggle(last_buttons, a)
  BY DEF WorkInv, Changed
<1>2. a = b
  BY <1>1 DEF Changed, Toggle
<1> QED
  BY <1>1, <1>2 DEF Toggle, Put, Event, WorkInv

\* What a message makes of a state is one.
LEMMA AfterIn ==
  ASSUME NEW st \in States, NEW m \in Messages
  PROVE  After(st, m) \in States
<1>1. CASE m.type = "key"
  <2>1. Put(st.keys, Event(m.key, m.up)) \in SUBSET Keys
    BY <1>1, MessageKinds, EventIn, PutIn DEF States
  <2> QED
    BY <1>1, <2>1 DEF After, States
<1>2. CASE m.type # "key"
  <2>1. m.buttons \in SUBSET Buttons /\ m.move \in Relative .. MaxPosition
    BY <1>2, MessageKinds
  <2> QED
    BY <1>2, <2>1 DEF After, States
<1> QED
  BY <1>1, <1>2

\* A message that fits makes the flow longer by its step.
LEMMA FlowAppend ==
  ASSUME NEW s \in Seq(Messages), NEW m \in Messages, NEW x, NEW y \in States,
         Flow(s, x, y), Fits(y, m)
  PROVE  Flow(Append(s, m), x, After(y, m))
<1>1. After(y, m) \in States
  BY AfterIn
<1>2. <<y, m, After(y, m)>> \in MessageSteps
  BY <1>1 DEF MessageSteps
<1> QED
  BY <1>1, <1>2, ChainAppend DEF Flow

\* The first message takes its step.
LEMMA FlowTail ==
  ASSUME NEW s \in Seq(Messages), s # <<>>, NEW x, NEW y, Flow(s, x, y)
  PROVE  x \in States /\ Flow(Tail(s), After(x, Head(s)), y)
<1>1. PICK z \in States : <<x, Head(s), z>> \in MessageSteps /\ Chain(States, MessageSteps, Tail(s), z, y)
  BY ChainTail DEF Flow
<1>2. z = After(x, Head(s)) /\ x \in States
  BY <1>1 DEF MessageSteps
<1> QED
  BY <1>1, <1>2 DEF Flow

\* The same of the events in a ring.
LEMMA LeadsAppend ==
  ASSUME NEW S, NEW s \in Seq(Events(S)), NEW e \in Events(S), NEW x, NEW y \in SUBSET S,
         Leads(S, s, x, y)
  PROVE  Leads(S, Append(s, e), x, Put(y, e))
<1>1. Put(y, e) \in SUBSET S
  BY PutIn
<1>2. <<y, e, Put(y, e)>> \in EventSteps(S)
  BY <1>1 DEF EventSteps
<1> QED
  BY <1>1, <1>2, ChainAppend DEF Leads

\* The first event in a ring takes its step.
LEMMA LeadsTail ==
  ASSUME NEW S, NEW s \in Seq(Events(S)), s # <<>>, NEW x, NEW y, Leads(S, s, x, y)
  PROVE  Leads(S, Tail(s), Put(x, Head(s)), y)
<1>1. PICK z \in SUBSET S :
        <<x, Head(s), z>> \in EventSteps(S) /\ Chain(SUBSET S, EventSteps(S), Tail(s), z, y)
  BY ChainTail DEF Leads
<1>2. z = Put(x, Head(s))
  BY <1>1 DEF EventSteps
<1> QED
  BY <1>1, <1>2 DEF Leads

\* A step that leaves everything of the flow where it is, or goes on with the
\* same message.
LEMMA SameFlow ==
  ASSUME FlowInv,
         UNCHANGED <<socket, held, down, pointed, button_buffer, mouse_button, last_buttons,
                     key_buffer, mac_keys>>,
         NextButtons' = NextButtons, wpc' = "key" <=> wpc = "key", msg' = msg \/ wpc # "key"
  PROVE  FlowInv'
<1>1. PICK ks \in SUBSET Keys :
        /\ Leads(Keys, key_buffer, mac_keys, ks)
        /\ Flow(socket, [buttons |-> NextButtons, keys |-> NextKeys(ks)],
                [buttons |-> held, keys |-> down])
  BY DEF FlowInv
<1>2. NextKeys(ks)' = NextKeys(ks)
  BY DEF NextKeys
<1>3. Leads(Buttons, button_buffer', mouse_button', last_buttons')
  BY DEF FlowInv
<1> QED
  BY <1>1, <1>2, <1>3 DEF FlowInv

\* What is put in the socket or in a ring is a message or an event.
LEMMA SeqStep == TypeOK /\ SeqInv /\ WorkInv /\ [Next]_vars => SeqInv'
<1> SUFFICES ASSUME TypeOK, SeqInv, WorkInv, [Next]_vars PROVE SeqInv'
  OBVIOUS
<1> USE DEF SeqInv, viewer, worker, mouse, rings, irq, mac, vars
<1>1. ASSUME NEW b \in Buttons, SendButton(b) PROVE SeqInv'
  BY <1>1, ButtonSent, Elements DEF SendButton, Send
<1>2. ASSUME NEW k \in Keys, SendKey(k) PROVE SeqInv'
  BY <1>2, KeyIsSent, Elements DEF SendKey, Send
<1>3. ASSUME NEW p \in 1 .. MaxPosition \cup {Relative}, SendMove(p) PROVE SeqInv'
  BY <1>3, MoveSent, Elements DEF SendMove, Send
<1>4. CASE Receive
  BY <1>4, Elements DEF Receive
<1>5. CASE SetMode
  BY <1>5 DEF SetMode
<1>6. CASE ZeroPosition
  BY <1>6 DEF ZeroPosition
<1>7. CASE MouseMoved
  BY <1>7 DEF MouseMoved
<1>8. CASE MoveFlags
  BY <1>8 DEF MoveFlags
<1>9. CASE PushButton
  <2>1. PICK b \in Changed : button_buffer' = Push(button_buffer, Event(b, b \notin msg.buttons))
    BY <1>9 DEF PushButton
  <2>2. b \in Buttons
    BY <2>1, <1>9, MessageKinds, NoneHasNoType DEF Changed, TypeOK, WorkInv, PushButton
  <2>3. Event(b, b \notin msg.buttons) \in Events(Buttons)
    BY <2>2, EventIn
  <2>4. button_buffer' \in Seq(Events(Buttons))
    BY <2>1, <2>3, Elements DEF Push
  <2> QED
    BY <1>9, <2>4 DEF PushButton
<1>10. CASE PushKey
  <2>1. msg.key \in Keys /\ msg.up \in BOOLEAN
    BY <1>10, MessageKinds, NoneHasNoType DEF TypeOK, WorkInv, PushKey
  <2>2. Event(msg.key, msg.up) \in Events(Keys)
    BY <2>1, EventIn
  <2>3. key_buffer' \in Seq(Events(Keys))
    BY <1>10, <2>2, Elements DEF Push, PushKey
  <2> QED
    BY <1>10, <2>3 DEF PushKey
<1>11. CASE PushFlags
  BY <1>11 DEF PushFlags
<1>12. CASE Processed
  BY <1>12 DEF Processed
<1>13. CASE TakeInterrupt
  BY <1>13 DEF TakeInterrupt
<1>14. CASE ReadMouse
  BY <1>14 DEF ReadMouse
<1>15. CASE MoveCursor
  BY <1>15 DEF MoveCursor
<1>16. CASE DrainButtons
  <2>1. CASE button_buffer = <<>>
    BY <1>16, <2>1 DEF DrainButtons
  <2>2. CASE button_buffer # <<>>
    <3>1. Head(button_buffer) \in Events(Buttons) /\ Tail(button_buffer) \in Seq(Events(Buttons))
      BY <2>2, Elements
    <3> QED
      BY <1>16, <2>2, <3>1 DEF DrainButtons
  <2> QED
    BY <2>1, <2>2
<1>17. CASE DrainKeys
  <2>1. CASE key_buffer = <<>>
    BY <1>17, <2>1 DEF DrainKeys
  <2>2. CASE key_buffer # <<>>
    <3>1. Head(key_buffer) \in Events(Keys) /\ Tail(key_buffer) \in Seq(Events(Keys))
      BY <2>2, Elements
    <3> QED
      BY <1>17, <2>2, <3>1 DEF DrainKeys
  <2> QED
    BY <2>1, <2>2
<1>18. CASE MacStarts
  BY <1>18 DEF MacStarts
<1>19. CASE UNCHANGED vars
  BY <1>19 DEF vars
<1>20. CASE StoreSum
  BY <1>20 DEF StoreSum
<1>21. CASE TestMode
  BY <1>21 DEF TestMode
<1>22. CASE ZeroMouse
  BY <1>22 DEF ZeroMouse
<1> QED
  BY <1>1, <1>2, <1>3, <1>4, <1>5, <1>6, <1>7, <1>8, <1>9, <1>10, <1>11, <1>12, <1>13,
     <1>14, <1>15, <1>16, <1>17, <1>18, <1>19, <1>20, <1>21, <1>22
  DEF Next, Viewer, Worker, Cpu

\* A message of a click or a key is sent only where there is room, and leaves its
\* place to one event.
LEMMA RoomStep == TypeOK /\ SeqInv /\ WorkInv /\ RoomInv /\ [Next]_vars => RoomInv'
<1> SUFFICES ASSUME TypeOK, SeqInv, WorkInv, RoomInv, [Next]_vars PROVE RoomInv'
  OBVIOUS
<1> USE DEF viewer, worker, mouse, rings, irq, mac, vars
<1>1. ASSUME NEW b \in Buttons, SendButton(b) PROVE RoomInv'
  <2>1. PICK n \in Nat : Costs(socket, n) /\ Len(button_buffer) + Len(key_buffer) + Owed + n <= MaxPending
    BY DEF RoomInv
  <2>2. /\ MouseMessage(held', NoMove) \in Messages /\ Cost(MouseMessage(held', NoMove)) = 1
        /\ socket' = Append(socket, MouseMessage(held', NoMove))
    BY <1>1, ButtonSent
  <2>3. Costs(socket', n + 1)
    BY <2>1, <2>2, CostsAppend DEF SeqInv
  <2>4. Owed' = Owed
    BY <1>1, SameOwed DEF SendButton, Send
  <2>5. Len(button_buffer) + Len(key_buffer) + Owed + (n + 1) <= MaxPending
    <3>1. n <= Len(socket) /\ Len(socket) \in Nat
      BY <2>1, CostsBound, Elements DEF SeqInv
    <3>2. Len(button_buffer) \in Nat /\ Len(key_buffer) \in Nat
      BY Elements DEF SeqInv
    <3>3. Owed <= (IF wpc = "idle" THEN 0 ELSE 1) /\ Owed \in 0 .. 1
      BY DEF Owed
    <3>4. Pending < MaxPending
      BY <1>1 DEF SendButton
    <3> QED
      BY <2>1, <3>1, <3>2, <3>3, <3>4, InputAssumption DEF Pending
  <2>6. n + 1 \in Nat /\ UNCHANGED <<button_buffer, key_buffer>>
    BY <1>1 DEF SendButton, Send
  <2> QED
    BY <2>3, <2>4, <2>5, <2>6 DEF RoomInv
<1>2. ASSUME NEW k \in Keys, SendKey(k) PROVE RoomInv'
  <2>1. PICK n \in Nat : Costs(socket, n) /\ Len(button_buffer) + Len(key_buffer) + Owed + n <= MaxPending
    BY DEF RoomInv
  <2>2. /\ KeyMessage(k, k \in down) \in Messages /\ Cost(KeyMessage(k, k \in down)) = 1
        /\ socket' = Append(socket, KeyMessage(k, k \in down))
    BY <1>2, KeyIsSent
  <2>3. Costs(socket', n + 1)
    BY <2>1, <2>2, CostsAppend DEF SeqInv
  <2>4. Owed' = Owed
    BY <1>2, SameOwed DEF SendKey, Send
  <2>5. Len(button_buffer) + Len(key_buffer) + Owed + (n + 1) <= MaxPending
    <3>1. n <= Len(socket) /\ Len(socket) \in Nat
      BY <2>1, CostsBound, Elements DEF SeqInv
    <3>2. Len(button_buffer) \in Nat /\ Len(key_buffer) \in Nat
      BY Elements DEF SeqInv
    <3>3. Owed <= (IF wpc = "idle" THEN 0 ELSE 1) /\ Owed \in 0 .. 1
      BY DEF Owed
    <3>4. Pending < MaxPending
      BY <1>2 DEF SendKey
    <3> QED
      BY <2>1, <3>1, <3>2, <3>3, <3>4, InputAssumption DEF Pending
  <2>6. n + 1 \in Nat /\ UNCHANGED <<button_buffer, key_buffer>>
    BY <1>2 DEF SendKey, Send
  <2> QED
    BY <2>3, <2>4, <2>5, <2>6 DEF RoomInv
<1>3. ASSUME NEW p \in 1 .. MaxPosition \cup {Relative}, SendMove(p) PROVE RoomInv'
  <2>1. PICK n \in Nat : Costs(socket, n) /\ Len(button_buffer) + Len(key_buffer) + Owed + n <= MaxPending
    BY DEF RoomInv
  <2>2. /\ MouseMessage(held, p) \in Messages /\ Cost(MouseMessage(held, p)) = 0
        /\ socket' = Append(socket, MouseMessage(held, p))
    BY <1>3, MoveSent
  <2>3. Costs(socket', n + 0)
    BY <2>1, <2>2, CostsAppend DEF SeqInv
  <2>4. Owed' = Owed
    BY <1>3, SameOwed DEF SendMove, Send
  <2>5. Len(button_buffer) + Len(key_buffer) + Owed + (n + 0) <= MaxPending
    <3>1. Len(button_buffer) \in Nat /\ Len(key_buffer) \in Nat /\ Owed \in 0 .. 1
      BY Elements DEF SeqInv, Owed
    <3> QED
      BY <2>1, <3>1, InputAssumption
  <2>6. n + 0 \in Nat /\ UNCHANGED <<button_buffer, key_buffer>>
    BY <1>3 DEF SendMove, Send
  <2> QED
    BY <2>3, <2>4, <2>5, <2>6 DEF RoomInv
<1>4. CASE Receive
  <2>1. PICK n \in Nat : Costs(socket, n) /\ Len(button_buffer) + Len(key_buffer) + Owed + n <= MaxPending
    BY DEF RoomInv
  <2>2. socket # <<>> /\ msg' = Head(socket) /\ socket' = Tail(socket) /\ Owed = 0
    BY <1>4 DEF Receive, Owed
  <2>3. PICK j \in Nat : n = j + Cost(Head(socket)) /\ Costs(Tail(socket), j)
    BY <2>1, <2>2, CostsTail DEF SeqInv
  <2>4. Owed' \in 0 .. 1 /\ Owed' <= Cost(Head(socket)) /\ Cost(Head(socket)) \in 0 .. 1
    BY <1>4, <2>2 DEF Receive, Owed, Cost, NoMove
  <2>5. Len(button_buffer) \in Nat /\ Len(key_buffer) \in Nat
    BY Elements DEF SeqInv
  <2>6. Len(button_buffer) + Len(key_buffer) + Owed' + j <= MaxPending
    BY <2>1, <2>2, <2>3, <2>4, <2>5, InputAssumption
  <2> QED
    BY <1>4, <2>2, <2>3, <2>6 DEF Receive, RoomInv
<1>5. CASE SetMode
  <2>1. Owed' = Owed
    BY <1>5 DEF Owed, SetMode, TypeOK, WorkInv
  <2> QED
    BY <1>5, <2>1, SameRoom DEF SetMode
<1>6. CASE ZeroPosition
  <2>1. Owed' = Owed
    BY <1>6 DEF Owed, ZeroPosition, TypeOK, WorkInv
  <2> QED
    BY <1>6, <2>1, SameRoom DEF ZeroPosition
<1>7. CASE MouseMoved
  <2>1. Owed' = Owed
    BY <1>7 DEF Owed, MouseMoved, TypeOK, WorkInv
  <2> QED
    BY <1>7, <2>1, SameRoom DEF MouseMoved
<1>8. CASE MoveFlags
  <2>1. msg \in Messages /\ msg.type = "mouse" /\ msg.buttons = last_buttons
    BY <1>8, NoneHasNoType DEF MoveFlags, TypeOK, WorkInv
  <2>2. Changed = {} /\ Changed' = Changed
    BY <1>8, <2>1, NoChange DEF MoveFlags, TypeOK, Changed
  <2>3. Owed' = Owed
    BY <1>8, <2>2 DEF Owed, MoveFlags
  <2> QED
    BY <1>8, <2>3, SameRoom DEF MoveFlags
<1>9. CASE PushButton
  <2>1. PICK n \in Nat : Costs(socket, n) /\ Len(button_buffer) + Len(key_buffer) + Owed + n <= MaxPending
    BY DEF RoomInv
  <2>2. Owed = 1 /\ Owed' = 0
    BY <1>9 DEF Owed, PushButton
  <2>3. PICK b \in Changed : button_buffer' = Push(button_buffer, Event(b, b \notin msg.buttons))
    BY <1>9 DEF PushButton
  <2>4. Len(button_buffer') = Len(button_buffer) + 1 /\ Len(button_buffer) \in Nat /\ Len(key_buffer) \in Nat
    <3>1. button_buffer' = Append(button_buffer, Event(b, b \notin msg.buttons))
      BY <2>2, <2>3, Room
    <3> QED
      BY <3>1, Elements DEF SeqInv
  <2>5. Len(button_buffer') + Len(key_buffer) + Owed' + n <= MaxPending
    BY <2>1, <2>2, <2>4
  <2> QED
    BY <1>9, <2>1, <2>5 DEF PushButton, RoomInv
<1>10. CASE PushKey
  <2>1. PICK n \in Nat : Costs(socket, n) /\ Len(button_buffer) + Len(key_buffer) + Owed + n <= MaxPending
    BY DEF RoomInv
  <2>2. Owed = 1 /\ Owed' = 0
    BY <1>10 DEF Owed, PushKey
  <2>3. Len(key_buffer') = Len(key_buffer) + 1 /\ Len(button_buffer) \in Nat /\ Len(key_buffer) \in Nat
    <3>1. key_buffer' = Append(key_buffer, Event(msg.key, msg.up))
      BY <1>10, <2>2, Room DEF PushKey
    <3> QED
      BY <3>1, Elements DEF SeqInv
  <2>4. Len(button_buffer) + Len(key_buffer') + Owed' + n <= MaxPending
    BY <2>1, <2>2, <2>3
  <2> QED
    BY <1>10, <2>1, <2>4 DEF PushKey, RoomInv
<1>11. CASE PushFlags
  <2>1. msg \in Messages
    BY <1>11, NoneHasNoType DEF PushFlags, TypeOK, WorkInv
  <2>2. msg.type = "mouse" => Changed = {} /\ Changed' = Changed
    BY <1>11, <2>1, NoChange DEF PushFlags, TypeOK, Changed, WorkInv
  <2>3. Owed' = Owed
    BY <1>11, <2>2 DEF Owed, PushFlags
  <2> QED
    BY <1>11, <2>3, SameRoom DEF PushFlags
<1>12. CASE Processed
  <2>1. Owed' = Owed
    BY <1>12 DEF Owed, Processed, TypeOK, WorkInv
  <2> QED
    BY <1>12, <2>1, SameRoom DEF Processed
<1>13. CASE TakeInterrupt
  BY <1>13, SameRoom, SameOwed DEF TakeInterrupt
<1>14. CASE ReadMouse
  BY <1>14, SameRoom, SameOwed DEF ReadMouse
<1>15. CASE MoveCursor
  BY <1>15, SameRoom, SameOwed DEF MoveCursor
<1>16. CASE DrainButtons
  <2>1. Owed' = Owed /\ Owed \in 0 .. 1
    BY <1>16, SameOwed DEF DrainButtons, Owed
  <2>2. CASE button_buffer = <<>>
    BY <1>16, <2>1, <2>2, SameRoom DEF DrainButtons
  <2>3. CASE button_buffer # <<>>
    <3>1. PICK n \in Nat : Costs(socket, n) /\ Len(button_buffer) + Len(key_buffer) + Owed + n <= MaxPending
      BY DEF RoomInv
    <3>2. Len(button_buffer') = Len(button_buffer) - 1 /\ Len(button_buffer) \in Nat /\ Len(key_buffer) \in Nat
      BY <1>16, <2>3, Elements DEF DrainButtons, SeqInv
    <3>3. UNCHANGED <<socket, key_buffer>>
      BY <1>16 DEF DrainButtons
    <3>4. Len(button_buffer') + Len(key_buffer') + Owed' + n <= MaxPending
      BY <2>1, <3>1, <3>2, <3>3, InputAssumption
    <3> QED
      BY <3>1, <3>3, <3>4 DEF RoomInv
  <2> QED
    BY <2>2, <2>3
<1>17. CASE DrainKeys
  <2>1. Owed' = Owed /\ Owed \in 0 .. 1
    BY <1>17, SameOwed DEF DrainKeys, Owed
  <2>2. CASE key_buffer = <<>>
    BY <1>17, <2>1, <2>2, SameRoom DEF DrainKeys
  <2>3. CASE key_buffer # <<>>
    <3>1. PICK n \in Nat : Costs(socket, n) /\ Len(button_buffer) + Len(key_buffer) + Owed + n <= MaxPending
      BY DEF RoomInv
    <3>2. Len(key_buffer') = Len(key_buffer) - 1 /\ Len(key_buffer) \in Nat /\ Len(button_buffer) \in Nat
      BY <1>17, <2>3, Elements DEF DrainKeys, SeqInv
    <3>3. UNCHANGED <<socket, button_buffer>>
      BY <1>17 DEF DrainKeys
    <3>4. Len(button_buffer') + Len(key_buffer') + Owed' + n <= MaxPending
      BY <2>1, <3>1, <3>2, <3>3, InputAssumption
    <3> QED
      BY <3>1, <3>3, <3>4 DEF RoomInv
  <2> QED
    BY <2>2, <2>3
<1>18. CASE MacStarts
  BY <1>18, SameRoom, SameOwed DEF MacStarts
<1>19. CASE UNCHANGED vars
  BY <1>19, SameRoom, SameOwed DEF vars
<1>20. CASE StoreSum
  <2>1. Owed' = Owed
    BY <1>20 DEF Owed, StoreSum, TypeOK, WorkInv
  <2> QED
    BY <1>20, <2>1, SameRoom DEF StoreSum
<1>21. CASE TestMode
  BY <1>21, SameRoom, SameOwed DEF TestMode
<1>22. CASE ZeroMouse
  BY <1>22, SameRoom, SameOwed DEF ZeroMouse
<1> QED
  BY <1>1, <1>2, <1>3, <1>4, <1>5, <1>6, <1>7, <1>8, <1>9, <1>10, <1>11, <1>12, <1>13,
     <1>14, <1>15, <1>16, <1>17, <1>18, <1>19, <1>20, <1>21, <1>22
  DEF Next, Viewer, Worker, Cpu

\* Every step keeps the types.
LEMMA TypeStep == TypeOK /\ SeqInv /\ WorkInv /\ SeqInv' /\ RoomInv' /\ [Next]_vars => TypeOK'
<1> SUFFICES ASSUME TypeOK, SeqInv, WorkInv, SeqInv', RoomInv', [Next]_vars PROVE TypeOK'
  OBVIOUS
<1> USE DEF TypeOK, viewer, worker, mouse, rings, irq, mac, vars
<1>0. /\ \A i \in DOMAIN socket' : socket'[i] \in Messages
      /\ {Len(button_buffer'), Len(key_buffer')} \subseteq 0 .. RingSize - 1
  <2>1. socket' \in Seq(Messages) /\ Len(button_buffer') \in Nat /\ Len(key_buffer') \in Nat
    BY Elements DEF SeqInv
  <2>2. PICK k \in Nat : Len(button_buffer') + Len(key_buffer') + Owed' + k <= MaxPending
    BY DEF RoomInv
  <2>3. Owed' \in 0 .. 1
    BY DEF Owed
  <2>4. \A i \in DOMAIN socket' : socket'[i] \in Messages
    BY <2>1, Elements
  <2>5. Len(button_buffer') <= RingSize - 1 /\ Len(key_buffer') <= RingSize - 1
    BY <2>1, <2>2, <2>3, FitsRings
  <2> QED
    BY <2>1, <2>4, <2>5, InputAssumption
<1>1. ASSUME NEW b \in Buttons, SendButton(b) PROVE TypeOK'
  BY <1>1, <1>0, ButtonSent DEF SendButton, Send
<1>2. ASSUME NEW k \in Keys, SendKey(k) PROVE TypeOK'
  <2>1. down' \subseteq Keys
    BY <1>2, ToggleIn DEF SendKey
  <2> QED
    BY <1>2, <1>0, <2>1 DEF SendKey, Send
<1>3. ASSUME NEW p \in 1 .. MaxPosition \cup {Relative}, SendMove(p) PROVE TypeOK'
  <2>1. pointed' \in 0 .. MaxPosition
    BY <1>3, InputAssumption DEF SendMove
  <2> QED
    BY <1>3, <1>0, <2>1 DEF SendMove, Send
<1>4. CASE Receive
  <2>1. msg' \in Messages
    BY <1>4, Elements DEF Receive, SeqInv
  <2> QED
    BY <1>4, <1>0, <2>1 DEF Receive
<1>5. CASE SetMode
  <2>1. {relative_mouse', flag', started', skipped'} \subseteq BOOLEAN
    BY <1>5 DEF SetMode
  <2> QED
    BY <1>5, <1>0, <2>1 DEF SetMode
<1>6. CASE ZeroPosition
  <2>1. 0 \in 0 .. MaxPosition + 1
    BY InputAssumption
  <2> QED
    BY <1>6, <1>0, <2>1 DEF ZeroPosition
<1>7. CASE MouseMoved
  <2>1. msg \in Messages /\ msg.type = "mouse" /\ msg.move # NoMove
    BY <1>7, NoneHasNoType DEF MouseMoved, WorkInv
  <2>2. msg.move \in Relative .. MaxPosition
    BY <2>1, MessageKinds
  <2>3. ~relative_mouse => msg.move # Relative
    BY <1>7 DEF MouseMoved, WorkInv
  <2>4. mouse_x' \in 0 .. MaxPosition + 1 /\ sum' \in 0 .. MaxPosition + 1
    <3>1. CASE ~relative_mouse
      BY <1>7, <2>1, <2>2, <2>3, <3>1, InputAssumption DEF MouseMoved, Relative, NoMove
    <3>2. CASE relative_mouse
      BY <1>7, <3>2, InputAssumption DEF MouseMoved
    <3> QED
      BY <3>1, <3>2
  <2> QED
    BY <1>7, <1>0, <2>4 DEF MouseMoved
<1>8. CASE MoveFlags
  BY <1>8, <1>0 DEF MoveFlags
<1>9. CASE PushButton
  <2>1. PICK b \in Changed : last_buttons' = Toggle(last_buttons, b)
    BY <1>9 DEF PushButton
  <2>2. b \in Buttons
    BY <2>1, <1>9, MessageKinds, NoneHasNoType DEF Changed, WorkInv, PushButton
  <2>3. last_buttons' \subseteq Buttons
    BY <2>1, <2>2, ToggleIn
  <2> QED
    BY <1>9, <1>0, <2>3 DEF PushButton
<1>10. CASE PushKey
  BY <1>10, <1>0 DEF PushKey
<1>11. CASE PushFlags
  BY <1>11, <1>0 DEF PushFlags
<1>12. CASE Processed
  BY <1>12, <1>0 DEF Processed
<1>13. CASE TakeInterrupt
  <2>1. {relative_mouse', flag', started', skipped'} \subseteq BOOLEAN
    BY <1>13 DEF TakeInterrupt
  <2> QED
    BY <1>13, <1>0, <2>1 DEF TakeInterrupt
<1>14. CASE ReadMouse
  BY <1>14, <1>0 DEF ReadMouse
<1>15. CASE MoveCursor
  <2>1. 0 \in 0 .. MaxPosition + 1 /\ Elsewhere \in Elsewhere .. MaxPosition + 1
        /\ 0 .. MaxPosition + 1 \subseteq Elsewhere .. MaxPosition + 1
    BY InputAssumption DEF Elsewhere
  <2>2. mx' \in 0 .. MaxPosition + 1 /\ old_mouse_x' \in 0 .. MaxPosition + 1
    BY <1>15, <2>1 DEF MoveCursor
  <2>3. cursor' \in Elsewhere .. MaxPosition + 1
    BY <1>15, <2>1 DEF MoveCursor
  <2> QED
    BY <1>15, <1>0, <2>2, <2>3 DEF MoveCursor
<1>16. CASE DrainButtons
  <2>1. mouse_button' \in SUBSET Buttons
    BY <1>16, Elements, PutIn DEF DrainButtons, SeqInv
  <2> QED
    BY <1>16, <1>0, <2>1 DEF DrainButtons
<1>17. CASE DrainKeys
  <2>1. mac_keys' \in SUBSET Keys
    BY <1>17, Elements, PutIn DEF DrainKeys, SeqInv
  <2>2. {relative_mouse', flag', started', skipped'} \subseteq BOOLEAN
    BY <1>17 DEF DrainKeys
  <2> QED
    BY <1>17, <1>0, <2>1, <2>2 DEF DrainKeys
<1>18. CASE MacStarts
  BY <1>18, <1>0 DEF MacStarts
<1>19. CASE UNCHANGED vars
  BY <1>19, <1>0 DEF vars
<1>20. CASE StoreSum
  <2>1. 0 \in 0 .. MaxPosition + 1
    BY InputAssumption
  <2> QED
    BY <1>20, <1>0, <2>1 DEF StoreSum
<1>21. CASE TestMode
  BY <1>21, <1>0 DEF TestMode
<1>22. CASE ZeroMouse
  <2>1. 0 \in 0 .. MaxPosition + 1
    BY InputAssumption
  <2> QED
    BY <1>22, <1>0, <2>1 DEF ZeroMouse
<1> QED
  BY <1>1, <1>2, <1>3, <1>4, <1>5, <1>6, <1>7, <1>8, <1>9, <1>10, <1>11, <1>12, <1>13,
     <1>14, <1>15, <1>16, <1>17, <1>18, <1>19, <1>20, <1>21, <1>22
  DEF Next, Viewer, Worker, Cpu

\* The worker comes to the buttons with one that changed at most.
LEMMA WorkStep == TypeOK /\ SeqInv /\ WorkInv /\ FlowInv /\ [Next]_vars => WorkInv'
<1> SUFFICES ASSUME TypeOK, SeqInv, WorkInv, FlowInv, [Next]_vars PROVE WorkInv'
  OBVIOUS
<1> USE DEF WorkInv, viewer, worker, mouse, rings, irq, mac, vars
<1>1. ASSUME NEW b \in Buttons, SendButton(b) PROVE WorkInv'
  BY <1>1 DEF SendButton, Send
<1>2. ASSUME NEW k \in Keys, SendKey(k) PROVE WorkInv'
  BY <1>2 DEF SendKey, Send
<1>3. ASSUME NEW p \in 1 .. MaxPosition \cup {Relative}, SendMove(p) PROVE WorkInv'
  BY <1>3 DEF SendMove, Send
<1>4. CASE Receive
  <2>1. socket # <<>> /\ msg = None /\ msg' = Head(socket) /\ msg' \in Messages
    BY <1>4, Elements DEF Receive, SeqInv
  <2>2. msg'.type = "mouse" =>
          IF msg'.move = NoMove THEN \E b \in Buttons : msg'.buttons = Toggle(last_buttons, b)
                                ELSE msg'.buttons = last_buttons
    BY <2>1, FirstFits
  <2>3. msg' # None /\ wpc' # "idle" /\ wpc' \in {"key", "buttons", "mode"}
    BY <1>4, <2>1, NoneHasNoType DEF Receive
  <2> QED
    BY <1>4, <2>1, <2>2, <2>3, MessageKinds DEF Receive
<1>5. CASE SetMode
  BY <1>5 DEF SetMode
<1>6. CASE ZeroPosition
  BY <1>6 DEF ZeroPosition
<1>7. CASE MouseMoved
  BY <1>7 DEF MouseMoved
<1>8. CASE MoveFlags
  BY <1>8 DEF MoveFlags
<1>9. CASE PushButton
  <2>1. PICK b \in Changed : last_buttons' = Toggle(last_buttons, b)
    BY <1>9 DEF PushButton
  <2>2. last_buttons' = msg.buttons
    BY <1>9, <2>1, OneChanges DEF PushButton
  <2> QED
    BY <1>9, <2>2 DEF PushButton
<1>10. CASE PushKey
  BY <1>10 DEF PushKey
<1>11. CASE PushFlags
  <2>1. msg \in Messages
    BY <1>11, NoneHasNoType DEF PushFlags, TypeOK
  <2>2. msg.type \in {"mouse", "key"}
    BY <2>1, MessageKinds
  <2> QED
    BY <1>11, <2>2 DEF PushFlags
<1>12. CASE Processed
  BY <1>12, NoneHasNoType DEF Processed
<1>13. CASE TakeInterrupt
  BY <1>13 DEF TakeInterrupt
<1>14. CASE ReadMouse
  BY <1>14 DEF ReadMouse
<1>15. CASE MoveCursor
  BY <1>15 DEF MoveCursor
<1>16. CASE DrainButtons
  BY <1>16 DEF DrainButtons
<1>17. CASE DrainKeys
  BY <1>17 DEF DrainKeys
<1>18. CASE MacStarts
  BY <1>18 DEF MacStarts
<1>19. CASE UNCHANGED vars
  BY <1>19 DEF vars
<1>20. CASE StoreSum
  BY <1>20 DEF StoreSum
<1>21. CASE TestMode
  BY <1>21 DEF TestMode
<1>22. CASE ZeroMouse
  BY <1>22 DEF ZeroMouse
<1> QED
  BY <1>1, <1>2, <1>3, <1>4, <1>5, <1>6, <1>7, <1>8, <1>9, <1>10, <1>11, <1>12, <1>13,
     <1>14, <1>15, <1>16, <1>17, <1>18, <1>19, <1>20, <1>21, <1>22
  DEF Next, Viewer, Worker, Cpu

\* No step loses an event, doubles it or passes one that came before.
LEMMA FlowStep == TypeOK /\ SeqInv /\ WorkInv /\ FlowInv /\ RoomInv /\ [Next]_vars => FlowInv'
<1> SUFFICES ASSUME TypeOK, SeqInv, WorkInv, FlowInv, RoomInv, [Next]_vars PROVE FlowInv'
  OBVIOUS
<1> USE DEF viewer, worker, mouse, rings, irq, mac, vars
<1>1. ASSUME NEW b \in Buttons, SendButton(b) PROVE FlowInv'
  <2>1. PICK ks \in SUBSET Keys :
          /\ Leads(Keys, key_buffer, mac_keys, ks)
          /\ Flow(socket, [buttons |-> NextButtons, keys |-> NextKeys(ks)],
                  [buttons |-> held, keys |-> down])
    BY DEF FlowInv
  <2> DEFINE y == [buttons |-> held, keys |-> down]
             z == [buttons |-> held', keys |-> down']
             m == MouseMessage(held', NoMove)
             x == [buttons |-> NextButtons, keys |-> NextKeys(ks)]
  <2>2. y \in States
    BY DEF TypeOK, States
  <2>3. m \in Messages /\ socket' = Append(socket, m)
    BY <1>1, ButtonSent
  <2>4. Fits(y, m)
    BY <1>1 DEF Fits, MouseMessage, KeyMessage, SendButton, NoMove, Relative
  <2>5. After(y, m) = z
    BY <1>1 DEF After, MouseMessage, NoMove, SendButton
  <2> HIDE DEF m
  <2>6. Flow(socket', x, z)
    BY <2>1, <2>2, <2>3, <2>4, <2>5, FlowAppend DEF SeqInv
  <2>7. NextButtons' = NextButtons /\ NextKeys(ks)' = NextKeys(ks)
    BY <1>1 DEF SendButton, Send, NextButtons, NextKeys
  <2> QED
    BY <1>1, <2>1, <2>6, <2>7 DEF SendButton, Send, FlowInv
<1>2. ASSUME NEW k \in Keys, SendKey(k) PROVE FlowInv'
  <2>1. PICK ks \in SUBSET Keys :
          /\ Leads(Keys, key_buffer, mac_keys, ks)
          /\ Flow(socket, [buttons |-> NextButtons, keys |-> NextKeys(ks)],
                  [buttons |-> held, keys |-> down])
    BY DEF FlowInv
  <2> DEFINE y == [buttons |-> held, keys |-> down]
             z == [buttons |-> held', keys |-> down']
             m == KeyMessage(k, k \in down)
             x == [buttons |-> NextButtons, keys |-> NextKeys(ks)]
  <2>2. y \in States
    BY DEF TypeOK, States
  <2>3. m \in Messages /\ socket' = Append(socket, m)
    BY <1>2, KeyIsSent
  <2>4. Fits(y, m)
    BY <1>2 DEF Fits, MouseMessage, KeyMessage, SendKey, NoMove, Relative
  <2>5. After(y, m) = z
    BY <1>2 DEF After, KeyMessage, SendKey, Put, Event, Toggle
  <2> HIDE DEF m
  <2>6. Flow(socket', x, z)
    BY <2>1, <2>2, <2>3, <2>4, <2>5, FlowAppend DEF SeqInv
  <2>7. NextButtons' = NextButtons /\ NextKeys(ks)' = NextKeys(ks)
    BY <1>2 DEF SendKey, Send, NextButtons, NextKeys
  <2> QED
    BY <1>2, <2>1, <2>6, <2>7 DEF SendKey, Send, FlowInv
<1>3. ASSUME NEW p \in 1 .. MaxPosition \cup {Relative}, SendMove(p) PROVE FlowInv'
  <2>1. PICK ks \in SUBSET Keys :
          /\ Leads(Keys, key_buffer, mac_keys, ks)
          /\ Flow(socket, [buttons |-> NextButtons, keys |-> NextKeys(ks)],
                  [buttons |-> held, keys |-> down])
    BY DEF FlowInv
  <2> DEFINE y == [buttons |-> held, keys |-> down]
             z == [buttons |-> held', keys |-> down']
             m == MouseMessage(held, p)
             x == [buttons |-> NextButtons, keys |-> NextKeys(ks)]
  <2>2. y \in States
    BY DEF TypeOK, States
  <2>3. m \in Messages /\ socket' = Append(socket, m)
    BY <1>3, MoveSent
  <2>4. Fits(y, m)
    BY <1>3 DEF Fits, MouseMessage, KeyMessage, SendMove, NoMove, Relative
  <2>5. After(y, m) = z
    BY <1>3, MovesAreMoves DEF After, MouseMessage, SendMove
  <2> HIDE DEF m
  <2>6. Flow(socket', x, z)
    BY <2>1, <2>2, <2>3, <2>4, <2>5, FlowAppend DEF SeqInv
  <2>7. NextButtons' = NextButtons /\ NextKeys(ks)' = NextKeys(ks)
    BY <1>3 DEF SendMove, Send, NextButtons, NextKeys
  <2> QED
    BY <1>3, <2>1, <2>6, <2>7 DEF SendMove, Send, FlowInv
<1>4. CASE Receive
  <2>1. PICK ks \in SUBSET Keys :
          /\ Leads(Keys, key_buffer, mac_keys, ks)
          /\ Flow(socket, [buttons |-> NextButtons, keys |-> NextKeys(ks)],
                  [buttons |-> held, keys |-> down])
    BY DEF FlowInv
  <2> DEFINE x == [buttons |-> last_buttons, keys |-> ks]
             y == [buttons |-> held, keys |-> down]
  <2>2. wpc = "idle" /\ msg = None /\ socket # <<>> /\ msg' = Head(socket) /\ socket' = Tail(socket)
    BY <1>4 DEF Receive, WorkInv
  <2>3. NextButtons = last_buttons /\ NextKeys(ks) = ks
    BY <2>2, NoneHasNoType DEF NextButtons, NextKeys
  <2>4. x \in States /\ Flow(socket', After(x, msg'), y)
    BY <2>1, <2>2, <2>3, FlowTail DEF SeqInv
  <2>5. msg' \in Messages
    BY <2>2, Elements DEF SeqInv
  <2>6. After(x, msg') = [buttons |-> NextButtons', keys |-> NextKeys(ks)']
    <3>1. CASE msg'.type = "key"
      BY <1>4, <2>2, <3>1 DEF After, NextButtons, NextKeys, Receive
    <3>2. CASE msg'.type = "mouse"
      BY <1>4, <2>2, <3>2 DEF After, NextButtons, NextKeys, Receive
    <3> QED
      BY <3>1, <3>2, <2>5, MessageKinds
  <2>7. Leads(Keys, key_buffer', mac_keys', ks)
    BY <1>4, <2>1 DEF Receive
  <2>8. Flow(socket', [buttons |-> NextButtons', keys |-> NextKeys(ks)'],
              [buttons |-> held', keys |-> down'])
    BY <1>4, <2>4, <2>6 DEF Receive
  <2>9. Leads(Buttons, button_buffer', mouse_button', last_buttons')
    BY <1>4 DEF Receive, FlowInv
  <2> QED
    BY <2>7, <2>8, <2>9 DEF FlowInv
<1>5. CASE SetMode
  <2>1. NextButtons' = NextButtons
    BY <1>5 DEF SetMode, NextButtons
  <2> QED
    BY <1>5, <2>1, SameFlow DEF SetMode, WorkInv
<1>6. CASE ZeroPosition
  <2>1. NextButtons' = NextButtons
    BY <1>6 DEF ZeroPosition, NextButtons
  <2> QED
    BY <1>6, <2>1, SameFlow DEF ZeroPosition, WorkInv
<1>7. CASE MouseMoved
  <2>1. NextButtons' = NextButtons
    BY <1>7 DEF MouseMoved, NextButtons
  <2> QED
    BY <1>7, <2>1, SameFlow DEF MouseMoved, WorkInv
<1>8. CASE MoveFlags
  <2>1. NextButtons' = NextButtons
    BY <1>8 DEF MoveFlags, NextButtons
  <2> QED
    BY <1>8, <2>1, SameFlow DEF MoveFlags, WorkInv
<1>9. CASE PushButton
  <2>1. PICK ks \in SUBSET Keys :
          /\ Leads(Keys, key_buffer, mac_keys, ks)
          /\ Flow(socket, [buttons |-> NextButtons, keys |-> NextKeys(ks)],
                  [buttons |-> held, keys |-> down])
    BY DEF FlowInv
  <2>2. PICK b \in Changed : /\ button_buffer' = Push(button_buffer, Event(b, b \notin msg.buttons))
                             /\ last_buttons' = Toggle(last_buttons, b)
    BY <1>9 DEF PushButton
  <2> DEFINE e == Event(b, b \notin msg.buttons)
  <2>3. msg.type = "mouse" /\ b \in Buttons /\ last_buttons' = Put(last_buttons, e)
    BY <1>9, <2>2, OneChanges DEF PushButton
  <2>4. Owed = 1
    BY <1>9, <2>2 DEF PushButton, Owed
  <2>5. button_buffer' = Append(button_buffer, e)
    BY <2>2, <2>4, Room
  <2>6. e \in Events(Buttons)
    BY <2>3, EventIn
  <2> HIDE DEF e
  <2>7. Leads(Buttons, button_buffer', mouse_button, last_buttons')
    BY <2>3, <2>5, <2>6, LeadsAppend DEF SeqInv, FlowInv, TypeOK
  <2>8. NextButtons' = NextButtons /\ NextKeys(ks)' = NextKeys(ks)
    BY <1>9, <2>3 DEF PushButton, NextButtons, NextKeys
  <2>9. UNCHANGED <<socket, held, down, pointed, mouse_button, key_buffer, mac_keys>>
    BY <1>9 DEF PushButton
  <2> QED
    BY <2>1, <2>7, <2>8, <2>9 DEF FlowInv
<1>10. CASE PushKey
  <2>1. PICK ks \in SUBSET Keys :
          /\ Leads(Keys, key_buffer, mac_keys, ks)
          /\ Flow(socket, [buttons |-> NextButtons, keys |-> NextKeys(ks)],
                  [buttons |-> held, keys |-> down])
    BY DEF FlowInv
  <2> DEFINE e == Event(msg.key, msg.up)
  <2>2. msg.type = "key" /\ msg.key \in Keys /\ msg.up \in BOOLEAN
    BY <1>10, MessageKinds, NoneHasNoType DEF TypeOK, WorkInv, PushKey
  <2>3. Owed = 1 /\ e \in Events(Keys)
    BY <1>10, <2>2, EventIn DEF PushKey, Owed
  <2>4. key_buffer' = Append(key_buffer, e)
    BY <1>10, <2>3, Room DEF PushKey
  <2>5. PICK new \in SUBSET Keys : new = Put(ks, e)
    BY <2>3, PutIn
  <2>6. NextKeys(ks) = new /\ NextKeys(new)' = new
    BY <1>10, <2>5 DEF NextKeys, PushKey
  <2> HIDE DEF e
  <2>7. Leads(Keys, key_buffer', mac_keys, new)
    BY <2>1, <2>3, <2>4, <2>5, LeadsAppend DEF SeqInv
  <2>8. NextButtons' = NextButtons
    BY <1>10 DEF PushKey, NextButtons
  <2>9. UNCHANGED <<socket, held, down, pointed, mouse_button, last_buttons, button_buffer, mac_keys>>
    BY <1>10 DEF PushKey
  <2> QED
    <3>1. Flow(socket', [buttons |-> NextButtons', keys |-> NextKeys(new)'],
               [buttons |-> held', keys |-> down'])
      BY <2>1, <2>6, <2>8, <2>9
    <3>2. Leads(Keys, key_buffer', mac_keys', new) /\ Leads(Buttons, button_buffer', mouse_button', last_buttons')
      BY <2>7, <2>9 DEF FlowInv
    <3> QED
      BY <2>5, <3>1, <3>2 DEF FlowInv
<1>11. CASE PushFlags
  <2>1. NextButtons' = NextButtons
    BY <1>11 DEF PushFlags, NextButtons
  <2> QED
    BY <1>11, <2>1, SameFlow DEF PushFlags, WorkInv
<1>12. CASE Processed
  <2>1. NextButtons' = last_buttons
    BY <1>12, NoneHasNoType DEF Processed, NextButtons
  <2>2. NextButtons = last_buttons
    <3>1. CASE wpc = "done"
      BY <3>1 DEF WorkInv, NextButtons
    <3>2. CASE wpc = "buttons" /\ Changed = {}
      BY <3>2, NoChange, NoneHasNoType DEF WorkInv, NextButtons, TypeOK
    <3> QED
      BY <1>12, <3>1, <3>2 DEF Processed
  <2> QED
    BY <1>12, <2>1, <2>2, SameFlow DEF Processed
<1>13. CASE TakeInterrupt
  <2>1. NextButtons' = NextButtons
    BY <1>13 DEF TakeInterrupt, NextButtons
  <2> QED
    BY <1>13, <2>1, SameFlow DEF TakeInterrupt, WorkInv
<1>14. CASE ReadMouse
  <2>1. NextButtons' = NextButtons
    BY <1>14 DEF ReadMouse, NextButtons
  <2> QED
    BY <1>14, <2>1, SameFlow DEF ReadMouse, WorkInv
<1>15. CASE MoveCursor
  <2>1. NextButtons' = NextButtons
    BY <1>15 DEF MoveCursor, NextButtons
  <2> QED
    BY <1>15, <2>1, SameFlow DEF MoveCursor, WorkInv
<1>16. CASE DrainButtons
  <2>1. PICK ks \in SUBSET Keys :
          /\ Leads(Keys, key_buffer, mac_keys, ks)
          /\ Flow(socket, [buttons |-> NextButtons, keys |-> NextKeys(ks)],
                  [buttons |-> held, keys |-> down])
    BY DEF FlowInv
  <2>2. NextButtons' = NextButtons /\ NextKeys(ks)' = NextKeys(ks)
    BY <1>16 DEF DrainButtons, NextButtons, NextKeys
  <2>3. UNCHANGED <<socket, held, down, pointed, last_buttons, key_buffer, mac_keys, wpc, msg>>
    BY <1>16 DEF DrainButtons
  <2>4. Leads(Buttons, button_buffer', mouse_button', last_buttons)
    <3>1. CASE button_buffer = <<>>
      BY <1>16, <3>1 DEF DrainButtons, FlowInv
    <3>2. CASE button_buffer # <<>>
      BY <1>16, <3>2, LeadsTail DEF DrainButtons, FlowInv, SeqInv
    <3> QED
      BY <3>1, <3>2
  <2> QED
    BY <2>1, <2>2, <2>3, <2>4 DEF FlowInv
<1>17. CASE DrainKeys
  <2>1. PICK ks \in SUBSET Keys :
          /\ Leads(Keys, key_buffer, mac_keys, ks)
          /\ Flow(socket, [buttons |-> NextButtons, keys |-> NextKeys(ks)],
                  [buttons |-> held, keys |-> down])
    BY DEF FlowInv
  <2>2. NextButtons' = NextButtons /\ NextKeys(ks)' = NextKeys(ks)
    BY <1>17 DEF DrainKeys, NextButtons, NextKeys
  <2>3. UNCHANGED <<socket, held, down, pointed, last_buttons, button_buffer, mouse_button, wpc, msg>>
    BY <1>17 DEF DrainKeys
  <2>4. Leads(Keys, key_buffer', mac_keys', ks)
    <3>1. CASE key_buffer = <<>>
      BY <1>17, <2>1, <3>1 DEF DrainKeys
    <3>2. CASE key_buffer # <<>>
      BY <1>17, <2>1, <3>2, LeadsTail DEF DrainKeys, SeqInv
    <3> QED
      BY <3>1, <3>2
  <2> QED
    BY <2>1, <2>2, <2>3, <2>4 DEF FlowInv
<1>18. CASE MacStarts
  <2>1. NextButtons' = NextButtons
    BY <1>18 DEF MacStarts, NextButtons
  <2> QED
    BY <1>18, <2>1, SameFlow DEF MacStarts, WorkInv
<1>19. CASE UNCHANGED vars
  <2>1. NextButtons' = NextButtons
    BY <1>19 DEF NextButtons
  <2> QED
    BY <1>19, <2>1, SameFlow
<1>20. CASE StoreSum
  <2>1. NextButtons' = NextButtons
    BY <1>20 DEF StoreSum, NextButtons
  <2> QED
    BY <1>20, <2>1, SameFlow DEF StoreSum, WorkInv
<1>21. CASE TestMode
  <2>1. NextButtons' = NextButtons
    BY <1>21 DEF TestMode, NextButtons
  <2> QED
    BY <1>21, <2>1, SameFlow DEF TestMode, WorkInv
<1>22. CASE ZeroMouse
  <2>1. NextButtons' = NextButtons
    BY <1>22 DEF ZeroMouse, NextButtons
  <2> QED
    BY <1>22, <2>1, SameFlow DEF ZeroMouse, WorkInv
<1> QED
  BY <1>1, <1>2, <1>3, <1>4, <1>5, <1>6, <1>7, <1>8, <1>9, <1>10, <1>11, <1>12, <1>13,
     <1>14, <1>15, <1>16, <1>17, <1>18, <1>19, <1>20, <1>21, <1>22
  DEF Next, Viewer, Worker, Cpu

\* What a ring holds has an interrupt coming.
LEMMA IrqStep == TypeOK /\ WorkInv /\ IrqInv /\ [Next]_vars => IrqInv'
<1> SUFFICES ASSUME TypeOK, WorkInv, IrqInv, [Next]_vars PROVE IrqInv'
  OBVIOUS
<1> USE DEF TypeOK, WorkInv, IrqInv, viewer, worker, mouse, rings, irq, mac, vars
<1>1. ASSUME NEW b \in Buttons, SendButton(b) PROVE IrqInv'
  BY <1>1 DEF SendButton, Send
<1>2. ASSUME NEW k \in Keys, SendKey(k) PROVE IrqInv'
  BY <1>2 DEF SendKey, Send
<1>3. ASSUME NEW p \in 1 .. MaxPosition \cup {Relative}, SendMove(p) PROVE IrqInv'
  BY <1>3 DEF SendMove, Send
<1>4. CASE Receive
  BY <1>4 DEF Receive
<1>5. CASE SetMode
  BY <1>5 DEF SetMode
<1>6. CASE ZeroPosition
  BY <1>6 DEF ZeroPosition
<1>7. CASE MouseMoved
  BY <1>7 DEF MouseMoved
<1>8. CASE MoveFlags
  BY <1>8 DEF MoveFlags
<1>9. CASE PushButton
  BY <1>9 DEF PushButton
<1>10. CASE PushKey
  BY <1>10 DEF PushKey
<1>11. CASE PushFlags
  BY <1>11 DEF PushFlags
<1>12. CASE Processed
  BY <1>12 DEF Processed
<1>13. CASE TakeInterrupt
  BY <1>13 DEF TakeInterrupt
<1>14. CASE ReadMouse
  BY <1>14 DEF ReadMouse
<1>15. CASE MoveCursor
  BY <1>15 DEF MoveCursor
<1>16. CASE DrainButtons
  <2>1. CASE button_buffer = <<>>
    BY <1>16, <2>1 DEF DrainButtons
  <2>2. CASE button_buffer # <<>>
    BY <1>16, <2>2 DEF DrainButtons
  <2> QED
    BY <2>1, <2>2
<1>17. CASE DrainKeys
  <2>1. CASE key_buffer = <<>>
    BY <1>17, <2>1 DEF DrainKeys
  <2>2. CASE key_buffer # <<>>
    BY <1>17, <2>2 DEF DrainKeys
  <2> QED
    BY <2>1, <2>2
<1>18. CASE MacStarts
  BY <1>18 DEF MacStarts
<1>19. CASE UNCHANGED vars
  BY <1>19 DEF vars
<1>20. CASE StoreSum
  BY <1>20 DEF StoreSum
<1>21. CASE TestMode
  BY <1>21 DEF TestMode
<1>22. CASE ZeroMouse
  BY <1>22 DEF ZeroMouse
<1> QED
  BY <1>1, <1>2, <1>3, <1>4, <1>5, <1>6, <1>7, <1>8, <1>9, <1>10, <1>11, <1>12, <1>13,
     <1>14, <1>15, <1>16, <1>17, <1>18, <1>19, <1>20, <1>21, <1>22
  DEF Next, Viewer, Worker, Cpu

\* Quiet, the rings are empty, and what was sent has come through.
LEMMA QuietIsThrough ==
  ASSUME Inv, Quiet
  PROVE  mouse_button = held /\ mac_keys = down
<1>1. socket = <<>> /\ button_buffer = <<>> /\ key_buffer = <<>> /\ wpc = "idle" /\ msg = None
  BY DEF Inv, Quiet, IrqInv, WorkInv
<1>2. PICK ks \in SUBSET Keys :
        /\ Leads(Keys, <<>>, mac_keys, ks)
        /\ Flow(<<>>, [buttons |-> NextButtons, keys |-> NextKeys(ks)],
                [buttons |-> held, keys |-> down])
  BY <1>1 DEF Inv, FlowInv
<1>3. NextButtons = last_buttons /\ NextKeys(ks) = ks
  BY <1>1, NoneHasNoType DEF NextButtons, NextKeys
<1>4. mouse_button = last_buttons
  BY <1>1, ChainNone DEF Inv, FlowInv, Leads
<1>5. mac_keys = ks
  BY <1>2, ChainNone DEF Leads
<1>6. [buttons |-> last_buttons, keys |-> ks]
        = [buttons |-> held, keys |-> down]
  BY <1>2, <1>3, ChainNone DEF Flow
<1>7. last_buttons = held /\ ks = down
  BY <1>6
<1> QED
  BY <1>4, <1>5, <1>7

\* The invariant holds at first.
LEMMA InputInit == Init => Inv
<1> SUFFICES ASSUME Init PROVE Inv
  OBVIOUS
<1> USE DEF Init
<1>1. TypeOK
  <2>1. 0 \in 0 .. MaxPosition + 1 /\ 0 \in 0 .. RingSize - 1 /\ 0 \in 0 .. MaxPosition
        /\ 0 \in Elsewhere .. MaxPosition + 1
    BY InputAssumption DEF Elsewhere
  <2>2. Len(button_buffer) = 0 /\ Len(key_buffer) = 0 /\ DOMAIN socket = {}
    OBVIOUS
  <2> QED
    BY <2>1, <2>2 DEF TypeOK
<1>2. SeqInv
  BY DEF SeqInv
<1>3. WorkInv
  BY NoneHasNoType DEF WorkInv
<1>4. FlowInv
  <2> DEFINE z == [buttons |-> {}, keys |-> {}]
  <2>1. {} \in SUBSET Keys /\ {} \in SUBSET Buttons /\ 0 \in 0 .. MaxPosition
    BY InputAssumption
  <2>2. z \in States
    BY <2>1 DEF States
  <2>3. NextButtons = {} /\ NextKeys({}) = {}
    BY NoneHasNoType DEF NextButtons, NextKeys
  <2>4. Flow(socket, [buttons |-> NextButtons, keys |-> NextKeys({})],
             [buttons |-> held, keys |-> down])
    <3>1. [buttons |-> NextButtons, keys |-> NextKeys({})] = z
          /\ [buttons |-> held, keys |-> down] = z /\ socket = <<>>
      BY <2>3
    <3> HIDE DEF z
    <3>2. Flow(<<>>, z, z)
      BY <2>2, ChainNone DEF Flow
    <3> QED
      BY <3>1, <3>2
  <2>5. Leads(Keys, key_buffer, mac_keys, {}) /\ Leads(Buttons, button_buffer, mouse_button, last_buttons)
    BY <2>1, ChainNone DEF Leads
  <2> QED
    BY <2>1, <2>4, <2>5 DEF FlowInv
<1>5. RoomInv
  <2>1. Costs(socket, 0)
    BY CostsNone
  <2>2. Len(button_buffer) + Len(key_buffer) + Owed + 0 <= MaxPending
    BY InputAssumption DEF Owed
  <2> QED
    BY <2>1, <2>2 DEF RoomInv
<1>6. IrqInv
  BY DEF IrqInv
<1> QED
  BY <1>1, <1>2, <1>3, <1>4, <1>5, <1>6 DEF Inv

\* Inv is an invariant of the input path.
THEOREM InputInv == Spec => []Inv
<1>1. Init => Inv
  BY InputInit
<1>2. Inv /\ [Next]_vars => Inv'
  BY SeqStep, RoomStep, TypeStep, WorkStep, FlowStep, IrqStep DEF Inv
<1> QED
  BY <1>1, <1>2, PTL DEF Spec

\* The types, and with them that the rings hold what they are given: an event
\* never finds its ring one short of full, where it would read as empty.
THEOREM InputTypeCorrect == Spec => []TypeOK
<1>1. Inv => TypeOK
  BY DEF Inv
<1> QED
  BY <1>1, InputInv, PTL

\* Once nothing is on its way the Mac has the buttons and the keys down that the
\* viewer holds.
THEOREM InStepCorrect == Spec => []InStep
<1>1. Inv => InStep
  BY QuietIsThrough DEF InStep
<1> QED
  BY <1>1, InputInv, PTL
=============================================================================
