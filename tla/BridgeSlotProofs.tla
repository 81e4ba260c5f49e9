-------------------------- MODULE BridgeSlotProofs --------------------------
(***************************************************************************)
(* BridgeSlot for any number of clients, requests of any length, and any   *)
(* number of resets: a client that is given a reply is given its own, a    *)
(* request the host has seen taken was copied whole, and until the host    *)
(* gives one up that was not taken, each is run whole and at most once.    *)
(***************************************************************************)
EXTENDS BridgeSlot, TLAPS

\* The request in the slot is whole for as long as its id is there, and no id
\* the guest has is the one that is being written.
HostInv ==
  /\ hpc = "free" => reqId = 0
  /\ hpc # "free" => id > 0
  /\ hpc = "write" =>
       /\ reqId = 0 /\ takenId < id /\ repId < id /\ gid < id
       /\ \A w \in Words : w < word => req[w] = client
  /\ hpc \in {"taking", "replying"} => reqId = id /\ req = Whole(client)
  /\ hpc = "replying" => takenId = id

\* What the guest has of the request whose id is in the slot: what it copied
\* after it read that id is that request's; taken, it is what it runs and
\* answers; and answered, it is the reply.
GuestInv ==
  /\ gpc \in InNext \cup {"tooSmall"} => reqId = 0 \/ reqId # takenId
  /\ (gid = reqId /\ reqId # 0) =>
       /\ gpc = "nextWord" => got[1] = client
       /\ gpc = "nextTaken" => got = Whole(client)
  /\ (reqId # 0 /\ takenId = reqId) =>
       /\ took = Whole(client)
       /\ gpc \in {"run", "reply"} => got = Whole(client)
       /\ gpc = "reply" => runs[client] > 0
  /\ (reqId # 0 /\ repId = reqId) =>
       takenId = reqId /\ rep = Whole(client) /\ runs[client] > 0

\* The inductive invariant: what the host reads as its reply is its own only
\* because the ids it waits for were read after the words they stand for.
Inv == TypeOK /\ HostInv /\ GuestInv /\ ReplyIsOwn

\* The host has given up no request that was not taken.
NoneGivenUp == \A c \in Clients : result[c] # "notTaken"

\* request() has been made of a client's request.
Begun(c) == result[c] \notin {"none", "noAgent", "queued"}

\* Until then the agent's NEXT is of the request in the slot, whose length has
\* not changed since its buffer was made for it; and a request is not run
\* before it is taken, nor the copy that is to be run, which is a whole one,
\* of a request that was.
OnceInv ==
  /\ hpc # "free" => result[client] = "waiting"
  /\ NoneGivenUp =>
       /\ torn = 0
       /\ hpc \in {"taking", "replying"} => len = Size[client]
       /\ gpc \in InNext \cup {"tooSmall"} => hpc = "taking" /\ takenId # id
       /\ gpc \in InNext \ {"nextId"} => gid = id
       /\ gpc \in {"nextId", "nextLen"} => room \in {Small, len}
       /\ gpc = "tooSmall" => room = len
       /\ \A c \in Clients : runs[c] <= 1 /\ (~Begun(c) => runs[c] = 0)
       /\ hpc = "write" \/ (hpc = "taking" /\ takenId # id) => runs[client] = 0
       /\ gpc = "run" =>
            \E c \in Clients :
              /\ got = Whole(c) /\ Begun(c) /\ runs[c] = 0
              /\ c = client /\ hpc # "free" => hpc # "write" /\ takenId = id

-----------------------------------------------------------------------------
\* Copies of a request: what they are made of, and when one is whole.
LEMMA CopyTypes ==
  /\ NoCopy \in Copies
  /\ \A c \in Clients : Whole(c) \in Copies
  /\ \A cp \in Copies, w \in Words : cp[w] \in Clients \cup {None}
  /\ \A cp \in Copies, w \in Words, c \in Clients \cup {None} : [cp EXCEPT ![w] = c] \in Copies
  BY DEF NoCopy, Whole, Copies

\* A copy of two words is whole when both are of the same client.
LEMMA WholeCopy ==
  ASSUME NEW cp \in Copies, NEW c
  PROVE  cp = Whole(c) <=> cp[1] = c /\ cp[2] = c
  BY DEF Whole, Copies, Words

\* Every step of either side keeps the types, and the guest's ids among those
\* the host has given out.
LEMMA TypeStep == TypeOK /\ [Next]_vars => TypeOK'
<1> SUFFICES ASSUME TypeOK, [Next]_vars PROVE TypeOK'
  OBVIOUS
<1> USE SlotAssumption, CopyTypes DEF TypeOK, InNext, Words, slot, host, guest, history
<1>1. ASSUME NEW c \in Clients, SeesAgent(c) PROVE TypeOK'
  BY <1>1 DEF SeesAgent
<1>2. ASSUME NEW c \in Clients, NoAgent(c) PROVE TypeOK'
  BY <1>2 DEF NoAgent
<1>3. ASSUME NEW c \in Clients, Begin(c) PROVE TypeOK'
  BY <1>3 DEF Begin
<1>4. CASE WriteWord
  <2>1. req' \in Copies
    BY <1>4 DEF WriteWord, Copies
  <2>2. word' \in {1, 2, 3}
    BY <1>4 DEF WriteWord
  <2> QED
    BY <1>4, <2>1, <2>2 DEF WriteWord
<1>5. CASE Post
  BY <1>5 DEF Post
<1>6. CASE SeesTaken
  BY <1>6 DEF SeesTaken
<1>7. CASE TakeTimeout
  BY <1>7 DEF TakeTimeout, Ends
<1>8. CASE SeesReply
  BY <1>8 DEF SeesReply, Ends
<1>9. CASE ReplyTimeout
  BY <1>9 DEF ReplyTimeout, Ends
<1>10. CASE Hello
  BY <1>10 DEF Hello, GuestAt
<1>11. CASE Poll
  BY <1>11 DEF Poll, GuestAt, RequestWaits
<1>12. CASE NextId
  BY <1>12 DEF NextId
<1>13. CASE NextLen
  BY <1>13 DEF NextLen, GuestAt
<1>14. CASE NextWord
  BY <1>14 DEF NextWord
<1>15. CASE NextTaken
  BY <1>15 DEF NextTaken
<1>16. CASE Again
  BY <1>16 DEF Again, GuestAt, RequestWaits
<1>17. CASE NoRoom
  BY <1>17 DEF NoRoom, Reply, GuestAt
<1>18. CASE Run
  BY SMTT(30), <1>18 DEF Run
<1>19. CASE Answer
  BY <1>19 DEF Answer, Reply, GuestAt
<1>20. CASE Quit
  BY <1>20 DEF Quit, Leaves, GuestAt
<1>21. CASE Reset
  BY <1>21 DEF Reset, Leaves, GuestAt
<1>22. CASE Dies
  BY <1>22 DEF Dies, Leaves, GuestAt
<1>23. CASE UNCHANGED vars
  BY <1>23 DEF vars
<1> QED
  BY <1>1, <1>2, <1>3, <1>4, <1>5, <1>6, <1>7, <1>8, <1>9, <1>10, <1>11, <1>12, <1>13, <1>14, <1>15, <1>16, <1>17, <1>18, <1>19, <1>20, <1>21, <1>22, <1>23 DEF Next, GuestStep

\* What the host's half of the slot says of the request under way.
LEMMA HostStep == TypeOK /\ HostInv /\ GuestInv /\ [Next]_vars => HostInv'
<1> SUFFICES ASSUME TypeOK, HostInv, GuestInv, [Next]_vars PROVE HostInv'
  OBVIOUS
<1> USE WholeCopy DEF TypeOK, HostInv, Words, slot, host, guest, history
<1>1. ASSUME NEW c \in Clients, SeesAgent(c) PROVE HostInv'
  BY <1>1 DEF SeesAgent
<1>2. ASSUME NEW c \in Clients, NoAgent(c) PROVE HostInv'
  BY <1>2 DEF NoAgent
<1>3. ASSUME NEW c \in Clients, Begin(c) PROVE HostInv'
  BY <1>3 DEF Begin
<1>4. CASE WriteWord
  <2>1. \A w \in Words : w < word' => req'[w] = client
    BY <1>4 DEF WriteWord, Copies
  <2> QED
    BY <1>4, <2>1 DEF WriteWord
<1>5. CASE Post
  BY <1>5 DEF Post
<1>6. CASE SeesTaken
  BY <1>6 DEF SeesTaken
<1>7. CASE TakeTimeout
  BY <1>7 DEF TakeTimeout, Ends
<1>8. CASE SeesReply
  BY <1>8 DEF SeesReply, Ends
<1>9. CASE ReplyTimeout
  BY <1>9 DEF ReplyTimeout, Ends
<1>10. CASE Hello
  BY <1>10 DEF Hello, GuestAt
<1>11. CASE Poll
  BY <1>11 DEF Poll, GuestAt, RequestWaits
<1>12. CASE NextId
  BY <1>12 DEF NextId
<1>13. CASE NextLen
  BY <1>13 DEF NextLen, GuestAt
<1>14. CASE NextWord
  BY <1>14 DEF NextWord
<1>15. CASE NextTaken
  BY <1>15 DEF NextTaken, GuestInv, InNext
<1>16. CASE Again
  BY <1>16 DEF Again, GuestAt, RequestWaits
<1>17. CASE NoRoom
  BY <1>17 DEF NoRoom, Reply, GuestAt
<1>18. CASE Run
  BY <1>18 DEF Run
<1>19. CASE Answer
  BY <1>19 DEF Answer, Reply, GuestAt
<1>20. CASE Quit
  BY <1>20 DEF Quit, Leaves, GuestAt
<1>21. CASE Reset
  BY <1>21 DEF Reset, Leaves, GuestAt
<1>22. CASE Dies
  BY <1>22 DEF Dies, Leaves, GuestAt
<1>23. CASE UNCHANGED vars
  BY <1>23 DEF vars
<1> QED
  BY <1>1, <1>2, <1>3, <1>4, <1>5, <1>6, <1>7, <1>8, <1>9, <1>10, <1>11, <1>12, <1>13, <1>14, <1>15, <1>16, <1>17, <1>18, <1>19, <1>20, <1>21, <1>22, <1>23 DEF Next, GuestStep

\* What the guest's half says of it.
LEMMA GuestStepInv == TypeOK /\ HostInv /\ GuestInv /\ [Next]_vars => GuestInv'
<1> SUFFICES ASSUME TypeOK, HostInv, GuestInv, [Next]_vars PROVE GuestInv'
  OBVIOUS
<1> USE WholeCopy DEF TypeOK, HostInv, GuestInv, InNext, Words, slot, host, guest, history
<1>1. ASSUME NEW c \in Clients, SeesAgent(c) PROVE GuestInv'
  BY <1>1 DEF SeesAgent
<1>2. ASSUME NEW c \in Clients, NoAgent(c) PROVE GuestInv'
  BY <1>2 DEF NoAgent
<1>3. ASSUME NEW c \in Clients, Begin(c) PROVE GuestInv'
  BY <1>3 DEF Begin
<1>4. CASE WriteWord
  BY <1>4 DEF WriteWord
<1>5. CASE Post
  BY <1>5 DEF Post
<1>6. CASE SeesTaken
  BY <1>6 DEF SeesTaken
<1>7. CASE TakeTimeout
  BY <1>7 DEF TakeTimeout, Ends
<1>8. CASE SeesReply
  BY <1>8 DEF SeesReply, Ends
<1>9. CASE ReplyTimeout
  BY <1>9 DEF ReplyTimeout, Ends
<1>10. CASE Hello
  BY <1>10 DEF Hello, GuestAt
<1>11. CASE Poll
  BY <1>11 DEF Poll, GuestAt, RequestWaits
<1>12. CASE NextId
  BY <1>12 DEF NextId
<1>13. CASE NextLen
  BY <1>13 DEF NextLen, GuestAt, Copies
<1>14. CASE NextWord
  BY <1>14 DEF NextWord, Copies
<1>15. CASE NextTaken
  BY <1>15 DEF NextTaken
<1>16. CASE Again
  BY <1>16 DEF Again, GuestAt, RequestWaits
<1>17. CASE NoRoom
  BY <1>17 DEF NoRoom, Reply, GuestAt
<1>18. CASE Run
  BY <1>18 DEF Run
<1>19. CASE Answer
  BY <1>19 DEF Answer, Reply, GuestAt
<1>20. CASE Quit
  BY <1>20 DEF Quit, Leaves, GuestAt
<1>21. CASE Reset
  BY <1>21 DEF Reset, Leaves, GuestAt
<1>22. CASE Dies
  BY <1>22 DEF Dies, Leaves, GuestAt
<1>23. CASE UNCHANGED vars
  BY <1>23 DEF vars
<1> QED
  BY <1>1, <1>2, <1>3, <1>4, <1>5, <1>6, <1>7, <1>8, <1>9, <1>10, <1>11, <1>12, <1>13, <1>14, <1>15, <1>16, <1>17, <1>18, <1>19, <1>20, <1>21, <1>22, <1>23 DEF Next, GuestStep

\* And so what the clients are told.
LEMMA ReplyStep == TypeOK /\ HostInv /\ GuestInv /\ ReplyIsOwn /\ [Next]_vars => ReplyIsOwn'
<1> SUFFICES ASSUME TypeOK, HostInv, GuestInv, ReplyIsOwn, [Next]_vars PROVE ReplyIsOwn'
  OBVIOUS
<1> USE DEF TypeOK, HostInv, GuestInv, ReplyIsOwn, slot, host, guest, history
<1>1. ASSUME NEW c \in Clients, SeesAgent(c) PROVE ReplyIsOwn'
  BY <1>1 DEF SeesAgent
<1>2. ASSUME NEW c \in Clients, NoAgent(c) PROVE ReplyIsOwn'
  BY <1>2 DEF NoAgent
<1>3. ASSUME NEW c \in Clients, Begin(c) PROVE ReplyIsOwn'
  BY <1>3 DEF Begin
<1>4. CASE WriteWord
  BY <1>4 DEF WriteWord
<1>5. CASE Post
  BY <1>5 DEF Post
<1>6. CASE SeesTaken
  BY <1>6 DEF SeesTaken
<1>7. CASE TakeTimeout
  BY <1>7 DEF TakeTimeout, Ends
<1>8. CASE SeesReply
  BY <1>8 DEF SeesReply, Ends
<1>9. CASE ReplyTimeout
  BY <1>9 DEF ReplyTimeout, Ends
<1>10. CASE Hello
  BY <1>10 DEF Hello, GuestAt
<1>11. CASE Poll
  BY <1>11 DEF Poll, GuestAt, RequestWaits
<1>12. CASE NextId
  BY <1>12 DEF NextId
<1>13. CASE NextLen
  BY <1>13 DEF NextLen, GuestAt
<1>14. CASE NextWord
  BY <1>14 DEF NextWord
<1>15. CASE NextTaken
  BY <1>15 DEF NextTaken
<1>16. CASE Again
  BY <1>16 DEF Again, GuestAt, RequestWaits
<1>17. CASE NoRoom
  BY <1>17 DEF NoRoom, Reply, GuestAt
<1>18. CASE Run
  BY <1>18 DEF Run
<1>19. CASE Answer
  BY <1>19 DEF Answer, Reply, GuestAt
<1>20. CASE Quit
  BY <1>20 DEF Quit, Leaves, GuestAt
<1>21. CASE Reset
  BY <1>21 DEF Reset, Leaves, GuestAt
<1>22. CASE Dies
  BY <1>22 DEF Dies, Leaves, GuestAt
<1>23. CASE UNCHANGED vars
  BY <1>23 DEF vars
<1> QED
  BY <1>1, <1>2, <1>3, <1>4, <1>5, <1>6, <1>7, <1>8, <1>9, <1>10, <1>11, <1>12, <1>13, <1>14, <1>15, <1>16, <1>17, <1>18, <1>19, <1>20, <1>21, <1>22, <1>23 DEF Next, GuestStep

\* What is run, while the host has given up nothing the agent has not taken.
LEMMA OnceStep == TypeOK /\ HostInv /\ GuestInv /\ OnceInv /\ [Next]_vars => OnceInv'
<1> SUFFICES ASSUME TypeOK, HostInv, GuestInv, OnceInv, [Next]_vars PROVE OnceInv'
  OBVIOUS
<1> USE SlotAssumption, WholeCopy DEF TypeOK, HostInv, GuestInv, OnceInv, NoneGivenUp, Begun, InNext, Words, slot, host, guest, history
<1>1. ASSUME NEW c \in Clients, SeesAgent(c) PROVE OnceInv'
  BY <1>1 DEF SeesAgent
<1>2. ASSUME NEW c \in Clients, NoAgent(c) PROVE OnceInv'
  BY <1>2 DEF NoAgent
<1>3. ASSUME NEW c \in Clients, Begin(c) PROVE OnceInv'
  BY <1>3 DEF Begin
<1>4. CASE WriteWord
  BY <1>4 DEF WriteWord
<1>5. CASE Post
  BY <1>5 DEF Post
<1>6. CASE SeesTaken
  BY <1>6 DEF SeesTaken
<1>7. CASE TakeTimeout
  BY <1>7 DEF TakeTimeout, Ends
<1>8. CASE SeesReply
  BY <1>8 DEF SeesReply, Ends
<1>9. CASE ReplyTimeout
  BY <1>9 DEF ReplyTimeout, Ends
<1>10. CASE Hello
  BY <1>10 DEF Hello, GuestAt
<1>11. CASE Poll
  BY <1>11 DEF Poll, GuestAt, RequestWaits
<1>12. CASE NextId
  BY <1>12 DEF NextId
<1>13. CASE NextLen
  BY <1>13 DEF NextLen, GuestAt
<1>14. CASE NextWord
  BY <1>14 DEF NextWord
<1>15. CASE NextTaken
  BY <1>15 DEF NextTaken
<1>16. CASE Again
  BY <1>16 DEF Again, GuestAt, RequestWaits
<1>17. CASE NoRoom
  BY <1>17 DEF NoRoom, Reply, GuestAt
<1>18. CASE Run
  BY <1>18 DEF Run
<1>19. CASE Answer
  BY <1>19 DEF Answer, Reply, GuestAt
<1>20. CASE Quit
  BY <1>20 DEF Quit, Leaves, GuestAt
<1>21. CASE Reset
  BY <1>21 DEF Reset, Leaves, GuestAt
<1>22. CASE Dies
  BY <1>22 DEF Dies, Leaves, GuestAt
<1>23. CASE UNCHANGED vars
  BY <1>23 DEF vars
<1> QED
  BY <1>1, <1>2, <1>3, <1>4, <1>5, <1>6, <1>7, <1>8, <1>9, <1>10, <1>11, <1>12, <1>13, <1>14, <1>15, <1>16, <1>17, <1>18, <1>19, <1>20, <1>21, <1>22, <1>23 DEF Next, GuestStep

-----------------------------------------------------------------------------
\* Inv is an invariant of the slot.
LEMMA SlotInv == Spec => []Inv
<1>1. Init => Inv
  BY SlotAssumption, CopyTypes
  DEF Init, Inv, TypeOK, HostInv, GuestInv, ReplyIsOwn, InNext
<1>2. Inv /\ [Next]_vars => Inv'
  BY TypeStep, HostStep, GuestStepInv, ReplyStep DEF Inv
<1> QED
  BY <1>1, <1>2, PTL DEF Spec

\* The slot's fields and both sides' places have their types, and the guest
\* only ever writes ids the host has given out.
THEOREM SlotTypeCorrect == Spec => []TypeOK
<1>1. Inv => TypeOK
  BY DEF Inv
<1> QED
  BY <1>1, SlotInv, PTL

\* A client that is told there is a reply has been given its own request's, and
\* that request was run: no timeout, late reply, second NEXT, reset or agent
\* that went away can give it another's.
THEOREM ReplyCorrect == Spec => []ReplyIsOwn
<1>1. Inv => ReplyIsOwn
  BY DEF Inv
<1> QED
  BY <1>1, SlotInv, PTL

\* A request the host has seen taken is one the agent has copied whole.
THEOREM TakenCorrect == Spec => []TakenIsWhole
<1>1. Inv => TakenIsWhole
  BY DEF Inv, TypeOK, HostInv, GuestInv, TakenIsWhole
<1> QED
  BY <1>1, SlotInv, PTL

\* Every request is run whole and at most once, for as long as the host has
\* given up none before it was taken: a take timeout is all that can make the
\* agent copy, or read the length of, a request that is not the one it saw.
THEOREM OnceCorrect == Spec => []OnceAndWhole
<1>1. Init => OnceInv
  BY SlotAssumption DEF Init, OnceInv, NoneGivenUp, Begun, InNext
<1>2. Inv /\ OnceInv /\ [Next]_vars => OnceInv'
  BY OnceStep DEF Inv
<1>3. OnceInv => OnceAndWhole
  BY DEF OnceInv, NoneGivenUp, OnceAndWhole
<1> QED
  BY <1>1, <1>2, <1>3, SlotInv, PTL DEF Spec
=============================================================================
