----------------------------- MODULE BridgeSlot -----------------------------
(***************************************************************************)
(* The bridge trap's request slot (guest_bridge.h, IPCBridgeSlot): the     *)
(* HTTP side's requests to the guest's BridgeAgent and its replies, by way *)
(* of memory that both sides read and write as they go. The host writes    *)
(* the request and then its id; the guest copies the request and then says *)
(* which it took; it writes the reply and then which request that answers. *)
(*                                                                         *)
(* A request's bytes are two words, each the client whose request it       *)
(* belongs to, which the host writes and the guest copies one at a time.   *)
(* Either wait of the host may end by its timeout at any moment.           *)
(***************************************************************************)
EXTENDS Integers

CONSTANTS
  Clients,   \* the HTTP requests, each made once
  Size,      \* the length of each one's request
  Small,     \* sizeof small: the agent's static buffer
  None,      \* no client: memory no request was written to
  MaxBoots   \* bound: machine resets, and agents that quit or die

ASSUME SlotAssumption ==
  /\ None \notin Clients
  /\ Size \in [Clients -> Nat] /\ Small \in Nat /\ MaxBoots \in Nat

VARIABLES
  agent, reqId, takenId, repId, len, req, rep,   \* the slot
  hpc, client, id, word,   \* request(): its place, whose it is, its id (next_id),
                           \* the word it writes next
  gpc, room, gid, got,     \* the agent's place, its buffer's room, and the id and
                           \* the copy NEXT has made so far
  result,   \* what each client was told, and answer: the reply it got
  answer,
  boots,    \* resets and agents gone so far
  runs,     \* history: how often each request was run, whole,
  took,     \* the copy the agent took last,
  torn      \* and 1 once it ran anything else

slot    == <<agent, reqId, takenId, repId, len, req, rep>>
host    == <<hpc, client, id, word, result, answer>>
guest   == <<gpc, room, gid, got>>
history == <<runs, took, torn>>
vars    == <<agent, reqId, takenId, repId, len, req, rep, hpc, client, id, word,
             gpc, room, gid, got, result, answer, boots, runs, took, torn>>

Words == {1, 2}
Whole(c) == [w \in Words |-> c]
NoCopy == Whole(None)

Init ==
  /\ agent = 0 /\ reqId = 0 /\ takenId = 0 /\ repId = 0
  /\ len = 0 /\ req = NoCopy /\ rep = NoCopy
  /\ hpc = "free" /\ client = None /\ id = 0 /\ word = 1
  /\ gpc = "off" /\ room = Small /\ gid = 0 /\ got = NoCopy
  /\ result = [c \in Clients |-> "none"] /\ answer = [c \in Clients |-> NoCopy]
  /\ boots = 0
  /\ runs = [c \in Clients |-> 0] /\ took = NoCopy /\ torn = 0

-----------------------------------------------------------------------------
\* bridge_wait_agent: there is an agent, or none within 15 s.
SeesAgent(c) ==
  /\ result[c] = "none" /\ agent # 0
  /\ result' = [result EXCEPT ![c] = "queued"]
  /\ UNCHANGED <<slot, hpc, client, id, word, answer, guest, boots, history>>

NoAgent(c) ==
  /\ result[c] = "none" /\ agent = 0
  /\ result' = [result EXCEPT ![c] = "noAgent"]
  /\ UNCHANGED <<slot, hpc, client, id, word, answer, guest, boots, history>>

\* request(): the mutex, an id.
Begin(c) ==
  /\ result[c] = "queued" /\ hpc = "free"
  /\ hpc' = "write" /\ client' = c /\ id' = id + 1 /\ word' = 1
  /\ result' = [result EXCEPT ![c] = "waiting"]
  /\ UNCHANGED <<slot, answer, guest, boots, history>>

\* The memcpy.
WriteWord ==
  /\ hpc = "write" /\ word \in Words
  /\ req' = [req EXCEPT ![word] = client]
  /\ word' = word + 1
  /\ UNCHANGED <<agent, reqId, takenId, repId, len, rep>>
  /\ UNCHANGED <<hpc, client, id, result, answer, guest, boots, history>>

\* The length, and then the id.
Post ==
  /\ hpc = "write" /\ word \notin Words
  /\ len' = Size[client] /\ reqId' = id
  /\ hpc' = "taking"
  /\ UNCHANGED <<agent, takenId, repId, req, rep>>
  /\ UNCHANGED <<client, id, word, result, answer, guest, boots, history>>

\* wait_for(taken_id): it is, or not in time (TakeTimeout).
SeesTaken ==
  /\ hpc = "taking" /\ takenId = id
  /\ hpc' = "replying"
  /\ UNCHANGED <<slot, client, id, word, result, answer, guest, boots, history>>

\* Mutant: the ids start again with every request.
EndsAnew(told) ==
  /\ reqId' = 0 /\ hpc' = "free" /\ client' = None /\ word' = 1 /\ id' = 0
  /\ result' = [result EXCEPT ![client] = told]
  /\ UNCHANGED <<agent, takenId, repId, len, req, rep, guest, boots, history>>

\* request() ends: the slot is empty, the mutex is free, the client is told.
Ends(told) ==
  /\ reqId' = 0 /\ hpc' = "free" /\ client' = None /\ word' = 1
  /\ result' = [result EXCEPT ![client] = told]
  /\ UNCHANGED <<agent, takenId, repId, len, req, rep, id, guest, boots, history>>

TakeTimeout ==
  /\ hpc = "taking" /\ takenId # id
  /\ Ends("notTaken")
  /\ UNCHANGED answer

\* wait_for(rep_id): the reply is read, or none in time.
SeesReply ==
  /\ hpc = "replying" /\ repId = id
  /\ Ends("reply")
  /\ answer' = [answer EXCEPT ![client] = rep]

ReplyTimeout ==
  /\ hpc = "replying" /\ repId # id
  /\ Ends("noReply")
  /\ UNCHANGED answer

-----------------------------------------------------------------------------
\* The agent is at p, with nothing copied.
GuestAt(p, n) == gpc' = p /\ room' = n /\ gid' = 0 /\ got' = NoCopy

\* AGENT_HELLO of an agent that has just started. Another one is refused: it
\* quits, and nothing has changed.
Hello ==
  /\ gpc = "off" /\ agent = 0
  /\ agent' = 2
  /\ GuestAt("idle", Small)
  /\ UNCHANGED <<reqId, takenId, repId, len, req, rep, host, boots, history>>

\* Mutant: a request that was taken waits until the host empties the slot.
RequestWaitsStill == reqId # 0

\* Mutant: no request waits while the one taken last has no reply.
RequestWaitsForReply == reqId # 0 /\ reqId # takenId /\ repId = takenId

\* request_waits.
RequestWaits == reqId # 0 /\ reqId # takenId

\* poll_v2: NEXT finds that a request waits;
Poll ==
  /\ gpc = "idle" /\ RequestWaits
  /\ GuestAt("nextId", Small)
  /\ UNCHANGED <<slot, host, boots, history>>

\* Mutant: taken before it is copied.
NextIdTaken ==
  /\ gpc = "nextId"
  /\ gid' = reqId /\ takenId' = reqId /\ gpc' = "nextLen"
  /\ UNCHANGED <<agent, reqId, repId, len, req, rep, room, got, host, boots, history>>

\* ... reads the id that is there now;
NextId ==
  /\ gpc = "nextId"
  /\ gid' = reqId /\ gpc' = "nextLen"
  /\ UNCHANGED <<slot, room, got, host, boots, history>>

\* ... its length, and copies the first word. Too small a buffer: another is
\* made; when it is that one, the answer isn't looked at, and what is in the
\* buffer is taken for a request;
NextLen ==
  /\ gpc = "nextLen"
  /\ \/ /\ len <= room
        /\ got' = [got EXCEPT ![1] = req[1]] /\ gpc' = "nextWord"
        /\ UNCHANGED <<room, gid>>
     \/ len > room /\ room = Small /\ GuestAt("tooSmall", len)
     \/ len > room /\ room # Small /\ GuestAt("run", Small)
  /\ UNCHANGED <<slot, host, boots, history>>

\* ... copies the second;
NextWord ==
  /\ gpc = "nextWord"
  /\ got' = [got EXCEPT ![2] = req[2]] /\ gpc' = "nextTaken"
  /\ UNCHANGED <<slot, room, gid, host, boots, history>>

\* ... and says which it took.
NextTaken ==
  /\ gpc = "nextTaken"
  /\ takenId' = gid /\ took' = got
  /\ gpc' = "run" /\ room' = Small /\ gid' = 0
  /\ UNCHANGED <<agent, reqId, repId, len, req, rep, got, host, boots, runs, torn>>

\* Bigger than small: NewPtr, and NEXT again; nor is its -1 looked at.
Again ==
  /\ gpc = "tooSmall"
  /\ \/ RequestWaits /\ GuestAt("nextId", room)
     \/ ~RequestWaits /\ GuestAt("run", Small)
  /\ UNCHANGED <<slot, host, boots, history>>

\* Mutant: a reply answers the request that is in the slot.
ReplyToPosted(what) ==
  /\ rep' = what /\ repId' = reqId
  /\ GuestAt("idle", Small)
  /\ UNCHANGED <<agent, reqId, takenId, len, req, host, boots, history>>

\* REPLY: the reply, and then the request it answers: the one taken last.
Reply(what) ==
  /\ rep' = what /\ repId' = takenId
  /\ GuestAt("idle", Small)
  /\ UNCHANGED <<agent, reqId, takenId, len, req, host, boots, history>>

\* No room for it: NEXT with no buffer at all (which takes nothing), and
\* memFullErr for a reply.
NoRoom == gpc = "tooSmall" /\ Reply(NoCopy)

\* The request is run.
Run ==
  /\ gpc = "run"
  /\ gpc' = "reply"
  /\ \/ \E c \in Clients : /\ got = Whole(c)
                           /\ runs' = [runs EXCEPT ![c] = @ + 1]
                           /\ UNCHANGED torn
     \/ /\ \A c \in Clients : got # Whole(c)
        /\ torn' = 1
        /\ UNCHANGED runs
  /\ UNCHANGED <<slot, room, gid, got, host, boots, took>>

Answer == gpc = "reply" /\ Reply(got)

\* The agent is gone (not within a call of the trap: the guest's CPU makes it).
Leaves(a) ==
  /\ gpc \in {"off", "idle", "tooSmall", "run", "reply"} /\ boots < MaxBoots
  /\ boots' = boots + 1 /\ agent' = a
  /\ GuestAt("off", Small)
  /\ UNCHANGED <<reqId, takenId, repId, len, req, rep, host, history>>

\* bridge_v2_stop, at the end of the agent's loop: AGENT_HELLO 0.
Quit == gpc = "idle" /\ Leaves(0)

\* reset(): no agent yet in the new boot.
Reset == agent # 0 /\ Leaves(0)

\* It dies and says nothing: the next one is refused till the machine is reset.
Dies == gpc # "off" /\ Leaves(agent)

GuestStep ==
  Poll \/ NextId \/ NextLen \/ NextWord \/ NextTaken \/ Again \/ Run \/ Answer

Next ==
  \/ \E c \in Clients : SeesAgent(c) \/ NoAgent(c) \/ Begin(c)
  \/ WriteWord \/ Post \/ SeesTaken \/ TakeTimeout \/ SeesReply \/ ReplyTimeout
  \/ Hello \/ GuestStep \/ NoRoom \/ Quit \/ Reset \/ Dies

\* The guest's CPU runs. The timeouts, and the machine's memory, are not
\* assumed to do anything.
Spec == Init /\ [][Next]_vars /\ WF_vars(GuestStep)

-----------------------------------------------------------------------------
Copies == [Words -> Clients \cup {None}]
InNext == {"nextId", "nextLen", "nextWord", "nextTaken"}

\* The slot's and both sides' states; the ids the guest writes are ones the
\* host has given out.
TypeOK ==
  /\ agent \in {0, 2}
  /\ reqId \in Nat /\ takenId \in Nat /\ repId \in Nat /\ gid \in Nat /\ id \in Nat
  /\ reqId <= id /\ takenId <= id /\ repId <= id /\ gid <= id
  /\ len \in Nat /\ req \in Copies /\ rep \in Copies
  /\ hpc \in {"free", "write", "taking", "replying"}
  /\ client \in Clients \cup {None} /\ (hpc # "free" => client \in Clients)
  /\ word \in {1, 2, 3}
  /\ gpc \in {"off", "idle", "tooSmall", "run", "reply"} \cup InNext
  /\ room \in Nat /\ got \in Copies
  /\ result \in [Clients -> {"none", "noAgent", "queued", "waiting",
                             "notTaken", "reply", "noReply"}]
  /\ answer \in [Clients -> Copies]
  /\ boots \in Nat /\ boots <= MaxBoots
  /\ runs \in [Clients -> Nat] /\ took \in Copies /\ torn \in {0, 1}

\* A client gets the reply to its own request, run whole, whatever late replies
\* to requests given up before it are still on their way.
ReplyIsOwn ==
  \A c \in Clients : result[c] = "reply" => answer[c] = Whole(c) /\ runs[c] > 0

\* Once the host has seen it taken, the agent has the whole request: "done
\* once taken" (SHUTDOWN, RESTART, EXIT) is no promise on half of one.
TakenIsWhole == hpc = "replying" => took = Whole(client)

\* Requests are run whole and at most once each, for as long as the host has
\* given none up before it was taken; a take timeout is the only thing that can
\* make the guest copy one while the next is written over it.
OnceAndWhole ==
  (\A c \in Clients : result[c] # "notTaken") =>
    torn = 0 /\ \A c \in Clients : runs[c] <= 1

\* A request that fits the agent's buffer is taken, or given up, as long as
\* there is an agent: one given up before doesn't keep it waiting.
Served ==
  (hpc = "taking" /\ Size[client] <= Small /\ gpc # "off")
    ~> (hpc # "taking" \/ takenId = id \/ gpc = "off")

\* The agent's answer to a request it has no room for reaches the host
\* ("can't: answer so the host stops waiting", BridgeAgent.c).
NoRoomIsAnswered == [][(NoRoom /\ reqId # 0) => repId' = reqId]_vars
=============================================================================
