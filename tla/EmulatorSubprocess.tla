------------------------- MODULE EmulatorSubprocess -------------------------
(***************************************************************************)
(* The server's side of a session's child process: EmulatorSubprocess      *)
(* (core/emulator_subprocess.cpp), the IPCClient it connects through, the  *)
(* guest-restart watcher of main.cpp, and the threads that read the        *)
(* child's shared memory under g_ipc_shm_mutex.                            *)
(*                                                                         *)
(* A child is a number, 0 being the null pointer, the pid -1 and the       *)
(* mapping that is not there. Code between two points at which another     *)
(* thread can see or change what it uses is one action. The parent has no  *)
(* Qt event loop: a QProcess says NotRunning only once some thread's       *)
(* waitForFinished() has collected the child (qt_running).                 *)
(***************************************************************************)
EXTENDS Naturals, FiniteSets

CONSTANTS
    Users,        \* HTTP threads that start, stop and restart the emulator
    Pollers,      \* HTTP threads in handle_status, or asking is_running()
    Watcher,      \* main.cpp's thread that starts a restarting guest again
    Encoder,      \* the video encoder: reads through ipc_shm_atom_
    Audio,        \* the audio reader and WebRTC: read through ipc_client_
    NoThread,     \* nobody holds the mutex
    MaxChildren   \* bound: children launched in a behaviour

ASSUME ThreadsAssumption ==
    /\ Users \cap Pollers = {}
    /\ {Watcher, Encoder, Audio, NoThread} \cap (Users \cup Pollers) = {}
    /\ Cardinality({Watcher, Encoder, Audio, NoThread}) = 4
    /\ MaxChildren \in Nat \ {0}

Children == 1 .. MaxChildren
Callers  == Users \cup Pollers \cup {Watcher}
Threads  == Callers \cup {Encoder, Audio}

VARIABLES
    child,            \* what each child is doing, or how it ended
    child_process,    \* child_process_: the QProcess of this child
    qt_running,       \* QProcess::state() is not NotRunning
    child_pid,        \* child_pid_
    shm,              \* ipc_client_.shm_: the child whose memory is mapped
    connected,        \* ipc_client_.connected_
    ipc_shm_atom,     \* *ipc_shm_atom_: what the encoder is shown
    have_exit,        \* have_exit_
    exit_id,          \* exit_.id
    exit_child,       \* whose end exit_ describes
    exit_code,        \* exit_.crashed and exit_.code: how it says that one ended
    handled,          \* the watcher's last exit
    lifecycle_mutex,  \* lifecycle_mutex_'s holder
    reap_mutex,       \* reap_mutex_'s holder
    readers,          \* threads that hold g_ipc_shm_mutex shared
    call,             \* the call a thread is in
    pc,               \* where in it
    ptr               \* the child a thread holds a pointer to

procVars == <<child, child_process, qt_running, child_pid>>
ipcVars  == <<shm, connected, ipc_shm_atom>>
exitVars == <<have_exit, exit_id, exit_child, exit_code, handled>>
lockVars == <<lifecycle_mutex, reap_mutex, readers>>
vars     == <<procVars, ipcVars, exitVars, lockVars, call, pc, ptr>>

\* A child boots, makes its shared memory, then listens for the parent.
Live == {c \in Children : child[c] \in {"boot", "shm", "up"}}

\* The child once its QProcess killed it, or was destroyed: if it still runs.
Ended(how) ==
    [c \in Children |-> IF c = child_process /\ c \in Live THEN how ELSE child[c]]

Init ==
    /\ child = [c \in Children |-> "none"]
    /\ child_process = 0 /\ qt_running = FALSE /\ child_pid = 0
    /\ shm = 0 /\ connected = FALSE /\ ipc_shm_atom = 0
    /\ have_exit = FALSE /\ exit_id = 0 /\ exit_child = 0 /\ exit_code = "off" /\ handled = 0
    /\ lifecycle_mutex = NoThread /\ reap_mutex = NoThread /\ readers = {}
    /\ call = [t \in Threads |-> "none"]
    /\ pc = [t \in Threads |-> "idle"]
    /\ ptr = [t \in Threads |-> 0]

Goto(t, p)   == pc' = [pc EXCEPT ![t] = p]
Point(t, c)  == ptr' = [ptr EXCEPT ![t] = c]
Called(t, n) == call' = [call EXCEPT ![t] = n]

(***************************************************************************)
(* The child (external): it gets on, or ends on its own.                   *)
(***************************************************************************)
ChildAdvances(c) ==
    /\ child[c] \in {"boot", "shm"}
    /\ child' = [child EXCEPT ![c] = IF @ = "boot" THEN "shm" ELSE "up"]
    /\ UNCHANGED <<child_process, qt_running, child_pid, ipcVars, exitVars,
                   lockVars, call, pc, ptr>>

\* A shutdown (status 0) or a crash, which the watcher does not tell apart, or
\* IPC_EXIT_GUEST_RESTART.
ChildExits(c, how) ==
    /\ c \in Live
    /\ child' = [child EXCEPT ![c] = how]
    /\ UNCHANGED <<child_process, qt_running, child_pid, ipcVars, exitVars,
                   lockVars, call, pc, ptr>>

(***************************************************************************)
(* reap_if_dead(), in start() and in is_running(). Its second step is what *)
(* follows the waitForFinished() that collects a dead child; both are      *)
(* under reap_mutex_.                                                      *)
(***************************************************************************)
AfterReap(t) == IF call[t] = "start" THEN "s_check" ELSE "q_state"

ReapLooks(t) ==
    /\ pc[t] = "reap"
    /\ reap_mutex = NoThread
    /\ IF child_process = 0 \/ child_pid = 0 \/ (qt_running /\ child_process \in Live)
       THEN /\ Goto(t, AfterReap(t))
            /\ UNCHANGED <<qt_running, reap_mutex>>
       ELSE /\ qt_running' = FALSE
            /\ reap_mutex' = t
            /\ Goto(t, "reaping")
    /\ UNCHANGED <<child, child_process, child_pid, ipcVars, exitVars,
                   lifecycle_mutex, readers, call, ptr>>

\* What exitStatus() and exitCode() say of the QProcess of c: how it ended once
\* it has been collected, status 0 until then. With none they are undefined.
ExitCodes == {"off", "restart"}
SaidExit(c) ==
    IF c = 0 THEN ExitCodes
    ELSE IF ~qt_running /\ child[c] = "restart" THEN {"restart"} ELSE {"off"}

RecordExit(c) ==
    /\ have_exit' = TRUE
    /\ exit_id' = exit_id + 1
    /\ exit_child' = c
    /\ exit_code' \in SaidExit(c)

\* It does not disconnect: its caller may hold g_ipc_shm_mutex. start() does
\* not hold reap_mutex_, so the QProcess asked for its exit may be another
\* one by now, or none.
ReapRecords(t) ==
    /\ pc[t] = "reaping"
    /\ RecordExit(child_process)
    /\ ipc_shm_atom' = 0
    /\ child_pid' = 0
    /\ reap_mutex' = NoThread
    /\ Goto(t, AfterReap(t))
    /\ UNCHANGED <<child, child_process, qt_running, shm, connected, handled,
                   lifecycle_mutex, readers, call, ptr>>

(***************************************************************************)
(* start(), under lifecycle_mutex_ and, past its reap, not reap_mutex_.    *)
(***************************************************************************)
CallStart(u) ==
    /\ pc[u] = "idle"
    /\ Called(u, "start") /\ Goto(u, "s_lock")
    /\ UNCHANGED <<procVars, ipcVars, exitVars, lockVars, ptr>>

\* Mutant: start() keeps reap_mutex_ too, which its own reap_if_dead() takes.
StartLocksBoth(t) ==
    /\ pc[t] = "s_lock"
    /\ lifecycle_mutex = NoThread /\ reap_mutex = NoThread
    /\ lifecycle_mutex' = t /\ reap_mutex' = t
    /\ Goto(t, "reap")
    /\ UNCHANGED <<procVars, ipcVars, exitVars, readers, call, ptr>>

StartLocks(t) ==
    /\ pc[t] = "s_lock"
    /\ lifecycle_mutex = NoThread
    /\ lifecycle_mutex' = t
    /\ Goto(t, "reap")
    /\ UNCHANGED <<procVars, ipcVars, exitVars, reap_mutex, readers, call, ptr>>

\* A return from start(): the mutex goes with it.
StartReturns(t) ==
    /\ lifecycle_mutex' = NoThread
    /\ Goto(t, "idle") /\ Called(t, "none") /\ Point(t, 0)
    /\ UNCHANGED <<reap_mutex, readers>>

AlreadyRunning == child_process # 0 /\ child_pid # 0 /\ qt_running

StartRefused(t) ==
    /\ pc[t] = "s_check"
    /\ AlreadyRunning
    /\ StartReturns(t)
    /\ UNCHANGED <<procVars, ipcVars, exitVars>>

\* clear_ipc_shm(), then no arguments for the child, or it does not start.
LaunchFails(t) ==
    /\ pc[t] = "s_check"
    /\ ~AlreadyRunning
    /\ ipc_shm_atom' = 0
    /\ \/ UNCHANGED <<child, child_process, qt_running, have_exit>>
       \/ /\ child' = Ended("killed")
          /\ child_process' = 0 /\ qt_running' = FALSE
          /\ have_exit' = FALSE
    /\ StartReturns(t)
    /\ UNCHANGED <<child_pid, shm, connected, exit_id, exit_child, exit_code, handled>>

\* The QProcess it replaces goes, with its process if that still runs.
Launch(t) ==
    /\ pc[t] = "s_check"
    /\ ~AlreadyRunning
    /\ \E c \in Children :
          /\ child[c] = "none"
          /\ \A d \in 1 .. c - 1 : child[d] # "none"
          /\ child' = [Ended("killed") EXCEPT ![c] = "boot"]
          /\ child_process' = c
          /\ child_pid' = c
    /\ qt_running' = TRUE
    /\ ipc_shm_atom' = 0
    /\ have_exit' = FALSE
    /\ Goto(t, "s_poll")
    /\ UNCHANGED <<shm, connected, exit_id, exit_child, exit_code, handled, lockVars, call, ptr>>

\* The poll loop sees the child gone: another thread's reap collected it.
PollFindsExit(t) ==
    /\ pc[t] = "s_poll"
    /\ ~qt_running
    /\ RecordExit(child_process)
    /\ child_process' = 0
    /\ child_pid' = 0
    /\ StartReturns(t)
    /\ UNCHANGED <<child, qt_running, ipcVars, handled>>

\* IPCClient::connect() drops an old connection first.
ConnectDropsOld(t) ==
    /\ pc[t] = "s_poll"
    /\ qt_running
    /\ connected
    /\ Goto(t, "s_disc")
    /\ UNCHANGED <<procVars, ipcVars, exitVars, lockVars, call, ptr>>

\* Mutant: the memory is unmapped without the exclusive lock.
DisconnectUnlocked(t, next) ==
    /\ shm' = 0
    /\ connected' = FALSE
    /\ Goto(t, next)
    /\ UNCHANGED <<procVars, ipc_shm_atom, exitVars, lockVars, call, ptr>>

\* IPCClient::disconnect(), called by t: g_ipc_shm_mutex exclusively.
Disconnect(t, next) ==
    /\ readers = {}
    /\ shm' = 0
    /\ connected' = FALSE
    /\ Goto(t, next)
    /\ UNCHANGED <<procVars, ipc_shm_atom, exitVars, lockVars, call, ptr>>

StartDisconnects(t) == pc[t] = "s_disc" /\ Disconnect(t, "s_poll")

\* connect_shm(): a child that died may have left its segment.
Attach(t) ==
    /\ pc[t] = "s_poll"
    /\ qt_running /\ ~connected
    /\ child_pid # 0
    /\ child[child_pid] # "boot"
    /\ shm' = child_pid
    /\ Goto(t, "s_sock")
    /\ UNCHANGED <<procVars, connected, ipc_shm_atom, exitVars, lockVars, call, ptr>>

\* No server behind one of the sockets: disconnect_shm(), with no lock.
SocketsFail(t) ==
    /\ pc[t] = "s_sock"
    /\ child[shm] # "up"
    /\ shm' = 0
    /\ Goto(t, "s_poll")
    /\ UNCHANGED <<procVars, connected, ipc_shm_atom, exitVars, lockVars, call, ptr>>

SocketsConnect(t) ==
    /\ pc[t] = "s_sock"
    /\ child[shm] = "up"
    /\ connected' = TRUE
    /\ Goto(t, "s_publish")
    /\ UNCHANGED <<procVars, shm, ipc_shm_atom, exitVars, lockVars, call, ptr>>

PublishIpcShm(t) ==
    /\ pc[t] = "s_publish"
    /\ ipc_shm_atom' = shm
    /\ StartReturns(t)
    /\ UNCHANGED <<procVars, shm, connected, exitVars>>

\* 400 attempts, 10 s: the child is killed.
StartTimesOut(t) ==
    /\ pc[t] = "s_poll"
    /\ child' = Ended("killed")
    /\ child_process' = 0 /\ qt_running' = FALSE
    /\ child_pid' = 0
    /\ StartReturns(t)
    /\ UNCHANGED <<ipcVars, exitVars>>

(***************************************************************************)
(* stop(), under both mutexes; reset() is a stop and a start.              *)
(***************************************************************************)
CallStop(u, n) ==
    /\ pc[u] = "idle"
    /\ Called(u, n) /\ Goto(u, "p_lock")
    /\ UNCHANGED <<procVars, ipcVars, exitVars, lockVars, ptr>>

StopLocks(t) ==
    /\ pc[t] = "p_lock"
    /\ lifecycle_mutex = NoThread
    /\ lifecycle_mutex' = t
    /\ Goto(t, "p_reap")
    /\ UNCHANGED <<procVars, ipcVars, exitVars, reap_mutex, readers, call, ptr>>

\* Mutant: stop() leaves the finished QProcess and its pid in place.
StopReturnsKeeping(t) ==
    /\ qt_running' = FALSE
    /\ lifecycle_mutex' = NoThread /\ reap_mutex' = NoThread
    /\ IF call[t] = "reset" THEN Called(t, "start") /\ Goto(t, "s_lock")
                            ELSE Called(t, "none") /\ Goto(t, "idle")
    /\ UNCHANGED <<child_process, child_pid, readers, ptr>>

StopReturns(t) ==
    /\ child_process' = 0 /\ qt_running' = FALSE
    /\ child_pid' = 0
    /\ lifecycle_mutex' = NoThread /\ reap_mutex' = NoThread
    /\ IF call[t] = "reset" THEN Called(t, "start") /\ Goto(t, "s_lock")
                            ELSE Called(t, "none") /\ Goto(t, "idle")
    /\ UNCHANGED <<readers, ptr>>

\* Mutant: stop() goes by the pid, which a late reap may have cleared.
StopFindsNoPid(t) ==
    /\ pc[t] = "p_reap"
    /\ reap_mutex = NoThread
    /\ child_pid = 0 \/ ~qt_running
    /\ StopReturns(t)
    /\ UNCHANGED <<child, ipcVars, exitVars>>

StopFindsNone(t) ==
    /\ pc[t] = "p_reap"
    /\ reap_mutex = NoThread
    /\ child_process = 0 \/ ~qt_running
    /\ StopReturns(t)
    /\ UNCHANGED <<child, ipcVars, exitVars>>

\* Mutant: stop() disconnects with the pointer still published.
StopKeepsAtom(t) ==
    /\ pc[t] = "p_reap"
    /\ reap_mutex = NoThread
    /\ child_process # 0 /\ qt_running
    /\ reap_mutex' = t
    /\ Goto(t, "p_disc")
    /\ UNCHANGED <<procVars, ipcVars, exitVars, lifecycle_mutex, readers, call, ptr>>

StopClears(t) ==
    /\ pc[t] = "p_reap"
    /\ reap_mutex = NoThread
    /\ child_process # 0 /\ qt_running
    /\ reap_mutex' = t
    /\ ipc_shm_atom' = 0
    /\ Goto(t, "p_disc")
    /\ UNCHANGED <<procVars, shm, connected, exitVars, lifecycle_mutex, readers,
                   call, ptr>>

StopDisconnects(t) == pc[t] = "p_disc" /\ Disconnect(t, "p_kill")

\* terminate(), and kill() if that is not enough.
StopKills(t) ==
    /\ pc[t] = "p_kill"
    /\ child' = Ended("stopped")
    /\ StopReturns(t)
    /\ UNCHANGED <<ipcVars, exitVars>>

(***************************************************************************)
(* is_running(): alone, in handle_status (which holds g_ipc_shm_mutex      *)
(* shared around it and then reads the memory) and in the watcher.         *)
(***************************************************************************)
CallIsRunning(t) ==
    /\ pc[t] = "idle"
    /\ Called(t, IF t = Watcher THEN "watch" ELSE "running")
    /\ Goto(t, "reap")
    /\ UNCHANGED <<procVars, ipcVars, exitVars, lockVars, ptr>>

CallStatus(t) ==
    /\ pc[t] = "idle"
    /\ readers' = readers \cup {t}
    /\ Called(t, "status") /\ Goto(t, "reap")
    /\ UNCHANGED <<procVars, ipcVars, exitVars, lifecycle_mutex, reap_mutex, ptr>>

\* What is_running()'s caller does next.
Answered(t, running) ==
    CASE call[t] = "status" -> Goto(t, "q_buf") /\ UNCHANGED call
      [] call[t] = "watch" /\ ~running -> Goto(t, "w_exit") /\ UNCHANGED call
      [] OTHER -> Goto(t, "idle") /\ Called(t, "none")

IsRunningState(t) ==
    /\ pc[t] = "q_state"
    /\ IF child_pid # 0 /\ connected /\ shm # 0
       THEN Point(t, shm) /\ Goto(t, "q_deref") /\ UNCHANGED call
       ELSE Answered(t, FALSE) /\ UNCHANGED ptr
    /\ UNCHANGED <<procVars, ipcVars, exitVars, lockVars>>

\* buf->state is IPC_STATE_RUNNING from the moment the memory exists.
IsRunningReads(t) ==
    /\ pc[t] = "q_deref"
    /\ Point(t, 0)
    /\ Answered(t, TRUE)
    /\ UNCHANGED <<procVars, ipcVars, exitVars, lockVars>>

StatusLoadsBuf(t) ==
    /\ pc[t] = "q_buf"
    /\ Point(t, shm)
    /\ Goto(t, "q_read")
    /\ UNCHANGED <<procVars, ipcVars, exitVars, lockVars, call>>

StatusReads(t) ==
    /\ pc[t] = "q_read"
    /\ readers' = readers \ {t}
    /\ Point(t, 0)
    /\ Goto(t, "idle") /\ Called(t, "none")
    /\ UNCHANGED <<procVars, ipcVars, exitVars, lifecycle_mutex, reap_mutex>>

\* Mutant: the watcher marks the exit after the one it handles.
WatcherChecksNext ==
    /\ pc[Watcher] = "w_exit"
    /\ IF have_exit /\ exit_id # handled /\ exit_code = "restart"
       THEN /\ handled' = exit_id + 1
            /\ Called(Watcher, "start") /\ Goto(Watcher, "s_lock")
       ELSE /\ UNCHANGED handled
            /\ Called(Watcher, "none") /\ Goto(Watcher, "idle")
    /\ UNCHANGED <<procVars, ipcVars, have_exit, exit_id, exit_child, exit_code, lockVars, ptr>>

\* The watcher: an exit it has not handled, that asks for a restart.
WatcherChecks ==
    /\ pc[Watcher] = "w_exit"
    /\ IF have_exit /\ exit_id # handled /\ exit_code = "restart"
       THEN /\ handled' = exit_id
            /\ Called(Watcher, "start") /\ Goto(Watcher, "s_lock")
       ELSE /\ UNCHANGED handled
            /\ Called(Watcher, "none") /\ Goto(Watcher, "idle")
    /\ UNCHANGED <<procVars, ipcVars, have_exit, exit_id, exit_child, exit_code, lockVars, ptr>>

(***************************************************************************)
(* The readers, with g_ipc_shm_mutex held shared while they read.          *)
(***************************************************************************)
EncoderLoads ==
    /\ pc[Encoder] = "idle"
    /\ ipc_shm_atom # 0
    /\ readers' = readers \cup {Encoder}
    /\ Point(Encoder, ipc_shm_atom)
    /\ Goto(Encoder, "read")
    /\ UNCHANGED <<procVars, ipcVars, exitVars, lifecycle_mutex, reap_mutex, call>>

AudioLoads ==
    /\ pc[Audio] = "idle"
    /\ shm # 0 /\ connected
    /\ readers' = readers \cup {Audio}
    /\ Point(Audio, shm)
    /\ Goto(Audio, "read")
    /\ UNCHANGED <<procVars, ipcVars, exitVars, lifecycle_mutex, reap_mutex, call>>

ReaderDone(r) ==
    /\ pc[r] = "read"
    /\ readers' = readers \ {r}
    /\ Point(r, 0)
    /\ Goto(r, "idle")
    /\ UNCHANGED <<procVars, ipcVars, exitVars, lifecycle_mutex, reap_mutex, call>>

-----------------------------------------------------------------------------
\* One step of a call that is under way.
Step(t) ==
    \/ ReapLooks(t) \/ ReapRecords(t)
    \/ StartLocks(t) \/ StartRefused(t) \/ LaunchFails(t) \/ Launch(t)
    \/ PollFindsExit(t) \/ ConnectDropsOld(t) \/ StartDisconnects(t)
    \/ Attach(t) \/ SocketsFail(t) \/ SocketsConnect(t) \/ PublishIpcShm(t)
    \/ StartTimesOut(t)
    \/ StopLocks(t) \/ StopFindsNone(t) \/ StopClears(t) \/ StopDisconnects(t)
    \/ StopKills(t)
    \/ IsRunningState(t) \/ IsRunningReads(t) \/ StatusLoadsBuf(t) \/ StatusReads(t)

Next ==
    \/ \E c \in Children : ChildAdvances(c)
    \/ \E c \in Children, how \in ExitCodes : ChildExits(c, how)
    \/ \E u \in Users : CallStart(u) \/ CallStop(u, "stop") \/ CallStop(u, "reset")
    \/ \E p \in Pollers : CallStatus(p)
    \/ \E p \in Pollers \cup {Watcher} : CallIsRunning(p)
    \/ \E t \in Callers : Step(t)
    \/ WatcherChecks
    \/ EncoderLoads \/ AudioLoads
    \/ \E r \in {Encoder, Audio} : ReaderDone(r)

Spec == Init /\ [][Next]_vars

-----------------------------------------------------------------------------
TypeOK ==
    /\ child \in [Children -> {"none", "boot", "shm", "up", "off", "restart", "killed", "stopped"}]
    /\ exit_code \in ExitCodes
    /\ {child_process, child_pid, shm, ipc_shm_atom, exit_child} \subseteq 0 .. MaxChildren
    /\ {qt_running, connected, have_exit} \subseteq BOOLEAN
    /\ exit_id \in Nat /\ handled \in 0 .. exit_id
    /\ lifecycle_mutex \in Users \cup {Watcher, NoThread}
    /\ reap_mutex \in Callers \cup {NoThread}
    /\ readers \subseteq Pollers \cup {Encoder, Audio}
    /\ call \in [Threads -> {"none", "start", "stop", "reset", "running", "status", "watch"}]
    /\ pc \in [Threads -> {"idle", "reap", "reaping", "s_lock", "s_check", "s_poll",
                           "s_disc", "s_sock", "s_publish", "p_lock", "p_reap", "p_disc",
                           "p_kill", "q_state", "q_deref", "q_buf", "q_read", "w_exit",
                           "read"}]
    /\ ptr \in [Threads -> 0 .. MaxChildren]

\* The pointer shown to the encoder is null or the mapping that is there,
\* whatever the child did and whichever start(), stop() or reap is under way:
\* clear_ipc_shm() comes before every disconnect and every connect.
AtomMapped == ipc_shm_atom \in {0, shm}

\* What a reader that holds g_ipc_shm_mutex points to stays mapped: the
\* encoder with what it loaded from the atom, the audio reader with what it
\* took from a connected client, a handler inside is_running().
\* handle_status's own reads are not in it: connect()'s error path, which
\* takes no lock, can unmap them (SocketsFail).
ReadersMapped ==
    /\ \A r \in {Encoder, Audio} : ptr[r] \in {0, shm}
    /\ \A p \in Pollers \cap readers : pc[p] = "q_deref" => ptr[p] = shm

\* When stop() returns, no child runs: neither one whose exit another thread
\* was just collecting, nor one it could not see.
StopLeavesNone ==
    [][\A u \in Users :
         pc[u] \in {"p_reap", "p_kill"} /\ pc'[u] \in {"idle", "s_lock"}
           => Live' = {}]_vars

\* The end of a child that stop() ended is never recorded (main.cpp ends the
\* server, or starts the child again, on what is).
StopNotRecorded ==
    [][exit_id' # exit_id /\ exit_child' # 0 => child[exit_child'] # "stopped"]_vars

\* What last_exit() tells of is how a child died: main.cpp:940 ends the server
\* on status 0, and :956 starts the child again. The code is not that of a
\* child that runs, which a reap that began before start() may have asked.
ExitIsOfTheDead == have_exit /\ exit_child # 0 => exit_child \notin Live

\* Whom a thread that cannot go on waits for.
WaitsFor(t) ==
    CASE pc[t] \in {"s_lock", "p_lock"} -> {lifecycle_mutex}
      [] pc[t] \in {"reap", "p_reap"}   -> {reap_mutex}
      [] pc[t] \in {"s_disc", "p_disc"} -> readers
      [] OTHER -> {}

\* Threads that wait for each other in a ring.
Deadlocked(S) == \A t \in S : WaitsFor(t) \cap S # {}

\* The comment in stop(): readers that hold the shared lock finish, and
\* disconnect() then gets it. No threads wait for each other for ever.
ReadersFinish == \A S \in SUBSET Callers : S # {} => ~Deadlocked(S)

\* Nothing but this deadlocks: a stop() that holds reap_mutex_ and waits for
\* the readers, and a handle_status that is a reader and waits for
\* reap_mutex_. A reap never waits for a reader.
OnlyStatusDeadlocks ==
    \A S \in SUBSET Callers :
        S # {} /\ Deadlocked(S)
          => \E u \in S, p \in Pollers \cap readers :
                pc[u] = "p_disc" /\ reap_mutex = u /\ pc[p] = "reap"
=============================================================================
