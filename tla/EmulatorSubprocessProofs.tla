---------------------- MODULE EmulatorSubprocessProofs ----------------------
(***************************************************************************)
(* EmulatorSubprocess for any number of HTTP threads and of children:      *)
(* what the readers of the shared memory point to stays mapped, stop()     *)
(* leaves no child and its child's end is not recorded, and the one ring   *)
(* of waiting threads there can be is the one of stop() and handle_status. *)
(***************************************************************************)
EXTENDS EmulatorSubprocess, FiniteSetTheorems, TLAPS

\* Past start()'s and stop()'s lock_guard of lifecycle_mutex_.
InLifecycle(t) ==
  \/ pc[t] \in {"s_check", "s_poll", "s_disc", "s_sock", "s_publish",
                "p_reap", "p_disc", "p_kill"}
  \/ pc[t] \in {"reap", "reaping"} /\ call[t] = "start"

\* Where a thread can be in the call it has made, and who makes which call.
CallInv ==
  \A t \in Threads :
    /\ pc[t] \in {"idle", "read"} => call[t] = "none"
    /\ pc[t] \in {"s_lock", "s_check", "s_poll", "s_disc", "s_sock", "s_publish"}
         => call[t] = "start"
    /\ pc[t] \in {"p_lock", "p_reap", "p_disc", "p_kill"} => call[t] \in {"stop", "reset"}
    /\ pc[t] \in {"reap", "reaping"} => call[t] \in {"start", "running", "status", "watch"}
    /\ pc[t] \in {"q_state", "q_deref"} => call[t] \in {"running", "status", "watch"}
    /\ pc[t] \in {"q_buf", "q_read"} => call[t] = "status"
    /\ pc[t] = "w_exit" => call[t] = "watch"
    /\ pc[t] = "read" => t \in {Encoder, Audio}
    /\ call[t] = "start" => t \in Users \cup {Watcher}
    /\ call[t] \in {"stop", "reset"} => t \in Users
    /\ call[t] \in {"running", "status"} => t \in Pollers
    /\ call[t] = "watch" => t = Watcher

\* A mutex has the holder the code's lock_guards give it, so that one thread
\* at a time is past each, and g_ipc_shm_mutex the shared holders.
LockInv ==
  \A t \in Threads :
    /\ InLifecycle(t) <=> lifecycle_mutex = t
    /\ pc[t] \in {"reaping", "p_disc", "p_kill"} <=> reap_mutex = t
    /\ t \in readers <=> call[t] = "status" \/ pc[t] = "read"

\* What is mapped. A published pointer, and one a reader took, is that of a
\* connected client; while a start() connects or a stop() disconnects, none
\* is published.
MapInv ==
  /\ ipc_shm_atom # 0 => connected /\ ipc_shm_atom = shm
  /\ \A t \in Callers :
       /\ pc[t] \in {"s_poll", "s_disc", "s_sock", "s_publish", "p_disc"} => ipc_shm_atom = 0
       /\ pc[t] = "s_sock" => ~connected /\ shm # 0
       /\ pc[t] = "s_publish" => connected
  /\ \A r \in {Encoder, Audio} : IF pc[r] = "read" THEN connected /\ ptr[r] = shm
                                                   ELSE ptr[r] = 0
  /\ \A p \in Pollers :
       pc[p] = "q_deref" /\ call[p] = "status" => connected /\ ptr[p] = shm

\* A child that runs is the QProcess's, which has not been seen to end; and
\* the QProcess there is, stop() did not end.
ChildInv ==
  /\ \A c \in Live : c = child_process /\ qt_running
  /\ child_process # 0 => child[child_process] # "stopped"

\* The inductive invariant: the memory is safe because both mutexes and the
\* readers keep the threads that map and unmap apart from those that read.
Inv == TypeOK /\ CallInv /\ LockInv /\ MapInv /\ ChildInv

-----------------------------------------------------------------------------
\* Three names make a set of at most three.
LEMMA ThreeNames == ASSUME NEW a, NEW b, NEW c PROVE Cardinality({a, b, c}) <= 3
<1>1. IsFiniteSet({}) /\ Cardinality({}) = 0
  BY FS_EmptySet
<1>2. IsFiniteSet({a}) /\ Cardinality({a}) = 1
  BY FS_Singleton
<1>3. IsFiniteSet({a} \cup {b}) /\ Cardinality({a} \cup {b}) <= 2
  BY <1>2, FS_AddElement
<1>4. Cardinality(({a} \cup {b}) \cup {c}) <= 3
  <2> DEFINE S == {a} \cup {b}
  <2>1. IsFiniteSet(S) /\ Cardinality(S) <= 2 /\ Cardinality(S) \in Nat
    BY <1>3, FS_CardinalityType
  <2> HIDE DEF S
  <2>2. Cardinality(S \cup {c}) = IF c \in S THEN Cardinality(S) ELSE Cardinality(S) + 1
    BY <2>1, FS_AddElement
  <2>3. Cardinality(S \cup {c}) <= 3
    BY <2>1, <2>2
  <2> QED
    BY <2>3 DEF S
<1>5. {a, b, c} = ({a} \cup {b}) \cup {c}
  OBVIOUS
<1> QED
  BY <1>4, <1>5

\* The threads that are not HTTP threads are four, and none of those.
LEMMA Distinct ==
  /\ Watcher # Encoder /\ Watcher # Audio /\ Watcher # NoThread
  /\ Encoder # Audio /\ Encoder # NoThread /\ Audio # NoThread
  /\ \A t \in Users : t \notin Pollers /\ t \notin {Watcher, Encoder, Audio, NoThread}
  /\ \A t \in Pollers : t \notin Users /\ t \notin {Watcher, Encoder, Audio, NoThread}
<1>1. Cardinality({Watcher, Encoder, Audio, NoThread}) = 4
  BY ThreadsAssumption
<1>2. ASSUME Watcher = Encoder PROVE FALSE
  <2>1. {Watcher, Encoder, Audio, NoThread} = {Encoder, Audio, NoThread}
    BY <1>2
  <2>2. Cardinality({Encoder, Audio, NoThread}) <= 3
    BY ThreeNames
  <2> QED
    BY <1>1, <2>1, <2>2
<1>3. ASSUME Watcher = Audio PROVE FALSE
  <2>1. {Watcher, Encoder, Audio, NoThread} = {Encoder, Audio, NoThread}
    BY <1>3
  <2>2. Cardinality({Encoder, Audio, NoThread}) <= 3
    BY ThreeNames
  <2> QED
    BY <1>1, <2>1, <2>2
<1>4. ASSUME Watcher = NoThread PROVE FALSE
  <2>1. {Watcher, Encoder, Audio, NoThread} = {Encoder, Audio, NoThread}
    BY <1>4
  <2>2. Cardinality({Encoder, Audio, NoThread}) <= 3
    BY ThreeNames
  <2> QED
    BY <1>1, <2>1, <2>2
<1>5. ASSUME Encoder = Audio PROVE FALSE
  <2>1. {Watcher, Encoder, Audio, NoThread} = {Watcher, Audio, NoThread}
    BY <1>5
  <2>2. Cardinality({Watcher, Audio, NoThread}) <= 3
    BY ThreeNames
  <2> QED
    BY <1>1, <2>1, <2>2
<1>6. ASSUME Encoder = NoThread PROVE FALSE
  <2>1. {Watcher, Encoder, Audio, NoThread} = {Watcher, Audio, NoThread}
    BY <1>6
  <2>2. Cardinality({Watcher, Audio, NoThread}) <= 3
    BY ThreeNames
  <2> QED
    BY <1>1, <2>1, <2>2
<1>7. ASSUME Audio = NoThread PROVE FALSE
  <2>1. {Watcher, Encoder, Audio, NoThread} = {Watcher, Encoder, NoThread}
    BY <1>7
  <2>2. Cardinality({Watcher, Encoder, NoThread}) <= 3
    BY ThreeNames
  <2> QED
    BY <1>1, <2>1, <2>2
<1> QED
  BY <1>2, <1>3, <1>4, <1>5, <1>6, <1>7, ThreadsAssumption

\* A child that is ended is one that was killed or stopped.
LEMMA EndedType ==
  ASSUME TypeOK, NEW how \in {"killed", "stopped"}
  PROVE  Ended(how) \in [Children -> {"none", "boot", "shm", "up", "off", "restart", "killed", "stopped"}]
  BY DEF TypeOK, Ended

\* Every step keeps the types: only a user or the watcher takes lifecycle_mutex_.
LEMMA TypeStep == TypeOK /\ CallInv /\ LockInv /\ [Next]_vars => TypeOK'
<1> SUFFICES ASSUME TypeOK, CallInv, LockInv, [Next]_vars PROVE TypeOK'
  OBVIOUS
<1> USE ThreadsAssumption, Distinct DEF TypeOK, Callers, Threads, Children, procVars, ipcVars, exitVars, lockVars
<1>1. ASSUME NEW c \in Children, ChildAdvances(c) PROVE TypeOK'
  BY <1>1 DEF ChildAdvances
<1>2. ASSUME NEW c \in Children, NEW how \in ExitCodes, ChildExits(c, how) PROVE TypeOK'
  BY <1>2 DEF ChildExits, ExitCodes
<1>3. ASSUME NEW u \in Users, CallStart(u) PROVE TypeOK'
  BY <1>3 DEF CallStart, Called, Goto
<1>4. ASSUME NEW u \in Users, NEW n \in {"stop", "reset"}, CallStop(u, n) PROVE TypeOK'
  BY <1>4 DEF CallStop, Called, Goto
<1>5. ASSUME NEW p \in Pollers, CallStatus(p) PROVE TypeOK'
  BY <1>5 DEF CallStatus, Called, Goto
<1>6. ASSUME NEW p \in Pollers \cup {Watcher}, CallIsRunning(p) PROVE TypeOK'
  BY <1>6 DEF CallIsRunning, Called, Goto
<1>7. ASSUME NEW t \in Callers, ReapLooks(t) PROVE TypeOK'
  BY ZenonT(30), <1>7 DEF ReapLooks, AfterReap, Goto
<1>8. ASSUME NEW t \in Callers, ReapRecords(t) PROVE TypeOK'
  BY <1>8 DEF ReapRecords, AfterReap, RecordExit, SaidExit, ExitCodes, Goto
<1>9. ASSUME NEW t \in Callers, StartLocks(t) PROVE TypeOK'
  <2>1. t \in Users \cup {Watcher}
    BY <1>9 DEF StartLocks, CallInv
  <2> QED
    BY <1>9, <2>1 DEF StartLocks, Goto
<1>10. ASSUME NEW t \in Callers, StartRefused(t) PROVE TypeOK'
  BY <1>10 DEF StartRefused, StartReturns, Goto, Called, Point
<1>11. ASSUME NEW t \in Callers, LaunchFails(t) PROVE TypeOK'
  <2>1. child' \in [Children -> {"none", "boot", "shm", "up", "off", "restart", "killed", "stopped"}]
    BY <1>11, EndedType DEF LaunchFails
  <2>2. {qt_running', connected', have_exit'} \subseteq BOOLEAN
    BY <1>11 DEF LaunchFails
  <2>3. {child_process', child_pid', shm', ipc_shm_atom', exit_child'} \subseteq 0 .. MaxChildren
    BY <1>11 DEF LaunchFails
  <2> QED
    BY <1>11, <2>1, <2>2, <2>3 DEF LaunchFails, StartReturns, Goto, Called, Point
<1>12. ASSUME NEW t \in Callers, Launch(t) PROVE TypeOK'
  <2>1. child' \in [Children -> {"none", "boot", "shm", "up", "off", "restart", "killed", "stopped"}]
    BY <1>12, EndedType DEF Launch
  <2>2. {child_process', child_pid', shm', ipc_shm_atom', exit_child'} \subseteq 0 .. MaxChildren
    BY <1>12 DEF Launch
  <2> QED
    BY <1>12, <2>1, <2>2 DEF Launch, Goto
<1>13. ASSUME NEW t \in Callers, PollFindsExit(t) PROVE TypeOK'
  BY <1>13 DEF PollFindsExit, RecordExit, SaidExit, ExitCodes, StartReturns, Goto, Called, Point
<1>14. ASSUME NEW t \in Callers, ConnectDropsOld(t) PROVE TypeOK'
  BY <1>14 DEF ConnectDropsOld, Goto
<1>15. ASSUME NEW t \in Callers, StartDisconnects(t) PROVE TypeOK'
  <2>1. {qt_running', connected', have_exit'} \subseteq BOOLEAN
    BY <1>15 DEF StartDisconnects, Disconnect
  <2> QED
    BY <1>15, <2>1 DEF StartDisconnects, Disconnect, Goto
<1>16. ASSUME NEW t \in Callers, Attach(t) PROVE TypeOK'
  BY <1>16 DEF Attach, Goto
<1>17. ASSUME NEW t \in Callers, SocketsFail(t) PROVE TypeOK'
  BY <1>17 DEF SocketsFail, Goto
<1>18. ASSUME NEW t \in Callers, SocketsConnect(t) PROVE TypeOK'
  BY <1>18 DEF SocketsConnect, Goto
<1>19. ASSUME NEW t \in Callers, PublishIpcShm(t) PROVE TypeOK'
  BY <1>19 DEF PublishIpcShm, StartReturns, Goto, Called, Point
<1>20. ASSUME NEW t \in Callers, StartTimesOut(t) PROVE TypeOK'
  <2>1. child' \in [Children -> {"none", "boot", "shm", "up", "off", "restart", "killed", "stopped"}]
    BY <1>20, EndedType DEF StartTimesOut
  <2>2. {qt_running', connected', have_exit'} \subseteq BOOLEAN
    BY <1>20 DEF StartTimesOut
  <2>3. {child_process', child_pid', shm', ipc_shm_atom', exit_child'} \subseteq 0 .. MaxChildren
    BY <1>20 DEF StartTimesOut
  <2> QED
    BY <1>20, <2>1, <2>2, <2>3 DEF StartTimesOut, StartReturns, Goto, Called, Point
<1>21. ASSUME NEW t \in Callers, StopLocks(t) PROVE TypeOK'
  <2>1. t \in Users \cup {Watcher}
    BY <1>21 DEF StopLocks, CallInv
  <2> QED
    BY <1>21, <2>1 DEF StopLocks, Goto
<1>22. ASSUME NEW t \in Callers, StopFindsNone(t) PROVE TypeOK'
  <2>1. {qt_running', connected', have_exit'} \subseteq BOOLEAN
    BY <1>22 DEF StopFindsNone, StopReturns
  <2> QED
    BY <1>22, <2>1 DEF StopFindsNone, StopReturns, Goto, Called
<1>23. ASSUME NEW t \in Callers, StopClears(t) PROVE TypeOK'
  BY <1>23 DEF StopClears, Goto
<1>24. ASSUME NEW t \in Callers, StopDisconnects(t) PROVE TypeOK'
  <2>1. {qt_running', connected', have_exit'} \subseteq BOOLEAN
    BY <1>24 DEF StopDisconnects, Disconnect
  <2> QED
    BY <1>24, <2>1 DEF StopDisconnects, Disconnect, Goto
<1>25. ASSUME NEW t \in Callers, StopKills(t) PROVE TypeOK'
  <2>1. child' \in [Children -> {"none", "boot", "shm", "up", "off", "restart", "killed", "stopped"}]
    BY <1>25, EndedType DEF StopKills
  <2>2. {qt_running', connected', have_exit'} \subseteq BOOLEAN
    BY <1>25 DEF StopKills, StopReturns
  <2>3. {child_process', child_pid', shm', ipc_shm_atom', exit_child'} \subseteq 0 .. MaxChildren
    BY <1>25 DEF StopKills, StopReturns
  <2>4. call' \in [Threads -> {"none", "start", "stop", "reset", "running", "status", "watch"}]
    BY <1>25 DEF StopKills, StopReturns, Called
  <2> QED
    BY ZenonT(30), <1>25, <2>1, <2>2, <2>3, <2>4 DEF StopKills, StopReturns, Goto, Called
<1>26. ASSUME NEW t \in Callers, IsRunningState(t) PROVE TypeOK'
  <2>1. ptr' \in [Threads -> 0 .. MaxChildren]
    BY ZenonT(30), <1>26 DEF IsRunningState, Point
  <2>2. UNCHANGED <<procVars, ipcVars, exitVars, lockVars>>
    BY <1>26 DEF IsRunningState
  <2>3. CASE UNCHANGED call /\ Goto(t, "q_deref")
    BY <2>1, <2>2, <2>3 DEF Goto
  <2>4. CASE Answered(t, FALSE)
    <3>1. call' \in [Threads -> {"none", "start", "stop", "reset", "running", "status", "watch"}]
      BY <2>4 DEF Answered, Called
    <3>2. \/ Goto(t, "q_buf") \/ Goto(t, "w_exit") \/ Goto(t, "idle")
      BY <2>4 DEF Answered
    <3> QED
      BY <2>1, <2>2, <3>1, <3>2 DEF Goto
  <2> QED
    BY <1>26, <2>3, <2>4 DEF IsRunningState
<1>27. ASSUME NEW t \in Callers, IsRunningReads(t) PROVE TypeOK'
  BY <1>27 DEF IsRunningReads, Answered, Goto, Called, Point
<1>28. ASSUME NEW t \in Callers, StatusLoadsBuf(t) PROVE TypeOK'
  BY <1>28 DEF StatusLoadsBuf, Goto, Point
<1>29. ASSUME NEW t \in Callers, StatusReads(t) PROVE TypeOK'
  BY <1>29 DEF StatusReads, Goto, Called, Point
<1>30. CASE WatcherChecks
  BY <1>30 DEF WatcherChecks, Called, Goto
<1>31. CASE EncoderLoads
  BY <1>31 DEF EncoderLoads, Goto, Point
<1>32. CASE AudioLoads
  BY <1>32 DEF AudioLoads, Goto, Point
<1>33. ASSUME NEW r \in {Encoder, Audio}, ReaderDone(r) PROVE TypeOK'
  BY <1>33 DEF ReaderDone, Goto, Point
<1>34. CASE UNCHANGED vars
  BY <1>34 DEF vars
<1> HIDE DEF TypeOK, Callers, Threads, Children, procVars, ipcVars, exitVars, lockVars
<1> QED
  BY <1>1, <1>2, <1>3, <1>4, <1>5, <1>6, <1>7, <1>8, <1>9, <1>10, <1>11, <1>12,
     <1>13, <1>14, <1>15, <1>16, <1>17, <1>18, <1>19, <1>20, <1>21, <1>22, <1>23,
     <1>24, <1>25, <1>26, <1>27, <1>28, <1>29, <1>30, <1>31, <1>32, <1>33, <1>34
  DEF Next, Step

\* Every step leaves a thread at a place of its call.
LEMMA CallStep == TypeOK /\ CallInv /\ [Next]_vars => CallInv'
<1> SUFFICES ASSUME TypeOK, CallInv, [Next]_vars PROVE CallInv'
  OBVIOUS
<1> USE Distinct DEF TypeOK, CallInv, Callers, Threads, procVars, ipcVars, exitVars, lockVars
<1>1. ASSUME NEW c \in Children, ChildAdvances(c) PROVE CallInv'
  BY <1>1 DEF ChildAdvances
<1>2. ASSUME NEW c \in Children, NEW how \in ExitCodes, ChildExits(c, how) PROVE CallInv'
  BY <1>2 DEF ChildExits, ExitCodes
<1>3. ASSUME NEW u \in Users, CallStart(u) PROVE CallInv'
  BY <1>3 DEF CallStart, Called, Goto
<1>4. ASSUME NEW u \in Users, NEW n \in {"stop", "reset"}, CallStop(u, n) PROVE CallInv'
  BY <1>4 DEF CallStop, Called, Goto
<1>5. ASSUME NEW p \in Pollers, CallStatus(p) PROVE CallInv'
  BY <1>5 DEF CallStatus, Called, Goto
<1>6. ASSUME NEW p \in Pollers \cup {Watcher}, CallIsRunning(p) PROVE CallInv'
  BY <1>6 DEF CallIsRunning, Called, Goto
<1>7. ASSUME NEW t \in Callers, ReapLooks(t) PROVE CallInv'
  BY <1>7 DEF ReapLooks, AfterReap, Goto
<1>8. ASSUME NEW t \in Callers, ReapRecords(t) PROVE CallInv'
  BY <1>8 DEF ReapRecords, AfterReap, RecordExit, Goto
<1>9. ASSUME NEW t \in Callers, StartLocks(t) PROVE CallInv'
  BY <1>9 DEF StartLocks, Goto
<1>10. ASSUME NEW t \in Callers, StartRefused(t) PROVE CallInv'
  BY <1>10 DEF StartRefused, StartReturns, Goto, Called, Point
<1>11. ASSUME NEW t \in Callers, LaunchFails(t) PROVE CallInv'
  BY <1>11 DEF LaunchFails, Ended, StartReturns, Goto, Called, Point
<1>12. ASSUME NEW t \in Callers, Launch(t) PROVE CallInv'
  BY <1>12 DEF Launch, Ended, Goto
<1>13. ASSUME NEW t \in Callers, PollFindsExit(t) PROVE CallInv'
  BY <1>13 DEF PollFindsExit, RecordExit, StartReturns, Goto, Called, Point
<1>14. ASSUME NEW t \in Callers, ConnectDropsOld(t) PROVE CallInv'
  BY <1>14 DEF ConnectDropsOld, Goto
<1>15. ASSUME NEW t \in Callers, StartDisconnects(t) PROVE CallInv'
  BY <1>15 DEF StartDisconnects, Disconnect, Goto
<1>16. ASSUME NEW t \in Callers, Attach(t) PROVE CallInv'
  BY <1>16 DEF Attach, Goto
<1>17. ASSUME NEW t \in Callers, SocketsFail(t) PROVE CallInv'
  BY <1>17 DEF SocketsFail, Goto
<1>18. ASSUME NEW t \in Callers, SocketsConnect(t) PROVE CallInv'
  BY <1>18 DEF SocketsConnect, Goto
<1>19. ASSUME NEW t \in Callers, PublishIpcShm(t) PROVE CallInv'
  BY <1>19 DEF PublishIpcShm, StartReturns, Goto, Called, Point
<1>20. ASSUME NEW t \in Callers, StartTimesOut(t) PROVE CallInv'
  BY <1>20 DEF StartTimesOut, Ended, StartReturns, Goto, Called, Point
<1>21. ASSUME NEW t \in Callers, StopLocks(t) PROVE CallInv'
  BY <1>21 DEF StopLocks, Goto
<1>22. ASSUME NEW t \in Callers, StopFindsNone(t) PROVE CallInv'
  BY <1>22 DEF StopFindsNone, StopReturns, Goto, Called
<1>23. ASSUME NEW t \in Callers, StopClears(t) PROVE CallInv'
  BY <1>23 DEF StopClears, Goto
<1>24. ASSUME NEW t \in Callers, StopDisconnects(t) PROVE CallInv'
  BY <1>24 DEF StopDisconnects, Disconnect, Goto
<1>25. ASSUME NEW t \in Callers, StopKills(t) PROVE CallInv'
  BY <1>25 DEF StopKills, Ended, StopReturns, Goto, Called
<1>26. ASSUME NEW t \in Callers, IsRunningState(t) PROVE CallInv'
  BY <1>26 DEF IsRunningState, Answered, Goto, Called, Point
<1>27. ASSUME NEW t \in Callers, IsRunningReads(t) PROVE CallInv'
  BY <1>27 DEF IsRunningReads, Answered, Goto, Called, Point
<1>28. ASSUME NEW t \in Callers, StatusLoadsBuf(t) PROVE CallInv'
  BY <1>28 DEF StatusLoadsBuf, Goto, Point
<1>29. ASSUME NEW t \in Callers, StatusReads(t) PROVE CallInv'
  BY <1>29 DEF StatusReads, Goto, Called, Point
<1>30. CASE WatcherChecks
  BY <1>30 DEF WatcherChecks, Called, Goto
<1>31. CASE EncoderLoads
  BY <1>31 DEF EncoderLoads, Goto, Point
<1>32. CASE AudioLoads
  BY <1>32 DEF AudioLoads, Goto, Point
<1>33. ASSUME NEW r \in {Encoder, Audio}, ReaderDone(r) PROVE CallInv'
  BY <1>33 DEF ReaderDone, Goto, Point
<1>34. CASE UNCHANGED vars
  BY <1>34 DEF vars
<1> HIDE DEF TypeOK, CallInv, Callers, Threads, procVars, ipcVars, exitVars, lockVars
<1> QED
  BY <1>1, <1>2, <1>3, <1>4, <1>5, <1>6, <1>7, <1>8, <1>9, <1>10, <1>11, <1>12,
     <1>13, <1>14, <1>15, <1>16, <1>17, <1>18, <1>19, <1>20, <1>21, <1>22, <1>23,
     <1>24, <1>25, <1>26, <1>27, <1>28, <1>29, <1>30, <1>31, <1>32, <1>33, <1>34
  DEF Next, Step

\* Every step that passes a lock_guard, or leaves its scope, changes the holder.
LEMMA LockStep == TypeOK /\ CallInv /\ LockInv /\ [Next]_vars => LockInv'
<1> SUFFICES ASSUME TypeOK, CallInv, LockInv, [Next]_vars PROVE LockInv'
  OBVIOUS
<1> USE Distinct DEF TypeOK, CallInv, LockInv, InLifecycle, Callers, Threads, procVars, ipcVars, exitVars, lockVars
<1>1. ASSUME NEW c \in Children, ChildAdvances(c) PROVE LockInv'
  BY <1>1 DEF ChildAdvances
<1>2. ASSUME NEW c \in Children, NEW how \in ExitCodes, ChildExits(c, how) PROVE LockInv'
  BY <1>2 DEF ChildExits, ExitCodes
<1>3. ASSUME NEW u \in Users, CallStart(u) PROVE LockInv'
  BY <1>3 DEF CallStart, Called, Goto
<1>4. ASSUME NEW u \in Users, NEW n \in {"stop", "reset"}, CallStop(u, n) PROVE LockInv'
  BY <1>4 DEF CallStop, Called, Goto
<1>5. ASSUME NEW p \in Pollers, CallStatus(p) PROVE LockInv'
  BY <1>5 DEF CallStatus, Called, Goto
<1>6. ASSUME NEW p \in Pollers \cup {Watcher}, CallIsRunning(p) PROVE LockInv'
  BY <1>6 DEF CallIsRunning, Called, Goto
<1>7. ASSUME NEW t \in Callers, ReapLooks(t) PROVE LockInv'
  BY <1>7 DEF ReapLooks, AfterReap, Goto
<1>8. ASSUME NEW t \in Callers, ReapRecords(t) PROVE LockInv'
  BY <1>8 DEF ReapRecords, AfterReap, RecordExit, Goto
<1>9. ASSUME NEW t \in Callers, StartLocks(t) PROVE LockInv'
  BY <1>9 DEF StartLocks, Goto
<1>10. ASSUME NEW t \in Callers, StartRefused(t) PROVE LockInv'
  BY <1>10 DEF StartRefused, StartReturns, Goto, Called, Point
<1>11. ASSUME NEW t \in Callers, LaunchFails(t) PROVE LockInv'
  BY <1>11 DEF LaunchFails, Ended, StartReturns, Goto, Called, Point
<1>12. ASSUME NEW t \in Callers, Launch(t) PROVE LockInv'
  BY <1>12 DEF Launch, Ended, Goto
<1>13. ASSUME NEW t \in Callers, PollFindsExit(t) PROVE LockInv'
  BY <1>13 DEF PollFindsExit, RecordExit, StartReturns, Goto, Called, Point
<1>14. ASSUME NEW t \in Callers, ConnectDropsOld(t) PROVE LockInv'
  BY <1>14 DEF ConnectDropsOld, Goto
<1>15. ASSUME NEW t \in Callers, StartDisconnects(t) PROVE LockInv'
  BY <1>15 DEF StartDisconnects, Disconnect, Goto
<1>16. ASSUME NEW t \in Callers, Attach(t) PROVE LockInv'
  BY <1>16 DEF Attach, Goto
<1>17. ASSUME NEW t \in Callers, SocketsFail(t) PROVE LockInv'
  BY <1>17 DEF SocketsFail, Goto
<1>18. ASSUME NEW t \in Callers, SocketsConnect(t) PROVE LockInv'
  BY <1>18 DEF SocketsConnect, Goto
<1>19. ASSUME NEW t \in Callers, PublishIpcShm(t) PROVE LockInv'
  BY <1>19 DEF PublishIpcShm, StartReturns, Goto, Called, Point
<1>20. ASSUME NEW t \in Callers, StartTimesOut(t) PROVE LockInv'
  BY <1>20 DEF StartTimesOut, Ended, StartReturns, Goto, Called, Point
<1>21. ASSUME NEW t \in Callers, StopLocks(t) PROVE LockInv'
  BY <1>21 DEF StopLocks, Goto
<1>22. ASSUME NEW t \in Callers, StopFindsNone(t) PROVE LockInv'
  BY <1>22 DEF StopFindsNone, StopReturns, Goto, Called
<1>23. ASSUME NEW t \in Callers, StopClears(t) PROVE LockInv'
  BY <1>23 DEF StopClears, Goto
<1>24. ASSUME NEW t \in Callers, StopDisconnects(t) PROVE LockInv'
  BY <1>24 DEF StopDisconnects, Disconnect, Goto
<1>25. ASSUME NEW t \in Callers, StopKills(t) PROVE LockInv'
  BY <1>25 DEF StopKills, Ended, StopReturns, Goto, Called
<1>26. ASSUME NEW t \in Callers, IsRunningState(t) PROVE LockInv'
  BY <1>26 DEF IsRunningState, Answered, Goto, Called, Point
<1>27. ASSUME NEW t \in Callers, IsRunningReads(t) PROVE LockInv'
  BY <1>27 DEF IsRunningReads, Answered, Goto, Called, Point
<1>28. ASSUME NEW t \in Callers, StatusLoadsBuf(t) PROVE LockInv'
  BY <1>28 DEF StatusLoadsBuf, Goto, Point
<1>29. ASSUME NEW t \in Callers, StatusReads(t) PROVE LockInv'
  BY <1>29 DEF StatusReads, Goto, Called, Point
<1>30. CASE WatcherChecks
  BY <1>30 DEF WatcherChecks, Called, Goto
<1>31. CASE EncoderLoads
  BY <1>31 DEF EncoderLoads, Goto, Point
<1>32. CASE AudioLoads
  BY <1>32 DEF AudioLoads, Goto, Point
<1>33. ASSUME NEW r \in {Encoder, Audio}, ReaderDone(r) PROVE LockInv'
  BY <1>33 DEF ReaderDone, Goto, Point
<1>34. CASE UNCHANGED vars
  BY <1>34 DEF vars
<1> HIDE DEF TypeOK, CallInv, LockInv, InLifecycle, Callers, Threads, procVars, ipcVars, exitVars, lockVars
<1> QED
  BY <1>1, <1>2, <1>3, <1>4, <1>5, <1>6, <1>7, <1>8, <1>9, <1>10, <1>11, <1>12,
     <1>13, <1>14, <1>15, <1>16, <1>17, <1>18, <1>19, <1>20, <1>21, <1>22, <1>23,
     <1>24, <1>25, <1>26, <1>27, <1>28, <1>29, <1>30, <1>31, <1>32, <1>33, <1>34
  DEF Next, Step

\* Nobody unmaps or remaps what a reader, or the published pointer, points to.
LEMMA MapStep == TypeOK /\ CallInv /\ LockInv /\ MapInv /\ [Next]_vars => MapInv'
<1> SUFFICES ASSUME TypeOK, CallInv, LockInv, MapInv, [Next]_vars PROVE MapInv'
  OBVIOUS
<1> USE Distinct DEF TypeOK, CallInv, LockInv, InLifecycle, MapInv, Callers, Threads, procVars, ipcVars, exitVars, lockVars
<1>1. ASSUME NEW c \in Children, ChildAdvances(c) PROVE MapInv'
  BY <1>1 DEF ChildAdvances
<1>2. ASSUME NEW c \in Children, NEW how \in ExitCodes, ChildExits(c, how) PROVE MapInv'
  BY <1>2 DEF ChildExits, ExitCodes
<1>3. ASSUME NEW u \in Users, CallStart(u) PROVE MapInv'
  BY <1>3 DEF CallStart, Called, Goto
<1>4. ASSUME NEW u \in Users, NEW n \in {"stop", "reset"}, CallStop(u, n) PROVE MapInv'
  BY <1>4 DEF CallStop, Called, Goto
<1>5. ASSUME NEW p \in Pollers, CallStatus(p) PROVE MapInv'
  BY <1>5 DEF CallStatus, Called, Goto
<1>6. ASSUME NEW p \in Pollers \cup {Watcher}, CallIsRunning(p) PROVE MapInv'
  BY <1>6 DEF CallIsRunning, Called, Goto
<1>7. ASSUME NEW t \in Callers, ReapLooks(t) PROVE MapInv'
  BY <1>7 DEF ReapLooks, AfterReap, Goto
<1>8. ASSUME NEW t \in Callers, ReapRecords(t) PROVE MapInv'
  BY <1>8 DEF ReapRecords, AfterReap, RecordExit, Goto
<1>9. ASSUME NEW t \in Callers, StartLocks(t) PROVE MapInv'
  BY <1>9 DEF StartLocks, Goto
<1>10. ASSUME NEW t \in Callers, StartRefused(t) PROVE MapInv'
  BY <1>10 DEF StartRefused, StartReturns, Goto, Called, Point
<1>11. ASSUME NEW t \in Callers, LaunchFails(t) PROVE MapInv'
  BY <1>11 DEF LaunchFails, Ended, StartReturns, Goto, Called, Point
<1>12. ASSUME NEW t \in Callers, Launch(t) PROVE MapInv'
  BY <1>12 DEF Launch, Ended, Goto
<1>13. ASSUME NEW t \in Callers, PollFindsExit(t) PROVE MapInv'
  BY <1>13 DEF PollFindsExit, RecordExit, StartReturns, Goto, Called, Point
<1>14. ASSUME NEW t \in Callers, ConnectDropsOld(t) PROVE MapInv'
  BY <1>14 DEF ConnectDropsOld, Goto
<1>15. ASSUME NEW t \in Callers, StartDisconnects(t) PROVE MapInv'
  BY <1>15 DEF StartDisconnects, Disconnect, Goto
<1>16. ASSUME NEW t \in Callers, Attach(t) PROVE MapInv'
  BY <1>16 DEF Attach, Goto
<1>17. ASSUME NEW t \in Callers, SocketsFail(t) PROVE MapInv'
  BY <1>17 DEF SocketsFail, Goto
<1>18. ASSUME NEW t \in Callers, SocketsConnect(t) PROVE MapInv'
  BY <1>18 DEF SocketsConnect, Goto
<1>19. ASSUME NEW t \in Callers, PublishIpcShm(t) PROVE MapInv'
  BY <1>19 DEF PublishIpcShm, StartReturns, Goto, Called, Point
<1>20. ASSUME NEW t \in Callers, StartTimesOut(t) PROVE MapInv'
  BY <1>20 DEF StartTimesOut, Ended, StartReturns, Goto, Called, Point
<1>21. ASSUME NEW t \in Callers, StopLocks(t) PROVE MapInv'
  BY <1>21 DEF StopLocks, Goto
<1>22. ASSUME NEW t \in Callers, StopFindsNone(t) PROVE MapInv'
  BY <1>22 DEF StopFindsNone, StopReturns, Goto, Called
<1>23. ASSUME NEW t \in Callers, StopClears(t) PROVE MapInv'
  BY <1>23 DEF StopClears, Goto
<1>24. ASSUME NEW t \in Callers, StopDisconnects(t) PROVE MapInv'
  BY <1>24 DEF StopDisconnects, Disconnect, Goto
<1>25. ASSUME NEW t \in Callers, StopKills(t) PROVE MapInv'
  BY <1>25 DEF StopKills, Ended, StopReturns, Goto, Called
<1>26. ASSUME NEW t \in Callers, IsRunningState(t) PROVE MapInv'
  BY <1>26 DEF IsRunningState, Answered, Goto, Called, Point
<1>27. ASSUME NEW t \in Callers, IsRunningReads(t) PROVE MapInv'
  BY <1>27 DEF IsRunningReads, Answered, Goto, Called, Point
<1>28. ASSUME NEW t \in Callers, StatusLoadsBuf(t) PROVE MapInv'
  BY <1>28 DEF StatusLoadsBuf, Goto, Point
<1>29. ASSUME NEW t \in Callers, StatusReads(t) PROVE MapInv'
  BY <1>29 DEF StatusReads, Goto, Called, Point
<1>30. CASE WatcherChecks
  BY <1>30 DEF WatcherChecks, Called, Goto
<1>31. CASE EncoderLoads
  BY <1>31 DEF EncoderLoads, Goto, Point
<1>32. CASE AudioLoads
  BY <1>32 DEF AudioLoads, Goto, Point
<1>33. ASSUME NEW r \in {Encoder, Audio}, ReaderDone(r) PROVE MapInv'
  BY <1>33 DEF ReaderDone, Goto, Point
<1>34. CASE UNCHANGED vars
  BY <1>34 DEF vars
<1> HIDE DEF TypeOK, CallInv, LockInv, InLifecycle, MapInv, Callers, Threads, procVars, ipcVars, exitVars, lockVars
<1> QED
  BY <1>1, <1>2, <1>3, <1>4, <1>5, <1>6, <1>7, <1>8, <1>9, <1>10, <1>11, <1>12,
     <1>13, <1>14, <1>15, <1>16, <1>17, <1>18, <1>19, <1>20, <1>21, <1>22, <1>23,
     <1>24, <1>25, <1>26, <1>27, <1>28, <1>29, <1>30, <1>31, <1>32, <1>33, <1>34
  DEF Next, Step

\* A QProcess that is let go of has no running child.
LEMMA ChildStep == TypeOK /\ ChildInv /\ [Next]_vars => ChildInv'
<1> SUFFICES ASSUME TypeOK, ChildInv, [Next]_vars PROVE ChildInv'
  OBVIOUS
<1> USE ThreadsAssumption DEF TypeOK, ChildInv, Live, Children, procVars, ipcVars, exitVars, lockVars
<1>1. ASSUME NEW c \in Children, ChildAdvances(c) PROVE ChildInv'
  BY <1>1 DEF ChildAdvances
<1>2. ASSUME NEW c \in Children, NEW how \in ExitCodes, ChildExits(c, how) PROVE ChildInv'
  BY <1>2 DEF ChildExits, ExitCodes
<1>3. ASSUME NEW u \in Users, CallStart(u) PROVE ChildInv'
  BY <1>3 DEF CallStart, Called, Goto
<1>4. ASSUME NEW u \in Users, NEW n \in {"stop", "reset"}, CallStop(u, n) PROVE ChildInv'
  BY <1>4 DEF CallStop, Called, Goto
<1>5. ASSUME NEW p \in Pollers, CallStatus(p) PROVE ChildInv'
  BY <1>5 DEF CallStatus, Called, Goto
<1>6. ASSUME NEW p \in Pollers \cup {Watcher}, CallIsRunning(p) PROVE ChildInv'
  BY <1>6 DEF CallIsRunning, Called, Goto
<1>7. ASSUME NEW t \in Callers, ReapLooks(t) PROVE ChildInv'
  BY <1>7 DEF ReapLooks, AfterReap, Goto
<1>8. ASSUME NEW t \in Callers, ReapRecords(t) PROVE ChildInv'
  BY <1>8 DEF ReapRecords, AfterReap, RecordExit, Goto
<1>9. ASSUME NEW t \in Callers, StartLocks(t) PROVE ChildInv'
  BY <1>9 DEF StartLocks, Goto
<1>10. ASSUME NEW t \in Callers, StartRefused(t) PROVE ChildInv'
  BY <1>10 DEF StartRefused, StartReturns, Goto, Called, Point
<1>11. ASSUME NEW t \in Callers, LaunchFails(t) PROVE ChildInv'
  BY <1>11 DEF LaunchFails, Ended, StartReturns, Goto, Called, Point
<1>12. ASSUME NEW t \in Callers, Launch(t) PROVE ChildInv'
  BY SMTT(30), <1>12 DEF Launch, Ended, Goto
<1>13. ASSUME NEW t \in Callers, PollFindsExit(t) PROVE ChildInv'
  BY <1>13 DEF PollFindsExit, RecordExit, StartReturns, Goto, Called, Point
<1>14. ASSUME NEW t \in Callers, ConnectDropsOld(t) PROVE ChildInv'
  BY <1>14 DEF ConnectDropsOld, Goto
<1>15. ASSUME NEW t \in Callers, StartDisconnects(t) PROVE ChildInv'
  BY <1>15 DEF StartDisconnects, Disconnect, Goto
<1>16. ASSUME NEW t \in Callers, Attach(t) PROVE ChildInv'
  BY <1>16 DEF Attach, Goto
<1>17. ASSUME NEW t \in Callers, SocketsFail(t) PROVE ChildInv'
  BY <1>17 DEF SocketsFail, Goto
<1>18. ASSUME NEW t \in Callers, SocketsConnect(t) PROVE ChildInv'
  BY <1>18 DEF SocketsConnect, Goto
<1>19. ASSUME NEW t \in Callers, PublishIpcShm(t) PROVE ChildInv'
  BY <1>19 DEF PublishIpcShm, StartReturns, Goto, Called, Point
<1>20. ASSUME NEW t \in Callers, StartTimesOut(t) PROVE ChildInv'
  BY <1>20 DEF StartTimesOut, Ended, StartReturns, Goto, Called, Point
<1>21. ASSUME NEW t \in Callers, StopLocks(t) PROVE ChildInv'
  BY <1>21 DEF StopLocks, Goto
<1>22. ASSUME NEW t \in Callers, StopFindsNone(t) PROVE ChildInv'
  BY <1>22 DEF StopFindsNone, StopReturns, Goto, Called
<1>23. ASSUME NEW t \in Callers, StopClears(t) PROVE ChildInv'
  BY <1>23 DEF StopClears, Goto
<1>24. ASSUME NEW t \in Callers, StopDisconnects(t) PROVE ChildInv'
  BY <1>24 DEF StopDisconnects, Disconnect, Goto
<1>25. ASSUME NEW t \in Callers, StopKills(t) PROVE ChildInv'
  BY <1>25 DEF StopKills, Ended, StopReturns, Goto, Called
<1>26. ASSUME NEW t \in Callers, IsRunningState(t) PROVE ChildInv'
  BY <1>26 DEF IsRunningState, Answered, Goto, Called, Point
<1>27. ASSUME NEW t \in Callers, IsRunningReads(t) PROVE ChildInv'
  BY <1>27 DEF IsRunningReads, Answered, Goto, Called, Point
<1>28. ASSUME NEW t \in Callers, StatusLoadsBuf(t) PROVE ChildInv'
  BY <1>28 DEF StatusLoadsBuf, Goto, Point
<1>29. ASSUME NEW t \in Callers, StatusReads(t) PROVE ChildInv'
  BY <1>29 DEF StatusReads, Goto, Called, Point
<1>30. CASE WatcherChecks
  BY <1>30 DEF WatcherChecks, Called, Goto
<1>31. CASE EncoderLoads
  BY <1>31 DEF EncoderLoads, Goto, Point
<1>32. CASE AudioLoads
  BY <1>32 DEF AudioLoads, Goto, Point
<1>33. ASSUME NEW r \in {Encoder, Audio}, ReaderDone(r) PROVE ChildInv'
  BY <1>33 DEF ReaderDone, Goto, Point
<1>34. CASE UNCHANGED vars
  BY <1>34 DEF vars
<1> QED
  BY <1>1, <1>2, <1>3, <1>4, <1>5, <1>6, <1>7, <1>8, <1>9, <1>10, <1>11, <1>12,
     <1>13, <1>14, <1>15, <1>16, <1>17, <1>18, <1>19, <1>20, <1>21, <1>22, <1>23,
     <1>24, <1>25, <1>26, <1>27, <1>28, <1>29, <1>30, <1>31, <1>32, <1>33, <1>34
  DEF Next, Step

-----------------------------------------------------------------------------
\* The inductive invariant holds in every state.
LEMMA SubprocessInv == Spec => []Inv
<1>1. Init => Inv
  <2> SUFFICES ASSUME Init PROVE Inv
    OBVIOUS
  <2> USE ThreadsAssumption, Distinct DEF Init, Callers, Threads, Children
  <2>1. TypeOK
    <3>1. {qt_running, connected, have_exit} \subseteq BOOLEAN
      OBVIOUS
    <3> QED
      BY <3>1 DEF TypeOK, ExitCodes
  <2>2. CallInv
    BY DEF CallInv
  <2>3. LockInv
    BY DEF LockInv, InLifecycle
  <2>4. MapInv
    BY DEF MapInv
  <2>5. ChildInv
    BY DEF ChildInv, Live
  <2> QED
    BY <2>1, <2>2, <2>3, <2>4, <2>5 DEF Inv
<1>2. Inv /\ [Next]_vars => Inv'
  BY TypeStep, CallStep, LockStep, MapStep, ChildStep DEF Inv
<1> QED
  BY <1>1, <1>2, PTL DEF Spec

\* The subprocess's types: the exits are numbered, and the watcher never ahead
\* of them; lifecycle_mutex_ is a user's or the watcher's.
THEOREM SubprocessTypeCorrect == Spec => []TypeOK
<1>1. Inv => TypeOK
  BY DEF Inv
<1> QED
  BY <1>1, SubprocessInv, PTL

\* The pointer the encoder is shown is null or what is mapped, whatever the
\* children do and whichever threads start, stop and reap.
THEOREM AtomCorrect == Spec => []AtomMapped
<1>1. Inv => AtomMapped
  BY DEF Inv, MapInv, AtomMapped
<1> QED
  BY <1>1, SubprocessInv, PTL

\* What the encoder, the audio reader and a handler inside is_running() point
\* to under g_ipc_shm_mutex stays mapped.
THEOREM ReadersCorrect == Spec => []ReadersMapped
<1>1. Inv => ReadersMapped
  <2> SUFFICES ASSUME Inv PROVE ReadersMapped
    OBVIOUS
  <2>1. \A r \in {Encoder, Audio} : ptr[r] \in {0, shm}
    BY DEF Inv, MapInv
  <2>2. ASSUME NEW p \in Pollers, p \in readers, pc[p] = "q_deref" PROVE ptr[p] = shm
    <3>1. call[p] = "status"
      BY <2>2 DEF Inv, LockInv, Threads, Callers
    <3> QED
      BY <2>2, <3>1 DEF Inv, MapInv
  <2> QED
    BY <2>1, <2>2 DEF ReadersMapped
<1> QED
  BY <1>1, SubprocessInv, PTL

\* The end of a child that stop() ended is never recorded: the QProcess whose
\* exit is asked for is never one that stop() has ended.
THEOREM StopNotRecordedCorrect == Spec => StopNotRecorded
<1> DEFINE A == exit_id' # exit_id /\ exit_child' # 0 => child[exit_child'] # "stopped"
<1>1. Inv /\ [Next]_vars => [A]_vars
  <2> SUFFICES ASSUME Inv, [Next]_vars, exit_id' # exit_id, exit_child' # 0
               PROVE  child[exit_child'] # "stopped"
    OBVIOUS
  <2>1. ASSUME exit_child' = child_process PROVE child[exit_child'] # "stopped"
    BY <2>1 DEF Inv, ChildInv
  <2>2. ASSUME NEW t \in Callers, ReapRecords(t) PROVE exit_child' = child_process
    BY <2>2 DEF ReapRecords, RecordExit
  <2>3. ASSUME NEW t \in Callers, PollFindsExit(t) PROVE exit_child' = child_process
    BY <2>3 DEF PollFindsExit, RecordExit
  <2>4. ASSUME NEW t \in Callers, Step(t), ~ReapRecords(t), ~PollFindsExit(t) PROVE FALSE
    BY <2>4 DEF Step, exitVars, ReapLooks, StartLocks, StartRefused, LaunchFails, Launch,
       ConnectDropsOld, StartDisconnects, Disconnect, Attach, SocketsFail, SocketsConnect,
       PublishIpcShm, StartTimesOut, StopLocks, StopFindsNone, StopClears, StopDisconnects,
       StopKills, IsRunningState, IsRunningReads, StatusLoadsBuf, StatusReads
  <2> QED
    BY <2>1, <2>2, <2>3, <2>4
    DEF Next, vars, exitVars, ChildAdvances, ChildExits, CallStart, CallStop, CallStatus,
        CallIsRunning, WatcherChecks, EncoderLoads, AudioLoads, ReaderDone
<1> QED
  BY <1>1, SubprocessInv, PTL DEF Spec, StopNotRecorded

\* When stop() returns no child runs: it ends the one there is, and one it
\* does not see, or whose QProcess has been seen to end, does not run.
THEOREM StopLeavesNoneCorrect == Spec => StopLeavesNone
<1> DEFINE A == \A u \in Users :
                  pc[u] \in {"p_reap", "p_kill"} /\ pc'[u] \in {"idle", "s_lock"} => Live' = {}
<1>1. Inv /\ [Next]_vars => [A]_vars
  <2> SUFFICES ASSUME Inv, [Next]_vars, NEW u \in Users,
                      pc[u] \in {"p_reap", "p_kill"}, pc'[u] \in {"idle", "s_lock"}
               PROVE  Live' = {}
    OBVIOUS
  <2>1. CASE StopFindsNone(u)
    BY <2>1 DEF StopFindsNone, Inv, TypeOK, ChildInv, Live, Children
  <2>2. CASE StopKills(u)
    BY <2>2 DEF StopKills, Inv, TypeOK, ChildInv, Live, Children, Ended
  <2>3. ASSUME NEW t \in Callers, Step(t), ~StopFindsNone(u), ~StopKills(u) PROVE FALSE
    <3> USE DEF Inv, TypeOK, Threads, Callers
    <3>1. CASE t = u
      BY <2>3, <3>1 DEF Step, Goto, ReapLooks, ReapRecords, StartLocks, StartRefused,
         LaunchFails, Launch, PollFindsExit, ConnectDropsOld, StartDisconnects, Disconnect,
         Attach, SocketsFail, SocketsConnect, PublishIpcShm, StartTimesOut, StopLocks,
         StopClears, StopDisconnects, IsRunningState, IsRunningReads, StatusLoadsBuf, StatusReads
    <3>2. CASE t # u
      BY <2>3, <3>2 DEF Step, Goto, Called, ReapLooks, ReapRecords, StartLocks, StartRefused,
         LaunchFails, Launch, PollFindsExit, ConnectDropsOld, StartDisconnects, Disconnect,
         Attach, SocketsFail, SocketsConnect, PublishIpcShm, StartTimesOut, StopLocks,
         StopFindsNone, StopKills, StopReturns, StartReturns, Answered, StopClears,
         StopDisconnects, IsRunningState, IsRunningReads, StatusLoadsBuf, StatusReads
    <3> QED
      BY <3>1, <3>2
  <2>4. ASSUME NEW t \in Threads, pc[t] \notin {"p_reap", "p_kill"}, pc' = [pc EXCEPT ![t] = pc'[t]]
        PROVE  FALSE
    BY <2>4 DEF Inv, TypeOK, Threads, Callers
  <2> QED
    BY <2>1, <2>2, <2>3, <2>4
    DEF Next, vars, ChildAdvances, ChildExits, CallStart, CallStop, CallStatus, CallIsRunning,
        WatcherChecks, EncoderLoads, AudioLoads, ReaderDone, Goto, Threads, Callers, Inv, TypeOK
<1> QED
  BY <1>1, SubprocessInv, PTL DEF Spec, StopLeavesNone

\* The only threads that wait for each other in a ring are a stop() that holds
\* reap_mutex_ and waits for the readers and a handle_status that is one of
\* them and waits for reap_mutex_, however many threads there are.
THEOREM OnlyStatusDeadlocksCorrect == Spec => []OnlyStatusDeadlocks
<1>1. Inv => OnlyStatusDeadlocks
  <2> SUFFICES ASSUME Inv, NEW S \in SUBSET Callers, S # {}, Deadlocked(S)
               PROVE  \E u \in S, p \in Pollers \cap readers :
                        pc[u] = "p_disc" /\ reap_mutex = u /\ pc[p] = "reap"
    BY DEF OnlyStatusDeadlocks
  <2> USE DEF Inv, Callers, Threads
  <2>1. \A t \in S : t \in Callers /\ WaitsFor(t) \cap S # {}
    BY DEF Deadlocked
  \* Who waits for reap_mutex_ waits for a stop() that waits for the readers.
  <2>2. ASSUME NEW t \in S, pc[t] \in {"reap", "p_reap"}
        PROVE  \E u \in S : pc[u] = "p_disc" /\ reap_mutex = u
    <3>1. reap_mutex \in S
      BY <2>1, <2>2 DEF WaitsFor
    <3>2. pc[reap_mutex] \in {"reaping", "p_disc", "p_kill"}
      BY <2>1, <3>1 DEF LockInv
    <3>3. pc[reap_mutex] \notin {"reaping", "p_kill"}
      BY <2>1, <3>1 DEF WaitsFor
    <3> QED
      BY <3>1, <3>2, <3>3
  \* Who waits for the readers waits for a handle_status in its reap.
  <2>3. ASSUME NEW t \in S, pc[t] \in {"s_disc", "p_disc"}
        PROVE  \E p \in S : p \in Pollers \cap readers /\ pc[p] = "reap"
    <3>1. PICK p \in S : p \in readers
      BY <2>1, <2>3 DEF WaitsFor
    <3>2. p \in Pollers
      BY <2>1, <3>1, Distinct DEF TypeOK
    <3>3. call[p] = "status"
      BY <2>1, <3>1, <3>2, Distinct DEF LockInv, CallInv
    <3>4. pc[p] \in {"s_lock", "p_lock", "reap", "p_reap", "s_disc", "p_disc"}
      BY <2>1 DEF WaitsFor
    <3>5. pc[p] = "reap"
      BY <2>1, <3>3, <3>4 DEF CallInv
    <3> QED
      BY <3>1, <3>2, <3>5
  \* Who waits for lifecycle_mutex_ waits for one of those.
  <2>4. ASSUME NEW t \in S, pc[t] \in {"s_lock", "p_lock"}
        PROVE  \E h \in S : pc[h] \in {"reap", "p_reap", "s_disc", "p_disc"}
    <3>1. lifecycle_mutex \in S
      BY <2>1, <2>4 DEF WaitsFor
    <3>2. InLifecycle(lifecycle_mutex)
      BY <2>1, <3>1 DEF LockInv
    <3>3. pc[lifecycle_mutex] \in {"s_lock", "p_lock", "reap", "p_reap", "s_disc", "p_disc"}
      BY <2>1, <3>1 DEF WaitsFor
    <3> QED
      BY <3>1, <3>2, <3>3 DEF InLifecycle
  <2>5. \E t \in S : pc[t] \in {"reap", "p_reap", "s_disc", "p_disc"}
    <3>1. PICK t \in S : TRUE
      OBVIOUS
    <3>2. pc[t] \in {"s_lock", "p_lock", "reap", "p_reap", "s_disc", "p_disc"}
      BY <2>1 DEF WaitsFor
    <3> QED
      BY <2>4, <3>2
  <2>6. \E u \in S : pc[u] = "p_disc" /\ reap_mutex = u
    BY <2>2, <2>3, <2>5
  <2> QED
    BY <2>3, <2>6
<1> QED
  BY <1>1, SubprocessInv, PTL
=============================================================================
