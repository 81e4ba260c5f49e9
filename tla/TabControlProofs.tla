-------------------------- MODULE TabControlProofs --------------------------
(***************************************************************************)
(* TabSessions for any number of tabs and any lease: its type, whose       *)
(* screen is shown and how control moves, whatever the tabs call; that the *)
(* tabs of TabControl are such callers, so that all of it holds of them    *)
(* too; that no tab is late; and that of two tabs the one that takes over  *)
(* does not read the store while the one that ran still writes to it,      *)
(* whatever the times.                                                     *)
(***************************************************************************)
EXTENDS TabControl, TLAPS

\* What each request does to the server keeps its fields in their types:
\* prune only replaces a tab by none.
LEMMA SessionsType == TypeOK /\ [NextSessions]_sessions => TypeOK'
<1> SUFFICES ASSUME TypeOK, [NextSessions]_sessions PROVE TypeOK'
  OBVIOUS
<1> USE SessionsAssumption DEF TypeOK
<1>1. /\ PrunedHolder \in Tabs \cup {None} /\ PrunedHanding \in Tabs \cup {None}
      /\ PrunedScreen \in Tabs \cup {None}
  BY DEF PrunedHolder, PrunedHanding, PrunedScreen
<1>2. ASSUME NEW id \in Tabs, NEW take \in BOOLEAN, Beat(id, take) PROVE TypeOK'
  BY <1>1, <1>2 DEF Beat, Takes
<1>3. ASSUME NEW id \in Tabs, Release(id) PROVE TypeOK'
  BY <1>1, <1>3 DEF Release
<1>4. ASSUME NEW id \in Tabs, PutScreen(id) PROVE TypeOK'
  BY <1>1, <1>4 DEF PutScreen
<1>5. CASE GetScreen
  BY <1>1, <1>5 DEF GetScreen
<1>6. CASE Age
  BY <1>6 DEF Age
<1>7. CASE UNCHANGED sessions
  BY <1>7 DEF sessions
<1> QED
  BY <1>2, <1>3, <1>4, <1>5, <1>6, <1>7 DEF NextSessions

\* At first nobody is in control.
LEMMA SessionsInitType == InitSessions => TypeOK
  BY SessionsAssumption DEF InitSessions, TypeOK

\* The server's fields have their types whatever the tabs call.
THEOREM TypeCorrect == SpecSessions => []TypeOK
<1> QED
  BY SessionsInitType, SessionsType, PTL DEF SpecSessions

\* The tab prune leaves in control: the holder while its lease runs, else none.
LEMMA PruneFacts ==
  ASSUME TypeOK
  PROVE  /\ PrunedHolder # None => PrunedHolder = holder /\ PrunedScreen = screen
         /\ PrunedHolder = None => PrunedScreen = None
         /\ (PrunedHolder = None /\ holder # None) => seen[holder] = Lease
  BY SessionsAssumption DEF TypeOK, PrunedHolder, PrunedScreen, Alive

\* The screen goes with the tab it is of.
LEMMA ScreenStep ==
  TypeOK /\ ScreenIsHolders /\ [NextSessions]_sessions => ScreenIsHolders'
<1> SUFFICES ASSUME TypeOK, ScreenIsHolders, [NextSessions]_sessions
             PROVE  ScreenIsHolders'
  OBVIOUS
<1> USE SessionsAssumption, PruneFacts DEF ScreenIsHolders
<1>1. ASSUME NEW id \in Tabs, NEW take \in BOOLEAN, Beat(id, take)
      PROVE  ScreenIsHolders'
  BY <1>1 DEF Beat, Takes
<1>2. ASSUME NEW id \in Tabs, Release(id) PROVE ScreenIsHolders'
  BY <1>2 DEF Release
<1>3. ASSUME NEW id \in Tabs, PutScreen(id) PROVE ScreenIsHolders'
  BY <1>3 DEF PutScreen
<1>4. CASE GetScreen
  BY <1>4 DEF GetScreen
<1>5. CASE Age \/ UNCHANGED sessions
  BY <1>5 DEF Age, sessions
<1> QED
  BY <1>1, <1>2, <1>3, <1>4, <1>5 DEF NextSessions

\* The screen a viewer is shown is always the controlling tab's own.
THEOREM ScreenCorrect == SpecSessions => []ScreenIsHolders
<1>1. InitSessions => ScreenIsHolders
  BY DEF InitSessions, ScreenIsHolders
<1> QED
  BY <1>1, ScreenStep, TypeCorrect, PTL DEF SpecSessions

\* Only a take makes one tab follow another at once.
LEMMA ControlStep ==
  TypeOK /\ [NextSessions]_sessions =>
    [(holder # None /\ holder' # None /\ holder' # holder) =>
       (handing' = holder \/ seen[holder] = Lease)]_sessions
<1> SUFFICES ASSUME TypeOK, NextSessions, holder # None, holder' # None, holder' # holder
             PROVE  handing' = holder \/ seen[holder] = Lease
  BY DEF sessions
<1> USE PruneFacts
<1>1. ASSUME NEW id \in Tabs, NEW take \in BOOLEAN, Beat(id, take)
      PROVE  handing' = holder \/ seen[holder] = Lease
  BY <1>1 DEF Beat, Takes
<1>2. ASSUME NEW id \in Tabs, Release(id) \/ PutScreen(id) PROVE FALSE
  BY <1>2 DEF Release, PutScreen
<1>3. ~GetScreen /\ ~Age
  BY DEF GetScreen, Age
<1> QED
  BY <1>1, <1>2, <1>3 DEF NextSessions

\* Control passes straight from one tab to another only by a take, which
\* leaves the old one handing over, or when the old one's lease has run out.
THEOREM ControlCorrect == SpecSessions => ControlMoves
<1> QED
  BY ControlStep, TypeCorrect, PTL DEF SpecSessions, ControlMoves

-----------------------------------------------------------------------------
\* A step of the tabs is a call of the server's or leaves it alone.
LEMMA StepIsCall == [Next]_vars => [NextSessions]_sessions
<1> SUFFICES ASSUME [Next]_vars PROVE [NextSessions]_sessions
  OBVIOUS
<1> USE DEF NextSessions, sessions
<1>1. ASSUME NEW t \in Tabs, Open(t) \/ WaitedEnough(t) \/ DisksFetched(t) \/ GetLock(t) \/ Saved(t)
                               \/ Restart(t) \/ Restarted(t) \/ Lost(t)
      PROVE  UNCHANGED sessions
  BY <1>1 DEF Open, WaitedEnough, DisksFetched, GetLock, Saved, Restart, Restarted, Lost
<1>2. ASSUME NEW t \in Tabs, NEW take \in BOOLEAN, Watch(t, take)
      PROVE  NextSessions
  BY <1>2 DEF Watch
<1>3. ASSUME NEW t \in Tabs, Poll(t) \/ WorkerBeat(t) \/ SaveBeat(t)
      PROVE  Beat(t, FALSE)
  BY <1>3 DEF Poll, WorkerBeat, SaveBeat
<1>4. ASSUME NEW t \in Tabs, SendScreen(t) \/ View(t) \/ Arrives(t)
      PROVE  NextSessions
  BY <1>4 DEF SendScreen, View, Arrives
<1>5. ASSUME NEW t \in Tabs, NEW says \in BOOLEAN, Close(t, says)
      PROVE  UNCHANGED sessions
  BY <1>5 DEF Close
<1>6. CASE Tick
  BY <1>6 DEF Tick
<1>7. CASE UNCHANGED vars
  BY <1>7 DEF vars
<1> QED
  BY <1>1, <1>2, <1>3, <1>4, <1>5, <1>6, <1>7 DEF Next

\* The tabs of main.js and worker.js only make the calls the server takes: a
\* step of theirs is a call or leaves the server alone.
THEOREM TabsAreCallers == Spec => IsSessions
<1>1. Init => InitSessions
  BY DEF Init
<1> QED
  BY <1>1, StepIsCall, PTL DEF Spec, IsSessions, SpecSessions

\* So a tab that watches is never shown another's screen than the one in
\* control's, in any run of the tabs.
THEOREM TabsScreen == Spec => []ScreenIsHolders
<1> QED
  BY TabsAreCallers, ScreenCorrect, PTL DEF IsSessions

-----------------------------------------------------------------------------
\* How long a tab can be in a phase that has a timer.
Limit(p) ==
  IF p \in Untimed THEN 0
  ELSE IF p = "waiting" THEN 1
  ELSE IF p = "locking" THEN LockWait
  ELSE IF p = "running" THEN BeatEvery
  ELSE Save

\* No tab is late.
OnTimeInv ==
  \A t \in Tabs : clock[t] <= Limit(phase[t]) /\ (phase[t] # "waiting" => wait[t] = 0)

\* A tab that has or had control, and has not let go; and one that runs, or
\* did when control was taken from it.
In == {"waiting", "starting", "locking"} \cup OnStore
Ran == {"running", "saving"}

\* How long a tab that ran can have gone on, when it comes to a phase, since
\* control was taken from it.
Spent(p) == IF p = "saving" THEN BeatEvery ELSE 0

\* No release of a tab that has not let go is on its way.
SaidInv == \A t \in Tabs : phase[t] \in In => t \notin beacons

\* The server knows of a tab that ran, and its lease does not run out.
RanInv ==
  \A t \in Tabs : phase[t] \in Ran => (holder = t \/ handing = t) /\ seen[t] <= clock[t]

\* Once control was taken from it the other waits, and has not waited longer
\* than it goes on.
PairInv ==
  \A t, u \in Tabs : t # u /\ phase[t] \in Ran /\ phase[u] \in In /\ holder # t =>
    phase[u] = "waiting" /\ wait[u] <= Spent(phase[t]) + clock[t]

\* The inductive invariant, for two tabs.
Inv == TabsOK /\ OnTimeInv /\ SaidInv /\ RanInv /\ PairInv

\* There are two tabs at most.
TwoTabs == \A t, u, v \in Tabs : t = u \/ u = v \/ t = v

-----------------------------------------------------------------------------
\* A limit is a time within the lease.
LEMMA LimitIn == \A p \in Phases : Limit(p) \in 0 .. Lease
  BY TimingAssumption, SessionsAssumption DEF Limit, Phases, Untimed

\* What GoTo does to each tab.
LEMMA GoToFacts ==
  ASSUME TabsOK, NEW t \in Tabs, NEW p \in Phases, GoTo(t, p)
  PROVE  /\ phase' \in [Tabs -> Phases] /\ clock' \in [Tabs -> 0 .. Lease]
         /\ wait' \in [Tabs -> 0 .. Handover]
         /\ phase'[t] = p /\ clock'[t] = 0 /\ wait'[t] = 0
         /\ \A x \in Tabs \ {t} : phase'[x] = phase[x] /\ clock'[x] = clock[x] /\ wait'[x] = wait[x]
<1>1. 0 \in 0 .. Lease /\ 0 \in 0 .. Handover
  BY TimingAssumption, SessionsAssumption
<1> QED
  BY <1>1 DEF TabsOK, GoTo

\* A tab that goes to another phase is not late there.
LEMMA GoToOnTime ==
  ASSUME TabsOK, OnTimeInv, NEW t \in Tabs, NEW p \in Phases, GoTo(t, p)
  PROVE  OnTimeInv'
<1> SUFFICES ASSUME NEW x \in Tabs
             PROVE  clock'[x] <= Limit(phase'[x]) /\ (phase'[x] # "waiting" => wait'[x] = 0)
  BY DEF OnTimeInv
<1>1. CASE x = t
  BY <1>1, GoToFacts, LimitIn
<1>2. CASE x # t
  BY <1>2, GoToFacts DEF OnTimeInv
<1> QED
  BY <1>1, <1>2

\* Every step of a tab that goes somewhere.
LEMMA WhoGoes ==
  ASSUME TabsOK, NEW t \in Tabs,
         \/ Open(t) \/ (\E take \in BOOLEAN : Watch(t, take)) \/ WaitedEnough(t) \/ DisksFetched(t) \/ GetLock(t)
         \/ WorkerBeat(t) \/ Saved(t) \/ Restart(t) \/ Restarted(t)
         \/ \E says \in BOOLEAN : Close(t, says)
  PROVE  (\E p \in Phases : GoTo(t, p)) /\ beacons' \subseteq Tabs
         /\ lock' \in Tabs \cup {None, NoLocks}
  BY DEF TabsOK, Phases, Open, Watch, WaitedEnough, DisksFetched, GetLock, WorkerBeat, Saved, Restart, Restarted,
         Close, WorkerEnds

\* Every step keeps the types, and no tab is late.
LEMMA TabsStep == TabsOK /\ OnTimeInv /\ [Next]_vars => TabsOK' /\ OnTimeInv'
<1> SUFFICES ASSUME TabsOK, OnTimeInv, [Next]_vars PROVE TabsOK' /\ OnTimeInv'
  OBVIOUS
<1>1. TypeOK'
  BY StepIsCall, SessionsType DEF TabsOK
<1>2. ASSUME NEW t \in Tabs,
             \/ Open(t) \/ (\E take \in BOOLEAN : Watch(t, take)) \/ WaitedEnough(t) \/ DisksFetched(t) \/ GetLock(t)
             \/ WorkerBeat(t) \/ Saved(t) \/ Restart(t) \/ Restarted(t)
             \/ \E says \in BOOLEAN : Close(t, says)
      PROVE  TabsOK' /\ OnTimeInv'
  <2>1. PICK p \in Phases : GoTo(t, p)
    BY <1>2, WhoGoes
  <2>2. beacons' \subseteq Tabs /\ lock' \in Tabs \cup {None, NoLocks}
    BY <1>2, WhoGoes
  <2> QED
    BY <1>1, <2>1, <2>2, GoToFacts, GoToOnTime DEF TabsOK
<1>3. ASSUME NEW t \in Tabs, Poll(t) PROVE TabsOK' /\ OnTimeInv'
  <2>1. UNCHANGED <<lock, beacons>>
    BY <1>3 DEF Poll
  <2>2. CASE GoTo(t, "starting")
    <3>1. "starting" \in Phases
      BY DEF Phases
    <3> QED
      BY <1>1, <2>1, <2>2, <3>1, GoToFacts, GoToOnTime DEF TabsOK
  <2>3. CASE clock' = [clock EXCEPT ![t] = 0] /\ UNCHANGED <<phase, wait>>
    <3>1. clock' \in [Tabs -> 0 .. Lease]
      BY <2>3, SessionsAssumption DEF TabsOK
    <3>2. \A x \in Tabs : clock'[x] = 0 \/ clock'[x] = clock[x]
      BY <2>3 DEF TabsOK
    <3>3. \A x \in Tabs : phase[x] \in Phases
      BY DEF TabsOK
    <3>4. OnTimeInv'
      BY <2>3, <3>2, <3>3, LimitIn DEF OnTimeInv
    <3> QED
      BY <1>1, <2>1, <2>3, <3>1, <3>4 DEF TabsOK
  <2> QED
    BY <1>3, <2>2, <2>3 DEF Poll
<1>4. ASSUME NEW t \in Tabs, SaveBeat(t) \/ SendScreen(t) \/ View(t) \/ Arrives(t) \/ Lost(t)
      PROVE  TabsOK' /\ OnTimeInv'
  <2>1. UNCHANGED <<phase, clock, wait, lock>> /\ beacons' \subseteq beacons
    BY <1>4 DEF SaveBeat, SendScreen, View, Arrives, Lost, tabs
  <2> QED
    BY <1>1, <2>1 DEF TabsOK, OnTimeInv
<1>5. CASE Tick
  <2>1. UNCHANGED <<phase, lock, beacons>>
    BY <1>5 DEF Tick
  <2>2. ASSUME NEW x \in Tabs
        PROVE  /\ clock'[x] \in 0 .. Limit(phase[x]) /\ wait'[x] \in 0 .. Handover
               /\ phase[x] # "waiting" => wait'[x] = 0
    <3>1. /\ clock'[x] = IF phase[x] \in Untimed THEN 0 ELSE clock[x] + 1
          /\ wait'[x] = IF phase[x] = "waiting" THEN wait[x] + 1 ELSE 0
          /\ OnTime(x)
      BY <1>5 DEF Tick
    <3>2. phase[x] \in Phases /\ clock[x] \in Nat /\ wait[x] \in Nat
      BY DEF TabsOK
    <3> QED
      BY <3>1, <3>2, TimingAssumption DEF OnTime, Limit, Phases, Untimed
  <2>3. \A x \in Tabs : Limit(phase[x]) \in 0 .. Lease
    BY LimitIn DEF TabsOK
  <2>4. \A x \in Tabs : clock'[x] \in 0 .. Lease /\ clock'[x] <= Limit(phase[x])
    BY <2>2, <2>3, SessionsAssumption
  <2>5. clock' \in [Tabs -> 0 .. Lease] /\ wait' \in [Tabs -> 0 .. Handover]
    <3>1. clock' = [x \in Tabs |-> clock'[x]] /\ wait' = [x \in Tabs |-> wait'[x]]
      BY <1>5 DEF Tick
    <3> HIDE <1>5
    <3> QED
      BY <2>2, <2>4, <3>1
  <2> QED
    BY <1>1, <2>1, <2>2, <2>4, <2>5 DEF TabsOK, OnTimeInv
<1>6. CASE UNCHANGED vars
  BY <1>1, <1>6 DEF TabsOK, OnTimeInv, vars
<1> QED
  BY <1>2, <1>3, <1>4, <1>5, <1>6 DEF Next

\* The tabs start closed.
LEMMA TabsInit == Init => TabsOK /\ OnTimeInv
<1> SUFFICES ASSUME Init PROVE TabsOK /\ OnTimeInv
  OBVIOUS
<1>1. TypeOK
  BY SessionsInitType DEF Init
<1>2. 0 \in 0 .. Lease /\ 0 \in 0 .. Handover /\ "closed" \in Phases
  BY TimingAssumption, SessionsAssumption DEF Phases
<1>3. TabsOK
  BY <1>1, <1>2 DEF TabsOK, Init
<1>4. \A t \in Tabs : clock[t] = 0 /\ wait[t] = 0 /\ phase[t] = "closed"
  BY DEF Init
<1>5. OnTimeInv
  <2> SUFFICES ASSUME NEW t \in Tabs PROVE clock[t] <= Limit(phase[t]) /\ wait[t] = 0
    BY DEF OnTimeInv
  <2>1. phase[t] = "closed"
    BY <1>4
  <2>2. Limit(phase[t]) = 0
    BY <2>1 DEF Limit, Untimed
  <2> QED
    BY <1>4, <2>2
<1> QED
  BY <1>3, <1>5

\* The tabs' and the server's state keep their types, and no timer of a tab
\* goes off late, with any number of tabs.
THEOREM TabsCorrect == Spec => []TabsOK
<1> QED
  BY TabsInit, TabsStep, PTL DEF Spec

-----------------------------------------------------------------------------
\* A tab that ran has a lease that runs, and goes on for less than the other
\* waits.
LEMMA RanIsAlive ==
  ASSUME Inv, NEW t \in Tabs, phase[t] \in Ran
  PROVE  /\ Alive(t) /\ t \notin beacons /\ (holder = t \/ handing = t)
         /\ clock[t] \in Nat /\ Spent(phase[t]) \in Nat
         /\ Spent(phase[t]) + clock[t] < Handover
<1>1. /\ seen[t] \in 0 .. Lease /\ clock[t] \in Nat /\ clock[t] <= Limit(phase[t])
      /\ seen[t] <= clock[t]
  BY DEF Inv, TabsOK, TypeOK, OnTimeInv, RanInv
<1>2. (phase[t] = "running" /\ Limit(phase[t]) = BeatEvery /\ Spent(phase[t]) = 0)
      \/ (phase[t] = "saving" /\ Limit(phase[t]) = Save /\ Spent(phase[t]) = BeatEvery)
  BY DEF Ran, Limit, Untimed, Spent
<1>3. t # None
  BY SessionsAssumption
<1>4. t \notin beacons /\ (holder = t \/ handing = t)
  BY DEF Inv, SaidInv, RanInv, Ran, In, OnStore
<1> QED
  BY <1>1, <1>2, <1>3, <1>4, TimingAssumption, SessionsAssumption DEF Alive

\* A call of tab a leaves what the server knows of a tab that ran; only a tab
\* that watches takes control from it.
Quiet(a) ==
  \/ PutScreen(a) \/ GetScreen
  \/ Release(a) /\ a \in beacons
  \/ UNCHANGED <<holder, handing, seen>>
Calls(a) ==
  \/ \E take \in BOOLEAN : Beat(a, take) /\ (take => phase[a] \notin In)
  \/ Quiet(a)

\* What such a call leaves.
LEMMA CallKeeps ==
  ASSUME TwoTabs, Inv, NEW a \in Tabs, Calls(a), NEW x \in Tabs, phase[x] \in Ran
  PROVE  /\ seen'[x] \in {seen[x], 0} /\ (holder' = x \/ handing' = x)
         /\ holder = x /\ (phase[a] \in In \/ Quiet(a)) => holder' = x
<1>1. /\ holder \in Tabs \cup {None} /\ handing \in Tabs \cup {None} /\ seen \in [Tabs -> 0 .. Lease]
      /\ None \notin Tabs
  BY SessionsAssumption DEF Inv, TabsOK, TypeOK
<1>2. Alive(x) /\ x \notin beacons /\ (holder = x \/ handing = x)
  BY RanIsAlive
<1>3. /\ holder = x => PrunedHolder = x
      /\ handing = x => PrunedHanding = x
      /\ PrunedHolder \in {holder, None}
  BY <1>2 DEF PrunedHolder, PrunedHanding
<1>4. ASSUME NEW take \in BOOLEAN, Beat(a, take), take => phase[a] \notin In
      PROVE  /\ seen'[x] \in {seen[x], 0} /\ (holder' = x \/ handing' = x)
             /\ holder = x /\ phase[a] \in In => holder' = x
  <2>1. seen'[x] \in {seen[x], 0}
    BY <1>1, <1>4 DEF Beat
  <2>2. CASE PrunedHolder = None
    BY <1>1, <1>2, <1>3, <1>4, <2>1, <2>2 DEF Beat
  <2>3. CASE PrunedHolder # None /\ take /\ PrunedHolder # a
    <3>1. phase[a] \notin In /\ x # a
      BY <1>4, <2>3 DEF Ran, In, OnStore
    <3>2. PrunedHolder = x
      BY <1>1, <1>3, <2>3, <3>1 DEF TwoTabs
    <3> QED
      BY <1>4, <2>1, <2>3, <3>1, <3>2 DEF Beat, Takes
  <2>4. CASE PrunedHolder # None /\ (~take \/ PrunedHolder = a)
    BY <1>2, <1>3, <1>4, <2>1, <2>4 DEF Beat
  <2> QED
    BY <2>2, <2>3, <2>4
<1>q. ASSUME Quiet(a)
      PROVE  /\ seen'[x] \in {seen[x], 0} /\ (holder' = x \/ handing' = x)
             /\ holder = x => holder' = x
  <2>5. CASE PutScreen(a) \/ GetScreen
    BY <1>2, <1>3, <2>5 DEF PutScreen, GetScreen
  <2>6. CASE Release(a) /\ a \in beacons
    <3>1. x # a
      BY <1>2, <2>6
    <3> QED
      BY <1>1, <1>2, <1>3, <2>6, <3>1 DEF Release
  <2>7. CASE UNCHANGED <<holder, handing, seen>>
    BY <1>2, <2>7
  <2> QED
    BY <1>q, <2>5, <2>6, <2>7 DEF Quiet
<1> QED
  BY <1>4, <1>q DEF Calls

\* A tab that is not in control, and another that ran: a beat that gives it
\* control says that the other is handing over.
LEMMA BeatSaysHanding ==
  ASSUME TwoTabs, Inv, NEW a \in Tabs, Calls(a), NEW x \in Tabs, x # a, phase[x] \in Ran,
         holder' = a
  PROVE  Handing(a)
  BY CallKeeps, SessionsAssumption DEF Handing

\* What a step of tab a that changes its phase may do.
Goes(a, p) ==
  /\ GoTo(a, p) /\ beacons' \ {a} \subseteq beacons
  /\ p \in In => a \notin beacons'
  /\ p \in Ran => /\ phase[a] \in In /\ seen'[a] = 0
                  /\ p = "running" => holder' = a
                  /\ p = "saving" => phase[a] = "running"
  /\ p \in In /\ phase[a] \notin In => holder' = a /\ (Handing(a) => p = "waiting")
  /\ p \in In /\ phase[a] = "waiting" =>
       wait[a] >= Handover \/ (~Handing(a) /\ (PrunedHolder \in {a, None} => holder' = a))

\* Such a step keeps the invariant: of the two tabs, either the one that ran
\* goes, or the other does, which waits if control was taken from the first.
LEMMA GoesStep ==
  ASSUME TwoTabs, Inv, NEW a \in Tabs, NEW p \in Phases, Calls(a), Goes(a, p)
  PROVE  SaidInv' /\ RanInv' /\ PairInv'
<1>1. /\ phase'[a] = p /\ clock'[a] = 0 /\ wait'[a] = 0
      /\ \A x \in Tabs \ {a} : phase'[x] = phase[x] /\ clock'[x] = clock[x] /\ wait'[x] = wait[x]
  BY GoToFacts DEF Inv, Goes
<1>2. SaidInv'
  BY <1>1 DEF Inv, SaidInv, Goes
<1>3. RanInv'
  <2> SUFFICES ASSUME NEW x \in Tabs, phase'[x] \in Ran
               PROVE  (holder' = x \/ handing' = x) /\ seen'[x] <= clock'[x]
    BY DEF RanInv
  <2>1. CASE x = a
    <3>1. seen'[x] <= clock'[x]
      BY <1>1, <2>1 DEF Goes
    <3>2. p = "running" \/ (p = "saving" /\ phase[a] \in Ran)
      BY <1>1, <2>1 DEF Goes, Ran
    <3>3. holder' = x \/ handing' = x
      BY <2>1, <3>2, CallKeeps DEF Goes, Ran
    <3> QED
      BY <3>1, <3>3
  <2>2. CASE x # a
    <3>1. phase[x] \in Ran /\ clock'[x] = clock[x] /\ seen[x] <= clock[x] /\ clock[x] \in Nat
      BY <1>1, <2>2 DEF Inv, RanInv, TabsOK
    <3>2. seen'[x] \in {seen[x], 0} /\ (holder' = x \/ handing' = x)
      BY <3>1, CallKeeps
    <3> QED
      BY <3>1, <3>2
  <2> QED
    BY <2>1, <2>2
<1>4. PairInv'
  <2> SUFFICES ASSUME NEW t \in Tabs, NEW u \in Tabs, t # u, phase'[t] \in Ran, phase'[u] \in In,
                      holder' # t
               PROVE  phase'[u] = "waiting" /\ wait'[u] <= Spent(phase'[t]) + clock'[t]
    BY DEF PairInv
  <2>1. CASE a = u
    <3>1. phase[t] \in Ran /\ phase'[t] = phase[t] /\ clock'[t] = clock[t] /\ p \in In
      BY <1>1, <2>1
    <3>2. /\ clock[t] \in Nat /\ Spent(phase[t]) \in Nat
          /\ Spent(phase[t]) + clock[t] < Handover /\ Alive(t)
      BY <3>1, RanIsAlive
    <3>3. CASE phase[a] \notin In
      <4>1. p = "waiting"
        BY <2>1, <3>1, <3>3, BeatSaysHanding DEF Goes
      <4> QED
        BY <1>1, <2>1, <3>1, <3>2, <4>1
    <3>4. CASE phase[a] \in In
      <4>1. holder # t
        BY <3>1, <3>4, CallKeeps
      <4>2. phase[u] = "waiting" /\ wait[u] <= Spent(phase[t]) + clock[t]
        BY <2>1, <3>1, <3>4, <4>1 DEF Inv, PairInv
      <4>3. wait[u] \in Nat /\ Handover \in Nat
        BY TimingAssumption DEF Inv, TabsOK
      <4>4. ~(wait[u] >= Handover)
        BY <3>2, <4>2, <4>3
      <4>5. PrunedHolder \in {a, None}
        <5>1. holder \in Tabs \cup {None}
          BY DEF Inv, TabsOK, TypeOK
        <5> QED
          BY <2>1, <4>1, <5>1 DEF PrunedHolder, TwoTabs
      <4>6. holder' = a /\ ~Handing(a)
        BY <2>1, <3>1, <4>2, <4>4, <4>5 DEF Goes
      <4> QED
        BY <2>1, <3>1, <4>6, BeatSaysHanding
    <3> QED
      BY <3>3, <3>4
  <2>2. CASE a = t
    <3>1. p = "saving" /\ phase[t] = "running" /\ phase[t] \in Ran /\ phase[t] \in In
      BY <1>1, <2>2 DEF Goes, Ran, In, OnStore
    <3>2. phase[u] \in In /\ phase'[u] = phase[u] /\ wait'[u] = wait[u]
      BY <1>1, <2>2
    <3>3. holder # t
      BY <2>2, <3>1, CallKeeps
    <3>4. phase[u] = "waiting" /\ wait[u] <= Spent(phase[t]) + clock[t]
      BY <3>1, <3>2, <3>3 DEF Inv, PairInv
    <3>5. Spent(phase[t]) = 0 /\ Spent(phase'[t]) = BeatEvery /\ Limit(phase[t]) = BeatEvery
      BY <1>1, <2>2, <3>1 DEF Spent, Limit, Untimed
    <3>6. clock[t] <= Limit(phase[t]) /\ clock[t] \in Nat /\ wait[u] \in Nat /\ BeatEvery \in Nat
      BY TimingAssumption DEF Inv, OnTimeInv, TabsOK
    <3> QED
      BY <1>1, <2>2, <3>2, <3>4, <3>5, <3>6
  <2> QED
    BY <2>1, <2>2 DEF TwoTabs
<1> QED
  BY <1>2, <1>3, <1>4

\* A step in which the tabs stay where they are.
LEMMA StaysStep ==
  ASSUME TwoTabs, Inv, NEW a \in Tabs, Calls(a), phase[a] \in In \/ Quiet(a),
         UNCHANGED <<phase, wait>>, beacons' \subseteq beacons,
         \A x \in Tabs : phase[x] \in Ran => clock'[x] = clock[x]
  PROVE  SaidInv' /\ RanInv' /\ PairInv'
<1>1. ASSUME NEW x \in Tabs, phase[x] \in Ran
      PROVE  /\ seen'[x] \in {seen[x], 0} /\ (holder' = x \/ handing' = x)
             /\ holder = x => holder' = x
  BY <1>1, CallKeeps
<1>2. SaidInv'
  BY DEF Inv, SaidInv
<1>3. RanInv'
  <2> SUFFICES ASSUME NEW x \in Tabs, phase[x] \in Ran
               PROVE  (holder' = x \/ handing' = x) /\ seen'[x] <= clock'[x]
    BY DEF RanInv
  <2>1. seen[x] <= clock[x] /\ clock[x] \in Nat /\ clock'[x] = clock[x]
    BY DEF Inv, RanInv, TabsOK
  <2> QED
    BY <1>1, <2>1
<1>4. PairInv'
  BY <1>1 DEF Inv, PairInv
<1> QED
  BY <1>2, <1>3, <1>4

\* A tick: the times of the tab that ran and of the one that waits go on
\* together.
LEMMA TickStep ==
  ASSUME Inv, Tick
  PROVE  SaidInv' /\ RanInv' /\ PairInv'
<1>1. UNCHANGED <<holder, handing, phase, lock, beacons>>
  BY DEF Tick, Age
<1>2. ASSUME NEW x \in Tabs, phase[x] \in Ran
      PROVE  /\ clock'[x] = clock[x] + 1 /\ clock[x] \in Nat /\ seen[x] \in Nat
             /\ seen'[x] <= seen[x] + 1 /\ seen'[x] \in Nat
  <2>1. phase[x] \notin Untimed
    BY <1>2 DEF Ran, Untimed
  <2>2. clock[x] \in Nat /\ seen[x] \in 0 .. Lease
    BY DEF Inv, TabsOK, TypeOK
  <2>3. clock'[x] = clock[x] + 1
    BY <2>1 DEF Tick
  <2>4. seen'[x] = IF seen[x] < Lease THEN seen[x] + 1 ELSE Lease
    BY DEF Tick, Age
  <2> QED
    BY <2>2, <2>3, <2>4, SessionsAssumption
<1>3. SaidInv'
  BY <1>1 DEF Inv, SaidInv
<1>4. RanInv'
  <2> SUFFICES ASSUME NEW x \in Tabs, phase[x] \in Ran
               PROVE  (holder = x \/ handing = x) /\ seen'[x] <= clock'[x]
    BY <1>1 DEF RanInv
  <2>1. (holder = x \/ handing = x) /\ seen[x] <= clock[x]
    BY DEF Inv, RanInv
  <2> QED
    BY <1>2, <2>1
<1>5. PairInv'
  <2> SUFFICES ASSUME NEW t \in Tabs, NEW u \in Tabs, t # u, phase[t] \in Ran, phase[u] \in In,
                      holder # t
               PROVE  phase[u] = "waiting" /\ wait'[u] <= Spent(phase[t]) + clock'[t]
    BY <1>1 DEF PairInv
  <2>1. phase[u] = "waiting" /\ wait[u] <= Spent(phase[t]) + clock[t]
    BY DEF Inv, PairInv
  <2>2. wait'[u] = wait[u] + 1 /\ wait[u] \in Nat
    BY <2>1 DEF Tick, Inv, TabsOK
  <2>3. Spent(phase[t]) \in Nat
    BY RanIsAlive
  <2> QED
    BY <1>2, <2>1, <2>2, <2>3
<1> QED
  BY <1>3, <1>4, <1>5

\* With two tabs at most every step keeps the invariant.
LEMMA InvStep == TwoTabs /\ Inv /\ [Next]_vars => Inv'
<1> SUFFICES ASSUME TwoTabs, Inv, [Next]_vars PROVE SaidInv' /\ RanInv' /\ PairInv'
  BY TabsStep DEF Inv
<1>n. \A t \in Tabs : phase[t] \in In => t \notin beacons
  BY DEF Inv, SaidInv
<1>1. ASSUME NEW t \in Tabs, Open(t) \/ Saved(t) \/ \E says \in BOOLEAN : Close(t, says)
      PROVE  SaidInv' /\ RanInv' /\ PairInv'
  <2>1. PICK p \in {"closed", "watching"} : GoTo(t, p)
    BY <1>1 DEF Open, Saved, Close
  <2>2. p \in Phases /\ p \notin In /\ p \notin Ran
    BY DEF Phases, In, OnStore, Ran
  <2>3. UNCHANGED <<holder, handing, seen>> /\ beacons' \ {t} \subseteq beacons
    BY <1>1 DEF Open, Saved, Close
  <2> QED
    BY <2>1, <2>2, <2>3, GoesStep DEF Goes, Calls, Quiet
<1>2. ASSUME NEW t \in Tabs, NEW take \in BOOLEAN, Watch(t, take)
      PROVE  SaidInv' /\ RanInv' /\ PairInv'
  <2>1. PICK p \in {"watching", "waiting", "starting"} :
          /\ GoTo(t, p) /\ (p # "watching" => holder' = t) /\ (p # "watching" /\ Handing(t) => p = "waiting")
    BY <1>2 DEF Watch, Controls
  <2>2. p \in Phases /\ p \notin Ran /\ (p \in In => p # "watching")
    BY DEF Phases, In, OnStore, Ran
  <2>3. phase[t] = "watching" /\ phase[t] \notin In /\ Beat(t, take) /\ beacons' = beacons /\ t \notin beacons
    BY <1>2 DEF Watch, In, OnStore
  <2> QED
    BY <2>1, <2>2, <2>3, GoesStep DEF Goes, Calls, Quiet
<1>3. ASSUME NEW t \in Tabs, Poll(t) PROVE SaidInv' /\ RanInv' /\ PairInv'
  <2>1. phase[t] = "waiting" /\ phase[t] \in In /\ Beat(t, FALSE) /\ beacons' = beacons
    BY <1>3 DEF Poll, In
  <2>2. Calls(t)
    BY <2>1 DEF Calls
  <2>3. CASE Handing(t)
    <3>1. clock' = [clock EXCEPT ![t] = 0] /\ UNCHANGED <<phase, wait>>
      BY <1>3, <2>3 DEF Poll
    <3>2. \A x \in Tabs : phase[x] \in Ran => clock'[x] = clock[x]
      BY <2>1, <3>1 DEF Ran, Inv, TabsOK
    <3> QED
      BY <2>1, <2>2, <3>1, <3>2, StaysStep
  <2>4. CASE ~Handing(t)
    <3>1. GoTo(t, "starting") /\ t \notin beacons
      BY <1>3, <1>n, <2>1, <2>4 DEF Poll
    <3>2. "starting" \in Phases /\ "starting" \notin Ran
      BY DEF Phases, Ran
    <3>3. PrunedHolder \in {t, None} => holder' = t
      BY <2>1 DEF Beat
    <3> QED
      BY <2>1, <2>2, <2>4, <3>1, <3>2, <3>3, GoesStep DEF Goes
  <2> QED
    BY <2>3, <2>4
<1>4. ASSUME NEW t \in Tabs, WaitedEnough(t) \/ DisksFetched(t) \/ GetLock(t) \/ Restart(t) \/ Restarted(t)
      PROVE  SaidInv' /\ RanInv' /\ PairInv'
  <2>1. PICK p \in {"starting", "locking", "loading", "restarting"} : GoTo(t, p)
    BY <1>4 DEF WaitedEnough, DisksFetched, GetLock, Restart, Restarted
  <2>2. p \in Phases /\ p \notin Ran
    BY DEF Phases, Ran
  <2>3. /\ phase[t] \in In /\ UNCHANGED <<holder, handing, seen, beacons>>
        /\ phase[t] = "waiting" => wait[t] >= Handover
    BY <1>4 DEF WaitedEnough, DisksFetched, GetLock, Restart, Restarted, In, OnStore
  <2> QED
    BY <1>n, <2>1, <2>2, <2>3, GoesStep DEF Goes, Calls, Quiet
<1>5. ASSUME NEW t \in Tabs, WorkerBeat(t) PROVE SaidInv' /\ RanInv' /\ PairInv'
  <2>1. PICK p \in {"running", "saving", "leaving"} :
          GoTo(t, p) /\ (p = "running" => holder' = t) /\ (p = "saving" => phase[t] = "running")
    BY <1>5 DEF WorkerBeat, Controls
  <2>2. /\ phase[t] \in {"loading", "running"} /\ phase[t] \in In /\ phase[t] # "waiting"
        /\ Beat(t, FALSE) /\ beacons' = beacons
    BY <1>5 DEF WorkerBeat, In, OnStore
  <2>3. p \in Phases /\ seen'[t] = 0
    BY <2>2 DEF Phases, Beat, Inv, TabsOK, TypeOK
  <2> QED
    BY <1>n, <2>1, <2>2, <2>3, GoesStep DEF Goes, Calls, Quiet
<1>6. ASSUME NEW t \in Tabs, SaveBeat(t) PROVE SaidInv' /\ RanInv' /\ PairInv'
  <2>1. phase[t] \in In /\ Beat(t, FALSE) /\ UNCHANGED <<phase, clock, wait, beacons>>
    BY <1>6 DEF SaveBeat, tabs, In, OnStore
  <2> QED
    BY <2>1, StaysStep DEF Calls
<1>7. ASSUME NEW t \in Tabs, SendScreen(t) \/ View(t) \/ Arrives(t) \/ Lost(t)
      PROVE  SaidInv' /\ RanInv' /\ PairInv'
  <2>1. /\ UNCHANGED <<phase, clock, wait>> /\ beacons' \subseteq beacons
        /\ \/ PutScreen(t) \/ GetScreen \/ (Release(t) /\ t \in beacons)
           \/ UNCHANGED <<holder, handing, seen>>
    BY <1>7 DEF SendScreen, View, Arrives, Lost, tabs
  <2> QED
    BY <2>1, StaysStep DEF Calls, Quiet
<1>8. CASE Tick
  BY <1>8, TickStep
<1>9. CASE UNCHANGED vars
  BY <1>9 DEF Inv, SaidInv, RanInv, PairInv, vars
<1> QED
  BY <1>1, <1>2, <1>3, <1>4, <1>5, <1>6, <1>7, <1>8, <1>9 DEF Next

\* A tab that ran Executor when control was taken from it has let go before the
\* other reads the store, for all times that TimingAssumption allows (the
\* code's are such), however long a boot or the page's fetches take and however
\* often the tabs restart, with or without Web Locks, as long as there are two
\* tabs at most: the taker waits longer than the other can go on, whose lease
\* does not run out. (With three it does not hold.)
THEOREM RunningIsWaitedForCorrect ==
  ASSUME TwoTabs
  PROVE  Spec => []RunningIsWaitedFor
<1>1. Init => Inv
  <2> SUFFICES ASSUME Init PROVE Inv
    OBVIOUS
  <2>1. \A t \in Tabs : phase[t] \notin In /\ phase[t] \notin Ran
    BY DEF Init, In, OnStore, Ran
  <2> QED
    BY <2>1, TabsInit DEF Inv, SaidInv, RanInv, PairInv
<1>2. Inv /\ [Next]_vars => Inv'
  BY InvStep
<1>3. Inv => RunningIsWaitedFor
  BY DEF Inv, PairInv, RunningIsWaitedFor, Ran, In, OnStore
<1> QED
  BY <1>1, <1>2, <1>3, PTL DEF Spec
=============================================================================
