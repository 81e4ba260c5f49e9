---------------------------- MODULE TimeManager ----------------------------
(***************************************************************************)
(* The Mac's Time Manager (core/timer.cpp, core/timer_unix.cpp), as built  *)
(* with PRECISE_TIMING_POSIX: the CPU thread runs InsTime, RmvTime and     *)
(* PrimeTime for the guest and TimerInterrupt at an interrupt; the timer   *)
(* thread sleeps until wakeup_time on a condition variable and raises      *)
(* INTFLAG_TIMER. With --deterministic the CPU thread polls instead.       *)
(*                                                                         *)
(* A task is its TMTask's address; time is in milliseconds. What happens   *)
(* under wakeup_time_lock is one action. A descriptor's wakeup is Unset    *)
(* until PrimeTime writes it: new TMDesc does not initialize it. A task is *)
(* always installed the same way, with InsTime or with InsXTime.           *)
(***************************************************************************)
EXTENDS Integers, SequencesExt

CONSTANTS
    Tasks, XTasks, NoTask, Freed,
    Delays,      \* the times a task is primed with
    MaxTime      \* bound: the clock stops here

ASSUME TimeAssumption ==
    /\ NoTask \notin Tasks /\ Freed \notin Tasks /\ NoTask # Freed
    /\ XTasks \subseteq Tasks     \* installed with InsXTime: qType & 0x4000
    /\ Delays \in [Tasks -> SUBSET Nat]
    /\ MaxTime \in Nat

Far   == MaxTime + 1     \* bound: a time the clock does not reach
Never == MaxTime + 2     \* wakeup_time_max
Unset == -1

VARIABLES
    now,          \* timer_current_time()
    vclock,       \* vclock_enabled
    tmDescList,   \* the tasks with a descriptor, in the list's order
    wakeup,       \* desc->wakeup
    active,       \* qType & 0x8000
    tmWakeUp,     \* the task's tmWakeUp is not 0
    tmCount,      \* what PrimeTime reads of an extended task's tmCount, as RmvTime saved it
    wakeup_time,  \* when the timer thread is to raise the interrupt
    flag,         \* INTFLAG_TIMER
    thread,       \* the timer thread: "wait" in pthread_cond_timedwait, "fire" past it
    deadline,     \* till when it waits
    signalled,    \* pthread_cond_signal reached it
    cpu,          \* the CPU thread: "guest" code, TimerInterrupt's "walk", a task's "routine"
    op,           \* the Time Manager call it is in: "none", "prime", "signal"
    task,         \* the task PrimeTime is to make active
    irq_now,      \* TimerInterrupt's now,
    desc, next    \* and its place in the list

guest  == <<tmWakeUp, tmCount>>
sleep  == <<thread, deadline, signalled>>
walk   == <<irq_now, desc, next>>
opVars == <<op, task>>
vars   == <<now, vclock, tmDescList, wakeup, active, guest, wakeup_time, flag,
            sleep, cpu, opVars, walk>>

\* find_desc: there is a descriptor, and which one it is.
Installed(t) == \E i \in DOMAIN tmDescList : tmDescList[i] = t
Place(t)     == CHOOSE i \in DOMAIN tmDescList : tmDescList[i] = t

\* free_desc: the list without t's descriptor.
Without(t) == RemoveAt(tmDescList, Place(t))

Init ==
    /\ now = 0 /\ vclock \in BOOLEAN
    /\ tmDescList = <<>>
    /\ wakeup = [t \in Tasks |-> Unset]
    /\ active = [t \in Tasks |-> FALSE]
    /\ tmWakeUp = [t \in Tasks |-> FALSE]
    /\ tmCount = [t \in Tasks |-> 0]
    /\ wakeup_time = Never /\ flag = FALSE
    /\ thread = "wait" /\ deadline = Never /\ signalled = FALSE
    /\ cpu = "guest" /\ op = "none" /\ task = NoTask
    /\ irq_now = 0 /\ desc = NoTask /\ next = NoTask

\* The next wakeup, once act says which tasks are active.
NextWakeup(act) ==
    LET due == {wakeup[t] : t \in {u \in Tasks : Installed(u) /\ act[u]}}
    IN  IF due = {} THEN Never ELSE CHOOSE w \in due : \A v \in due : w <= v

\* timer_mac2host_time: positive in ms, negative in us.
Mac2Host(t) == IF t > 0 THEN t ELSE (-t) \div 1000

\* timer_host2mac_time, of a time that fits in 32 bits of us.
Host2Mac(t) == IF t < 0 THEN 0 ELSE -(t * 1000)

\* ReadMacInt16 of the 32 bits WriteMacInt32 wrote: the upper half.
ReadMacInt16(n) == (n \div 65536) % 65536

\* What is found in tmCount when a task is continued whose remaining time was
\* saved there. A task that is not extended is never continued.
Saved(t, remaining) == IF t \in XTasks THEN ReadMacInt16(Host2Mac(remaining)) ELSE 0

Within(t) == IF t > Far THEN Far ELSE t

(***************************************************************************)
(* The guest's calls, from an application or from a task's routine.        *)
(***************************************************************************)
InGuest == cpu # "walk" /\ op = "none"

\* Mutant: the task is not looked for before a descriptor is made.
InsTimeAgain(t, fresh) ==
    /\ InGuest
    /\ Len(tmDescList) < 3
    /\ active' = [active EXCEPT ![t] = FALSE]
    /\ tmWakeUp' = [tmWakeUp EXCEPT ![t] = @ /\ ~fresh]
    /\ tmDescList' = <<t>> \o tmDescList
    /\ UNCHANGED <<now, vclock, wakeup, tmCount, wakeup_time, flag, sleep, cpu, opVars, walk>>

\* InsTime or InsXTime, of a record whose tmWakeUp the guest may have cleared.
InsTime(t, fresh) ==
    /\ InGuest
    /\ active' = [active EXCEPT ![t] = FALSE]
    /\ tmWakeUp' = [tmWakeUp EXCEPT ![t] = @ /\ ~fresh]
    /\ tmDescList' = IF Installed(t) THEN tmDescList ELSE <<t>> \o tmDescList
    /\ UNCHANGED <<now, vclock, wakeup, tmCount, wakeup_time, flag, sleep, cpu, opVars, walk>>

\* The list goes on with what it was without t; a walk's saved next may be t.
RmvTime(t) ==
    /\ InGuest
    /\ Installed(t)
    /\ active' = [active EXCEPT ![t] = FALSE]
    /\ IF active[t]
       THEN /\ wakeup_time' = NextWakeup(active')
            /\ tmCount' = [tmCount EXCEPT ![t] = Saved(t, wakeup[t] - now)]
       ELSE /\ tmCount' = [tmCount EXCEPT ![t] = 0]
            /\ UNCHANGED wakeup_time
    /\ tmDescList' = Without(t)
    /\ next' = IF next = t THEN Freed ELSE next
    /\ wakeup' = [wakeup EXCEPT ![t] = Unset]
    /\ op' = "signal"
    /\ UNCHANGED <<now, vclock, tmWakeUp, flag, sleep, cpu, task, irq_now, desc>>

\* PrimeTime's wakeup time. An extended task with tmWakeUp set goes by its
\* last one, and continues the delay in tmCount if the time is 0. A wakeup
\* that was never written is whatever the memory held.
PrimeWakeups(t, d) ==
    IF t \in XTasks /\ tmWakeUp[t]
    THEN LET delay == IF d = 0 THEN Mac2Host(tmCount[t]) ELSE Mac2Host(d)
             base  == IF wakeup[t] = Unset THEN {0, Far} ELSE {wakeup[t]}
         IN  {Within(b + delay) : b \in base}
    ELSE {Within(now + Mac2Host(d))}

PrimeTime(t, d) ==
    /\ InGuest
    /\ Installed(t)
    /\ \E w \in PrimeWakeups(t, d) : wakeup' = [wakeup EXCEPT ![t] = w]
    /\ tmWakeUp' = [tmWakeUp EXCEPT ![t] = @ \/ t \in XTasks]
    /\ op' = "prime" /\ task' = t
    /\ UNCHANGED <<now, vclock, tmDescList, active, tmCount, wakeup_time,
                   flag, sleep, cpu, walk>>

\* ... makes it active, with the lock;
PrimeActivates ==
    /\ op = "prime"
    /\ active' = [active EXCEPT ![task] = TRUE]
    /\ wakeup_time' = NextWakeup(active')
    /\ op' = "signal" /\ task' = NoTask
    /\ UNCHANGED <<now, vclock, tmDescList, wakeup, guest, flag, sleep, cpu, walk>>

\* Mutant: the thread is not told that the deadline moved.
SignalNobody ==
    /\ op = "signal"
    /\ op' = "none"
    /\ UNCHANGED <<now, vclock, tmDescList, wakeup, active, guest, wakeup_time, flag,
                   sleep, cpu, task, walk>>

\* timer_thread_resume(): a signal reaches a thread that waits. With the
\* virtual clock it does not: it sleeps 10 ms at a time.
Signal ==
    /\ op = "signal"
    /\ signalled' = (signalled \/ (thread = "wait" /\ ~vclock))
    /\ op' = "none"
    /\ UNCHANGED <<now, vclock, tmDescList, wakeup, active, guest, wakeup_time, flag,
                   thread, deadline, cpu, task, walk>>

\* A reset of the Mac: no descriptor is left; the tasks' records are.
TimerReset ==
    /\ cpu = "guest" /\ op = "none"
    /\ tmDescList' = <<>>
    /\ wakeup' = [t \in Tasks |-> Unset]
    /\ UNCHANGED <<now, vclock, active, guest, wakeup_time, flag, sleep, cpu,
                   opVars, walk>>

(***************************************************************************)
(* The interrupt: ClearInterruptFlag and TimerInterrupt.                   *)
(***************************************************************************)
HeadOr(s) == IF s = <<>> THEN NoTask ELSE s[1]

\* desc->next
Successor(t) == IF Place(t) = Len(tmDescList) THEN NoTask ELSE tmDescList[Place(t) + 1]

TimerInterrupt ==
    /\ cpu = "guest" /\ op = "none"
    /\ flag
    /\ flag' = FALSE
    /\ irq_now' = now
    /\ desc' = HeadOr(tmDescList)
    /\ cpu' = "walk"
    /\ UNCHANGED <<now, vclock, tmDescList, wakeup, active, guest, wakeup_time, sleep,
                   opVars, next>>

\* Mutant: the walk ends at the first task that is not due, as if the list
\* were in the order of the wakeups.
WalkDescInOrder ==
    /\ cpu = "walk"
    /\ desc # NoTask
    /\ IF active[desc] /\ wakeup[desc] <= irq_now
       THEN /\ active' = [active EXCEPT ![desc] = FALSE]
            /\ next' = Successor(desc)
            /\ cpu' = "routine"
            /\ desc' = NoTask
       ELSE /\ desc' = NoTask
            /\ UNCHANGED <<active, next, cpu>>
    /\ UNCHANGED <<now, vclock, tmDescList, wakeup, guest, wakeup_time, flag, sleep,
                   opVars, irq_now>>

\* A task that is due is run; from then on only next is used.
WalkDesc ==
    /\ cpu = "walk"
    /\ desc # NoTask
    /\ IF active[desc] /\ wakeup[desc] <= irq_now
       THEN /\ active' = [active EXCEPT ![desc] = FALSE]
            /\ next' = Successor(desc)
            /\ cpu' = "routine"
            /\ desc' = NoTask
       ELSE /\ desc' = Successor(desc)
            /\ UNCHANGED <<active, next, cpu>>
    /\ UNCHANGED <<now, vclock, tmDescList, wakeup, guest, wakeup_time, flag, sleep,
                   opVars, irq_now>>

\* Execute68k returns. If the routine removed the task after its own, the
\* walk goes on in freed memory: at any descriptor, or nowhere.
RoutineReturns ==
    /\ cpu = "routine" /\ op = "none"
    /\ cpu' = "walk"
    /\ desc' \in IF next = Freed THEN ToSet(tmDescList) \cup {NoTask} ELSE {next}
    /\ next' = NoTask
    /\ UNCHANGED <<now, vclock, tmDescList, wakeup, active, guest, wakeup_time, flag,
                   sleep, opVars, irq_now>>

\* Mutant: wakeup_time is left as the timer thread set it.
WalkEndsUnarmed ==
    /\ cpu = "walk"
    /\ desc = NoTask
    /\ cpu' = "guest"
    /\ op' = "signal"
    /\ irq_now' = 0
    /\ UNCHANGED <<now, vclock, tmDescList, wakeup, active, guest, wakeup_time, flag,
                   sleep, task, desc, next>>

WalkEnds ==
    /\ cpu = "walk"
    /\ desc = NoTask
    /\ wakeup_time' = NextWakeup(active)
    /\ cpu' = "guest"
    /\ op' = "signal"
    /\ irq_now' = 0
    /\ UNCHANGED <<now, vclock, tmDescList, wakeup, active, guest, flag, sleep, task,
                   desc, next>>

(***************************************************************************)
(* The timer thread and the clock.                                         *)
(***************************************************************************)
\* It wakes, with the lock, and waits again unless the time has passed.
TimerFunc ==
    /\ ~vclock
    /\ thread = "wait"
    /\ signalled \/ deadline <= now
    /\ signalled' = FALSE
    /\ IF wakeup_time < now
       THEN wakeup_time' = Never /\ thread' = "fire" /\ deadline' = Never
       ELSE deadline' = wakeup_time /\ UNCHANGED <<wakeup_time, thread>>
    /\ UNCHANGED <<now, vclock, tmDescList, wakeup, active, guest, flag, cpu, opVars, walk>>

TimerFires ==
    /\ thread = "fire"
    /\ flag' = TRUE
    /\ thread' = "wait"
    /\ deadline' = wakeup_time
    /\ UNCHANGED <<now, vclock, tmDescList, wakeup, active, guest, wakeup_time,
                   signalled, cpu, opVars, walk>>

TimerVirtualPoll ==
    /\ vclock
    /\ InGuest
    /\ wakeup_time < now
    /\ wakeup_time' = Never
    /\ flag' = TRUE
    /\ UNCHANGED <<now, vclock, tmDescList, wakeup, active, guest, sleep, cpu, opVars, walk>>

Tick ==
    /\ now < MaxTime
    /\ now' = now + 1
    /\ UNCHANGED <<vclock, tmDescList, wakeup, active, guest, wakeup_time, flag, sleep,
                   cpu, opVars, walk>>

-----------------------------------------------------------------------------
GuestCalls ==
    \E t \in Tasks :
        \/ \E fresh \in BOOLEAN : InsTime(t, fresh)
        \/ RmvTime(t)
        \/ \E d \in Delays[t] : PrimeTime(t, d)

\* What the CPU thread does without being asked by the guest.
Cpu == PrimeActivates \/ Signal \/ TimerInterrupt \/ WalkDesc \/ RoutineReturns
       \/ WalkEnds \/ TimerVirtualPoll

Thread == TimerFunc \/ TimerFires

Next == GuestCalls \/ TimerReset \/ Cpu \/ Thread \/ Tick

(***************************************************************************)
(* The clock and the timer thread go on. So does the CPU thread, whatever  *)
(* the guest asks for meanwhile: an interrupt that is pending is taken,    *)
(* and a routine returns.                                                  *)
(***************************************************************************)
Fairness ==
    /\ WF_vars(Tick) /\ WF_vars(Thread)
    /\ WF_vars(PrimeActivates \/ Signal \/ WalkDesc \/ WalkEnds)
    /\ SF_vars(TimerInterrupt) /\ SF_vars(RoutineReturns) /\ SF_vars(TimerVirtualPoll)

Spec == Init /\ [][Next]_vars /\ Fairness

-----------------------------------------------------------------------------
TypeOK ==
    /\ now \in 0 .. MaxTime /\ vclock \in BOOLEAN /\ flag \in BOOLEAN
    /\ \A i, j \in DOMAIN tmDescList :
          tmDescList[i] \in Tasks /\ (tmDescList[i] = tmDescList[j] => i = j)
    /\ wakeup \in [Tasks -> Unset .. Far]
    /\ active \in [Tasks -> BOOLEAN]
    /\ tmWakeUp \in [Tasks -> BOOLEAN] /\ tmCount \in [Tasks -> Int]
    /\ {wakeup_time, deadline} \subseteq 0 .. Never
    /\ thread \in {"wait", "fire"} /\ signalled \in BOOLEAN
    /\ cpu \in {"guest", "walk", "routine"} /\ op \in {"none", "prime", "signal"}
    /\ task \in Tasks \cup {NoTask} /\ irq_now \in 0 .. MaxTime
    /\ desc \in Tasks \cup {NoTask} /\ next \in Tasks \cup {NoTask, Freed}

\* An active task is provided for: the timer is to go off by its wakeup, or
\* the interrupt that will find it is on its way or under way.
Armed ==
    \A t \in Tasks : Installed(t) /\ active[t] =>
        \/ wakeup_time <= wakeup[t]
        \/ flag \/ thread = "fire" \/ op = "prime" \/ cpu # "guest"

\* The timer thread never sleeps past wakeup_time: it was signalled, or a
\* signal is about to be sent.
ThreadInTime ==
    ~vclock /\ thread = "wait" /\ op # "signal" => deadline <= wakeup_time \/ signalled

\* An active task whose time the clock reaches does not stay so: it runs, or
\* the guest takes it out or puts it off.
NoTaskLost ==
    \A t \in Tasks : []<>~(Installed(t) /\ active[t] /\ wakeup[t] < MaxTime)
=============================================================================
