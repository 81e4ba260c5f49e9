----------------------------- MODULE TabControl -----------------------------
(***************************************************************************)
(* One tab in control: the tabs (executor/web/main.js and worker.js) and   *)
(* the server's TabSessions together, in time. A tab in control runs       *)
(* Executor on the server's store; taken over, it saves, lets go (a        *)
(* release beacon) and watches; the tab that took over waits for that, at  *)
(* most HANDOVER, before it starts. Its Worker then waits for the Worker   *)
(* before it to end (a Web Lock of the browser, where the page has them),  *)
(* for a few seconds, before it reads the store.                           *)
(*                                                                         *)
(* What has a timer in the code takes at most that long: a beat, the save  *)
(* of saveAndStop, HANDOVER, the wait for the lock. What has none takes as *)
(* long as it likes: the page's own fetches before it tells the Worker to  *)
(* start, and the Worker's boot up to its first beat.                      *)
(*                                                                         *)
(* The assumptions on the surroundings: the timers of a Worker that runs   *)
(* and of a page that waits are on time, a request reaches the server and  *)
(* is answered at once, and a tab's release beacon arrives before its next *)
(* request. A tab that watches may be late for as long as it likes (a      *)
(* background tab's timers are held back), may be closed, or may die       *)
(* without a word; the beacon of a closed one may be late or lost.         *)
(***************************************************************************)
EXTENDS TabSessions, FiniteSets

CONSTANTS
  BeatEvery,  \* BEAT: ticks between the beats of a tab that runs
  Save,       \* how long a save takes, at most (saveAndStop gives up after 3 s)
  Handover,   \* HANDOVER: how long the new tab waits
  LockWait,   \* previousGone's limit
  NoLocks     \* the page has no Web Locks (not a secure context)

ASSUME TimingAssumption ==
  /\ {BeatEvery, Save, Handover, LockWait} \subseteq Nat \ {0}
  /\ BeatEvery + Save < Handover   \* 2 s + 3 s < 6 s: noticed at a beat, and saved
  /\ BeatEvery < Lease /\ Save < Lease /\ LockWait < Lease   \* 2 s, 3 s, 5 s < 10 s
  /\ NoLocks \notin Tabs \cup {None}

VARIABLES
  phase,    \* what each tab does
  clock,    \* ticks since its last beat, or since it began to save or to wait
  wait,     \* ticks it has waited for the tab before it
  lock,     \* the tab whose Worker has the lock 'executor-tab', or NoLocks
  beacons   \* the tabs whose release beacon is on its way

tabs == <<phase, clock, wait, lock, beacons>>
vars == <<holder, handing, seen, screen, phase, clock, wait, lock, beacons>>

\* "starting": the page gets its disks; "locking": the Worker waits for the
\* one before it to end. From "loading" on it is on the store, and "running"
\* from the first beat that tells it that it is in control. Told that it is
\* not, a tab that ran is "saving"; told so at its first beat, "leaving".
Phases == {"closed", "watching", "waiting", "starting", "locking", "loading", "running",
           "restarting", "saving", "leaving"}
OnStore == {"loading", "running", "restarting", "saving", "leaving"}

\* What has no timer.
Untimed == {"closed", "watching", "starting", "loading"}

Init ==
  /\ InitSessions
  /\ phase = [t \in Tabs |-> "closed"]
  /\ clock = [t \in Tabs |-> 0]
  /\ wait = [t \in Tabs |-> 0]
  /\ lock \in {None, NoLocks}
  /\ beacons = {}

\* The tab goes on to phase p, its clock and its wait at 0.
GoTo(t, p) ==
  /\ phase' = [phase EXCEPT ![t] = p]
  /\ clock' = [clock EXCEPT ![t] = 0]
  /\ wait' = [wait EXCEPT ![t] = 0]

\* Its Worker ends, and a lock it has is free.
WorkerEnds(t) == lock' = IF lock = t THEN None ELSE lock

\* A page is loaded; its id is a new one.
Open(t) ==
  /\ phase[t] = "closed" /\ t \notin beacons
  /\ seen[t] = Lease /\ holder # t /\ handing # t
  /\ GoTo(t, "watching")
  /\ UNCHANGED <<holder, handing, seen, screen, lock, beacons>>

\* watch's beat, and the take button's; in control: takeControl.
Watch(t, take) ==
  /\ phase[t] = "watching" /\ t \notin beacons
  /\ Beat(t, take)
  /\ GoTo(t, IF ~Controls(t) THEN "watching"
             ELSE IF Handing(t) THEN "waiting" ELSE "starting")
  /\ UNCHANGED <<lock, beacons>>

\* Mutant: the loop takes again, and has another HANDOVER for it.
PollTakes(t) ==
  /\ phase[t] = "waiting"
  /\ Beat(t, TRUE)
  /\ GoTo(t, IF Handing(t) THEN "waiting" ELSE "starting")
  /\ UNCHANGED <<lock, beacons>>

\* takeControl's loop: asks again while the answer is handing, then start().
Poll(t) ==
  /\ phase[t] = "waiting"
  /\ Beat(t, FALSE)
  /\ IF Handing(t)
     THEN clock' = [clock EXCEPT ![t] = 0] /\ UNCHANGED <<phase, wait>>
     ELSE GoTo(t, "starting")
  /\ UNCHANGED <<lock, beacons>>

\* The loop's end: HANDOVER is over.
WaitedEnough(t) ==
  /\ phase[t] = "waiting" /\ wait[t] >= Handover
  /\ GoTo(t, "starting")
  /\ UNCHANGED <<holder, handing, seen, screen, lock, beacons>>

\* start, from a new Worker to its 'start' message: the disks' and the stored
\* files' fetches have come to an end.
DisksFetched(t) ==
  /\ phase[t] = "starting"
  /\ GoTo(t, "locking")
  /\ UNCHANGED <<holder, handing, seen, screen, lock, beacons>>

\* previousGone: the Worker has the lock, or goes on without it (no Web
\* Locks, or the Worker before still there after the wait).
GetLock(t) ==
  /\ phase[t] = "locking"
  /\ lock \in Tabs => clock[t] >= LockWait
  /\ lock' = IF lock = None THEN t ELSE lock
  /\ GoTo(t, "loading")
  /\ UNCHANGED <<holder, handing, seen, screen, beacons>>

\* The Worker's sessionBeat: the first, once it has loaded, and then one
\* every BeatEvery. Not in control any more: lostControl.
WorkerBeat(t) ==
  /\ phase[t] \in {"loading", "running"}
  /\ Beat(t, FALSE)
  /\ GoTo(t, IF Controls(t) THEN "running"
             ELSE IF phase[t] = "running" THEN "saving" ELSE "leaving")
  /\ UNCHANGED <<lock, beacons>>

\* The Worker goes on beating while it saves; the page doesn't listen to it
\* any more (its generation is over).
SaveBeat(t) ==
  /\ phase[t] \in {"saving", "leaving", "restarting"}
  /\ Beat(t, FALSE)
  /\ UNCHANGED tabs

\* Saved, or given up after 3 s: the beacon is sent, and it watches.
Saved(t) ==
  /\ phase[t] \in {"saving", "leaving"}
  /\ GoTo(t, "watching")
  /\ WorkerEnds(t)
  /\ beacons' = beacons \cup {t}
  /\ UNCHANGED <<holder, handing, seen, screen>>

\* start() again in a tab that runs: what changed is saved first. (Before the
\* Worker's first beat it is no more than a longer boot.)
Restart(t) ==
  /\ phase[t] = "running"
  /\ GoTo(t, "restarting")
  /\ UNCHANGED <<holder, handing, seen, screen, lock, beacons>>

\* Saved: another Worker.
Restarted(t) ==
  /\ phase[t] = "restarting"
  /\ GoTo(t, "starting")
  /\ WorkerEnds(t)
  /\ UNCHANGED <<holder, handing, seen, screen, beacons>>

\* sendScreen.
SendScreen(t) ==
  /\ phase[t] = "running"
  /\ PutScreen(t)
  /\ UNCHANGED tabs

\* A viewer asks for the screen.
View(t) ==
  /\ phase[t] = "watching"
  /\ GetScreen
  /\ UNCHANGED tabs

\* The page goes (pagehide: storeLast when it is in control), or the browser
\* dies with it and nothing is sent.
Close(t, says) ==
  /\ phase[t] # "closed"
  /\ GoTo(t, "closed")
  /\ WorkerEnds(t)
  /\ beacons' = IF says /\ phase[t] \in {"waiting", "starting", "locking", "loading", "running", "restarting"}
                THEN beacons \cup {t} ELSE beacons
  /\ UNCHANGED <<holder, handing, seen, screen>>

Arrives(t) ==
  /\ t \in beacons
  /\ Release(t)
  /\ beacons' = beacons \ {t}
  /\ UNCHANGED <<phase, clock, wait, lock>>

Lost(t) ==
  /\ t \in beacons /\ phase[t] = "closed"
  /\ beacons' = beacons \ {t}
  /\ UNCHANGED <<holder, handing, seen, screen, phase, clock, wait, lock>>

\* Mutant: takeControl's loop has no end but the answer.
OnTimeNoDeadline(t) ==
  /\ phase[t] = "waiting" => clock[t] < 1
  /\ phase[t] = "locking" => lock \in Tabs /\ clock[t] < LockWait
  /\ phase[t] = "running" => clock[t] < BeatEvery
  /\ phase[t] \in {"saving", "leaving", "restarting"} => clock[t] < Save

\* Time passes, once every tab that has something to do by now has done it.
OnTime(t) ==
  /\ phase[t] = "waiting" => clock[t] < 1 /\ wait[t] < Handover
  /\ phase[t] = "locking" => lock \in Tabs /\ clock[t] < LockWait
  /\ phase[t] = "running" => clock[t] < BeatEvery
  /\ phase[t] \in {"saving", "leaving", "restarting"} => clock[t] < Save

Tick ==
  /\ \A t \in Tabs : OnTime(t)
  /\ Age
  /\ clock' = [t \in Tabs |-> IF phase[t] \in Untimed THEN 0 ELSE clock[t] + 1]
  /\ wait' = [t \in Tabs |-> IF phase[t] = "waiting" THEN wait[t] + 1 ELSE 0]
  /\ UNCHANGED <<phase, lock, beacons>>

Next ==
  \/ \E t \in Tabs :
       \/ Open(t)
       \/ \E take \in BOOLEAN : Watch(t, take)
       \/ Poll(t) \/ WaitedEnough(t) \/ DisksFetched(t) \/ GetLock(t)
       \/ WorkerBeat(t) \/ SaveBeat(t) \/ Saved(t)
       \/ Restart(t) \/ Restarted(t)
       \/ SendScreen(t) \/ View(t)
       \/ \E says \in BOOLEAN : Close(t, says)
       \/ Arrives(t) \/ Lost(t)
  \/ Tick

\* Timers go off and requests are made: fairness of the clock, of what a tab
\* does by its timers, and of a watching tab's beats; a beacon arrives in the
\* end, or (a closed tab's) is lost. Nothing is assumed of what the user does.
Fairness ==
  /\ WF_vars(Tick)
  /\ \A t \in Tabs : /\ WF_vars(Watch(t, FALSE))
                     /\ WF_vars(Poll(t)) /\ WF_vars(WaitedEnough(t))
                     /\ WF_vars(DisksFetched(t)) /\ WF_vars(GetLock(t))
                     /\ WF_vars(WorkerBeat(t)) /\ WF_vars(Saved(t)) /\ WF_vars(Restarted(t))
                     /\ WF_vars(Arrives(t) \/ Lost(t))

Spec == Init /\ [][Next]_vars /\ Fairness

-----------------------------------------------------------------------------
\* The tabs' and the server's states; none is later than its timers allow.
TabsOK ==
  /\ TypeOK
  /\ phase \in [Tabs -> Phases]
  /\ clock \in [Tabs -> 0 .. Lease] /\ wait \in [Tabs -> 0 .. Handover]
  /\ beacons \subseteq Tabs /\ lock \in Tabs \cup {None, NoLocks}

\* A tab that runs Executor when control is taken from it has saved and let
\* go before the one that took over reads the store: takeControl's HANDOVER is
\* longer than a beat and a save. Another tab is on the store beside it only
\* while control is its own (one that had lost it and has yet to hear of it).
RunningIsWaitedFor ==
  \A t, u \in Tabs :
    (t # u /\ phase[t] \in {"running", "saving"} /\ phase[u] \in OnStore) => holder = t

\* The tab that takes over is not on the store while the one it took control
\* from still is ("saves and lets go (release); the new one waits for that
\* (handing) before it reads the store", session.go). The code does not keep
\* it: a tab that boots or restarts hears of the take after HANDOVER.
NewOneWaits ==
  \A t, u \in Tabs :
    (t # u /\ handing = t /\ holder = u /\ phase[t] \in OnStore) => phase[u] \notin OnStore

\* A tab that died in control does not keep it from one that watches.
AbandonedIsTaken ==
  \A t, u \in Tabs :
    (holder = t /\ phase[t] = "closed" /\ phase[u] = "watching")
      ~> (holder # t \/ phase[u] = "closed")

\* A tab that took control gets to run: it does not wait for ever for the
\* one before, which may have died.
TakerStarts == \A t \in Tabs : phase[t] = "waiting" ~> phase[t] \in {"starting", "closed"}

\* Whatever these tabs do, the server does what SpecSessions says.
IsSessions == SpecSessions
=============================================================================
