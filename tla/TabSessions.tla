----------------------------- MODULE TabSessions -----------------------------
(***************************************************************************)
(* TabSessions of executor/server (session.go): which tab of the browser   *)
(* is in control, which one is handing control over, and the controller's  *)
(* screen. Every request holds the mutex and forgets the tabs silent for   *)
(* the lease before it does anything else (prune), so it is one step.      *)
(*                                                                         *)
(* Time passes in ticks, and seen is a tab's age: the ticks since its last *)
(* call. A tab that is not in the code's map has the age Lease, and so has *)
(* one that the next prune takes out of it.                                *)
(***************************************************************************)
EXTENDS Integers

CONSTANTS
  Tabs,    \* the tabs' ids
  None,    \* "": no tab (and no screen)
  Lease    \* sessionLease, in ticks

ASSUME SessionsAssumption == None \notin Tabs /\ Lease \in Nat /\ Lease > 0

VARIABLES
  holder,   \* the tab in control
  handing,  \* the tab control was taken from, until it lets go
  seen,     \* each tab's age
  screen    \* the tab the screen kept is of

sessions == <<holder, handing, seen, screen>>

InitSessions ==
  /\ holder = None /\ handing = None /\ screen = None
  /\ seen = [t \in Tabs |-> Lease]

\* Mutant: a tab is never forgotten.
AliveForEver(t) == t # None

\* What prune leaves of holder, of handing and of the screen.
Alive(t) == t # None /\ seen[t] < Lease
PrunedHolder  == IF Alive(holder) THEN holder ELSE None
PrunedHanding == IF Alive(handing) THEN handing ELSE None
PrunedScreen  == IF Alive(holder) THEN screen ELSE None

\* Mutant: the screen of the tab before stays.
TakesScreenToo(id) == handing' = PrunedHolder /\ holder' = id /\ screen' = PrunedScreen

\* Mutant: nobody is told that the tab before has yet to let go.
TakesAtOnce(id) == handing' = PrunedHanding /\ holder' = id /\ screen' = None

\* A take from the tab in control.
Takes(id) == handing' = PrunedHolder /\ holder' = id /\ screen' = None

\* beat: the tab says it is there. The first gets control and keeps it;
\* with take it is taken from the one that has it.
Beat(id, take) ==
  /\ seen' = [seen EXCEPT ![id] = 0]
  /\ \/ /\ PrunedHolder = None
        /\ holder' = id /\ handing' = PrunedHanding /\ screen' = PrunedScreen
     \/ /\ PrunedHolder # None /\ take /\ PrunedHolder # id
        /\ Takes(id)
     \/ /\ PrunedHolder # None /\ (~take \/ PrunedHolder = id)
        /\ holder' = PrunedHolder /\ handing' = PrunedHanding /\ screen' = PrunedScreen

\* Mutant: the answer says handing to the tabs that are not in control.
HandingToOthers(id) == handing' # None /\ holder' # id

\* answer, after a beat of id: in control, and the tab it was taken from has
\* not let go.
Controls(id) == holder' = id
Handing(id)  == handing' # None /\ holder' = id

\* release: the tab lets go.
Release(id) ==
  /\ seen' = [seen EXCEPT ![id] = Lease]
  /\ IF PrunedHolder = id
     THEN holder' = None /\ screen' = None
     ELSE holder' = PrunedHolder /\ screen' = PrunedScreen
  /\ handing' = IF PrunedHanding = id THEN None ELSE PrunedHanding

\* putScreen: refused (409) unless the tab is in control.
PutScreen(id) ==
  /\ holder' = PrunedHolder /\ handing' = PrunedHanding
  /\ screen' = IF PrunedHolder = id THEN id ELSE PrunedScreen
  /\ UNCHANGED seen

\* getScreen: what it answers is screen'.
GetScreen ==
  /\ holder' = PrunedHolder /\ handing' = PrunedHanding /\ screen' = PrunedScreen
  /\ UNCHANGED seen

\* A tick of the clock.
Age ==
  /\ seen' = [t \in Tabs |-> IF seen[t] < Lease THEN seen[t] + 1 ELSE Lease]
  /\ UNCHANGED <<holder, handing, screen>>

NextSessions ==
  \/ \E id \in Tabs : \/ \E take \in BOOLEAN : Beat(id, take)
                      \/ Release(id) \/ PutScreen(id)
  \/ GetScreen \/ Age

\* The server with tabs that may call anything at any time.
SpecSessions == InitSessions /\ [][NextSessions]_sessions

-----------------------------------------------------------------------------
\* The fields of struct TabSessions.
TypeOK ==
  /\ holder \in Tabs \cup {None} /\ handing \in Tabs \cup {None}
  /\ screen \in Tabs \cup {None}
  /\ seen \in [Tabs -> 0 .. Lease]

\* The screen a viewer is shown is the controlling tab's, never one left by
\* the tab before ("its screen goes with it, not to the next controller"),
\* and there is none without a controller.
ScreenIsHolders == screen # None => screen = holder

\* Control goes from one tab to another only by a take, which makes the old
\* one the tab that is handing over; else it goes by way of nobody having it
\* or of a lease that has run out.
ControlMoves ==
  [][(holder # None /\ holder' # None /\ holder' # holder) =>
       (handing' = holder \/ seen[holder] = Lease)]_sessions
=============================================================================
