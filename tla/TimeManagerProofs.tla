------------------------- MODULE TimeManagerProofs --------------------------
(***************************************************************************)
(* TimeManager for any set of tasks, any delays and any number of clock    *)
(* ticks: an active task is provided for, and the timer thread never       *)
(* sleeps past the next wakeup.                                            *)
(***************************************************************************)
EXTENDS TimeManager, SequenceTheorems, WellFoundedInduction, TLAPS

\* The list is one of descriptors that are there: an active task's has a
\* wakeup that was written, and so has the one PrimeTime is about to make
\* active; the walk of TimerInterrupt is at a descriptor of the list, and so
\* is the one after it while a routine runs, if that was not freed. The CPU
\* thread walks the list in no Time Manager call.
ListInv ==
  /\ tmDescList \in Seq(Tasks)
  /\ \A t \in Tasks : Installed(t) /\ active[t] => wakeup[t] # Unset
  /\ op = "prime" => task \in Tasks /\ Installed(task) /\ wakeup[task] # Unset
  /\ cpu = "walk" => op = "none" /\ (desc # NoTask => Installed(desc))
  /\ cpu = "routine" => next \in {NoTask, Freed} \/ Installed(next)

\* The inductive invariant.
Inv == TypeOK /\ ListInv /\ Armed /\ ThreadInTime

-----------------------------------------------------------------------------
\* A set of numbers that has one has a smallest.
LEMMA SmallestNat ==
  ASSUME NEW S \in SUBSET Nat, S # {}
  PROVE  \E w \in S : \A v \in S : w <= v
<1> DEFINE R == OpToRel(<, Nat)
<1>1. IsWellFoundedOn(R, Nat)
  BY NatLessThanWellFounded
<1>2. \A x, y \in Nat : x < y => <<x, y>> \in R
  BY DEF OpToRel
<1> HIDE DEF R
<1>3. PICK x \in S : \A y \in S : ~(<<y, x>> \in R)
  BY <1>1, WFMin
<1>4. \A y \in S : ~(y < x)
  BY <1>2, <1>3
<1> QED
  BY <1>4

\* The next wakeup is by the time of every task that is active, and a time.
LEMMA NextWakeupIsFirst ==
  ASSUME TypeOK, NEW act \in [Tasks -> BOOLEAN],
         \A t \in Tasks : Installed(t) /\ act[t] => wakeup[t] # Unset
  PROVE  /\ NextWakeup(act) \in 0 .. Never
         /\ \A t \in Tasks : Installed(t) /\ act[t] => NextWakeup(act) <= wakeup[t]
<1> DEFINE due == {wakeup[t] : t \in {u \in Tasks : Installed(u) /\ act[u]}}
<1>1. due \subseteq Nat /\ \A w \in due : w <= Far
  BY TimeAssumption DEF TypeOK, Unset, Far
<1>2. CASE due = {}
  <2>1. NextWakeup(act) = Never
    BY <1>2 DEF NextWakeup
  <2>2. Never \in 0 .. Never
    BY TimeAssumption DEF Never
  <2>3. \A t \in Tasks : Installed(t) /\ act[t] => wakeup[t] \in due
    OBVIOUS
  <2> HIDE DEF due
  <2> QED
    BY <1>2, <2>1, <2>2, <2>3
<1>3. CASE due # {}
  <2> DEFINE w == CHOOSE w \in due : \A v \in due : w <= v
  <2>1. \E x \in due : \A v \in due : x <= v
    BY <1>1, <1>3, SmallestNat
  <2>2. w \in due /\ \A v \in due : w <= v
    BY <2>1
  <2>3. NextWakeup(act) = w
    BY <1>3 DEF NextWakeup
  <2>4. \A t \in Tasks : Installed(t) /\ act[t] => wakeup[t] \in due
    OBVIOUS
  <2> HIDE DEF due, w
  <2>5. w \in 0 .. Never
    BY <1>1, <2>2, TimeAssumption DEF Never, Far
  <2> QED
    BY <2>2, <2>3, <2>4, <2>5
<1> QED
  BY <1>2, <1>3

\* find_desc's descriptor is the task's, and the one after it in the list too.
LEMMA PlaceOf ==
  ASSUME TypeOK, ListInv, NEW t \in Tasks, Installed(t)
  PROVE  /\ Place(t) \in 1 .. Len(tmDescList) /\ tmDescList[Place(t)] = t
         /\ Successor(t) = NoTask \/ (Successor(t) \in Tasks /\ Installed(Successor(t)))
<1>1. Place(t) \in DOMAIN tmDescList /\ tmDescList[Place(t)] = t
  BY DEF Installed, Place
<1>2. DOMAIN tmDescList = 1 .. Len(tmDescList) /\ Len(tmDescList) \in Nat
  BY DEF ListInv
<1> QED
  BY <1>1, <1>2 DEF Successor, Installed, TypeOK

\* free_desc takes out the task's descriptor and no other.
LEMMA WithoutOne ==
  ASSUME TypeOK, ListInv, NEW t \in Tasks, Installed(t)
  PROVE  LET s == Without(t)
         IN  /\ s \in Seq(Tasks)
             /\ \A i, j \in DOMAIN s : s[i] = s[j] => i = j
             /\ \A u \in Tasks : (\E i \in DOMAIN s : s[i] = u) <=> Installed(u) /\ u # t
<1> DEFINE k == Place(t)
           n == Len(tmDescList)
           s == Without(t)
<1>1. n \in Nat /\ k \in 1 .. n /\ tmDescList[k] = t /\ DOMAIN tmDescList = 1 .. n
  BY PlaceOf DEF ListInv
<1> DEFINE a == SubSeq(tmDescList, 1, k - 1)
           b == SubSeq(tmDescList, k + 1, n)
<1>2. s = a \o b
  BY DEF Without, RemoveAt
<1>3. tmDescList \in Seq(Tasks) /\ \A i, j \in 1 .. n : tmDescList[i] = tmDescList[j] => i = j
  BY <1>1 DEF ListInv, TypeOK
<1> HIDE DEF k, n, s
<1>a. a \in Seq(Tasks) /\ Len(a) = k - 1 /\ \A i \in 1 .. k - 1 : a[i] = tmDescList[i]
  BY <1>1, <1>3, SubSeqProperties DEF n
<1>b. b \in Seq(Tasks) /\ Len(b) = n - k /\ \A i \in 1 .. n - k : b[i] = tmDescList[k + i]
  <2>1. k + 1 \in Int /\ n \in Int /\ \A i \in k + 1 .. n : tmDescList[i] \in Tasks
    BY <1>1, <1>3 DEF n
  <2>2. /\ b \in Seq(Tasks) /\ Len(b) = IF k + 1 <= n THEN n - (k + 1) + 1 ELSE 0
        /\ \A i \in 1 .. n - (k + 1) + 1 : b[i] = tmDescList[(k + 1) + i - 1]
    BY <2>1, SubSeqProperties
  <2>3. \A i \in 1 .. n - k : i \in 1 .. n - (k + 1) + 1 /\ (k + 1) + i - 1 = k + i
    BY <1>1
  <2>4. Len(b) = n - k
    BY <1>1, <2>2
  <2> QED
    BY <2>2, <2>3, <2>4
<1> HIDE DEF a, b
<1>4. s \in Seq(Tasks) /\ Len(s) = n - 1
  <2>1. s \in Seq(Tasks) /\ Len(s) = Len(a) + Len(b)
    BY <1>2, <1>a, <1>b, ConcatProperties
  <2>2. Len(a) + Len(b) = n - 1
    BY <1>1, <1>a, <1>b
  <2> QED
    BY <2>1, <2>2
<1>5. \A i \in 1 .. n - 1 : s[i] = IF i < k THEN tmDescList[i] ELSE tmDescList[i + 1]
  <2>1. \A i \in 1 .. n - 1 : s[i] = IF i <= k - 1 THEN a[i] ELSE b[i - (k - 1)]
    BY <1>1, <1>2, <1>a, <1>b, ConcatProperties
  <2>2. \A i \in 1 .. n - 1 : ~(i < k) => i - (k - 1) \in 1 .. n - k /\ k + (i - (k - 1)) = i + 1
    BY <1>1
  <2>3. \A i \in 1 .. n - 1 : ~(i < k) => b[i - (k - 1)] = tmDescList[i + 1]
    BY <1>b, <2>2
  <2> QED
    BY <1>1, <1>a, <2>1, <2>3
<1>6. DOMAIN s = 1 .. n - 1
  BY <1>4
<1>7. \A i, j \in DOMAIN s : s[i] = s[j] => i = j
  BY <1>1, <1>3, <1>5, <1>6
<1>8. ASSUME NEW u \in Tasks PROVE (\E i \in DOMAIN s : s[i] = u) <=> Installed(u) /\ u # t
  <2>1. ASSUME NEW i \in DOMAIN s, s[i] = u PROVE Installed(u) /\ u # t
    BY <1>1, <1>3, <1>5, <1>6, <2>1 DEF Installed
  <2>2. ASSUME NEW i \in 1 .. n, tmDescList[i] = u, u # t PROVE \E j \in DOMAIN s : s[j] = u
    <3>1. CASE i < k
      BY <1>1, <1>5, <1>6, <2>2, <3>1
    <3>2. CASE i > k
      <4>1. i - 1 \in 1 .. n - 1 /\ s[i - 1] = tmDescList[i]
        BY <1>1, <1>5, <3>2
      <4> QED
        BY <1>6, <2>2, <4>1
    <3> QED
      BY <1>1, <2>2, <3>1, <3>2
  <2> QED
    BY <1>1, <2>1, <2>2 DEF Installed
<1> QED
  BY <1>4, <1>7, <1>8 DEF s

\* PrimeTime writes a time the clock may reach, or Far.
LEMMA PrimeWakeupsAreTimes ==
  ASSUME TypeOK, NEW t \in Tasks, NEW d \in Delays[t]
  PROVE  PrimeWakeups(t, d) \subseteq 0 .. Far
<1>1. \A n \in Int : Mac2Host(n) \in Nat
  BY DEF Mac2Host
<1>3. \A n \in Nat : Within(n) \in 0 .. Far
  BY TimeAssumption DEF Within, Far
<1>4. Mac2Host(d) \in Nat /\ Mac2Host(tmCount[t]) \in Nat
  BY <1>1, TimeAssumption DEF TypeOK
<1>5. now \in Nat /\ Far \in Nat /\ (wakeup[t] # Unset => wakeup[t] \in Nat)
  BY TimeAssumption DEF TypeOK, Far, Unset
<1> QED
  BY <1>3, <1>4, <1>5 DEF PrimeWakeups

\* A task that is not in the list is put at its head.
LEMMA PutFirst ==
  ASSUME TypeOK, ListInv, NEW t \in Tasks, ~Installed(t)
  PROVE  LET s == <<t>> \o tmDescList
         IN  /\ s \in Seq(Tasks)
             /\ \A i, j \in DOMAIN s : s[i] = s[j] => i = j
             /\ \A u \in Tasks : (\E i \in DOMAIN s : s[i] = u) <=> Installed(u) \/ u = t
<1> DEFINE n == Len(tmDescList)
           s == <<t>> \o tmDescList
<1>1. /\ n \in Nat /\ DOMAIN tmDescList = 1 .. n
      /\ \A i, j \in 1 .. n : tmDescList[i] = tmDescList[j] => i = j
      /\ \A i \in 1 .. n : tmDescList[i] # t
  <2>1. n \in Nat /\ DOMAIN tmDescList = 1 .. n
    BY DEF ListInv
  <2> HIDE DEF n
  <2>2. \A i, j \in 1 .. n : tmDescList[i] = tmDescList[j] => i = j
    BY <2>1 DEF TypeOK
  <2>3. \A i \in 1 .. n : tmDescList[i] # t
    BY <2>1 DEF Installed
  <2> QED
    BY <2>1, <2>2, <2>3
<1>2. s \in Seq(Tasks) /\ DOMAIN s = 1 .. n + 1
  BY <1>1 DEF ListInv
<1>3. \A i \in 1 .. n + 1 : s[i] = IF i = 1 THEN t ELSE tmDescList[i - 1]
  BY <1>1 DEF ListInv
<1> HIDE DEF n, s
<1>4. \A i, j \in DOMAIN s : s[i] = s[j] => i = j
  BY <1>1, <1>2, <1>3
<1>5. ASSUME NEW u \in Tasks PROVE (\E i \in DOMAIN s : s[i] = u) <=> Installed(u) \/ u = t
  <2>1. ASSUME NEW i \in 1 .. n, tmDescList[i] = u PROVE \E j \in DOMAIN s : s[j] = u
    <3>1. i + 1 \in DOMAIN s /\ s[i + 1] = tmDescList[i]
      BY <1>1, <1>2, <1>3
    <3> QED
      BY <2>1, <3>1
  <2>2. 1 \in DOMAIN s /\ s[1] = t
    BY <1>1, <1>2, <1>3
  <2>3. ASSUME NEW i \in DOMAIN s, s[i] = u, u # t PROVE Installed(u)
    <3>1. i - 1 \in 1 .. n /\ tmDescList[i - 1] = u
      BY <1>1, <1>2, <1>3, <2>3
    <3> QED
      BY <1>1, <3>1 DEF Installed
  <2> QED
    BY <1>1, <2>1, <2>2, <2>3 DEF Installed
<1> QED
  BY <1>2, <1>4, <1>5 DEF s

\* What a step does to the list: InsTime adds one task's descriptor, RmvTime
\* frees one's, a reset frees all.
LEMMA ListChange ==
  ASSUME TypeOK, ListInv
  PROVE  /\ UNCHANGED tmDescList => \A u : Installed(u)' <=> Installed(u)
         /\ \A t \in Tasks, fresh \in BOOLEAN :
              InsTime(t, fresh) => \A u \in Tasks : Installed(u)' <=> Installed(u) \/ u = t
         /\ \A t \in Tasks : RmvTime(t) => \A u \in Tasks : Installed(u)' <=> Installed(u) /\ u # t
         /\ TimerReset => \A u : ~Installed(u)'
<1>1. UNCHANGED tmDescList => \A u : Installed(u)' <=> Installed(u)
  BY DEF Installed
<1>2. ASSUME NEW t \in Tasks, NEW fresh \in BOOLEAN, InsTime(t, fresh), NEW u \in Tasks
      PROVE  Installed(u)' <=> Installed(u) \/ u = t
  <2>1. CASE Installed(t)
    BY <1>1, <1>2, <2>1 DEF InsTime
  <2>2. CASE ~Installed(t)
    <3>1. tmDescList' = <<t>> \o tmDescList
      BY <1>2, <2>2 DEF InsTime
    <3>2. (\E i \in DOMAIN (<<t>> \o tmDescList) : (<<t>> \o tmDescList)[i] = u) <=> Installed(u) \/ u = t
      BY <2>2, PutFirst
    <3>3. Installed(u)' <=> \E i \in DOMAIN (<<t>> \o tmDescList) : (<<t>> \o tmDescList)[i] = u
      BY <3>1 DEF Installed
    <3> QED
      BY <3>2, <3>3
  <2> QED
    BY <2>1, <2>2
<1>3. ASSUME NEW t \in Tasks, RmvTime(t), NEW u \in Tasks
      PROVE  Installed(u)' <=> Installed(u) /\ u # t
  <2>1. tmDescList' = Without(t) /\ Installed(t)
    BY <1>3 DEF RmvTime
  <2>2. (\E i \in DOMAIN Without(t) : Without(t)[i] = u) <=> Installed(u) /\ u # t
    BY <2>1, WithoutOne
  <2>3. Installed(u)' <=> \E i \in DOMAIN Without(t) : Without(t)[i] = u
    BY <2>1 DEF Installed
  <2> QED
    BY <2>2, <2>3
<1>4. TimerReset => \A u : ~Installed(u)'
  BY DEF TimerReset, Installed
<1> QED
  BY <1>1, <1>2, <1>3, <1>4

\* Every step keeps the types: no wakeup is chosen from none, and the list has
\* one descriptor of a task.
LEMMA TypeStep == TypeOK /\ ListInv /\ [Next]_vars => TypeOK'
<1> SUFFICES ASSUME TypeOK, ListInv, [Next]_vars PROVE TypeOK'
  OBVIOUS
<1> USE DEF TypeOK, guest, sleep, walk, opVars
<1>1. ASSUME NEW t \in Tasks, NEW fresh \in BOOLEAN, InsTime(t, fresh) PROVE TypeOK'
  <2>1. \A i, j \in DOMAIN tmDescList' :
           tmDescList'[i] \in Tasks /\ (tmDescList'[i] = tmDescList'[j] => i = j)
    <3>1. CASE Installed(t)
      BY <1>1, <3>1 DEF InsTime
    <3>2. CASE ~Installed(t)
      <4> DEFINE s == <<t>> \o tmDescList
      <4>1. s \in Seq(Tasks) /\ \A i, j \in DOMAIN s : s[i] = s[j] => i = j
        BY <3>2, PutFirst
      <4>2. tmDescList' = s
        BY <1>1, <3>2 DEF InsTime
      <4> HIDE DEF s
      <4> QED
        BY <4>1, <4>2
    <3> QED
      BY <3>1, <3>2
  <2>2. active' \in [Tasks -> BOOLEAN] /\ tmWakeUp' \in [Tasks -> BOOLEAN]
    BY <1>1 DEF InsTime
  <2> QED
    BY ZenonT(30), <1>1, <2>1, <2>2 DEF InsTime
<1>2. ASSUME NEW t \in Tasks, RmvTime(t) PROVE TypeOK'
  <2>1. \A i, j \in DOMAIN tmDescList' :
           tmDescList'[i] \in Tasks /\ (tmDescList'[i] = tmDescList'[j] => i = j)
    <3> DEFINE s == Without(t)
    <3>1. s \in Seq(Tasks) /\ \A i, j \in DOMAIN s : s[i] = s[j] => i = j
      BY <1>2, WithoutOne DEF RmvTime
    <3>2. tmDescList' = s
      BY <1>2 DEF RmvTime
    <3> HIDE DEF s
    <3> QED
      BY <3>1, <3>2
  <2>2. active' \in [Tasks -> BOOLEAN] /\ \A u \in Tasks : active'[u] => active[u]
    BY <1>2 DEF RmvTime
  <2>3. wakeup_time' \in 0 .. Never
    <3>1. \A u \in Tasks : Installed(u) /\ active'[u] => wakeup[u] # Unset
      BY <2>2 DEF ListInv
    <3>2. NextWakeup(active') \in 0 .. Never
      BY <2>2, <3>1, NextWakeupIsFirst
    <3> QED
      BY <1>2, <3>2 DEF RmvTime
  <2>4. Saved(t, wakeup[t] - now) \in Int
    <3>1. Host2Mac(wakeup[t] - now) \in Int
      BY DEF Host2Mac, Unset, Far
    <3> QED
      BY <3>1 DEF Saved, ReadMacInt16
  <2>5. tmCount' \in [Tasks -> Int] /\ wakeup' \in [Tasks -> Unset .. Far]
    BY <1>2, <2>4, TimeAssumption DEF RmvTime, Unset, Far
  <2> QED
    BY <1>2, <2>1, <2>2, <2>3, <2>5 DEF RmvTime
<1>3. ASSUME NEW t \in Tasks, NEW d \in Delays[t], PrimeTime(t, d) PROVE TypeOK'
  <2>1. wakeup' \in [Tasks -> Unset .. Far]
    BY <1>3, PrimeWakeupsAreTimes DEF PrimeTime, Unset
  <2>2. tmWakeUp' \in [Tasks -> BOOLEAN]
    BY <1>3 DEF PrimeTime
  <2> QED
    BY <1>3, <2>1, <2>2 DEF PrimeTime
<1>4. CASE PrimeActivates
  <2>1. active' \in [Tasks -> BOOLEAN] /\ \A u \in Tasks : active'[u] => active[u] \/ u = task
    BY <1>4 DEF PrimeActivates, ListInv
  <2>2. \A u \in Tasks : Installed(u) /\ active'[u] => wakeup[u] # Unset
    BY <1>4, <2>1 DEF PrimeActivates, ListInv
  <2>3. wakeup_time' \in 0 .. Never
    BY <1>4, <2>1, <2>2, NextWakeupIsFirst DEF PrimeActivates
  <2> QED
    BY <1>4, <2>1, <2>3 DEF PrimeActivates
<1>5. CASE Signal
  BY <1>5 DEF Signal
<1>6. CASE TimerReset
  <2>1. wakeup' \in [Tasks -> Unset .. Far]
    BY <1>6, TimeAssumption DEF TimerReset, Unset, Far
  <2> QED
    BY <1>6, <2>1 DEF TimerReset
<1>7. CASE TimerInterrupt
  <2>1. desc' \in Tasks \cup {NoTask}
    BY <1>7 DEF TimerInterrupt, HeadOr, ListInv
  <2> QED
    BY <1>7, <2>1 DEF TimerInterrupt
<1>8. CASE WalkDesc
  <2>1. Successor(desc) \in Tasks \cup {NoTask}
    BY <1>8, PlaceOf DEF WalkDesc, ListInv
  <2> QED
    BY <1>8, <2>1 DEF WalkDesc
<1>9. CASE RoutineReturns
  <2>1. ToSet(tmDescList) \subseteq Tasks
    BY DEF ToSet
  <2> QED
    BY <1>9, <2>1, TimeAssumption DEF RoutineReturns
<1>10. CASE WalkEnds
  <2>1. wakeup_time' \in 0 .. Never
    BY <1>10, NextWakeupIsFirst DEF WalkEnds, ListInv
  <2> QED
    BY <1>10, <2>1, TimeAssumption DEF WalkEnds
<1>11. CASE TimerFunc
  <2>1. wakeup_time' \in 0 .. Never /\ deadline' \in 0 .. Never
    BY <1>11, TimeAssumption DEF TimerFunc, Never
  <2>2. thread' \in {"wait", "fire"} /\ signalled' \in BOOLEAN
    BY <1>11 DEF TimerFunc
  <2> QED
    BY <1>11, <2>1, <2>2 DEF TimerFunc
<1>12. CASE TimerFires
  BY <1>12 DEF TimerFires
<1>13. CASE TimerVirtualPoll
  BY <1>13, TimeAssumption DEF TimerVirtualPoll, Never
<1>14. CASE Tick
  BY <1>14, TimeAssumption DEF Tick
<1>15. CASE UNCHANGED vars
  BY <1>15 DEF vars
<1> QED
  BY <1>1, <1>2, <1>3, <1>4, <1>5, <1>6, <1>7, <1>8, <1>9, <1>10, <1>11, <1>12, <1>13,
     <1>14, <1>15
  DEF Next, GuestCalls, Cpu, Thread

\* Every step keeps the list, and the CPU thread's place in it.
LEMMA ListStep == TypeOK /\ ListInv /\ [Next]_vars => ListInv'
<1> SUFFICES ASSUME TypeOK, ListInv, [Next]_vars PROVE ListInv'
  OBVIOUS
<1> USE DEF TypeOK, ListInv, guest, sleep, walk, opVars
<1>1. ASSUME NEW t \in Tasks, NEW fresh \in BOOLEAN, InsTime(t, fresh) PROVE ListInv'
  <2>1. tmDescList' \in Seq(Tasks)
    BY <1>1, PutFirst DEF InsTime
  <2>2. \A u \in Tasks : active'[u] => active[u] /\ u # t
    BY <1>1 DEF InsTime
  <2> QED
    BY <1>1, <2>1, <2>2, ListChange DEF InsTime, InGuest
<1>2. ASSUME NEW t \in Tasks, RmvTime(t) PROVE ListInv'
  <2>1. tmDescList' \in Seq(Tasks)
    BY <1>2, WithoutOne DEF RmvTime
  <2>2. \A u \in Tasks : u # t => active'[u] = active[u] /\ wakeup'[u] = wakeup[u]
    BY <1>2 DEF RmvTime
  <2>3. \A u \in Tasks : Installed(u)' <=> Installed(u) /\ u # t
    BY <1>2, ListChange
  <2>4. next' = IF next = t THEN Freed ELSE next
    BY <1>2 DEF RmvTime
  <2> QED
    BY <1>2, <2>1, <2>2, <2>3, <2>4 DEF RmvTime, InGuest
<1>3. ASSUME NEW t \in Tasks, NEW d \in Delays[t], PrimeTime(t, d) PROVE ListInv'
  <2>1. wakeup'[t] # Unset /\ \A u \in Tasks : u # t => wakeup'[u] = wakeup[u]
    <3>1. PICK w \in PrimeWakeups(t, d) : wakeup' = [wakeup EXCEPT ![t] = w]
      BY <1>3 DEF PrimeTime
    <3>2. w \in 0 .. Far
      BY PrimeWakeupsAreTimes
    <3> QED
      BY <3>1, <3>2 DEF Unset
  <2> QED
    BY <1>3, <2>1, ListChange DEF PrimeTime, InGuest
<1>4. CASE PrimeActivates
  <2>1. \A u \in Tasks : active'[u] => active[u] \/ u = task
    BY <1>4 DEF PrimeActivates
  <2> QED
    BY <1>4, <2>1, ListChange DEF PrimeActivates
<1>5. CASE Signal
  BY <1>5, ListChange DEF Signal
<1>6. CASE TimerReset
  <2>1. tmDescList' \in Seq(Tasks)
    BY <1>6 DEF TimerReset
  <2> QED
    BY <1>6, <2>1, ListChange DEF TimerReset
<1>7. CASE TimerInterrupt
  <2>1. desc' # NoTask => Installed(desc')
    BY <1>7 DEF TimerInterrupt, HeadOr, Installed
  <2>2. Installed(desc)' <=> Installed(desc')
    BY <1>7 DEF TimerInterrupt, Installed
  <2> QED
    BY <1>7, <2>1, <2>2, ListChange DEF TimerInterrupt
<1>8. CASE WalkDesc
  <2>1. Successor(desc) # NoTask => Installed(Successor(desc))
    BY <1>8, PlaceOf DEF WalkDesc
  <2>2. \A u \in Tasks : active'[u] => active[u]
    BY <1>8 DEF WalkDesc
  <2>3. (Installed(desc)' <=> Installed(desc')) /\ (Installed(next)' <=> Installed(next'))
    BY <1>8 DEF WalkDesc, Installed
  <2> QED
    BY <1>8, <2>1, <2>2, <2>3, ListChange DEF WalkDesc
<1>9. CASE RoutineReturns
  <2>1. desc' # NoTask => Installed(desc')
    BY <1>9, TimeAssumption DEF RoutineReturns, ToSet, Installed
  <2>2. Installed(desc)' <=> Installed(desc')
    BY <1>9 DEF RoutineReturns, Installed
  <2> QED
    BY <1>9, <2>1, <2>2, ListChange DEF RoutineReturns
<1>10. CASE WalkEnds
  BY <1>10, ListChange DEF WalkEnds
<1>11. CASE TimerFunc
  BY <1>11, ListChange DEF TimerFunc
<1>12. CASE TimerFires
  BY <1>12, ListChange DEF TimerFires
<1>13. CASE TimerVirtualPoll
  BY <1>13, ListChange DEF TimerVirtualPoll
<1>14. CASE Tick
  BY <1>14, ListChange DEF Tick
<1>15. CASE UNCHANGED vars
  BY <1>15, ListChange DEF vars
<1> QED
  BY <1>1, <1>2, <1>3, <1>4, <1>5, <1>6, <1>7, <1>8, <1>9, <1>10, <1>11, <1>12, <1>13,
     <1>14, <1>15
  DEF Next, GuestCalls, Cpu, Thread

\* Whatever moves wakeup_time leaves it by every active task's, or an interrupt
\* on its way.
LEMMA ArmedStep == TypeOK /\ ListInv /\ Armed /\ [Next]_vars => Armed'
<1> SUFFICES ASSUME TypeOK, ListInv, Armed, [Next]_vars PROVE Armed'
  OBVIOUS
<1> USE DEF TypeOK, Armed, guest, sleep, walk, opVars
<1>1. ASSUME NEW t \in Tasks, NEW fresh \in BOOLEAN, InsTime(t, fresh) PROVE Armed'
  <2>1. \A u \in Tasks : active'[u] => active[u] /\ u # t
    BY <1>1 DEF InsTime
  <2> QED
    BY <1>1, <2>1, ListChange DEF InsTime
<1>2. ASSUME NEW t \in Tasks, RmvTime(t) PROVE Armed'
  <2>1. active' \in [Tasks -> BOOLEAN] /\ \A u \in Tasks : active'[u] => active[u] /\ u # t
    BY <1>2 DEF RmvTime
  <2>2. \A u \in Tasks : u # t => wakeup'[u] = wakeup[u]
    BY <1>2 DEF RmvTime
  <2>3. \A u \in Tasks : Installed(u) /\ active'[u] => NextWakeup(active') <= wakeup[u]
    BY <2>1, NextWakeupIsFirst DEF ListInv
  <2>4. \A u \in Tasks : Installed(u)' <=> Installed(u) /\ u # t
    BY <1>2, ListChange
  <2>5. wakeup_time' = NextWakeup(active') \/ wakeup_time' = wakeup_time
    BY <1>2 DEF RmvTime
  <2>6. UNCHANGED <<flag, thread, cpu>> /\ op = "none"
    BY <1>2 DEF RmvTime, InGuest
  <2> QED
    BY <2>1, <2>2, <2>3, <2>4, <2>5, <2>6
<1>3. ASSUME NEW t \in Tasks, NEW d \in Delays[t], PrimeTime(t, d) PROVE Armed'
  BY <1>3, ListChange DEF PrimeTime
<1>4. CASE PrimeActivates
  <2>1. active' \in [Tasks -> BOOLEAN] /\ \A u \in Tasks : active'[u] => active[u] \/ u = task
    BY <1>4 DEF PrimeActivates
  <2>2. \A u \in Tasks : Installed(u) /\ active'[u] => wakeup[u] # Unset
    BY <1>4, <2>1 DEF PrimeActivates, ListInv
  <2>3. \A u \in Tasks : Installed(u) /\ active'[u] => wakeup_time' <= wakeup[u]
    BY <1>4, <2>1, <2>2, NextWakeupIsFirst DEF PrimeActivates
  <2> QED
    BY <1>4, <2>3, ListChange DEF PrimeActivates
<1>5. CASE Signal
  BY <1>5, ListChange DEF Signal
<1>6. CASE TimerReset
  BY <1>6, ListChange DEF TimerReset
<1>7. CASE TimerInterrupt
  BY <1>7, ListChange DEF TimerInterrupt
<1>8. CASE WalkDesc
  BY <1>8, ListChange DEF WalkDesc
<1>9. CASE RoutineReturns
  BY <1>9, ListChange DEF RoutineReturns
<1>10. CASE WalkEnds
  <2>1. \A u \in Tasks : Installed(u) /\ active[u] => wakeup_time' <= wakeup[u]
    BY <1>10, NextWakeupIsFirst DEF WalkEnds, ListInv
  <2> QED
    BY <1>10, <2>1, ListChange DEF WalkEnds
<1>11. CASE TimerFunc
  BY <1>11, ListChange DEF TimerFunc
<1>12. CASE TimerFires
  BY <1>12, ListChange DEF TimerFires
<1>13. CASE TimerVirtualPoll
  BY <1>13, ListChange DEF TimerVirtualPoll
<1>14. CASE Tick
  BY <1>14, ListChange DEF Tick
<1>15. CASE UNCHANGED vars
  BY <1>15, ListChange DEF vars
<1> QED
  BY <1>1, <1>2, <1>3, <1>4, <1>5, <1>6, <1>7, <1>8, <1>9, <1>10, <1>11, <1>12, <1>13,
     <1>14, <1>15
  DEF Next, GuestCalls, Cpu, Thread

\* Whatever moves wakeup_time is followed by a signal.
LEMMA ThreadStep == TypeOK /\ ThreadInTime /\ [Next]_vars => ThreadInTime'
<1> SUFFICES ASSUME TypeOK, ThreadInTime, [Next]_vars PROVE ThreadInTime'
  OBVIOUS
<1> USE DEF TypeOK, ThreadInTime, guest, sleep, walk, opVars
<1>1. ASSUME NEW t \in Tasks, NEW fresh \in BOOLEAN, InsTime(t, fresh) PROVE ThreadInTime'
  BY <1>1 DEF InsTime
<1>2. ASSUME NEW t \in Tasks, RmvTime(t) PROVE ThreadInTime'
  BY <1>2 DEF RmvTime
<1>3. ASSUME NEW t \in Tasks, NEW d \in Delays[t], PrimeTime(t, d) PROVE ThreadInTime'
  BY <1>3 DEF PrimeTime, InGuest
<1>4. CASE PrimeActivates
  BY <1>4 DEF PrimeActivates
<1>5. CASE Signal
  BY <1>5 DEF Signal
<1>6. CASE TimerReset
  BY <1>6 DEF TimerReset
<1>7. CASE TimerInterrupt
  BY <1>7 DEF TimerInterrupt
<1>8. CASE WalkDesc
  BY <1>8 DEF WalkDesc
<1>9. CASE RoutineReturns
  BY <1>9 DEF RoutineReturns
<1>10. CASE WalkEnds
  BY <1>10 DEF WalkEnds
<1>11. CASE TimerFunc
  BY <1>11 DEF TimerFunc
<1>12. CASE TimerFires
  BY <1>12 DEF TimerFires
<1>13. CASE TimerVirtualPoll
  BY <1>13 DEF TimerVirtualPoll
<1>14. CASE Tick
  BY <1>14 DEF Tick
<1>15. CASE UNCHANGED vars
  BY <1>15 DEF vars
<1> QED
  BY <1>1, <1>2, <1>3, <1>4, <1>5, <1>6, <1>7, <1>8, <1>9, <1>10, <1>11, <1>12, <1>13,
     <1>14, <1>15
  DEF Next, GuestCalls, Cpu, Thread

-----------------------------------------------------------------------------
\* The inductive invariant holds in every state.
LEMMA TimeInv == Spec => []Inv
<1>1. Init => Inv
  <2> SUFFICES ASSUME Init PROVE Inv
    OBVIOUS
  <2> USE TimeAssumption DEF Init, Installed, Unset, Far, Never
  <2>1. TypeOK
    <3>1. flag \in BOOLEAN /\ signalled \in BOOLEAN /\ vclock \in BOOLEAN
      OBVIOUS
    <3>2. active \in [Tasks -> BOOLEAN] /\ tmWakeUp \in [Tasks -> BOOLEAN]
      OBVIOUS
    <3>3. wakeup \in [Tasks -> Unset .. Far] /\ tmCount \in [Tasks -> Int]
      OBVIOUS
    <3> QED
      BY <3>1, <3>2, <3>3 DEF TypeOK
  <2>2. ListInv
    BY DEF ListInv
  <2>3. Armed /\ ThreadInTime
    BY DEF Armed, ThreadInTime
  <2> QED
    BY <2>1, <2>2, <2>3 DEF Inv
<1>2. Inv /\ [Next]_vars => Inv'
  BY TypeStep, ListStep, ArmedStep, ThreadStep DEF Inv
<1> QED
  BY <1>1, <1>2, PTL DEF Spec

\* The Time Manager's types: every wakeup that is waited for is a time, though
\* a descriptor's is not initialized, and no task has two descriptors.
THEOREM TimeTypeCorrect == Spec => []TypeOK
<1>1. Inv => TypeOK
  BY DEF Inv
<1> QED
  BY <1>1, TimeInv, PTL

\* An active task is provided for: wakeup_time is by its wakeup, or the
\* interrupt that will find it is on its way or under way.
THEOREM ArmedCorrect == Spec => []Armed
<1>1. Inv => Armed
  BY DEF Inv
<1> QED
  BY <1>1, TimeInv, PTL

\* The timer thread never sleeps past wakeup_time without a signal on its way.
THEOREM ThreadInTimeCorrect == Spec => []ThreadInTime
<1>1. Inv => ThreadInTime
  BY DEF Inv
<1> QED
  BY <1>1, TimeInv, PTL
=============================================================================
