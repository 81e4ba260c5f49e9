---------------------------- MODULE OverlayProofs ----------------------------
(***************************************************************************)
(* Overlay, for any number of downloads, blocks, versions and names: what  *)
(* the server has in memory is what its log says, a stop of the server     *)
(* loses and invents nothing, a download gives the version it says, and    *)
(* the overlay is the store of versions of OverlaySpec. All of it as long  *)
(* as a compacted file can be opened (Reopens).                            *)
(***************************************************************************)
EXTENDS Overlay, OverlayLogProofs

\* The file maybeCompact has just put in place can be opened.
Reopens == "reopen" \notin Faults

Recs  == Records(Names)
Files == [made : BOOLEAN, head : BOOLEAN, recs : Seq(Recs)]
Books == {Load(log) : log \in Seq(Recs)}
Objs  == [path : Paths \cup {None}, fallback : Paths \cup {None}, open : BOOLEAN,
          readers : Nat, book : Books]
Maps  == UNION {[D -> Int] : D \in SUBSET Nat}
Views == [ver : Nat, data : Maps, was : Maps]
Reads == [pc : {"reading"}, ver : Nat, kept : Maps, was : Maps, got : Maps, todo : Maps]

Reading == {t \in Readers : req[t].pc = "reading"}

\* What the variables range over, and as many readers as downloads.
Types ==
  /\ files \in [Paths -> Files] /\ o \in Objs /\ staged \in Seq(Nat)
  /\ img \in {"same", "changed", "gone"} /\ readOnly \in BOOLEAN
  /\ view \in [Readers -> Views] /\ req \in [Readers -> Reads \cup {Idle}]
  /\ IsFiniteSet(Reading) /\ o.readers = Cardinality(Reading)

\* An object's log is open: it is the only file there is, it ends with a
\* commit, and the object has the book of it.
Opened(obj, fs) ==
  /\ obj.open /\ obj.path \in Paths
  /\ \A p \in Paths : fs[p].made <=> p = obj.path
  /\ fs[obj.path].head
  /\ Closed(fs[obj.path].recs) /\ Load(fs[obj.path].recs) = obj.book

\* An object that has no file yet.
Unopened(obj, fs) ==
  /\ ~obj.open /\ obj.path \in Paths
  /\ \A p \in Paths : ~fs[p].made
  /\ obj.book = NoBook

AtMostOne(fs) == \A p, q \in Paths : fs[p].made /\ fs[q].made => p = q

FileInv ==
  /\ AtMostOne(files)
  /\ Cached => Opened(o, files) \/ Unopened(o, files)

\* The versions and the blocks of a store of versions.
StoreOK(s) ==
  /\ s.version \in 0 .. MaxVersion /\ s.reset \in 0 .. s.version
  /\ \A n \in DOMAIN s.blocks : s.blocks[n].v \in 1 .. s.version /\ s.blocks[n].v >= s.reset

StoreInv ==
  /\ StoreOK(store)
  /\ Cached => store = StoreOf(o.book, files[o.path].recs)
  /\ Durable

\* The blocks was are what the version ver had: of the last version they are
\* the blocks no newer than ver, if there was no reset since.
Seen(ver, was, s) ==
  /\ ver <= s.version
  /\ s.reset <= ver =>
       /\ DOMAIN was \subseteq DOMAIN s.blocks
       /\ \A n \in DOMAIN s.blocks :
            s.blocks[n].v <= ver => n \in DOMAIN was /\ was[n] = s.blocks[n].d

ViewInv == \A t \in Readers : view[t].data = view[t].was /\ Seen(view[t].ver, view[t].was, store)

\* A download: the blocks it has read, those it has still to read (they are in
\* the log where it looks for them) and those the tab kept are the version's.
ReadOK(r, log) ==
  /\ DOMAIN r.kept \cup DOMAIN r.got \cup DOMAIN r.todo = DOMAIN r.was
  /\ \A n \in DOMAIN r.got : r.got[n] = r.was[n]
  /\ \A n \in DOMAIN r.todo : r.todo[n] \in 1 .. Len(log) /\ ReadAt(log, r.todo[n]) = r.was[n]
  /\ \A n \in DOMAIN r.kept \ (DOMAIN r.got \cup DOMAIN r.todo) : r.kept[n] = r.was[n]

ReqInv ==
  \A t \in Reading : /\ o.open /\ Seen(req[t].ver, req[t].was, store)
                     /\ ReadOK(req[t], files[o.path].recs)

Inv == Types /\ FileInv /\ StoreInv /\ ViewInv /\ ReqInv

-----------------------------------------------------------------------------
\* The book of no log, and the store of no book.
LEMMA NoBookIs ==
  /\ NoBook.version = 0 /\ NoBook.reset = 0 /\ NoBook.index = Empty /\ NoBook.dead = 0 /\ NoBook.end = 0
  /\ [NoBook EXCEPT !.end = 0] = NoBook
  /\ Load(<<>>) = NoBook
<1>1. /\ NoBook.version = 0 /\ NoBook.reset = 0 /\ NoBook.index = Empty /\ NoBook.dead = 0
      /\ NoBook.end = 0
  BY Zenon DEF NoBook
<1>2. ASSUME NEW name
      PROVE  LET b == [version |-> 0, reset |-> 0, name |-> name, index |-> Empty, dead |-> 0, end |-> 0]
             IN  [b EXCEPT !.end = 0] = b
  OBVIOUS
<1>3. [NoBook EXCEPT !.end = 0] = NoBook
  BY <1>2, Zenon DEF NoBook
<1>4. EndOf(<<>>) = 0
  <2>1. <<>> \in Seq({}) /\ Len(<<>>) = 0
    OBVIOUS
  <2>2. EndOf(<<>>) \in 0 .. Len(<<>>)
    BY <2>1, CommitPlaces
  <2> QED
    BY <2>1, <2>2
<1>5. Load(<<>>) = NoBook
  BY <1>4, LoadParts, Zenon
<1> QED
  BY <1>1, <1>3, <1>5, Zenon

\* No book has no blocks, whatever the log.
LEMMA NoStoreIs ==
  /\ \A log : StoreOf(NoBook, log) = NoStore
  /\ NoStore.version = 0 /\ NoStore.reset = 0 /\ DOMAIN NoStore.blocks = {}
  /\ NoStore = Store!NoStore
<1>1. ASSUME NEW log
      PROVE  StoreOf(NoBook, log) = [version |-> 0, reset |-> 0, blocks |-> [n \in {} |-> 0]]
  <2>1. DOMAIN NoBook.index = {}
    BY NoBookIs DEF Empty
  <2>2. [n \in DOMAIN NoBook.index |->
           [v |-> NoBook.index[n].v, d |-> ReadAt(log, NoBook.index[n].off)]] = [n \in {} |-> 0]
    BY <2>1
  <2> QED
    BY <2>2, NoBookIs DEF StoreOf
<1>2. NoStore = [version |-> 0, reset |-> 0, blocks |-> [n \in {} |-> 0]]
  BY <1>1 DEF NoStore
<1> QED
  BY <1>1, <1>2 DEF Store!NoStore

\* The book of a closed log: it ends where the log does, and its blocks are there.
LEMMA BookIs ==
  ASSUME NEW log \in Seq(Recs), Closed(log), NEW book, book = Load(log)
  PROVE  /\ book.end = Len(log) /\ book.dead \in Nat
         /\ \A n \in DOMAIN book.index :
              /\ n \in Nat /\ book.index[n].off \in 1 .. Len(log) /\ book.index[n].v \in Nat
              /\ ReadAt(log, book.index[n].off) \in Int
<1> DEFINE f == FromOf(log)
<1>1. book = BookOf(log, f)
  BY LoadClosed, Zenon
<1> HIDE DEF f
<1>2. book.end = Len(log) /\ book.dead = DeadOf(log, f) /\ book.index = IndexOf(log, f)
  <2>1. /\ BookOf(log, f).end = Len(log) /\ BookOf(log, f).dead = DeadOf(log, f)
        /\ BookOf(log, f).index = IndexOf(log, f)
    BY DEF BookOf
  <2> QED
    BY <1>1, <2>1
<1>3. DeadOf(log, f) \in Nat
  BY DeadIsNat
<1>4. DOMAIN IndexOf(log, f) = Numbers(log, f)
  BY DEF IndexOf
<1>5. ASSUME NEW n \in Numbers(log, f), NEW e, e = IndexOf(log, f)[n]
      PROVE  n \in Nat /\ e.off \in 1 .. Len(log) /\ e.v \in Nat /\ ReadAt(log, e.off) \in Int
  <2>1. log \in Seq(Records(Names))
    BY DEF Recs
  <2> QED
    BY <1>5, <2>1, BookPlaces
<1> QED
  BY <1>2, <1>3, <1>4, <1>5

\* What follows a log changes nothing of what is read in it.
LEMMA ReadSame ==
  ASSUME NEW a \in Seq(Recs), NEW b \in Seq(Recs), NEW i \in 1 .. Len(a)
  PROVE  ReadAt(a \o b, i) = ReadAt(a, i) /\ i \in 1 .. Len(a \o b)
<1>1. (a \o b)[i] = a[i] /\ a \o b \in Seq(Recs) /\ Len(a \o b) = Len(a) + Len(b)
  BY BlocksConcat
<1>2. i \in DOMAIN a /\ i \in 1 .. Len(a \o b)
  BY <1>1
<1>3. i \in DOMAIN (a \o b)
  BY <1>1, <1>2
<1> QED
  BY <1>1, <1>2, <1>3 DEF ReadAt

\* So it is the same store.
LEMMA StoreSame ==
  ASSUME NEW log \in Seq(Recs), Closed(log), NEW book, book = Load(log), NEW more \in Seq(Recs)
  PROVE  StoreOf(book, log \o more) = StoreOf(book, log)
<1>1. \A n \in DOMAIN book.index : ReadAt(log \o more, book.index[n].off) = ReadAt(log, book.index[n].off)
  BY BookIs, ReadSame
<1> QED
  BY <1>1 DEF StoreOf

\* A compaction changes nothing of the store.
LEMMA CompactSame ==
  ASSUME NEW log \in Seq(Recs), Closed(log), NEW book, book = Load(log), NEW new, new = Compacted(book, log)
  PROVE  /\ new.log \in Seq(Recs) /\ Closed(new.log) /\ Load(new.log) = new.book
         /\ StoreOf(new.book, new.log) = StoreOf(book, log)
<1>1. /\ new.log \in Seq(Recs) /\ Closed(new.log) /\ Load(new.log) = new.book
      /\ new.book.version = book.version /\ new.book.reset = book.reset
      /\ DOMAIN new.book.index = DOMAIN book.index
      /\ \A n \in DOMAIN book.index :
           /\ new.book.index[n].v = book.index[n].v
           /\ ReadAt(new.log, new.book.index[n].off) = ReadAt(log, book.index[n].off)
  <2>1. log \in Seq(Records(Names))
    BY DEF Recs
  <2> QED
    BY <2>1, CompactLoads, Zenon DEF Recs
<1> QED
  BY <1>1 DEF StoreOf

-----------------------------------------------------------------------------
\* The records of an upload or a Revert: no commit, and its blocks are of it.
UploadOf(recs, v) == CommitsOf(recs) = {} /\ \A i \in BlocksOf(recs) : recs[i].v = v

\* A step of the store of versions.
Moves(old, new) == Store!Upload(old, new) \/ Store!Replace(old, new)

\* What commit has in memory, by its fields.
LEMMA CommittedIs ==
  ASSUME NEW book, DOMAIN book = {"version", "reset", "name", "index", "dead", "end"},
         NEW recs \in Seq(Recs), NEW v, NEW replace \in BOOLEAN, NEW new,
         new = Committed(book, recs, v, replace)
  PROVE  /\ new.version = v /\ new.reset = IF replace THEN v ELSE book.reset
         /\ new.index = EnteredIndex(IF replace THEN Empty ELSE book.index, recs, book.end)
<1> DEFINE kept == IF replace THEN DropBlocks(book) ELSE book
           e == Enter(kept, recs, book.end)
<1>1. new = [e EXCEPT !.name = Named(@, recs), !.end = @ + Len(recs) + 1, !.version = v,
                      !.reset = IF replace THEN v ELSE @]
  BY DEF Committed
<1>2. DOMAIN kept = DOMAIN book /\ kept.reset = book.reset /\ kept.index = IF replace THEN Empty ELSE book.index
  BY DEF DropBlocks
<1> HIDE DEF kept
<1>3. e = [kept EXCEPT !.index = EnteredIndex(kept.index, recs, book.end),
                       !.dead = EnteredDead(kept.dead, kept.index, recs)]
  BY EnterIs
<1> HIDE DEF e
<1>4. DOMAIN e = DOMAIN book /\ e.reset = book.reset /\ e.index = EnteredIndex(kept.index, recs, book.end)
  BY <1>2, <1>3
<1> QED
  BY <1>1, <1>2, <1>4

\* A commit is a step of the store of versions, and load reads it back.
LEMMA CommitMoves ==
  ASSUME NEW log \in Seq(Recs), Closed(log), StoreOK(StoreOf(Load(log), log)),
         NEW recs \in Seq(Recs), NEW v, v = Load(log).version + 1, UploadOf(recs, v),
         NEW replace \in BOOLEAN
  PROVE  /\ NewLog(log, recs, v, replace) \in Seq(Recs) /\ Closed(NewLog(log, recs, v, replace))
         /\ Load(NewLog(log, recs, v, replace)) = NewBook(log, recs, v, replace)
         /\ Adds(log, recs, v, replace) \in Seq(Recs)
         /\ Len(Adds(log, recs, v, replace)) = Len(recs) + 1
         /\ Moves(StoreOf(Load(log), log),
                  StoreOf(NewBook(log, recs, v, replace), NewLog(log, recs, v, replace)))
<1> DEFINE book == Load(log)
           new == NewLog(log, recs, v, replace)
           after == NewBook(log, recs, v, replace)
           adds == Adds(log, recs, v, replace)
           s == StoreOf(book, log)
           t == StoreOf(after, new)
           old == IF replace THEN Empty ELSE book.index
<1>1. s.version = book.version /\ s.reset = book.reset /\ DOMAIN s.blocks = DOMAIN book.index
  BY DEF StoreOf
<1>2. book.version \in Nat /\ book.reset \in 0 .. book.version /\ v \in Nat /\ book.reset \in Nat /\ v # book.reset
  <2>1. s.version \in 0 .. MaxVersion /\ s.reset \in 0 .. s.version
    BY DEF StoreOK
  <2>2. MaxVersion \in Nat
    BY OverlayAssumption
  <2> QED
    BY <1>1, <2>1, <2>2
<1>3. Commit(v, IF replace THEN v ELSE book.reset) \in Recs
  BY <1>2, RecordsHave DEF Recs
<1>4. adds \in Seq(Recs) /\ Len(adds) = Len(recs) + 1
  BY <1>3, AppendParts DEF CommitRecords, Adds
<1>5. new \in Seq(Recs) /\ Closed(new) /\ Load(new) = after
  <2>1. CommitsOf(recs) = {}
    BY DEF UploadOf
  <2>2. replace => v # Load(log).reset
    BY <1>2
  <2> DEFINE r == IF replace THEN v ELSE Load(log).reset
  <2>3. Commit(v, r) \in Recs
    BY <1>3
  <2>4. r = IF replace THEN v ELSE Load(log).reset
    OBVIOUS
  <2> HIDE DEF r, new, after
  <2> QED
    BY <2>1, <2>2, <2>3, <2>4, CommitLoads DEF new, after
<1>6. DOMAIN book = {"version", "reset", "name", "index", "dead", "end"}
  <2>1. book = BookOf(log, FromOf(log))
    BY LoadClosed, Zenon
  <2>2. ASSUME NEW x, NEW name
        PROVE  DOMAIN [version |-> VersionAt(log, Len(log)), reset |-> ResetAt(log, Len(log)),
                       name |-> name, index |-> IndexOf(log, x), dead |-> DeadOf(log, x), end |-> Len(log)]
                 = {"version", "reset", "name", "index", "dead", "end"}
    OBVIOUS
  <2> QED
    BY <2>1, <2>2, Zenon DEF BookOf
<1>7. /\ after.version = v /\ after.reset = IF replace THEN v ELSE book.reset
      /\ after.index = EnteredIndex(old, recs, book.end)
  <2>1. after = Committed(book, recs, v, replace)
    BY DEF NewBook
  <2> HIDE DEF book, after
  <2> QED
    BY <1>6, <2>1, CommittedIs
<1>8. t.version = v /\ t.reset = IF replace THEN v ELSE book.reset
  BY <1>7 DEF StoreOf
<1>9. DOMAIN t.blocks = DOMAIN after.index /\ \A n \in DOMAIN after.index :
        t.blocks[n] = [v |-> after.index[n].v, d |-> ReadAt(new, after.index[n].off)]
  BY DEF StoreOf
<1>10. \A n \in DOMAIN book.index :
         s.blocks[n] = [v |-> book.index[n].v, d |-> ReadAt(log, book.index[n].off)]
  BY DEF StoreOf
<1> HIDE DEF book, new, after, adds, s, t, old
<1>11. /\ DOMAIN after.index = DOMAIN old \cup Numbers(recs, 0)
       /\ \A n \in Numbers(recs, 0) : after.index[n].v = recs[Max(Places(recs, 0, n))].v
       /\ \A n \in DOMAIN old \ Numbers(recs, 0) : after.index[n] = old[n]
  BY <1>7 DEF EnteredIndex
<1>12. \A n \in Numbers(recs, 0) : after.index[n].v = v
  BY <1>11, NewestIs DEF UploadOf
<1>13. ASSUME NEW n \in Numbers(recs, 0) PROVE t.blocks[n].v = v
  <2>1. n \in DOMAIN after.index
    BY <1>11
  <2>2. t.blocks[n] = [v |-> after.index[n].v, d |-> ReadAt(new, after.index[n].off)]
    BY <1>9, <2>1
  <2> QED
    BY <1>12, <2>2
<1>14. CASE replace
  <2>1. DOMAIN old = {}
    BY <1>14 DEF Empty, old
  <2>2. Store!Replace(s, t)
    <3>1. t.version = s.version + 1
      BY <1>1, <1>8 DEF book
    <3> QED
      BY <1>8, <1>9, <1>11, <1>13, <1>14, <2>1, <3>1 DEF Store!Replace
  <2> QED
    BY <1>4, <1>5, <2>2 DEF Moves, s, t, adds, new, after, book
<1>15. CASE ~replace
  <2>1. old = book.index
    BY <1>15 DEF old
  <2>2. \A n \in DOMAIN book.index : ReadAt(new, book.index[n].off) = ReadAt(log, book.index[n].off)
    <3>1. new = log \o adds
      BY DEF new, adds, NewLog
    <3>2. \A n \in DOMAIN book.index : book.index[n].off \in 1 .. Len(log)
      BY BookIs DEF book
    <3>3. \A i \in 1 .. Len(log) : ReadAt(log \o adds, i) = ReadAt(log, i)
      BY <1>4, ReadSame
    <3>4. \A i \in 1 .. Len(log) : ReadAt(new, i) = ReadAt(log, i)
      BY <3>1, <3>3, Zenon
    <3> QED
      BY <3>2, <3>4
  <2>3. ASSUME NEW n \in DOMAIN book.index, n \notin Numbers(recs, 0) PROVE t.blocks[n] = s.blocks[n]
    <3>1. n \in DOMAIN after.index /\ after.index[n] = book.index[n]
      BY <1>11, <2>1, <2>3
    <3>2. t.blocks[n] = [v |-> after.index[n].v, d |-> ReadAt(new, after.index[n].off)]
      BY <1>9, <3>1
    <3>3. s.blocks[n] = [v |-> book.index[n].v, d |-> ReadAt(log, book.index[n].off)]
      BY <1>10
    <3> QED
      BY <2>2, <3>1, <3>2, <3>3
  <2>4. Store!Upload(s, t)
    <3>1. t.version = s.version + 1
      BY <1>1, <1>8 DEF book
    <3> QED
      BY <1>1, <1>8, <1>9, <1>11, <1>13, <1>15, <2>1, <2>3, <3>1 DEF Store!Upload
  <2> QED
    BY <1>4, <1>5, <2>4 DEF Moves, s, t, adds, new, after, book
<1> QED
  BY <1>14, <1>15

\* A step of the store keeps its versions in order, and what a tab has of an
\* earlier version is still what that version had.
LEMMA StoreMoves ==
  ASSUME NEW s, StoreOK(s), s.version < MaxVersion, NEW t, Moves(s, t)
  PROVE  /\ StoreOK(t)
         /\ \A ver \in Nat : \A was : Seen(ver, was, s) => Seen(ver, was, t)
<1>1. /\ MaxVersion \in Nat /\ s.version \in 0 .. MaxVersion /\ s.reset \in 0 .. s.version
      /\ \A n \in DOMAIN s.blocks : s.blocks[n].v \in 1 .. s.version /\ s.blocks[n].v >= s.reset
  BY OverlayAssumption DEF StoreOK
<1>2. t.version = s.version + 1 /\ t.version \in 0 .. MaxVersion /\ t.version \in 1 .. t.version /\ s.version \in Nat
  <2>1. t.version = s.version + 1
    BY DEF Moves, Store!Upload, Store!Replace
  <2> QED
    BY <1>1, <2>1
<1>3. CASE Store!Upload(s, t)
  <2>1. /\ t.reset = s.reset /\ DOMAIN s.blocks \subseteq DOMAIN t.blocks
        /\ \A n \in DOMAIN t.blocks : \/ n \in DOMAIN s.blocks /\ t.blocks[n] = s.blocks[n]
                                      \/ t.blocks[n].v = t.version
    BY <1>3 DEF Store!Upload
  <2>2. t.reset \in 0 .. t.version /\ t.reset <= t.version
    BY <1>1, <1>2, <2>1
  <2>3. ASSUME NEW n \in DOMAIN t.blocks PROVE t.blocks[n].v \in 1 .. t.version /\ t.blocks[n].v >= t.reset
    <3>1. CASE n \in DOMAIN s.blocks /\ t.blocks[n] = s.blocks[n]
      BY <1>1, <1>2, <2>1, <3>1
    <3>2. CASE t.blocks[n].v = t.version
      BY <1>2, <2>2, <3>2
    <3> QED
      BY <2>1, <3>1, <3>2
  <2>4. ASSUME NEW ver \in Nat, NEW was, Seen(ver, was, s) PROVE Seen(ver, was, t)
    <3>1. ver <= s.version /\ ver <= t.version /\ ~(t.version <= ver)
      BY <1>2, <2>4 DEF Seen
    <3>2. ASSUME t.reset <= ver
          PROVE  /\ DOMAIN was \subseteq DOMAIN t.blocks
                 /\ \A n \in DOMAIN t.blocks :
                      t.blocks[n].v <= ver => n \in DOMAIN was /\ was[n] = t.blocks[n].d
      <4>1. /\ DOMAIN was \subseteq DOMAIN s.blocks
            /\ \A n \in DOMAIN s.blocks :
                 s.blocks[n].v <= ver => n \in DOMAIN was /\ was[n] = s.blocks[n].d
        BY <2>1, <2>4, <3>2 DEF Seen
      <4> QED
        BY <2>1, <3>1, <4>1
    <3> QED
      BY <3>1, <3>2 DEF Seen
  <2> QED
    BY <1>2, <2>2, <2>3, <2>4 DEF StoreOK
<1>4. CASE Store!Replace(s, t)
  <2>1. t.reset = t.version /\ \A n \in DOMAIN t.blocks : t.blocks[n].v = t.version
    BY <1>4 DEF Store!Replace
  <2>2. t.version \in 0 .. t.version /\ t.version >= t.version
    BY <1>2
  <2>3. StoreOK(t)
    BY <1>2, <2>1, <2>2 DEF StoreOK
  <2>4. ASSUME NEW ver \in Nat, NEW was, Seen(ver, was, s) PROVE Seen(ver, was, t)
    <3>1. ver <= s.version /\ ver <= t.version /\ ~(t.version <= ver)
      BY <1>2, <2>4 DEF Seen
    <3> QED
      BY <2>1, <3>1 DEF Seen
  <2> QED
    BY <2>3, <2>4
<1> QED
  BY <1>3, <1>4 DEF Moves

-----------------------------------------------------------------------------
\* The log of an object, and the store it has.
LogOf(obj, fs) == fs[obj.path].recs
StoreAt(obj, fs) == StoreOf(obj.book, LogOf(obj, fs))

\* The log of an object is a log.
LEMMA LogIs ==
  ASSUME NEW obj, obj.path \in Paths, NEW fs \in [Paths -> Files]
  PROVE  LogOf(obj, fs) \in Seq(Recs)
  BY DEF LogOf, Files

\* create: the file made, and the store as it was; or nothing made.
LEMMA CreateOK ==
  ASSUME Types, FileInv, StoreInv, Cached, NEW c \in Create
  PROVE  /\ c = Outcome(c.o, c.files, c.ok) /\ c.ok \in BOOLEAN
         /\ c.o \in Objs /\ c.files \in [Paths -> Files] /\ c.o.readers = o.readers
         /\ StoreAt(c.o, c.files) = store
         /\ c.ok => Opened(c.o, c.files)
         /\ ~c.ok => Unopened(c.o, c.files)
         /\ o.open => c.o = o /\ c.files = files /\ c.ok
<1>1. o \in Objs /\ files \in [Paths -> Files]
  BY DEF Types
<1>2. StoreAt(o, files) = store
  BY DEF StoreInv, StoreAt, LogOf
<1>3. CASE o.open
  <2>1. c = Outcome(o, files, TRUE)
    BY <1>3 DEF Create
  <2>2. c.o = o /\ c.files = files /\ c.ok = TRUE
    BY <2>1 DEF Outcome
  <2>3. Opened(o, files)
    BY <1>3 DEF FileInv, Unopened
  <2> QED
    BY <1>1, <1>2, <1>3, <2>1, <2>2, <2>3
<1>4. CASE ~o.open
  <2> DEFINE make(p) == Outcome([o EXCEPT !.path = p, !.open = TRUE, !.book.end = 0],
                       [files EXCEPT ![p] = [made |-> TRUE, head |-> TRUE, recs |-> <<>>]], TRUE)
             fail(p) == Outcome([o EXCEPT !.path = p], files, FALSE)
  <2>1. Unopened(o, files)
    BY <1>4 DEF FileInv, Opened
  <2>2. \A q \in Tried : q \in Paths
    BY <1>1, <2>1 DEF Unopened, Objs, Tried
  <2>3. PICK p \in Tried : c = make(p) \/ c = fail(p)
    <3>1. Create = {make(p) : p \in {q \in Tried : Makeable(q)}}
                     \cup {fail(p) : p \in {q \in Tried : ~Makeable(q) \/ CanFail}}
      BY <1>4 DEF Create
    <3> HIDE DEF make, fail
    <3> QED
      BY <3>1
  <2> DEFINE obj == [o EXCEPT !.path = p, !.open = TRUE, !.book.end = 0]
             fs == [files EXCEPT ![p] = [made |-> TRUE, head |-> TRUE, recs |-> <<>>]]
             made == Outcome(obj, fs, TRUE)
             failed == Outcome([o EXCEPT !.path = p], files, FALSE)
  <2>4. p \in Paths
    BY <2>2, <2>3
  <2>5. c = made \/ c = failed
    BY <2>3
  <2>6. store = NoStore
    BY <1>2, <2>1, NoStoreIs DEF Unopened, StoreAt
  <2>7. CASE c = made
    <3>1. o.book = NoBook /\ [NoBook EXCEPT !.end = 0] = NoBook
      BY <2>1, NoBookIs DEF Unopened
    <3>2. obj = [o EXCEPT !.path = p, !.open = TRUE, !.book = [NoBook EXCEPT !.end = 0]]
      BY <3>1
    <3>3. obj = [o EXCEPT !.path = p, !.open = TRUE, !.book = NoBook]
      BY <3>1, <3>2, Zenon
    <3> HIDE DEF obj
    <3>4. NoBook \in Books
      <4>1. <<>> \in Seq(Recs)
        OBVIOUS
      <4> QED
        BY <4>1, NoBookIs, Zenon DEF Books
    <3>5. obj \in Objs /\ obj.path = p /\ obj.open = TRUE /\ obj.book = NoBook /\ obj.readers = o.readers
      BY <1>1, <2>4, <3>3, <3>4 DEF Objs
    <3>6. fs \in [Paths -> Files]
      BY <1>1, <2>4 DEF Files
    <3>7. fs[p] = [made |-> TRUE, head |-> TRUE, recs |-> <<>>] /\ \A q \in Paths : q # p => fs[q] = files[q]
      BY <1>1, <2>4
    <3> HIDE DEF fs
    <3>8. Opened(obj, fs)
      <4>1. fs[p].made /\ fs[p].head /\ fs[p].recs = <<>>
        BY <3>7
      <4>2. \A q \in Paths : q # p => ~fs[q].made
        BY <2>1, <3>7 DEF Unopened
      <4>3. Closed(<<>>) /\ Load(<<>>) = NoBook
        BY NoBookIs DEF Closed
      <4>4. \A q \in Paths : fs[q].made <=> q = p
        BY <4>1, <4>2
      <4> QED
        BY <2>4, <3>5, <4>1, <4>3, <4>4, Zenon DEF Opened
    <3>9. StoreAt(obj, fs) = NoStore
      BY <3>5, NoStoreIs DEF StoreAt
    <3>10. c.o = obj /\ c.files = fs /\ c.ok = TRUE /\ c = Outcome(obj, fs, TRUE)
      BY <2>7 DEF Outcome
    <3> QED
      BY <1>4, <2>6, <3>5, <3>6, <3>8, <3>9, <3>10
  <2>8. CASE c = failed
    <3> DEFINE new == [o EXCEPT !.path = p]
    <3>1. new \in Objs /\ new.path = p /\ new.open = o.open /\ new.book = o.book /\ new.readers = o.readers
      BY <1>1, <2>4 DEF Objs
    <3>2. c.o = new /\ c.files = files /\ c.ok = FALSE /\ c = Outcome(new, files, FALSE)
      BY <2>8 DEF Outcome
    <3> HIDE DEF new
    <3>3. Unopened(new, files)
      BY <2>1, <2>4, <3>1 DEF Unopened
    <3>4. StoreAt(new, files) = NoStore
      BY <2>1, <3>1, NoStoreIs DEF StoreAt, Unopened
    <3> QED
      BY <1>1, <1>4, <2>6, <3>1, <3>2, <3>3, <3>4
  <2> QED
    BY <2>5, <2>7, <2>8
<1> QED
  BY <1>3, <1>4

\* An outcome with another book and other records.
With(c, p, book, recs) == [c EXCEPT !.o.book = book, !.files[p].recs = recs]
ObjWith(obj, book) == [obj EXCEPT !.book = book]
FilesWith(fs, p, recs) == [fs EXCEPT ![p].recs = recs]

\* It is the outcome with that object and those files.
LEMMA OutcomeExcept ==
  ASSUME NEW obj, NEW fs, NEW ok, NEW book, NEW recs, NEW p
  PROVE  With(Outcome(obj, fs, ok), p, book, recs) =
           Outcome(ObjWith(obj, book), FilesWith(fs, p, recs), ok)
<1> DEFINE same == Outcome(obj, fs, ok)
           mid == [same EXCEPT !.o.book = book]
           end == [mid EXCEPT !.files[p].recs = recs]
<1>1. mid = [o |-> [obj EXCEPT !.book = book], files |-> fs, ok |-> ok]
  BY DEF Outcome
<1>2. [same EXCEPT !.o.book = book, !.files[p].recs = recs] = end
  OBVIOUS
<1> HIDE DEF mid
<1>3. end = [o |-> [obj EXCEPT !.book = book], files |-> [fs EXCEPT ![p].recs = recs], ok |-> ok]
  BY <1>1
<1> HIDE DEF end
<1> QED
  BY <1>2, <1>3 DEF Outcome, With, ObjWith, FilesWith

\* maybeCompact: the same store, in the same log or, when nobody reads it, in
\* another one.
LEMMA MaybeCompactOK ==
  ASSUME Reopens, NEW obj \in Objs, NEW fs \in [Paths -> Files], NEW ok, Opened(obj, fs),
         NEW d \in MaybeCompact(Outcome(obj, fs, ok))
  PROVE  /\ d = Outcome(d.o, d.files, ok) /\ d.ok = ok
         /\ d.o \in Objs /\ d.files \in [Paths -> Files]
         /\ Opened(d.o, d.files) /\ d.o.readers = obj.readers
         /\ StoreAt(d.o, d.files) = StoreAt(obj, fs)
         /\ obj.readers = 0 \/ (d.o = obj /\ d.files = fs)
<1> DEFINE log == LogOf(obj, fs)
           new == Compacted(obj.book, log)
           obj2 == ObjWith(obj, new.book)
           fs2 == FilesWith(fs, obj.path, new.log)
           same == Outcome(obj, fs, ok)
           done == Outcome(obj2, fs2, ok)
<1>1. obj.path \in Paths /\ log \in Seq(Recs) /\ Closed(log) /\ Load(log) = obj.book
  BY LogIs DEF Opened, LogOf
<1>2. d = same \/ (CompactDue(obj) /\ d = done)
  <2>1. same.o = obj /\ same.files = fs /\ same.ok = ok
    BY DEF Outcome
  <2> HIDE DEF same, done
  <2>3. \/ MaybeCompact(same) = {same}
        \/ /\ CompactDue(obj)
           /\ MaybeCompact(same) =
                {[same EXCEPT !.o.book = new.book, !.files[obj.path].recs = new.log]}
                  \cup (IF "compact" \in Faults THEN {same} ELSE {})
    <3>1. "reopen" \notin Faults
      BY DEF Reopens
    <3> QED
      BY <2>1, <3>1 DEF MaybeCompact, LogOf
  <2>4. d \in MaybeCompact(same)
    BY DEF same
  <2>5. [same EXCEPT !.o.book = new.book, !.files[obj.path].recs = new.log] = done
    <3>1. [same EXCEPT !.o.book = new.book, !.files[obj.path].recs = new.log] =
            With(same, obj.path, new.book, new.log)
      BY DEF With
    <3>2. With(same, obj.path, new.book, new.log) = done
      <4> HIDE DEF new
      <4> QED
        BY OutcomeExcept DEF done, same
    <3> QED
      BY <3>1, <3>2, Zenon
  <2>6. MaybeCompact(same) = {same} \/ (CompactDue(obj) /\ MaybeCompact(same) \subseteq {done, same})
    BY <2>3, <2>5, Zenon
  <2>7. CASE MaybeCompact(same) = {same}
    BY <2>4, <2>7
  <2>8. CASE CompactDue(obj) /\ MaybeCompact(same) \subseteq {done, same}
    BY <2>4, <2>8
  <2> QED
    BY <2>6, <2>7, <2>8
<1>3. CASE d = same
  <2>1. d.o = obj /\ d.files = fs /\ d.ok = ok /\ d = Outcome(obj, fs, ok)
    BY <1>3 DEF Outcome
  <2> QED
    BY <2>1
<1>4. CASE CompactDue(obj) /\ d = done
  <2>1. obj.readers = 0
    BY <1>4 DEF CompactDue
  <2>2. /\ new.log \in Seq(Recs) /\ Closed(new.log) /\ Load(new.log) = new.book
        /\ StoreOf(new.book, new.log) = StoreOf(obj.book, log)
    <3> HIDE DEF log
    <3> QED
      BY <1>1, CompactSame
  <2> HIDE DEF new, log
  <2>3. new.book \in Books
    BY <2>2 DEF Books
  <2>4. /\ obj2 \in Objs /\ obj2.path = obj.path /\ obj2.open = obj.open /\ obj2.readers = obj.readers
        /\ obj2.book = new.book
    BY <2>3 DEF Objs, ObjWith
  <2>5. fs2 \in [Paths -> Files] /\ fs2[obj.path].recs = new.log /\ fs2[obj.path].head = fs[obj.path].head
        /\ \A q \in Paths : fs2[q].made = fs[q].made
    BY <1>1, <2>2 DEF Files, FilesWith
  <2> HIDE DEF obj2, fs2
  <2>6. d.o = obj2 /\ d.files = fs2 /\ d.ok = ok /\ d = Outcome(obj2, fs2, ok)
    BY <1>4 DEF Outcome
  <2>7. Opened(obj2, fs2)
    <3>1. /\ obj.open /\ obj.path \in Paths
          /\ \A p \in Paths : fs[p].made <=> p = obj.path
          /\ fs[obj.path].head
      BY DEF Opened
    <3>2. \A p \in Paths : fs2[p].made <=> p = obj2.path
      BY <2>4, <2>5, <3>1
    <3> QED
      BY <2>2, <2>4, <2>5, <3>1, <3>2 DEF Opened
  <2>8. StoreAt(obj2, fs2) = StoreAt(obj, fs)
    BY <2>2, <2>4, <2>5 DEF StoreAt, LogOf, log
  <2>9. d = Outcome(d.o, d.files, ok)
    BY <2>6, Zenon
  <2>10. d.o \in Objs /\ d.o.readers = obj.readers
    BY <2>4, <2>6, Zenon
  <2>11. d.files \in [Paths -> Files] /\ d.ok = ok
    BY <2>5, <2>6, Zenon
  <2>12. Opened(d.o, d.files) /\ StoreAt(d.o, d.files) = StoreAt(obj, fs)
    BY <2>6, <2>7, <2>8, Zenon
  <2> QED
    BY <2>1, <2>9, <2>10, <2>11, <2>12, Zenon
<1> QED
  BY <1>2, <1>3, <1>4

-----------------------------------------------------------------------------
\* The first n of the records a commit adds to a log.
Part(log, recs, v, replace, n) == SubSeq(Adds(log, recs, v, replace), 1, n)

\* The log with the first n of the records of a commit.
Left(obj, fs, recs, v, replace, n) == LogOf(obj, fs) \o Part(LogOf(obj, fs), recs, v, replace, n)

\* What a commit appends to an open log: all of its records, or some of them
\* and no commit.
LEMMA AppendedIs ==
  ASSUME NEW obj \in Objs, NEW fs \in [Paths -> Files], NEW ok, Opened(obj, fs), StoreOK(StoreAt(obj, fs)),
         NEW recs \in Seq(Recs), NEW v, v = obj.book.version + 1, UploadOf(recs, v), NEW replace \in BOOLEAN,
         NEW n \in 0 .. Len(recs) + 1
  PROVE  /\ Appended(Outcome(obj, fs, ok), recs, v, replace, n) = Left(obj, fs, recs, v, replace, n)
         /\ Part(LogOf(obj, fs), recs, v, replace, n) \in Seq(Recs)
         /\ n = Len(recs) + 1 => Left(obj, fs, recs, v, replace, n) = NewLog(LogOf(obj, fs), recs, v, replace)
         /\ n <= Len(recs) => CommitsOf(Part(LogOf(obj, fs), recs, v, replace, n)) = {}
<1> DEFINE log == LogOf(obj, fs)
           adds == Adds(log, recs, v, replace)
           part == SubSeq(adds, 1, n)
<1>1. log \in Seq(Recs) /\ Closed(log) /\ Load(log) = obj.book
  BY LogIs DEF Opened, LogOf
<1>2. Appended(Outcome(obj, fs, ok), recs, v, replace, n) =
        SubSeq(log, 1, obj.book.end) \o SubSeq(CommitRecords(obj.book, recs, v, replace), 1, n)
  BY DEF Appended, Outcome, LogOf
<1>3. CommitRecords(obj.book, recs, v, replace) = adds
  BY <1>1 DEF Adds
<1>4. adds \in Seq(Recs) /\ Len(adds) = Len(recs) + 1
  <2>1. StoreOK(StoreOf(Load(log), log)) /\ v = Load(log).version + 1
    BY <1>1 DEF StoreAt
  <2> HIDE DEF log
  <2> QED
    BY <1>1, <2>1, CommitMoves
<1>5. \A i \in 1 .. Len(recs) : adds[i] = recs[i]
  <2>1. \A c : \A i \in 1 .. Len(recs) : Append(recs, c)[i] = recs[i]
    OBVIOUS
  <2> QED
    BY <2>1 DEF Adds, CommitRecords
<1> HIDE DEF log, adds
<1>6. obj.book.end = Len(log)
  BY <1>1, BookIs
<1>7. SubSeq(log, 1, obj.book.end) = log
  BY <1>1, <1>6, SubSeqFull
<1>8. n \in Int /\ n <= Len(adds) /\ Len(recs) \in Nat /\ n \in 0 .. Len(adds)
  BY <1>4
<1>9. part \in Seq(Recs) /\ Len(part) = n /\ \A i \in 1 .. n : part[i] = adds[i]
  <2>1. \A i \in 1 .. n : adds[i] \in Recs
    BY <1>4, <1>8
  <2>2. /\ part \in Seq(Recs) /\ Len(part) = IF 1 <= n THEN n - 1 + 1 ELSE 0
        /\ \A i \in 1 .. n - 1 + 1 : part[i] = adds[1 + i - 1]
    BY <1>8, <2>1, SubSeqProperties
  <2>3. \A i \in 1 .. n : i \in 1 .. n - 1 + 1 /\ 1 + i - 1 = i
    BY <1>8
  <2> QED
    BY <1>8, <2>2, <2>3
<1>10. ASSUME n = Len(recs) + 1 PROVE log \o part = NewLog(log, recs, v, replace)
  <2>1. part = adds
    BY <1>4, <1>10, SubSeqFull
  <2> HIDE DEF part
  <2> QED
    BY <2>1 DEF NewLog, adds
<1> HIDE DEF part
<1>11. ASSUME n <= Len(recs) PROVE CommitsOf(part) = {}
  <2>1. \A i \in 1 .. n : i \in 1 .. Len(recs) /\ part[i] = recs[i]
    BY <1>5, <1>8, <1>9, <1>11
  <2>2. \A i \in 1 .. Len(recs) : recs[i].kind # "commit"
    BY DEF UploadOf, CommitsOf
  <2>3. DOMAIN part = 1 .. n
    BY <1>9
  <2> QED
    BY <2>1, <2>2, <2>3 DEF CommitsOf
<1>12. Appended(Outcome(obj, fs, ok), recs, v, replace, n) = log \o part
  BY <1>2, <1>3, <1>7 DEF part
<1>13. Left(obj, fs, recs, v, replace, n) = log \o part
  BY Zenon DEF Left, part, adds, log, Part
<1>14. n = Len(recs) + 1 => Left(obj, fs, recs, v, replace, n) = NewLog(log, recs, v, replace)
  BY <1>10, <1>13, Zenon
<1>15. Appended(Outcome(obj, fs, ok), recs, v, replace, n) = Left(obj, fs, recs, v, replace, n)
  BY <1>12, <1>13, Zenon
<1>16. part = Part(log, recs, v, replace, n)
  BY Zenon DEF part, adds, Part
<1> HIDE DEF part
<1> QED
  BY <1>9, <1>11, <1>14, <1>15, <1>16, Zenon DEF log

\* What a commit makes of an object and its files: what a download finds in
\* the log is there still, or there is no download.
KeepsReads(obj, fs, obj2, fs2) ==
  obj.open => /\ obj2.open
              /\ \/ obj.readers = 0
                 \/ \A i \in 1 .. Len(LogOf(obj, fs)) :
                      i \in 1 .. Len(LogOf(obj2, fs2)) /\ ReadAt(LogOf(obj2, fs2), i) = ReadAt(LogOf(obj, fs), i)

\* An outcome whose log has the records of a commit.
Wrote(c, recs, v, replace) ==
  [c EXCEPT !.o.book = Committed(c.o.book, recs, v, replace),
            !.files[c.o.path].recs = Appended(c, recs, v, replace, Len(recs) + 1)]

\* The records written, before maybeCompact.
LEMMA WrittenOK ==
  ASSUME NEW obj \in Objs, NEW fs \in [Paths -> Files], Opened(obj, fs), StoreOK(StoreAt(obj, fs)),
         NEW recs \in Seq(Recs), NEW v, v = obj.book.version + 1, UploadOf(recs, v), NEW replace \in BOOLEAN,
         NEW ok, NEW w, w = Wrote(Outcome(obj, fs, ok), recs, v, replace)
  PROVE  /\ w = Outcome(w.o, w.files, ok) /\ w.o \in Objs /\ w.files \in [Paths -> Files]
         /\ w.o.readers = obj.readers /\ w.ok = ok
         /\ Opened(w.o, w.files) /\ Moves(StoreAt(obj, fs), StoreAt(w.o, w.files))
         /\ KeepsReads(obj, fs, w.o, w.files)
<1> DEFINE log == LogOf(obj, fs)
           new == NewLog(log, recs, v, replace)
           after == NewBook(log, recs, v, replace)
           adds == Adds(log, recs, v, replace)
           obj2 == ObjWith(obj, after)
           fs2 == FilesWith(fs, obj.path, new)
<1>1. obj.path \in Paths /\ log \in Seq(Recs) /\ Closed(log) /\ Load(log) = obj.book
  BY LogIs DEF Opened, LogOf
<1>2. /\ new \in Seq(Recs) /\ Closed(new) /\ Load(new) = after /\ adds \in Seq(Recs)
      /\ Moves(StoreOf(Load(log), log), StoreOf(after, new))
  <2>1. StoreOK(StoreOf(Load(log), log)) /\ v = Load(log).version + 1
    BY <1>1 DEF StoreAt
  <2> HIDE DEF log
  <2> QED
    BY <1>1, <2>1, CommitMoves
<1>3. Committed(obj.book, recs, v, replace) = after
  BY <1>1 DEF NewBook
<1>4. Appended(Outcome(obj, fs, ok), recs, v, replace, Len(recs) + 1) = new
  <2>1. Len(recs) + 1 \in 0 .. Len(recs) + 1
    OBVIOUS
  <2>2. \A n \in 0 .. Len(recs) + 1 :
          /\ Appended(Outcome(obj, fs, ok), recs, v, replace, n) = Left(obj, fs, recs, v, replace, n)
          /\ n = Len(recs) + 1 => Left(obj, fs, recs, v, replace, n) = new
    <3> SUFFICES ASSUME NEW n \in 0 .. Len(recs) + 1
                 PROVE  /\ Appended(Outcome(obj, fs, ok), recs, v, replace, n) = Left(obj, fs, recs, v, replace, n)
                        /\ n = Len(recs) + 1 => Left(obj, fs, recs, v, replace, n) = new
      OBVIOUS
    <3> QED
      BY AppendedIs
  <2> HIDE DEF log, new
  <2> QED
    BY <2>1, <2>2, Zenon
<1>5. w = Outcome(obj2, fs2, ok)
  <2> DEFINE c == Outcome(obj, fs, ok)
  <2>1. c.o = obj
    BY DEF Outcome
  <2> HIDE DEF after, new, log, c
  <2>2. w = [c EXCEPT !.o.book = Committed(c.o.book, recs, v, replace),
                      !.files[c.o.path].recs = Appended(c, recs, v, replace, Len(recs) + 1)]
    BY DEF Wrote, c
  <2>3. w = [c EXCEPT !.o.book = after, !.files[obj.path].recs = new]
    BY <1>3, <1>4, <2>1, <2>2, Zenon DEF c
  <2> QED
    <3>1. w = With(c, obj.path, after, new)
      BY <2>3 DEF With
    <3> QED
      BY <3>1, OutcomeExcept DEF c
<1> HIDE DEF log, new, after, adds
<1>6. after \in Books
  BY <1>2 DEF Books
<1>7. /\ obj2 \in Objs /\ obj2.path = obj.path /\ obj2.open = obj.open /\ obj2.readers = obj.readers
      /\ obj2.book = after
  BY <1>6 DEF Objs, ObjWith
<1>8. /\ fs2 \in [Paths -> Files] /\ fs2[obj.path].recs = new /\ fs2[obj.path].head = fs[obj.path].head
      /\ \A q \in Paths : fs2[q].made = fs[q].made
  BY <1>1, <1>2 DEF Files, FilesWith
<1> HIDE DEF obj2, fs2
<1>9. w.o = obj2 /\ w.files = fs2 /\ w.ok = ok
  <2>1. LET x == Outcome(obj2, fs2, ok) IN x.o = obj2 /\ x.files = fs2 /\ x.ok = ok
    BY DEF Outcome
  <2> QED
    BY <1>5, <2>1, Zenon
<1>10. Opened(obj2, fs2)
  <2>1. /\ obj.open /\ obj.path \in Paths
        /\ \A p \in Paths : fs[p].made <=> p = obj.path
        /\ fs[obj.path].head
    BY DEF Opened
  <2>2. \A p \in Paths : fs2[p].made <=> p = obj2.path
    BY <1>7, <1>8, <2>1
  <2> QED
    BY <1>2, <1>7, <1>8, <2>1, <2>2 DEF Opened
<1>11. LogOf(obj2, fs2) = new
  BY <1>7, <1>8 DEF LogOf
<1>12. Moves(StoreAt(obj, fs), StoreAt(obj2, fs2))
  BY <1>1, <1>2, <1>7, <1>11 DEF StoreAt, log
<1>13. KeepsReads(obj, fs, obj2, fs2)
  <2>1. \A i \in 1 .. Len(log) : i \in 1 .. Len(new) /\ ReadAt(new, i) = ReadAt(log, i)
    <3>1. \A i \in 1 .. Len(log) : i \in 1 .. Len(log \o adds) /\ ReadAt(log \o adds, i) = ReadAt(log, i)
      BY <1>1, <1>2, ReadSame
    <3>2. log \o adds = new
      BY DEF new, adds, NewLog
    <3> QED
      BY <3>1, <3>2, Zenon
  <2> QED
    BY <1>7, <1>11, <2>1, Zenon DEF KeepsReads, log
<1> QED
  BY <1>5, <1>7, <1>8, <1>9, <1>10, <1>12, <1>13, Zenon

\* commit: one more version; or, when it fails, the store as it was.
LEMMA CommitToOK ==
  ASSUME Reopens, Types, FileInv, StoreInv, Cached, NEW recs \in Seq(Recs), NEW v, v = o.book.version + 1,
         UploadOf(recs, v), NEW replace \in BOOLEAN, NEW x \in CommitTo(recs, v, replace)
  PROVE  /\ x.o \in Objs /\ x.files \in [Paths -> Files] /\ x.ok \in BOOLEAN /\ x.o.readers = o.readers
         /\ Opened(x.o, x.files) \/ Unopened(x.o, x.files)
         /\ x.ok => x.o.open /\ Moves(store, StoreAt(x.o, x.files))
         /\ ~x.ok => StoreAt(x.o, x.files) = store
         /\ KeepsReads(o, files, x.o, x.files)
<1>1. PICK c \in Create : x \in (IF ~c.ok THEN {c}
                                 ELSE MaybeCompact(Wrote(c, recs, v, replace))
                                        \cup (IF "write" \in Faults THEN {[c EXCEPT !.ok = FALSE]} ELSE {}))
  BY DEF CommitTo, Wrote
<1>2. /\ c = Outcome(c.o, c.files, c.ok) /\ c.ok \in BOOLEAN
      /\ c.o \in Objs /\ c.files \in [Paths -> Files] /\ c.o.readers = o.readers
      /\ StoreAt(c.o, c.files) = store
      /\ c.ok => Opened(c.o, c.files)
      /\ ~c.ok => Unopened(c.o, c.files)
      /\ o.open => c.o = o /\ c.files = files /\ c.ok
  BY CreateOK
<1>3. StoreOK(store) /\ store = StoreAt(o, files)
  BY DEF StoreInv, StoreAt, LogOf
<1>4. CASE ~c.ok
  <2>1. x = c
    BY <1>1, <1>4
  <2>2. ~o.open
    BY <1>2, <1>4
  <2> QED
    BY <1>2, <1>4, <2>1, <2>2, Zenon DEF KeepsReads
<1>5. CASE c.ok /\ x = [c EXCEPT !.ok = FALSE]
  <2>1. x.o = c.o /\ x.files = c.files /\ x.ok = FALSE
    <3>1. ASSUME NEW a, NEW b, NEW d PROVE LET y == [Outcome(a, b, d) EXCEPT !.ok = FALSE]
                                           IN  y.o = a /\ y.files = b /\ y.ok = FALSE
      BY DEF Outcome
    <3> QED
      BY <1>2, <1>5, <3>1
  <2>2. KeepsReads(o, files, x.o, x.files)
    <3>1. \A i \in 1 .. Len(LogOf(o, files)) : i \in 1 .. Len(LogOf(o, files))
      OBVIOUS
    <3> QED
      BY <1>2, <2>1, <3>1, Zenon DEF KeepsReads
  <2> QED
    BY <1>2, <1>5, <2>1, <2>2, Zenon
<1>6. CASE c.ok /\ x \in MaybeCompact(Wrote(c, recs, v, replace))
  <2> DEFINE w == Wrote(c, recs, v, replace)
  <2>1. v = c.o.book.version + 1
    <3>1. StoreAt(c.o, c.files) = StoreAt(o, files)
      BY <1>2, <1>3
    <3>2. StoreAt(c.o, c.files).version = c.o.book.version /\ StoreAt(o, files).version = o.book.version
      BY DEF StoreAt, StoreOf
    <3> QED
      BY <3>1, <3>2
  <2>2. StoreOK(StoreAt(c.o, c.files)) /\ Opened(c.o, c.files)
    BY <1>2, <1>3, <1>6
  <2>3. w = Wrote(Outcome(c.o, c.files, c.ok), recs, v, replace)
    BY <1>2, Zenon
  <2> HIDE DEF w
  <2>4. /\ w = Outcome(w.o, w.files, c.ok) /\ w.o \in Objs /\ w.files \in [Paths -> Files]
        /\ w.o.readers = c.o.readers
        /\ Opened(w.o, w.files) /\ Moves(StoreAt(c.o, c.files), StoreAt(w.o, w.files))
        /\ KeepsReads(c.o, c.files, w.o, w.files)
    BY <1>2, <2>1, <2>2, <2>3, WrittenOK
  <2>5. x \in MaybeCompact(Outcome(w.o, w.files, c.ok))
    BY <1>6, <2>4, Zenon DEF w
  <2>6. /\ x.ok = c.ok /\ x.o \in Objs /\ x.files \in [Paths -> Files]
        /\ Opened(x.o, x.files) /\ x.o.readers = w.o.readers
        /\ StoreAt(x.o, x.files) = StoreAt(w.o, w.files)
        /\ w.o.readers = 0 \/ (x.o = w.o /\ x.files = w.files)
    BY <2>4, <2>5, MaybeCompactOK
  <2>7. Moves(store, StoreAt(x.o, x.files)) /\ x.o.readers = o.readers /\ x.o.open
    BY <1>2, <2>4, <2>6, Zenon DEF Opened
  <2>8. KeepsReads(o, files, x.o, x.files)
    <3>1. CASE ~o.open
      BY <3>1 DEF KeepsReads
    <3>2. CASE o.open
      <4>1. c.o = o /\ c.files = files
        BY <1>2, <3>2
      <4>2. KeepsReads(o, files, w.o, w.files)
        BY <2>4, <4>1, Zenon
      <4>3. x.o.open
        BY <2>6 DEF Opened
      <4>4. CASE w.o.readers = 0
        BY <1>2, <2>4, <4>3, <4>4, Zenon DEF KeepsReads
      <4>5. CASE x.o = w.o /\ x.files = w.files
        BY <4>2, <4>5, Zenon
      <4> QED
        BY <2>6, <4>4, <4>5
    <3> QED
      BY <3>1, <3>2
  <2> QED
    BY <1>6, <2>6, <2>7, <2>8, Zenon
<1> QED
  BY <1>1, <1>2, <1>4, <1>5, <1>6

-----------------------------------------------------------------------------
\* A store that stays as it is, or moves.
LEMMA StoreKept ==
  ASSUME NEW s, StoreOK(s), NEW t, t = s \/ (s.version < MaxVersion /\ Moves(s, t))
  PROVE  StoreOK(t) /\ \A ver \in Nat : \A was : Seen(ver, was, s) => Seen(ver, was, t)
<1>1. CASE t = s
  BY <1>1
<1>2. CASE s.version < MaxVersion /\ Moves(s, t)
  BY <1>2, StoreMoves
<1> QED
  BY <1>1, <1>2

\* While a download reads, the overlay has a reader.
LEMMA ReaderCounts ==
  ASSUME Types, Reading # {}
  PROVE  o.readers # 0
  BY FS_EmptySet DEF Types

\* A download's blocks stay in the log.
LEMMA ReadsKept ==
  ASSUME NEW r, NEW a, NEW b, ReadOK(r, a),
         \A i \in 1 .. Len(a) : i \in 1 .. Len(b) /\ ReadAt(b, i) = ReadAt(a, i)
  PROVE  ReadOK(r, b)
  BY DEF ReadOK

\* A commit's step.
LEMMA CommitInv ==
  ASSUME Inv, Cached, o.book.version < MaxVersion, NEW x,
         x.o \in Objs, x.files \in [Paths -> Files], x.ok \in BOOLEAN, x.o.readers = o.readers,
         Opened(x.o, x.files) \/ Unopened(x.o, x.files),
         x.ok => x.o.open /\ Moves(store, StoreAt(x.o, x.files)),
         ~x.ok => StoreAt(x.o, x.files) = store,
         KeepsReads(o, files, x.o, x.files),
         CommitStep(x), staged' \in Seq(Nat), UNCHANGED <<img, req, readOnly, view>>
  PROVE  Inv' /\ (store' = store \/ Moves(store, store'))
<1>1. o' = x.o /\ files' = x.files /\ store' = StoreAt(x.o, x.files)
  BY DEF CommitStep, Version, StoreAt, LogOf
<1>2. store' = store \/ (store.version < MaxVersion /\ Moves(store, store'))
  <2>1. store.version = o.book.version
    BY DEF Inv, StoreInv, StoreOf
  <2> QED
    BY <1>1, <2>1
<1>3. Types'
  BY <1>1 DEF Inv, Types, Reading
<1>4. FileInv'
  <2>1. AtMostOne(x.files)
    BY DEF AtMostOne, Opened, Unopened
  <2> QED
    BY <1>1, <2>1 DEF FileInv
<1>5. StoreOK(store') /\ \A ver \in Nat : \A was : Seen(ver, was, store) => Seen(ver, was, store')
  <2>1. StoreOK(store)
    BY DEF Inv, StoreInv
  <2> QED
    BY <1>2, <2>1, StoreKept
<1>6. StoreInv'
  <2>1. Cached'
    <3>1. x.o.path \in Paths
      BY DEF Opened, Unopened
    <3> QED
      BY <1>1, <3>1 DEF Cached, NoObj, Paths, None
  <2> QED
    BY <1>1, <1>5, <2>1 DEF StoreInv, Durable, StoreAt, LogOf
<1>7. ViewInv'
  <2>1. \A t \in Readers : view[t].ver \in Nat
    BY DEF Inv, Types, Views
  <2> QED
    BY <1>5, <2>1 DEF Inv, ViewInv
<1>8. ReqInv'
  <2> SUFFICES ASSUME NEW t \in Reading
               PROVE  o'.open /\ Seen(req[t].ver, req[t].was, store') /\ ReadOK(req[t], LogOf(o', files'))
    BY DEF ReqInv, Reading, LogOf
  <2>1. o.open /\ Seen(req[t].ver, req[t].was, store) /\ ReadOK(req[t], LogOf(o, files))
    BY DEF Inv, ReqInv, LogOf
  <2>2. req[t].ver \in Nat
    <3>1. t \in Readers /\ req[t].pc = "reading" /\ req[t] \in Reads \cup {Idle}
      BY DEF Reading, Inv, Types
    <3> QED
      BY <3>1 DEF Idle, Reads
  <2>3. o.readers # 0
    BY ReaderCounts DEF Inv
  <2>4. /\ x.o.open
        /\ \A i \in 1 .. Len(LogOf(o, files)) :
             i \in 1 .. Len(LogOf(x.o, x.files)) /\ ReadAt(LogOf(x.o, x.files), i) = ReadAt(LogOf(o, files), i)
    BY <2>1, <2>3 DEF KeepsReads
  <2>5. ReadOK(req[t], LogOf(x.o, x.files))
    BY <2>1, <2>4, ReadsKept
  <2> QED
    BY <1>1, <1>5, <2>1, <2>2, <2>4, <2>5
<1> QED
  BY <1>2, <1>3, <1>4, <1>6, <1>7, <1>8 DEF Inv

-----------------------------------------------------------------------------
\* What a step does to the store: nothing, one more version, or a new start.
StoreSteps == store' = store \/ Moves(store, store') \/ store' = NoStore

\* No object.
LEMMA NoObjIs ==
  /\ NoObj \in Objs /\ NoObj.readers = 0 /\ NoObj.open = FALSE /\ NoObj.path = None /\ NoObj.fallback = None
  /\ NoObj.book = NoBook /\ NoBook \in Books
<1>1. NoBook \in Books
  <2>1. <<>> \in Seq(Recs)
    OBVIOUS
  <2> QED
    BY <2>1, NoBookIs, Zenon DEF Books
<1> QED
  BY <1>1 DEF NoObj, Objs

\* No file, no blocks and no view.
LEMMA NothingIs ==
  /\ NoFile \in Files /\ ~NoFile.made /\ ~NoFile.head /\ NoFile.recs = <<>>
  /\ Empty \in Maps /\ DOMAIN Empty = {}
  /\ NoView \in Views /\ NoView.ver = 0 /\ NoView.data = NoView.was
  /\ StoreOK(NoStore) /\ Seen(NoView.ver, NoView.was, NoStore)
<1>1. NoFile \in Files /\ ~NoFile.made /\ ~NoFile.head /\ NoFile.recs = <<>>
  BY DEF NoFile, Files
<1>2. Empty \in [{} -> Int] /\ DOMAIN Empty = {}
  BY DEF Empty
<1>3. Empty \in Maps
  BY <1>2 DEF Maps
<1>4. NoView \in Views /\ NoView.ver = 0 /\ NoView.data = Empty /\ NoView.was = Empty
  BY <1>3 DEF NoView, Views
<1>5. StoreOK(NoStore)
  BY NoStoreIs, OverlayAssumption DEF StoreOK
<1>6. Seen(NoView.ver, NoView.was, NoStore)
  BY <1>2, <1>4, NoStoreIs DEF Seen
<1> QED
  BY <1>1, <1>2, <1>3, <1>4, <1>5, <1>6

\* Without an object nothing is read.
LEMMA NoneReads ==
  ASSUME Inv, ~Cached \/ o.readers = 0
  PROVE  Reading = {}
<1>1. CASE ~Cached
  BY <1>1, NoObjIs DEF Inv, ReqInv, Cached
<1>2. CASE o.readers = 0
  BY <1>2, ReaderCounts DEF Inv
<1> QED
  BY <1>1, <1>2

\* The invariant holds at the start.
LEMMA InitInv ==
  ASSUME Init
  PROVE  Inv
<1>1. Reading = {}
  BY DEF Init, Reading, Idle
<1>2. o = NoObj /\ store = NoStore /\ \A p \in Paths : files[p] = NoFile
  BY DEF Init
<1>3. Types
  <2>1. files \in [Paths -> Files] /\ o \in Objs /\ view \in [Readers -> Views]
    BY NoObjIs, NothingIs DEF Init
  <2>2. staged \in Seq(Nat) /\ img \in {"same", "changed", "gone"} /\ readOnly \in BOOLEAN
    BY DEF Init
  <2>3. req \in [Readers -> Reads \cup {Idle}]
    BY DEF Init
  <2>4. IsFiniteSet(Reading) /\ o.readers = Cardinality(Reading)
    BY <1>1, <1>2, FS_EmptySet, NoObjIs
  <2> QED
    BY <2>1, <2>2, <2>3, <2>4 DEF Types
<1>4. FileInv
  BY <1>2, NothingIs DEF FileInv, AtMostOne, Cached
<1>5. StoreInv
  <2>1. ~OnDisk.head
    BY <1>2, NothingIs DEF OnDisk, FoundIn, Paths
  <2> QED
    BY <1>2, <2>1, NothingIs DEF StoreInv, Durable, Cached
<1>6. ViewInv
  BY <1>2, NothingIs DEF ViewInv, Init
<1>7. ReqInv
  BY <1>1 DEF ReqInv
<1> QED
  BY <1>3, <1>4, <1>5, <1>6, <1>7 DEF Inv

\* A step that leaves alone what is in memory and in the files.
LEMMA SameInv ==
  ASSUME Inv, UNCHANGED <<files, o, req, readOnly, view, store>>, staged' \in Seq(Nat),
         img' \in {"same", "changed", "gone"}, Cached \/ img' = img
  PROVE  Inv'
<1>1. Types'
  BY DEF Inv, Types, Reading
<1>2. FileInv'
  BY DEF Inv, FileInv, Cached
<1>3. StoreInv'
  BY DEF Inv, StoreInv, Durable, Cached, OnDisk
<1>4. ViewInv'
  BY DEF Inv, ViewInv
<1>5. ReqInv'
  BY DEF Inv, ReqInv, Reading
<1> QED
  BY <1>1, <1>2, <1>3, <1>4, <1>5 DEF Inv

-----------------------------------------------------------------------------
\* The blocks of an upload are records, and of its version.
LEMMA AsBlocksOK ==
  ASSUME NEW numbers \in Seq(Nat), NEW v \in Nat, NEW d \in Int
  PROVE  AsBlocks(numbers, v, d) \in Seq(Recs) /\ UploadOf(AsBlocks(numbers, v, d), v)
<1> DEFINE recs == AsBlocks(numbers, v, d)
<1>1. DOMAIN recs = 1 .. Len(numbers) /\ Len(numbers) \in Nat
      /\ \A i \in 1 .. Len(numbers) : recs[i] = Block(numbers[i], v, d) /\ numbers[i] \in Nat
  BY DEF AsBlocks
<1>2. \A i \in 1 .. Len(numbers) : recs[i] \in Recs
  BY <1>1, RecordsHave DEF Recs
<1>3. recs \in [1 .. Len(numbers) -> Recs]
  BY <1>1, <1>2 DEF AsBlocks
<1>4. recs \in Seq(Recs)
  BY <1>1, <1>3
<1>5. \A i \in DOMAIN recs : recs[i].kind = "block" /\ recs[i].v = v
  BY <1>1 DEF Block
<1> QED
  BY <1>4, <1>5 DEF UploadOf, CommitsOf, BlocksOf

\* So are two such sequences, one after the other.
LEMMA UploadConcat ==
  ASSUME NEW v, NEW a \in Seq(Recs), UploadOf(a, v), NEW b \in Seq(Recs), UploadOf(b, v)
  PROVE  a \o b \in Seq(Recs) /\ UploadOf(a \o b, v)
<1>1. /\ a \o b \in Seq(Recs)
      /\ \A i \in 1 .. Len(a) : (a \o b)[i] = a[i] /\ (i \in BlocksOf(a \o b) <=> i \in BlocksOf(a))
      /\ \A i \in 1 .. Len(b) : (a \o b)[Len(a) + i] = b[i]
      /\ BlocksOf(a \o b) = BlocksOf(a) \cup {Len(a) + i : i \in BlocksOf(b)}
  BY BlocksConcat
<1>2. CommitsOf(a \o b) = CommitsOf(a) \cup {Len(a) + i : i \in CommitsOf(b)}
  BY CommitsConcat
<1>3. BlocksOf(a) \subseteq 1 .. Len(a) /\ BlocksOf(b) \subseteq 1 .. Len(b)
  BY BlocksIn
<1>4. CommitsOf(a \o b) = {}
  BY <1>2 DEF UploadOf
<1>5. ASSUME NEW i \in BlocksOf(a \o b) PROVE (a \o b)[i].v = v
  <2>1. CASE i \in BlocksOf(a)
    BY <1>1, <1>3, <2>1 DEF UploadOf
  <2>2. ASSUME NEW j \in BlocksOf(b), i = Len(a) + j PROVE (a \o b)[i].v = v
    BY <1>1, <1>3, <2>2 DEF UploadOf
  <2> QED
    BY <1>1, <2>1, <2>2
<1> QED
  BY <1>1, <1>4, <1>5 DEF UploadOf

\* put's records.
LEMMA PutRecordsOK ==
  ASSUME Types, NEW body \in Bodies, NEW name \in Names, NEW token \in BOOLEAN, NEW v \in Nat
  PROVE  PutRecords(body, name, token, v) \in Seq(Recs) /\ UploadOf(PutRecords(body, name, token, v), v)
<1> DEFINE a == IF name # o.book.name THEN <<Meta(name)>> ELSE <<>>
           b == IF token THEN AsBlocks(staged, v, Staged) ELSE <<>>
           c == AsBlocks(body, v, v)
<1>1. <<>> \in Seq(Recs) /\ UploadOf(<<>>, v)
  BY DEF UploadOf, CommitsOf, BlocksOf
<1>2. a \in Seq(Recs) /\ UploadOf(a, v)
  <2> DEFINE m == <<Meta(name)>>
  <2>1. Meta(name) \in Recs /\ Meta(name).kind = "meta"
    BY RecordsHave DEF Recs, Meta
  <2>2. m \in Seq(Recs) /\ DOMAIN m = {1} /\ m[1] = Meta(name)
    BY <2>1
  <2> HIDE DEF m
  <2>3. UploadOf(m, v)
    BY <2>1, <2>2 DEF UploadOf, CommitsOf, BlocksOf
  <2> QED
    BY <1>1, <2>2, <2>3 DEF m
<1>3. b \in Seq(Recs) /\ UploadOf(b, v)
  <2>1. staged \in Seq(Nat) /\ Staged \in Int
    BY DEF Types, Staged
  <2> QED
    BY <1>1, <2>1, AsBlocksOK
<1>4. c \in Seq(Recs) /\ UploadOf(c, v)
  <2>1. body \in Seq(Nat) /\ v \in Int
    BY OverlayAssumption
  <2> QED
    BY <2>1, AsBlocksOK
<1>5. PutRecords(body, name, token, v) = (a \o b) \o c
  BY DEF PutRecords
<1> HIDE DEF a, b, c
<1>6. a \o b \in Seq(Recs) /\ UploadOf(a \o b, v)
  BY <1>2, <1>3, UploadConcat
<1> QED
  BY <1>4, <1>5, <1>6, UploadConcat

\* The version of an object is a number, and the store's.
LEMMA VersionIs ==
  ASSUME Inv, Cached
  PROVE  o.book.version \in 0 .. MaxVersion /\ MaxVersion \in Nat /\ store.version = o.book.version
  BY OverlayAssumption DEF Inv, StoreInv, StoreOK, StoreOf

\* put: an upload keeps the invariant, and is a step of the store.
LEMMA PutInv ==
  ASSUME Reopens, Inv, NEW base, Put(base)
  PROVE  Inv' /\ StoreSteps
<1>1. Cached /\ base = o.book.version /\ base < MaxVersion
  BY DEF Put
<1>2. PICK body \in Bodies, name \in Names, token \in BOOLEAN, replace \in BOOLEAN :
        \E c \in CommitTo(PutRecords(body, name, token, base + 1), base + 1, replace) :
          /\ CommitStep(c)
          /\ staged' = IF c.ok /\ token THEN <<>> ELSE staged
  BY DEF Put
<1> DEFINE recs == PutRecords(body, name, token, base + 1)
<1>3. PICK c \in CommitTo(recs, base + 1, replace) :
          /\ CommitStep(c)
          /\ staged' = IF c.ok /\ token THEN <<>> ELSE staged
  BY <1>2
<1>4. base + 1 \in Nat
  BY <1>1, VersionIs
<1>5. recs \in Seq(Recs) /\ UploadOf(recs, base + 1)
  BY <1>4, PutRecordsOK DEF Inv
<1> HIDE DEF recs
<1>6. /\ c.o \in Objs /\ c.files \in [Paths -> Files] /\ c.ok \in BOOLEAN /\ c.o.readers = o.readers
      /\ Opened(c.o, c.files) \/ Unopened(c.o, c.files)
      /\ c.ok => c.o.open /\ Moves(store, StoreAt(c.o, c.files))
      /\ ~c.ok => StoreAt(c.o, c.files) = store
      /\ KeepsReads(o, files, c.o, c.files)
  BY <1>1, <1>5, CommitToOK DEF Inv
<1>7. staged' \in Seq(Nat)
  <2>1. staged \in Seq(Nat) /\ <<>> \in Seq(Nat)
    BY DEF Inv, Types
  <2> QED
    BY <1>3, <2>1
<1>8. UNCHANGED <<img, req, readOnly, view>>
  BY DEF Put
<1>9. Inv' /\ (store' = store \/ Moves(store, store'))
  BY <1>1, <1>3, <1>6, <1>7, <1>8, CommitInv
<1> QED
  BY <1>9 DEF StoreSteps

\* remove: so is a Revert.
LEMMA RevertInv ==
  ASSUME Reopens, Inv, Revert
  PROVE  Inv' /\ StoreSteps
<1>1. Cached /\ o.book.version < MaxVersion
  BY DEF Revert
<1> DEFINE v == o.book.version + 1
<1>2. ASSUME NEW all \in BOOLEAN, NEW c \in CommitTo(<<>>, v, all), CommitStep(c)
      PROVE  Inv' /\ (store' = store \/ Moves(store, store'))
  <2>1. <<>> \in Seq(Recs) /\ UploadOf(<<>>, v)
    BY DEF UploadOf, CommitsOf, BlocksOf
  <2>2. /\ c.o \in Objs /\ c.files \in [Paths -> Files] /\ c.ok \in BOOLEAN /\ c.o.readers = o.readers
        /\ Opened(c.o, c.files) \/ Unopened(c.o, c.files)
        /\ c.ok => c.o.open /\ Moves(store, StoreAt(c.o, c.files))
        /\ ~c.ok => StoreAt(c.o, c.files) = store
        /\ KeepsReads(o, files, c.o, c.files)
    BY <1>1, <2>1, CommitToOK DEF Inv
  <2>3. staged' \in Seq(Nat) /\ UNCHANGED <<img, req, readOnly, view>>
    BY DEF Revert, Inv, Types
  <2> QED
    BY <1>1, <1>2, <2>2, <2>3, CommitInv
<1>3. \E all \in BOOLEAN : \E c \in CommitTo(<<>>, v, all) : CommitStep(c)
  BY DEF Revert
<1> QED
  BY <1>2, <1>3 DEF StoreSteps

\* stage and pruneStaged touch the staging file alone.
LEMMA StagedInv ==
  ASSUME Inv, (\E body \in Bodies : Stage(body)) \/ PruneStaged
  PROVE  Inv' /\ StoreSteps
<1>1. staged' \in Seq(Nat)
  <2>1. staged \in Seq(Nat) /\ <<>> \in Seq(Nat)
    BY DEF Inv, Types
  <2>2. ASSUME NEW body \in Bodies PROVE staged \o body \in Seq(Nat)
    <3>1. body \in Seq(Nat)
      BY OverlayAssumption
    <3> QED
      BY <2>1, <3>1
  <2> QED
    BY <2>1, <2>2 DEF Stage, PruneStaged
<1>2. UNCHANGED <<files, o, img, req, readOnly, view, store>>
  BY DEF Stage, PruneStaged
<1>3. img \in {"same", "changed", "gone"}
  BY DEF Inv, Types
<1> QED
  BY <1>1, <1>2, <1>3, SameInv DEF StoreSteps

-----------------------------------------------------------------------------
\* A step after which nothing is read.
LEMMA RestInv ==
  ASSUME Inv, UNCHANGED <<staged, readOnly>>, img' \in {"same", "changed", "gone"},
         o' \in Objs, o'.readers = 0, files' \in [Paths -> Files], view' \in [Readers -> Views],
         req' \in [Readers -> Reads \cup {Idle}], Reading' = {},
         AtMostOne(files'), Cached' => Opened(o', files') \/ Unopened(o', files'),
         StoreInv', ViewInv'
  PROVE  Inv'
<1>1. IsFiniteSet(Reading') /\ o'.readers = Cardinality(Reading')
  BY FS_EmptySet
<1>2. staged' \in Seq(Nat) /\ readOnly' \in BOOLEAN
  BY DEF Inv, Types
<1>3. Types'
  BY <1>1, <1>2 DEF Types
<1>4. FileInv'
  BY DEF FileInv
<1>5. ReqInv'
  BY DEF ReqInv
<1> QED
  BY <1>3, <1>4, <1>5 DEF Inv

\* Cutting off what follows a log's last commit changes neither its book nor
\* its store.
LEMMA CutSame ==
  ASSUME NEW log \in Seq(Recs), NEW book, book = Load(log), NEW cut, cut = SubSeq(log, 1, book.end)
  PROVE  /\ cut \in Seq(Recs) /\ Closed(cut) /\ Load(cut) = book
         /\ StoreOf(book, cut) = StoreOf(book, log)
<1>1. book.end = EndOf(log)
  BY LoadCut
<1>2. /\ cut \in Seq(Recs) /\ Closed(cut) /\ Len(cut) = EndOf(log) /\ Load(cut) = book
      /\ \A i \in 1 .. EndOf(log) : cut[i] = log[i]
  BY <1>1, LoadCut
<1>3. EndOf(log) \in 0 .. Len(log)
  BY CommitPlaces
<1>4. \A n \in DOMAIN book.index : book.index[n].off \in 1 .. Len(cut)
  BY <1>2, BookIs
<1>5. \A i \in 1 .. Len(cut) : ReadAt(cut, i) = ReadAt(log, i)
  <2>1. \A i \in 1 .. Len(cut) : i \in DOMAIN cut /\ i \in DOMAIN log /\ cut[i] = log[i]
    BY <1>2, <1>3
  <2> QED
    BY <2>1 DEF ReadAt
<1>6. \A n \in DOMAIN book.index : ReadAt(cut, book.index[n].off) = ReadAt(log, book.index[n].off)
  BY <1>4, <1>5
<1> QED
  BY <1>2, <1>6 DEF StoreOf

\* The file get finds.
LEMMA FoundIs ==
  ASSUME NEW i, NEW fs, NEW p, p = FoundIn(i, fs)
  PROVE  /\ p \in Paths \cup {None}
         /\ p \in Paths => p # None /\ fs[p].made
         /\ p = None => ~fs["data"].made /\ (fs["image"].made => i # "same")
  BY DEF FoundIn, Paths, None

\* get: the object has what the disk has.
LEMMA GetInv ==
  ASSUME Inv, Get
  PROVE  Inv' /\ StoreSteps
<1> DEFINE p == FoundIn(img, files)
<1>1. ~Cached /\ (files["image"].made => Where) /\ UNCHANGED <<img, staged, req, readOnly, view, store>>
  BY DEF Get
<1>2. Reading = {} /\ Reading' = {}
  BY <1>1, NoneReads DEF Reading
<1>3. /\ img \in {"same", "changed", "gone"} /\ files \in [Paths -> Files] /\ view \in [Readers -> Views]
      /\ req \in [Readers -> Reads \cup {Idle}]
  BY DEF Inv, Types
<1>4. p \in Paths \cup {None}
  BY FoundIs
<1>5. StoreOK(store) /\ AtMostOne(files) /\ Durable
  BY DEF Inv, StoreInv, FileInv
<1>6. ViewInv'
  BY <1>1 DEF Inv, ViewInv
<1>7. CASE p = None
  <2> DEFINE place == IF Where THEN "image" ELSE "data"
             back == IF Where THEN "data" ELSE None
             obj == [NoObj EXCEPT !.path = place, !.fallback = back]
  <2>1. o' = obj /\ files' = files
    BY <1>7 DEF Get
  <2>2. place \in Paths /\ back \in Paths \cup {None}
    BY DEF Paths
  <2>3. /\ obj \in Objs /\ obj.readers = 0 /\ obj.open = FALSE /\ obj.path = place /\ obj.book = NoBook
    <3> HIDE DEF place, back
    <3> QED
      BY <2>2, NoObjIs DEF Objs
  <2> HIDE DEF place, back, obj
  <2>4. ~files["data"].made /\ ~files["image"].made
    BY <1>1, <1>7, FoundIs DEF Where
  <2>5. Unopened(obj, files)
    BY <2>2, <2>3, <2>4 DEF Unopened, Paths
  <2>6. store = NoStore
    <3>1. ~OnDisk.head
      BY <1>7, NothingIs DEF OnDisk
    <3> QED
      BY <1>1, <1>5, <3>1 DEF Durable
  <2>7. Cached'
    BY <2>1, <2>2, <2>3, NoObjIs DEF Cached, Paths, None
  <2>8. StoreInv'
    <3>1. store' = StoreOf(o'.book, files'[o'.path].recs)
      BY <1>1, <2>1, <2>3, <2>6, NoStoreIs
    <3> QED
      BY <1>1, <1>5, <2>7, <3>1 DEF StoreInv, Durable
  <2>9. AtMostOne(files') /\ (Cached' => Opened(o', files') \/ Unopened(o', files'))
    BY <1>5, <2>1, <2>5
  <2>10. Inv'
    BY <1>1, <1>2, <1>3, <1>6, <2>1, <2>3, <2>8, <2>9, RestInv
  <2> QED
    BY <1>1, <2>10 DEF StoreSteps
<1>8. CASE p \in Paths
  <2> DEFINE log == files[p].recs
             book == Load(log)
             cut == SubSeq(log, 1, book.end)
             obj == [NoObj EXCEPT !.path = p, !.open = TRUE, !.book = book]
             fs == [files EXCEPT ![p].recs = cut]
  <2>1. p # None /\ files[p].made
    BY <1>8, FoundIs
  <2>2. OnDisk = files[p]
    BY <2>1 DEF OnDisk
  <2>3. files[p].head /\ o' = obj /\ files' = fs
    BY <2>1, <2>2 DEF Get
  <2>4. store = StoreOf(book, log)
    BY <1>1, <1>5, <2>2, <2>3 DEF Durable
  <2>5. log \in Seq(Recs)
    BY <1>3, <1>8 DEF Files
  <2>6. book \in Books
    BY <2>5 DEF Books
  <2> HIDE DEF log
  <2>7. /\ cut \in Seq(Recs) /\ Closed(cut) /\ Load(cut) = book
        /\ StoreOf(book, cut) = StoreOf(book, log)
    BY <2>5, CutSame
  <2> HIDE DEF book, cut, p
  <2>8. /\ obj \in Objs /\ obj.path = p /\ obj.open = TRUE /\ obj.book = book /\ obj.readers = 0
    BY <1>8, <2>6, NoObjIs DEF Objs
  <2>9. /\ fs \in [Paths -> Files] /\ fs[p].recs = cut /\ fs[p].head = files[p].head
        /\ \A q \in Paths : fs[q].made = files[q].made
    BY <1>3, <1>8, <2>7 DEF Files
  <2> HIDE DEF obj, fs
  <2>10. \A q \in Paths : files[q].made <=> q = p
    BY <1>5, <1>8, <2>1 DEF AtMostOne
  <2>11. Opened(obj, fs)
    <3>1. \A q \in Paths : fs[q].made <=> q = obj.path
      BY <2>8, <2>9, <2>10
    <3>2. fs[obj.path].head /\ Closed(fs[obj.path].recs) /\ Load(fs[obj.path].recs) = obj.book
      BY <2>3, <2>7, <2>8, <2>9, Zenon
    <3> QED
      BY <1>8, <2>8, <3>1, <3>2 DEF Opened
  <2>12. AtMostOne(fs)
    BY <2>9, <2>10 DEF AtMostOne
  <2>13. Cached'
    BY <1>8, <2>1, <2>3, <2>8, NoObjIs DEF Cached
  <2>14. StoreInv'
    <3>1. store' = StoreOf(o'.book, files'[o'.path].recs)
      BY <1>1, <2>3, <2>4, <2>7, <2>8, <2>9, Zenon
    <3> QED
      BY <1>1, <1>5, <2>13, <3>1 DEF StoreInv, Durable
  <2>15. AtMostOne(files') /\ (Cached' => Opened(o', files') \/ Unopened(o', files'))
    BY <2>3, <2>11, <2>12, Zenon
  <2>16. Inv'
    BY <1>1, <1>2, <1>3, <1>6, <2>3, <2>8, <2>9, <2>14, <2>15, RestInv
  <2> QED
    BY <1>1, <2>16 DEF StoreSteps
<1> QED
  BY <1>4, <1>7, <1>8

-----------------------------------------------------------------------------
\* The blocks of a store, by number.
Was(s) == [n \in DOMAIN s.blocks |-> s.blocks[n].d]

\* The blocks since gives, and the ones the tab keeps.
Newer(from) == {n \in DOMAIN o.book.index : o.book.index[n].v > from}
Kept(t, from) == IF from = 0 \/ o.book.reset > from THEN Empty ELSE view[t].data

\* The blocks of the store are those of the object's book.
LEMMA BlocksAre ==
  ASSUME Inv, Cached
  PROVE  /\ store.version = o.book.version /\ store.reset = o.book.reset
         /\ DOMAIN store.blocks = DOMAIN o.book.index
         /\ \A n \in DOMAIN o.book.index :
              /\ o.open /\ n \in Nat
              /\ store.blocks[n].v = o.book.index[n].v
              /\ store.blocks[n].d = ReadAt(LogOf(o, files), o.book.index[n].off)
              /\ store.blocks[n].d \in Int
              /\ o.book.index[n].off \in 1 .. Len(LogOf(o, files))
<1>1. store = StoreOf(o.book, LogOf(o, files))
  BY DEF Inv, StoreInv, LogOf
<1>2. /\ store.version = o.book.version /\ store.reset = o.book.reset
      /\ DOMAIN store.blocks = DOMAIN o.book.index
      /\ \A n \in DOMAIN o.book.index :
              /\ store.blocks[n].v = o.book.index[n].v
              /\ store.blocks[n].d = ReadAt(LogOf(o, files), o.book.index[n].off)
  BY <1>1 DEF StoreOf
<1>3. CASE Unopened(o, files)
  <2>1. DOMAIN o.book.index = {}
    BY <1>3, NoBookIs DEF Unopened, Empty
  <2> QED
    BY <1>2, <2>1
<1>4. CASE Opened(o, files)
  <2>1. LogOf(o, files) \in Seq(Recs)
    BY <1>4, LogIs DEF Opened, Inv, Types
  <2>2. Closed(LogOf(o, files)) /\ o.book = Load(LogOf(o, files)) /\ o.open
    BY <1>4 DEF Opened, LogOf
  <2>3. \A n \in DOMAIN o.book.index :
          /\ n \in Nat /\ o.book.index[n].off \in 1 .. Len(LogOf(o, files))
          /\ ReadAt(LogOf(o, files), o.book.index[n].off) \in Int
    BY <2>1, <2>2, BookIs
  <2> QED
    BY <1>2, <2>2, <2>3
<1> QED
  BY <1>3, <1>4 DEF Inv, FileInv

\* The blocks of the last version: a tab that has them has seen it.
LEMMA WasIs ==
  ASSUME Inv, Cached
  PROVE  Was(store) \in Maps /\ Seen(o.book.version, Was(store), store) /\ o.book.version \in Nat
<1>1. DOMAIN Was(store) = DOMAIN store.blocks /\ \A n \in DOMAIN store.blocks : Was(store)[n] = store.blocks[n].d
  BY DEF Was
<1>2. Was(store) \in [DOMAIN store.blocks -> Int] /\ DOMAIN store.blocks \in SUBSET Nat
  BY BlocksAre DEF Was
<1>3. Was(store) \in Maps
  BY <1>2 DEF Maps
<1>4. o.book.version \in Nat /\ o.book.version = store.version /\ o.book.version <= store.version
  BY VersionIs
<1>5. Seen(o.book.version, Was(store), store)
  BY <1>1, <1>4 DEF Seen
<1> QED
  BY <1>3, <1>4, <1>5

\* The newer blocks, over the ones the tab keeps, are the last version's.
LEMMA KeptOK ==
  ASSUME Inv, Cached, NEW t \in Readers, NEW from \in Nat, from \in {0, view[t].ver}
  PROVE  /\ Kept(t, from) \in Maps
         /\ DOMAIN Kept(t, from) \cup Newer(from) = DOMAIN Was(store)
         /\ \A n \in DOMAIN Kept(t, from) \ Newer(from) : Kept(t, from)[n] = Was(store)[n]
<1>1. /\ DOMAIN Was(store) = DOMAIN o.book.index /\ DOMAIN store.blocks = DOMAIN o.book.index
      /\ \A n \in DOMAIN o.book.index :
           Was(store)[n] = store.blocks[n].d /\ store.blocks[n].v = o.book.index[n].v
  BY BlocksAre DEF Was
<1>2. /\ o.book.version \in Nat /\ o.book.reset \in Nat
      /\ \A n \in DOMAIN o.book.index :
           /\ o.book.index[n].v \in Nat /\ o.book.index[n].v > 0 /\ o.book.index[n].v >= o.book.reset
  <2>1. /\ store.version \in Nat /\ store.reset \in 0 .. store.version
        /\ \A n \in DOMAIN store.blocks :
             store.blocks[n].v \in 1 .. store.version /\ store.blocks[n].v >= store.reset
    <3>1. StoreOK(store)
      BY DEF Inv, StoreInv
    <3>2. store.version \in Nat
      BY <3>1, OverlayAssumption DEF StoreOK
    <3> QED
      BY <3>1, <3>2 DEF StoreOK
  <2>2. /\ store.version = o.book.version /\ store.reset = o.book.reset
        /\ DOMAIN store.blocks = DOMAIN o.book.index
        /\ \A n \in DOMAIN o.book.index : store.blocks[n].v = o.book.index[n].v
    BY BlocksAre
  <2>3. \A w \in Nat : \A r \in 0 .. w : r \in Nat /\ \A v \in 1 .. w : v \in Nat /\ v > 0
    OBVIOUS
  <2>4. o.book.version \in Nat /\ o.book.reset \in 0 .. o.book.version
    BY <2>1, <2>2
  <2>5. \A n \in DOMAIN o.book.index :
          o.book.index[n].v \in 1 .. o.book.version /\ o.book.index[n].v >= o.book.reset
    BY <2>1, <2>2
  <2> QED
    BY <2>3, <2>4, <2>5
<1>3. Newer(from) \subseteq DOMAIN o.book.index
  BY DEF Newer
<1>4. CASE from = 0 \/ o.book.reset > from
  <2>1. Kept(t, from) = Empty
    BY <1>4 DEF Kept
  <2>2. ASSUME NEW n \in DOMAIN o.book.index PROVE n \in Newer(from)
    <3>1. \A v \in Nat : \A r \in Nat : v > 0 /\ v >= r /\ (from = 0 \/ r > from) => v > from
      OBVIOUS
    <3> QED
      BY <1>2, <1>4, <3>1 DEF Newer
  <2> QED
    BY <1>1, <1>3, <2>1, <2>2, NothingIs
<1>5. CASE ~(from = 0 \/ o.book.reset > from)
  <2>1. Kept(t, from) = view[t].data /\ from = view[t].ver /\ o.book.reset <= from
    BY <1>2, <1>5 DEF Kept
  <2>2. view[t].data = view[t].was /\ Seen(from, view[t].was, store) /\ view[t].data \in Maps
    BY <2>1 DEF Inv, ViewInv, Types, Views
  <2>3. /\ DOMAIN view[t].data \subseteq DOMAIN o.book.index
        /\ \A n \in DOMAIN o.book.index :
             o.book.index[n].v <= from => n \in DOMAIN view[t].data /\ view[t].data[n] = Was(store)[n]
    BY <1>1, <2>1, <2>2, BlocksAre DEF Seen
  <2>4. \A n \in DOMAIN o.book.index : n \notin Newer(from) => o.book.index[n].v <= from
    BY <1>2 DEF Newer
  <2> QED
    BY <1>1, <1>3, <2>1, <2>2, <2>3, <2>4
<1> QED
  BY <1>4, <1>5

\* The blocks got, over the ones kept, are the blocks was.
Covers(kept, got, was) ==
  /\ DOMAIN kept \cup DOMAIN got = DOMAIN was
  /\ \A n \in DOMAIN got : got[n] = was[n]
  /\ \A n \in DOMAIN kept \ DOMAIN got : kept[n] = was[n]

\* What a tab has when it has applied a whole download.
LEMMA AppliedIs ==
  ASSUME NEW kept, NEW got, NEW was \in Maps, NEW version, Covers(kept, got, was)
  PROVE  Applied(kept, version, got, was) = [ver |-> version, was |-> was, data |-> was]
<1> DEFINE data == [n \in DOMAIN kept \cup DOMAIN got |-> IF n \in DOMAIN got THEN got[n] ELSE kept[n]]
<1>1. Applied(kept, version, got, was) = [ver |-> version, was |-> was, data |-> data]
  BY DEF Applied
<1>2. was = [n \in DOMAIN was |-> was[n]]
  BY DEF Maps
<1>3. data = [n \in DOMAIN was |-> was[n]]
  BY DEF Covers
<1>4. data = was
  BY <1>2, <1>3, Zenon
<1> QED
  BY <1>1, <1>4, Zenon

\* A step of a download: the object's log stays open, and has the store.
LEMMA OpenInv ==
  ASSUME Inv, UNCHANGED <<img, staged, readOnly, store>>, o' \in Objs, files' \in [Paths -> Files],
         Opened(o', files'), StoreAt(o', files') = store, view' \in [Readers -> Views], ViewInv',
         req' \in [Readers -> Reads \cup {Idle}], IsFiniteSet(Reading'), o'.readers = Cardinality(Reading'),
         \A s \in Reading' : Seen(req'[s].ver, req'[s].was, store) /\ ReadOK(req'[s], LogOf(o', files'))
  PROVE  Inv'
<1>1. staged' \in Seq(Nat) /\ readOnly' \in BOOLEAN /\ img' \in {"same", "changed", "gone"}
  BY DEF Inv, Types
<1>2. Types'
  BY <1>1 DEF Types
<1>3. AtMostOne(files') /\ o'.open /\ o'.path \in Paths
  BY DEF AtMostOne, Opened
<1>4. FileInv'
  BY <1>3 DEF FileInv
<1>5. Cached'
  BY <1>3, NoObjIs DEF Cached
<1>6. StoreInv'
  BY <1>5 DEF Inv, StoreInv, Durable, StoreAt, LogOf
<1>7. ReqInv'
  BY <1>3 DEF ReqInv, LogOf
<1> QED
  BY <1>2, <1>4, <1>6, <1>7 DEF Inv

\* since: the last version's blocks, in the log or kept by the tab.
LEMMA SinceInv ==
  ASSUME Inv, NEW t \in Readers, NEW from \in 0 .. MaxVersion, Since(t, from)
  PROVE  Inv' /\ StoreSteps
<1> DEFINE newer == Newer(from)
           kept == Kept(t, from)
           was == Was(store)
<1>1. /\ Cached /\ req[t].pc = "idle" /\ from \in {0, view[t].ver} /\ from \in Nat
      /\ UNCHANGED <<files, img, staged, readOnly, store>>
  BY OverlayAssumption DEF Since
<1>2. \/ /\ newer = {}
         /\ view' = [view EXCEPT ![t] = Applied(kept, o.book.version, Empty, was)]
         /\ UNCHANGED <<o, req>>
      \/ /\ newer # {}
         /\ o' = [o EXCEPT !.readers = @ + 1]
         /\ req' = [req EXCEPT ![t] =
                         [pc |-> "reading", ver |-> o.book.version, kept |-> kept,
                          was |-> was, got |-> Empty,
                          todo |-> [n \in newer |-> o.book.index[n].off]]]
         /\ UNCHANGED view
  BY DEF Since, Newer, Kept, Was
<1>3. /\ kept \in Maps /\ DOMAIN kept \cup newer = DOMAIN was
      /\ \A n \in DOMAIN kept \ newer : kept[n] = was[n]
  BY <1>1, KeptOK
<1>4. was \in Maps /\ Seen(o.book.version, was, store) /\ o.book.version \in Nat
  BY <1>1, WasIs
<1>5. \A n \in newer : /\ n \in Nat /\ o.open /\ was[n] = ReadAt(LogOf(o, files), o.book.index[n].off)
                       /\ o.book.index[n].off \in 1 .. Len(LogOf(o, files))
  BY <1>1, BlocksAre DEF Newer, Was
<1>6. StoreSteps
  BY <1>1 DEF StoreSteps
<1> HIDE DEF newer, kept, was
<1>7. CASE newer = {}
  <2> DEFINE a == Applied(kept, o.book.version, Empty, was)
  <2>1. view' = [view EXCEPT ![t] = a] /\ UNCHANGED <<o, req>>
    BY <1>2, <1>7
  <2>2. a.ver = o.book.version /\ a.was = was /\ a.data = was /\ a \in Views
    <3>1. DOMAIN Empty = {}
      BY NothingIs
    <3>2. Covers(kept, Empty, was)
      BY <1>3, <1>7, <3>1 DEF Covers
    <3>3. a = [ver |-> o.book.version, was |-> was, data |-> was]
      BY <1>4, <3>2, AppliedIs
    <3> QED
      BY <1>4, <3>3 DEF Views
  <2> HIDE DEF a
  <2>3. view \in [Readers -> Views]
    BY DEF Inv, Types
  <2>4. view' \in [Readers -> Views] /\ view'[t] = a /\ \A s \in Readers : s # t => view'[s] = view[s]
    BY <2>1, <2>2, <2>3
  <2>5. ViewInv'
    BY <1>1, <1>4, <2>2, <2>4 DEF Inv, ViewInv
  <2>6. Types'
    BY <1>1, <2>1, <2>4 DEF Inv, Types, Reading
  <2>7. FileInv' /\ StoreInv' /\ ReqInv'
    <3>1. FileInv'
      BY <1>1, <2>1 DEF Inv, FileInv, Cached
    <3>2. StoreInv'
      BY <1>1, <2>1 DEF Inv, StoreInv, Durable, Cached, OnDisk
    <3>3. ReqInv'
      BY <1>1, <2>1 DEF Inv, ReqInv, Reading
    <3> QED
      BY <3>1, <3>2, <3>3
  <2> QED
    BY <1>6, <2>5, <2>6, <2>7 DEF Inv
<1>8. CASE newer # {}
  <2> DEFINE todo == [n \in newer |-> o.book.index[n].off]
             r == [pc |-> "reading", ver |-> o.book.version, kept |-> kept, was |-> was,
                   got |-> Empty, todo |-> todo]
  <2>1. o' = [o EXCEPT !.readers = @ + 1] /\ req' = [req EXCEPT ![t] = r] /\ UNCHANGED view
    BY <1>2, <1>8
  <2>2. DOMAIN todo = newer /\ \A n \in newer : todo[n] = o.book.index[n].off
    OBVIOUS
  <2>3. todo \in [newer -> Int] /\ newer \in SUBSET Nat
    BY <1>5
  <2>4. todo \in Maps
    BY <2>3 DEF Maps
  <2> HIDE DEF todo
  <2>5. /\ r \in Reads /\ r.pc = "reading" /\ r.ver = o.book.version /\ r.kept = kept /\ r.was = was
        /\ r.got = Empty /\ r.todo = todo
    BY <1>3, <1>4, <2>4, NothingIs DEF Reads
  <2> HIDE DEF r
  <2>6. o \in Objs /\ req \in [Readers -> Reads \cup {Idle}] /\ view \in [Readers -> Views]
        /\ files \in [Paths -> Files] /\ IsFiniteSet(Reading) /\ o.readers = Cardinality(Reading)
    BY DEF Inv, Types
  <2>7. req' \in [Readers -> Reads \cup {Idle}] /\ req'[t] = r /\ \A s \in Readers : s # t => req'[s] = req[s]
    BY <2>1, <2>5, <2>6
  <2>8. t \notin Reading /\ Reading' = Reading \cup {t}
    BY <1>1, <2>5, <2>7 DEF Reading
  <2>9. IsFiniteSet(Reading') /\ Cardinality(Reading') = o.readers + 1
    BY <2>6, <2>8, FS_AddElement
  <2>10. /\ o' \in Objs /\ o'.readers = o.readers + 1 /\ o'.path = o.path /\ o'.open = o.open
         /\ o'.book = o.book
    BY <2>1, <2>6 DEF Objs
  <2>11. Opened(o, files) /\ o.open
    <3>1. o.open
      BY <1>5, <1>8
    <3> QED
      BY <1>1, <3>1 DEF Inv, FileInv, Unopened
  <2>12. Opened(o', files') /\ LogOf(o', files') = LogOf(o, files) /\ StoreAt(o', files') = StoreAt(o, files)
    BY <1>1, <2>10, <2>11 DEF Opened, LogOf, StoreAt
  <2>13. StoreAt(o, files) = store
    BY <1>1 DEF Inv, StoreInv, StoreAt, LogOf
  <2>14. ViewInv'
    BY <1>1, <2>1 DEF Inv, ViewInv
  <2>15. ReadOK(r, LogOf(o, files))
    <3>1. DOMAIN Empty = {}
      BY NothingIs
    <3> QED
      BY <1>3, <1>5, <2>2, <2>5, <3>1 DEF ReadOK
  <2>16. ASSUME NEW s \in Reading'
         PROVE  Seen(req'[s].ver, req'[s].was, store) /\ ReadOK(req'[s], LogOf(o', files'))
    <3>1. CASE s = t
      BY <1>4, <2>5, <2>7, <2>12, <2>15, <3>1
    <3>2. CASE s \in Reading /\ s # t
      <4>1. req'[s] = req[s]
        BY <2>7, <3>2 DEF Reading
      <4>2. Seen(req[s].ver, req[s].was, store) /\ ReadOK(req[s], LogOf(o, files))
        BY <3>2 DEF Inv, ReqInv, LogOf
      <4> QED
        BY <2>12, <4>1, <4>2
    <3> QED
      BY <2>8, <3>1, <3>2
  <2>17. o'.readers = Cardinality(Reading') /\ files' \in [Paths -> Files] /\ view' \in [Readers -> Views]
    BY <1>1, <2>1, <2>6, <2>9, <2>10
  <2>18. StoreAt(o', files') = store
    BY <2>12, <2>13
  <2>19. Inv'
    BY <1>1, <2>7, <2>9, <2>10, <2>12, <2>14, <2>16, <2>17, <2>18, OpenInv
  <2> QED
    BY <1>6, <2>19
<1> QED
  BY <1>7, <1>8

\* A set of numbers has a least.
LEMMA MinIs ==
  ASSUME NEW S \in SUBSET Nat, S # {}
  PROVE  Min(S) \in S
<1>1. \E w \in S : \A v \in S : w <= v
  BY SmallestNat
<1> QED
  BY <1>1 DEF Min

\* A download that is under way.
LEMMA ReadIs ==
  ASSUME Inv, NEW t \in Reading
  PROVE  /\ t \in Readers /\ req[t] \in Reads /\ o.open /\ Opened(o, files) /\ StoreAt(o, files) = store
         /\ Seen(req[t].ver, req[t].was, store) /\ ReadOK(req[t], LogOf(o, files))
<1>1. t \in Readers /\ req[t].pc = "reading" /\ req[t] \in Reads \cup {Idle}
  BY DEF Inv, Types, Reading
<1>2. req[t] \in Reads
  BY <1>1 DEF Idle
<1>3. o.open /\ Seen(req[t].ver, req[t].was, store) /\ ReadOK(req[t], LogOf(o, files))
  BY DEF Inv, ReqInv, LogOf
<1>4. Cached
  BY <1>3, NoObjIs DEF Cached
<1>5. Opened(o, files)
  BY <1>3, <1>4 DEF Inv, FileInv, Unopened
<1>6. StoreAt(o, files) = store
  BY <1>4 DEF Inv, StoreInv, StoreAt, LogOf
<1> QED
  BY <1>1, <1>2, <1>3, <1>5, <1>6

\* A map's numbers and its values.
LEMMA MapsAre ==
  ASSUME NEW f \in Maps
  PROVE  DOMAIN f \in SUBSET Nat /\ \A m \in DOMAIN f : f[m] \in Int
  BY DEF Maps

\* A map with one number more, or one fewer.
LEMMA MapsWith ==
  ASSUME NEW f \in Maps, NEW n \in Nat, NEW d \in Int
  PROVE  /\ [m \in DOMAIN f \cup {n} |-> IF m = n THEN d ELSE f[m]] \in Maps
         /\ [m \in DOMAIN f \ {n} |-> f[m]] \in Maps
<1>1. PICK D \in SUBSET Nat : f \in [D -> Int]
  BY DEF Maps
<1>2. D \cup {n} \in SUBSET Nat /\ D \ {n} \in SUBSET Nat
  OBVIOUS
<1>3. [m \in D \cup {n} |-> IF m = n THEN d ELSE f[m]] \in [D \cup {n} -> Int]
  BY <1>1
<1>4. [m \in D \ {n} |-> f[m]] \in [D \ {n} -> Int]
  BY <1>1
<1>5. DOMAIN f = D
  BY <1>1
<1> QED
  BY <1>1, <1>2, <1>3, <1>4, <1>5 DEF Maps

\* A download with block n read.
Read(r, n, d) ==
  [r EXCEPT !.todo = [m \in DOMAIN r.todo \ {n} |-> r.todo[m]],
            !.got  = [m \in DOMAIN r.got \cup {n} |-> IF m = n THEN d ELSE r.got[m]]]

\* It is a download of the same version.
LEMMA ReadOne ==
  ASSUME NEW r \in Reads, NEW log, ReadOK(r, log), NEW n \in DOMAIN r.todo, NEW d, d = ReadAt(log, r.todo[n]),
         NEW s, s = Read(r, n, d)
  PROVE  s \in Reads /\ s.pc = r.pc /\ s.ver = r.ver /\ s.was = r.was /\ ReadOK(s, log)
<1> DEFINE todo == [m \in DOMAIN r.todo \ {n} |-> r.todo[m]]
           got == [m \in DOMAIN r.got \cup {n} |-> IF m = n THEN d ELSE r.got[m]]
<1>1. r.todo \in Maps /\ r.got \in Maps /\ r.was \in Maps
  BY DEF Reads
<1>2. n \in DOMAIN r.was /\ d = r.was[n]
  BY DEF ReadOK
<1>3. n \in Nat /\ d \in Int
  <2>1. DOMAIN r.todo \in SUBSET Nat /\ \A m \in DOMAIN r.was : r.was[m] \in Int
    BY <1>1, MapsAre
  <2> QED
    BY <1>2, <2>1
<1>4. todo \in Maps /\ got \in Maps
  BY <1>1, <1>3, MapsWith
<1>5. /\ DOMAIN todo = DOMAIN r.todo \ {n} /\ \A m \in DOMAIN todo : todo[m] = r.todo[m]
      /\ DOMAIN got = DOMAIN r.got \cup {n} /\ got[n] = d
      /\ \A m \in DOMAIN r.got : m # n => got[m] = r.got[m]
  OBVIOUS
<1>6. s = [r EXCEPT !.todo = todo, !.got = got]
  BY DEF Read
<1> HIDE DEF todo, got
<1>7. /\ s \in Reads /\ s.pc = r.pc /\ s.ver = r.ver /\ s.was = r.was /\ s.kept = r.kept
      /\ s.todo = todo /\ s.got = got
  BY <1>4, <1>6 DEF Reads
<1>8. /\ DOMAIN r.kept \cup DOMAIN r.got \cup DOMAIN r.todo = DOMAIN r.was
      /\ \A m \in DOMAIN r.got : r.got[m] = r.was[m]
      /\ \A m \in DOMAIN r.todo : r.todo[m] \in 1 .. Len(log) /\ ReadAt(log, r.todo[m]) = r.was[m]
      /\ \A m \in DOMAIN r.kept \ (DOMAIN r.got \cup DOMAIN r.todo) : r.kept[m] = r.was[m]
  BY DEF ReadOK
<1>9. DOMAIN s.kept \cup DOMAIN s.got \cup DOMAIN s.todo = DOMAIN s.was
  BY <1>5, <1>7, <1>8
<1>10. \A m \in DOMAIN s.got : s.got[m] = s.was[m]
  BY <1>2, <1>5, <1>7, <1>8
<1>11. \A m \in DOMAIN s.todo : s.todo[m] \in 1 .. Len(log) /\ ReadAt(log, s.todo[m]) = s.was[m]
  BY <1>5, <1>7, <1>8
<1>12. \A m \in DOMAIN s.kept \ (DOMAIN s.got \cup DOMAIN s.todo) : s.kept[m] = s.was[m]
  BY <1>5, <1>7, <1>8
<1> QED
  BY <1>7, <1>9, <1>10, <1>11, <1>12 DEF ReadOK

\* readBlock: what is read is the version's, whatever was uploaded since.
LEMMA ReadBlockInv ==
  ASSUME Inv, NEW t \in Readers, ReadBlock(t)
  PROVE  Inv' /\ StoreSteps
<1> DEFINE n == Min(DOMAIN req[t].todo)
           d == ReadAt(LogOf(o, files), req[t].todo[n])
           s == Read(req[t], n, d)
<1>1. t \in Reading /\ DOMAIN req[t].todo # {} /\ UNCHANGED <<files, o, img, staged, readOnly, view, store>>
  BY DEF ReadBlock, Reading
<1>2. /\ req[t] \in Reads /\ Opened(o, files) /\ StoreAt(o, files) = store
      /\ Seen(req[t].ver, req[t].was, store) /\ ReadOK(req[t], LogOf(o, files))
  BY <1>1, ReadIs
<1>3. req \in [Readers -> Reads \cup {Idle}]
  BY DEF Inv, Types
<1>4. req' = [req EXCEPT ![t] = s]
  <2>1. req' = [req EXCEPT ![t].todo = [m \in DOMAIN @ \ {n} |-> @[m]],
                           ![t].got  = [m \in DOMAIN @ \cup {n} |-> IF m = n THEN d ELSE @[m]]]
    BY DEF ReadBlock, LogOf
  <2> HIDE DEF n, d
  <2> QED
    BY <1>2, <1>3, <2>1 DEF Read, Reads
<1>5. n \in DOMAIN req[t].todo
  <2>1. req[t].todo \in Maps
    BY <1>2 DEF Reads
  <2>2. DOMAIN req[t].todo \in SUBSET Nat
    BY <2>1, MapsAre
  <2> QED
    BY <1>1, <2>2, MinIs
<1> HIDE DEF n
<1>6. s \in Reads /\ s.pc = req[t].pc /\ s.ver = req[t].ver /\ s.was = req[t].was /\ ReadOK(s, LogOf(o, files))
  BY <1>2, <1>5, ReadOne
<1> HIDE DEF d, s
<1>7. req' \in [Readers -> Reads \cup {Idle}] /\ req'[t] = s /\ \A q \in Readers : q # t => req'[q] = req[q]
  BY <1>3, <1>4, <1>6
<1>8. Reading' = Reading
  BY <1>6, <1>7 DEF Reading
<1>9. o \in Objs /\ files \in [Paths -> Files] /\ view \in [Readers -> Views]
      /\ IsFiniteSet(Reading) /\ o.readers = Cardinality(Reading)
  BY DEF Inv, Types
<1>10. ASSUME NEW q \in Reading
       PROVE  Seen(req'[q].ver, req'[q].was, store) /\ ReadOK(req'[q], LogOf(o, files))
  <2>1. CASE q = t
    BY <1>2, <1>6, <1>7, <2>1
  <2>2. CASE q # t
    BY <1>7, <2>2, ReadIs
  <2> QED
    BY <2>1, <2>2
<1>11. ViewInv'
  BY <1>1 DEF Inv, ViewInv
<1>12. Inv'
  BY <1>1, <1>2, <1>7, <1>8, <1>9, <1>10, <1>11, OpenInv
<1> QED
  BY <1>1, <1>12 DEF StoreSteps

\* done: the tab has the version it was told, and the log may be compacted
\* once nobody else reads it.
LEMMA DoneInv ==
  ASSUME Reopens, Inv, NEW t \in Readers, Done(t)
  PROVE  Inv' /\ StoreSteps
<1> DEFINE r == req[t]
           obj == ReaderLeaves(t)
           a == Applied(r.kept, r.ver, r.got, r.was)
<1>1. t \in Reading /\ UNCHANGED <<img, staged, readOnly, store>> /\ req' = [req EXCEPT ![t] = Idle]
      /\ view' = IF DOMAIN r.todo = {} THEN [view EXCEPT ![t] = a] ELSE view
  BY DEF Done, Reading
<1>2. /\ r \in Reads /\ Opened(o, files) /\ StoreAt(o, files) = store
      /\ Seen(r.ver, r.was, store) /\ ReadOK(r, LogOf(o, files))
  BY <1>1, ReadIs
<1>3. o \in Objs /\ files \in [Paths -> Files] /\ view \in [Readers -> Views]
      /\ req \in [Readers -> Reads \cup {Idle}]
      /\ IsFiniteSet(Reading) /\ o.readers = Cardinality(Reading)
  BY DEF Inv, Types
<1>4. o.readers \in Nat /\ o.readers # 0 /\ o.readers - 1 \in Nat
  <2>1. o.readers \in Nat
    BY <1>3 DEF Objs
  <2>2. o.readers # 0
    BY <1>1, ReaderCounts DEF Inv
  <2> QED
    BY <2>1, <2>2
<1>5. /\ obj \in Objs /\ obj.readers = o.readers - 1 /\ obj.path = o.path /\ obj.open = o.open
      /\ obj.book = o.book
  BY <1>3, <1>4 DEF ReaderLeaves, Objs
<1>6. PICK c \in MaybeCompact(Outcome(obj, files, TRUE)) : o' = c.o /\ files' = c.files
  BY DEF Done
<1> HIDE DEF obj
<1>7. Opened(obj, files) /\ LogOf(obj, files) = LogOf(o, files) /\ StoreAt(obj, files) = store
  BY <1>2, <1>5 DEF Opened, StoreAt, LogOf
<1>8. /\ c.o \in Objs /\ c.files \in [Paths -> Files] /\ Opened(c.o, c.files) /\ c.o.readers = obj.readers
      /\ StoreAt(c.o, c.files) = StoreAt(obj, files)
      /\ obj.readers = 0 \/ (c.o = obj /\ c.files = files)
  <2>1. ASSUME NEW ok, NEW x \in MaybeCompact(Outcome(obj, files, ok))
        PROVE  /\ x.o \in Objs /\ x.files \in [Paths -> Files] /\ Opened(x.o, x.files)
               /\ x.o.readers = obj.readers /\ StoreAt(x.o, x.files) = StoreAt(obj, files)
               /\ obj.readers = 0 \/ (x.o = obj /\ x.files = files)
    <3>1. files \in [Paths -> Files] /\ obj \in Objs /\ Opened(obj, files)
      BY <1>3, <1>5, <1>7
    <3> QED
      BY <2>1, <3>1, MaybeCompactOK, SMT
  <2> QED
    BY <1>6, <2>1
<1>9. req' \in [Readers -> Reads \cup {Idle}] /\ req'[t] = Idle /\ \A q \in Readers : q # t => req'[q] = req[q]
  BY <1>1, <1>3
<1>10. Reading' = Reading \ {t}
  BY <1>9 DEF Reading, Idle
<1>11. IsFiniteSet(Reading') /\ Cardinality(Reading') = o.readers - 1
  BY <1>1, <1>3, <1>10, FS_RemoveElement
<1>12. a.ver = r.ver /\ a.was = r.was /\ (DOMAIN r.todo = {} => a.data = r.was /\ a \in Views)
  <2>1. r.was \in Maps /\ r.ver \in Nat
    BY <1>2 DEF Reads
  <2>2. a.ver = r.ver /\ a.was = r.was
    BY DEF Applied
  <2>3. ASSUME DOMAIN r.todo = {} PROVE a.data = r.was /\ a \in Views
    <3>1. Covers(r.kept, r.got, r.was)
      BY <1>2, <2>3 DEF ReadOK, Covers
    <3>2. a = [ver |-> r.ver, was |-> r.was, data |-> r.was]
      BY <2>1, <3>1, AppliedIs
    <3> HIDE DEF a, r
    <3> QED
      BY <2>1, <3>2 DEF Views
  <2> QED
    BY <2>2, <2>3
<1> HIDE DEF a, r
<1>13. view' \in [Readers -> Views] /\ ViewInv'
  <2>1. CASE DOMAIN r.todo = {}
    <3>1. /\ view' \in [Readers -> Views] /\ view'[t] = a
          /\ \A s \in Readers : s # t => view'[s] = view[s]
      BY <1>1, <1>3, <1>12, <2>1
    <3> QED
      BY <1>1, <1>2, <1>12, <2>1, <3>1 DEF Inv, ViewInv
  <2>2. CASE DOMAIN r.todo # {}
    BY <1>1, <1>3, <2>2 DEF Inv, ViewInv
  <2> QED
    BY <2>1, <2>2
<1>14. ASSUME NEW q \in Reading'
       PROVE  Seen(req'[q].ver, req'[q].was, store) /\ ReadOK(req'[q], LogOf(o', files'))
  <2>1. q \in Reading /\ q # t /\ req'[q] = req[q]
    BY <1>9, <1>10 DEF Reading
  <2>2. Reading' # {}
    OBVIOUS
  <2>3. obj.readers # 0
    BY <1>5, <1>11, <2>2, FS_EmptySet
  <2>4. LogOf(o', files') = LogOf(o, files)
    BY <1>6, <1>7, <1>8, <2>3, Zenon
  <2>5. Seen(req[q].ver, req[q].was, store) /\ ReadOK(req[q], LogOf(o, files))
    BY <2>1, ReadIs
  <2> QED
    BY <2>1, <2>4, <2>5
<1>15. /\ o' \in Objs /\ files' \in [Paths -> Files] /\ Opened(o', files') /\ StoreAt(o', files') = store
       /\ o'.readers = Cardinality(Reading')
  BY <1>5, <1>6, <1>7, <1>8, <1>11
<1>16. Inv'
  BY <1>1, <1>9, <1>11, <1>13, <1>14, <1>15, OpenInv
<1> QED
  BY <1>1, <1>16 DEF StoreSteps

-----------------------------------------------------------------------------
\* An overlay that starts anew: the tabs and the store have nothing.
LEMMA AnewIs ==
  ASSUME StartAnew
  PROVE  view' \in [Readers -> Views] /\ ViewInv' /\ store' = NoStore /\ StoreOK(store')
<1>1. view' = [t \in Readers |-> NoView] /\ store' = NoStore
  BY DEF StartAnew
<1>2. view' \in [Readers -> Views]
  BY <1>1, NothingIs
<1>3. ViewInv'
  BY <1>1, NothingIs DEF ViewInv
<1> QED
  BY <1>1, <1>2, <1>3, NothingIs

\* The key's overlay has ended, and left no file.
LEMMA EndedInv ==
  ASSUME Inv, Reading = {}, UNCHANGED <<staged, req, readOnly>>, img' \in {"same", "changed", "gone"},
         o' = NoObj, files' \in [Paths -> Files], \A p \in Paths : ~files'[p].made, StartAnew
  PROVE  Inv' /\ StoreSteps
<1>1. view' \in [Readers -> Views] /\ ViewInv' /\ store' = NoStore /\ StoreOK(store')
  BY AnewIs
<1>2. ~Cached'
  BY DEF Cached
<1>3. ~OnDisk'.head
  <2>1. FoundIn(img', files') = None
    BY FoundIs DEF Paths
  <2> QED
    BY <2>1, NothingIs DEF OnDisk
<1>4. StoreInv'
  BY <1>1, <1>2, <1>3 DEF StoreInv, Durable
<1>5. AtMostOne(files')
  BY DEF AtMostOne
<1>6. Reading' = {} /\ req' \in [Readers -> Reads \cup {Idle}]
  BY DEF Reading, Inv, Types
<1>7. Inv'
  BY <1>1, <1>2, <1>4, <1>5, <1>6, NoObjIs, RestInv
<1> QED
  BY <1>1, <1>7 DEF StoreSteps

\* The image after a merge, or a part of one.
LEMMA WrittenIs ==
  ASSUME Inv, NEW ns
  PROVE  Written(ns) \in {"same", "changed", "gone"}
  BY DEF Written, Inv, Types

\* merge: the overlay ends in the image.
LEMMA MergeInv ==
  ASSUME Inv, Merge
  PROVE  Inv' /\ StoreSteps
<1>1. Cached /\ o.readers = 0 /\ o' = NoObj /\ StartAnew /\ UNCHANGED <<staged, req, readOnly>>
      /\ img' = Written(InImage) /\ files' = IF o.open THEN [files EXCEPT ![o.path] = NoFile] ELSE files
  BY DEF Merge
<1>2. Reading = {} /\ img' \in {"same", "changed", "gone"}
  BY <1>1, NoneReads, WrittenIs
<1>3. files \in [Paths -> Files]
  BY DEF Inv, Types
<1>4. files' \in [Paths -> Files] /\ \A p \in Paths : ~files'[p].made
  <2>1. CASE o.open
    <3>1. o.path \in Paths /\ \A p \in Paths : files[p].made <=> p = o.path
      BY <1>1, <2>1 DEF Inv, FileInv, Opened, Unopened
    <3>2. files' = [files EXCEPT ![o.path] = NoFile]
      BY <1>1, <2>1
    <3> QED
      BY <1>3, <3>1, <3>2, NothingIs
  <2>2. CASE ~o.open
    BY <1>1, <1>3, <2>2 DEF Inv, FileInv, Opened, Unopened
  <2> QED
    BY <2>1, <2>2
<1> QED
  BY <1>1, <1>2, <1>4, EndedInv

\* A merge that fails leaves the overlay as it was.
LEMMA MergeFailsInv ==
  ASSUME Inv, MergeFails
  PROVE  Inv' /\ StoreSteps
<1>1. Cached /\ UNCHANGED <<files, o, staged, req, readOnly, view, store>>
  BY DEF MergeFails
<1>2. img' \in {"same", "changed", "gone"}
  BY WrittenIs DEF MergeFails
<1>3. staged' \in Seq(Nat)
  BY <1>1 DEF Inv, Types
<1> QED
  BY <1>1, <1>2, <1>3, SameInv DEF StoreSteps

\* drop: the overlay ends with its image.
LEMMA DropInv ==
  ASSUME Inv, Drop
  PROVE  Inv' /\ StoreSteps
<1>1. Cached /\ o.readers = 0 /\ o' = NoObj /\ StartAnew /\ UNCHANGED <<staged, req, readOnly>>
      /\ img' \in {"same", "changed", "gone"}
      /\ files' = [files EXCEPT ![o.path] = NoFile, !["data"] = NoFile]
  BY DEF Drop
<1>2. Reading = {}
  BY <1>1, NoneReads
<1>3. files \in [Paths -> Files] /\ o.path \in Paths /\ \A p \in Paths : files[p].made => p = o.path
  BY <1>1 DEF Inv, Types, FileInv, Opened, Unopened
<1> DEFINE fs == [files EXCEPT ![o.path] = NoFile]
<1>4. fs \in [Paths -> Files] /\ \A p \in Paths : ~fs[p].made
  BY <1>3, NothingIs
<1>5. files' = [fs EXCEPT !["data"] = NoFile]
  BY <1>1
<1> HIDE DEF fs
<1>6. files' \in [Paths -> Files] /\ \A p \in Paths : ~files'[p].made
  BY <1>4, <1>5, NothingIs DEF Paths
<1> QED
  BY <1>1, <1>2, <1>6, EndedInv

-----------------------------------------------------------------------------
\* What load makes of a file: its store, or none if it has no head.
StoreIn(file) == IF file.head THEN StoreOf(Load(file.recs), file.recs) ELSE NoStore

\* The server stops, and what it leaves on the disk is the version s.
LEMMA StoppedInv ==
  ASSUME Inv, NEW i \in {"same", "changed", "gone"}, NEW fs \in [Paths -> Files], NEW s,
         Stopped(i, fs, s), AtMostOne(fs), s = store \/ (store.version < MaxVersion /\ Moves(store, s)),
         FoundIn(i, fs) # None => s = StoreIn(fs[FoundIn(i, fs)])
  PROVE  Inv' /\ StoreSteps
<1>1. /\ o' = NoObj /\ req' = [t \in Readers |-> Idle] /\ img' = i /\ files' = fs
      /\ IF FoundIn(i, fs) = None THEN StartAnew ELSE store' = s /\ UNCHANGED view
      /\ UNCHANGED <<staged, readOnly>>
  BY DEF Stopped
<1>2. ~Cached' /\ Reading' = {} /\ req' \in [Readers -> Reads \cup {Idle}]
  BY <1>1 DEF Cached, Reading, Idle
<1>3. StoreOK(store) /\ \A t \in Readers : view[t].ver \in Nat
  BY DEF Inv, StoreInv, Types, Views
<1>4. StoreOK(s) /\ \A ver \in Nat : \A was : Seen(ver, was, store) => Seen(ver, was, s)
  BY <1>3, StoreKept
<1>5. CASE FoundIn(i, fs) = None
  <2>1. StartAnew
    BY <1>1, <1>5
  <2>2. view' \in [Readers -> Views] /\ ViewInv' /\ store' = NoStore /\ StoreOK(store')
    BY <2>1, AnewIs
  <2>3. ~OnDisk'.head
    BY <1>1, <1>5, NothingIs DEF OnDisk
  <2>4. StoreInv'
    BY <1>2, <2>2, <2>3 DEF StoreInv, Durable
  <2>5. Inv'
    BY <1>1, <1>2, <2>2, <2>4, NoObjIs, RestInv
  <2> QED
    BY <2>2, <2>5 DEF StoreSteps
<1>6. CASE FoundIn(i, fs) # None
  <2>1. store' = s /\ UNCHANGED view
    BY <1>1, <1>6
  <2>2. OnDisk' = fs[FoundIn(i, fs)]
    BY <1>1, <1>6 DEF OnDisk
  <2>3. StoreInv'
    BY <1>2, <1>4, <1>6, <2>1, <2>2 DEF StoreInv, Durable, StoreIn
  <2>4. ViewInv' /\ view' \in [Readers -> Views]
    BY <1>3, <1>4, <2>1 DEF Inv, ViewInv, Types
  <2>5. Inv'
    BY <1>1, <1>2, <2>3, <2>4, NoObjIs, RestInv
  <2> QED
    BY <2>1, <2>5 DEF StoreSteps
<1> QED
  BY <1>5, <1>6

\* The file found is the object's.
LEMMA FoundOpened ==
  ASSUME NEW obj, NEW fs, Opened(obj, fs) \/ Unopened(obj, fs), NEW i, FoundIn(i, fs) # None
  PROVE  FoundIn(i, fs) = obj.path /\ obj.path \in Paths /\ Opened(obj, fs)
<1>1. FoundIn(i, fs) \in Paths /\ fs[FoundIn(i, fs)].made
  BY FoundIs
<1> QED
  BY <1>1 DEF Opened, Unopened

\* A stop outside a commit: the files have what the object had.
LEMMA StopInv ==
  ASSUME Inv, Cached, NEW i \in {"same", "changed", "gone"}, Stopped(i, files, store)
  PROVE  Inv' /\ StoreSteps
<1>1. (Opened(o, files) \/ Unopened(o, files)) /\ AtMostOne(files) /\ files \in [Paths -> Files]
  BY DEF Inv, FileInv, Types
<1>2. ASSUME FoundIn(i, files) # None PROVE store = StoreIn(files[FoundIn(i, files)])
  <2>1. FoundIn(i, files) = o.path /\ Opened(o, files)
    BY <1>1, <1>2, FoundOpened
  <2>2. files[o.path].head /\ Load(files[o.path].recs) = o.book
    BY <2>1 DEF Opened
  <2>3. store = StoreOf(o.book, files[o.path].recs)
    BY DEF Inv, StoreInv
  <2> QED
    BY <2>1, <2>2, <2>3 DEF StoreIn
<1> QED
  BY <1>1, <1>2, StoppedInv

\* The server stops, in a merge or when nothing is written.
LEMMA CrashInv ==
  ASSUME Inv, Crash \/ CrashInMerge
  PROVE  Inv' /\ StoreSteps
<1>1. CASE Crash
  <2>1. Cached /\ Stopped(img, files, store) /\ img \in {"same", "changed", "gone"}
    BY <1>1 DEF Crash, Inv, Types
  <2> QED
    BY <2>1, StopInv
<1>2. CASE CrashInMerge
  <2>1. Cached /\ \E ns \in SUBSET Merged : Stopped(Written(ns), files, store)
    BY <1>2 DEF CrashInMerge
  <2> QED
    BY <2>1, StopInv, WrittenIs
<1> QED
  BY <1>1, <1>2

\* The files with another one in place p.
FileAs(fs, p, file) == [fs EXCEPT ![p] = file]

\* Other records, or no head, in an object's file: it is the only one still.
LEMMA OnlyFile ==
  ASSUME NEW obj, NEW fs \in [Paths -> Files], Opened(obj, fs), NEW file \in Files, file.made,
         NEW i
  PROVE  /\ FileAs(fs, obj.path, file) \in [Paths -> Files] /\ AtMostOne(FileAs(fs, obj.path, file))
         /\ FoundIn(i, FileAs(fs, obj.path, file)) # None =>
              FileAs(fs, obj.path, file)[FoundIn(i, FileAs(fs, obj.path, file))] = file
<1> DEFINE new == FileAs(fs, obj.path, file)
<1>1. obj.path \in Paths /\ \A q \in Paths : fs[q].made <=> q = obj.path
  BY DEF Opened
<1>2. new \in [Paths -> Files] /\ new[obj.path] = file /\ \A q \in Paths : q # obj.path => new[q] = fs[q]
  BY <1>1 DEF FileAs
<1> HIDE DEF new
<1>3. \A q \in Paths : new[q].made => q = obj.path
  BY <1>1, <1>2
<1>4. AtMostOne(new)
  BY <1>3 DEF AtMostOne
<1>5. FoundIn(i, new) # None => new[FoundIn(i, new)] = file
  <2>1. FoundIn(i, new) # None => FoundIn(i, new) \in Paths /\ new[FoundIn(i, new)].made
    BY FoundIs
  <2> QED
    BY <1>2, <1>3, <2>1
<1> QED
  BY <1>2, <1>4, <1>5 DEF new

\* The server stops in create: a file without its head, of an overlay without
\* a version.
LEMMA CrashInCreateInv ==
  ASSUME Inv, CrashInCreate
  PROVE  Inv' /\ StoreSteps
<1>1. PICK c \in Create : c.ok /\ Stopped(img, [c.files EXCEPT ![c.o.path].head = FALSE], store)
  BY DEF CrashInCreate
<1>2. Cached /\ ~o.open /\ img \in {"same", "changed", "gone"}
  BY DEF CrashInCreate, Inv, Types
<1>3. c.files \in [Paths -> Files] /\ Opened(c.o, c.files)
  BY <1>1, <1>2, CreateOK DEF Inv
<1>4. store = NoStore
  <2>1. Unopened(o, files)
    BY <1>2 DEF Inv, FileInv, Opened
  <2>2. store = StoreOf(NoBook, files[o.path].recs)
    BY <1>2, <2>1 DEF Inv, StoreInv, Unopened
  <2> QED
    BY <2>2, NoStoreIs
<1> DEFINE file == [c.files[c.o.path] EXCEPT !.head = FALSE]
           fs == FileAs(c.files, c.o.path, file)
<1>5. c.o.path \in Paths /\ c.files[c.o.path].made
  BY <1>3 DEF Opened
<1>6. file \in Files /\ file.made /\ ~file.head
  BY <1>3, <1>5 DEF Files
<1>7. Stopped(img, fs, store)
  BY <1>1 DEF FileAs
<1> HIDE DEF file
<1>8. fs \in [Paths -> Files] /\ AtMostOne(fs) /\ (FoundIn(img, fs) # None => fs[FoundIn(img, fs)] = file)
  BY <1>3, <1>6, OnlyFile
<1> HIDE DEF fs
<1>9. FoundIn(img, fs) # None => store = StoreIn(fs[FoundIn(img, fs)])
  BY <1>4, <1>6, <1>8 DEF StoreIn
<1> QED
  BY <1>2, <1>7, <1>8, <1>9, StoppedInv

\* What a commit that is cut short, or isn't, leaves in the log.
LEMMA PartLoads ==
  ASSUME NEW obj \in Objs, NEW fs \in [Paths -> Files], NEW ok, Opened(obj, fs), StoreOK(StoreAt(obj, fs)),
         NEW recs \in Seq(Recs), NEW v, v = obj.book.version + 1, UploadOf(recs, v), NEW replace \in BOOLEAN,
         NEW n \in 0 .. Len(recs) + 1
  PROVE  /\ Appended(Outcome(obj, fs, ok), recs, v, replace, n) = Left(obj, fs, recs, v, replace, n)
         /\ Left(obj, fs, recs, v, replace, n) \in Seq(Recs)
         /\ n > Len(recs) => Moves(StoreAt(obj, fs), StoreOf(Load(Left(obj, fs, recs, v, replace, n)),
                                                             Left(obj, fs, recs, v, replace, n)))
         /\ n <= Len(recs) => StoreOf(Load(Left(obj, fs, recs, v, replace, n)),
                                      Left(obj, fs, recs, v, replace, n)) = StoreAt(obj, fs)
<1> DEFINE log == LogOf(obj, fs)
           new == Left(obj, fs, recs, v, replace, n)
           part == Part(log, recs, v, replace, n)
<1>1. /\ Appended(Outcome(obj, fs, ok), recs, v, replace, n) = new /\ part \in Seq(Recs)
      /\ n = Len(recs) + 1 => new = NewLog(log, recs, v, replace)
      /\ n <= Len(recs) => CommitsOf(part) = {}
  <2>1. Appended(Outcome(obj, fs, ok), recs, v, replace, n) = Left(obj, fs, recs, v, replace, n)
    BY AppendedIs
  <2>2. part \in Seq(Recs)
    BY AppendedIs
  <2>3. n = Len(recs) + 1 => Left(obj, fs, recs, v, replace, n) = NewLog(log, recs, v, replace)
    BY AppendedIs
  <2>4. n <= Len(recs) => CommitsOf(part) = {}
    BY AppendedIs
  <2> QED
    BY <2>1, <2>2, <2>3, <2>4
<1>2. log \in Seq(Recs) /\ Closed(log) /\ Load(log) = obj.book
  BY LogIs DEF Opened, LogOf
<1>3. StoreOf(Load(log), log) = StoreAt(obj, fs)
  BY <1>2 DEF StoreAt
<1>4. StoreOK(StoreOf(Load(log), log)) /\ v = Load(log).version + 1
  BY <1>2, <1>3
<1>5. new = log \o part
  BY DEF Left
<1> HIDE DEF log, part, new
<1>6. new \in Seq(Recs)
  BY <1>1, <1>2, <1>5, BlocksConcat
<1>7. CASE n <= Len(recs)
  <2>1. Load(log \o part) = Load(log)
    BY <1>1, <1>2, <1>7, LoadTail
  <2>2. StoreOf(Load(log), log \o part) = StoreOf(Load(log), log)
    BY <1>1, <1>2, StoreSame
  <2>3. StoreOf(Load(new), new) = StoreAt(obj, fs)
    BY <1>3, <1>5, <2>1, <2>2, Zenon
  <2>4. ~(n > Len(recs))
    BY <1>7
  <2> QED
    BY <1>1, <1>6, <2>3, <2>4 DEF new
<1>8. CASE n = Len(recs) + 1
  <2>1. new = NewLog(log, recs, v, replace)
    BY <1>1, <1>8
  <2>2. /\ Load(NewLog(log, recs, v, replace)) = NewBook(log, recs, v, replace)
        /\ Moves(StoreOf(Load(log), log),
                 StoreOf(NewBook(log, recs, v, replace), NewLog(log, recs, v, replace)))
    BY <1>2, <1>4, CommitMoves
  <2>3. Moves(StoreAt(obj, fs), StoreOf(Load(new), new))
    BY <1>3, <2>1, <2>2, Zenon
  <2>4. ~(n <= Len(recs))
    BY <1>8
  <2> QED
    BY <1>1, <1>6, <2>3, <2>4 DEF new
<1> QED
  BY <1>7, <1>8

\* With other records in it, the object's file is the only one still.
LEMMA PartFound ==
  ASSUME NEW obj, NEW fs \in [Paths -> Files], Opened(obj, fs), NEW new \in Seq(Recs), NEW i
  PROVE  /\ FilesWith(fs, obj.path, new) \in [Paths -> Files] /\ AtMostOne(FilesWith(fs, obj.path, new))
         /\ FoundIn(i, FilesWith(fs, obj.path, new)) # None =>
              StoreIn(FilesWith(fs, obj.path, new)[FoundIn(i, FilesWith(fs, obj.path, new))]) =
                StoreOf(Load(new), new)
<1> DEFINE file == [fs[obj.path] EXCEPT !.recs = new]
           after == FileAs(fs, obj.path, file)
<1>1. obj.path \in Paths /\ fs[obj.path].made /\ fs[obj.path].head
  BY DEF Opened
<1>2. file \in Files /\ file.made /\ file.head /\ file.recs = new
  BY <1>1 DEF Files
<1>3. FilesWith(fs, obj.path, new) = after
  BY DEF FilesWith, FileAs
<1> HIDE DEF file
<1>5. /\ after \in [Paths -> Files] /\ AtMostOne(after)
      /\ FoundIn(i, after) # None => after[FoundIn(i, after)] = file
  BY <1>2, OnlyFile
<1> HIDE DEF after
<1>6. FoundIn(i, after) # None => StoreIn(after[FoundIn(i, after)]) = StoreOf(Load(new), new)
  BY <1>2, <1>5 DEF StoreIn
<1> QED
  BY <1>3, <1>5, <1>6, Zenon

\* The server stops in a commit: the version before, or the whole of the new
\* one.
LEMMA CrashInCommitInv ==
  ASSUME Inv, CrashInCommit
  PROVE  Inv' /\ StoreSteps
<1>1. Cached /\ o.book.version + 1 <= MaxVersion /\ img \in {"same", "changed", "gone"}
  BY DEF CrashInCommit, Inv, Types
<1>2. StoreOK(store) /\ store.version = o.book.version /\ store.version < MaxVersion /\ o.book.version + 1 \in Nat
  <2>1. o.book.version \in 0 .. MaxVersion /\ MaxVersion \in Nat /\ store.version = o.book.version
    BY <1>1, VersionIs
  <2> QED
    BY <1>1, <2>1 DEF Inv, StoreInv
<1>3. \A body \in Bodies \cup {<<>>} : body \in Seq(Nat)
  <2>1. <<>> \in Seq(Nat) /\ \A body \in Bodies : body \in Seq(Nat)
    BY OverlayAssumption
  <2> QED
    BY <2>1
<1>4. ASSUME NEW recs \in Seq(Recs), NEW v, v = o.book.version + 1, UploadOf(recs, v), NEW replace \in BOOLEAN,
             NEW c \in Create, c.ok, NEW n \in 0 .. Len(recs) + 1,
             Stopped(img, FilesWith(c.files, c.o.path, Appended(c, recs, v, replace, n)),
                     IF n > Len(recs) /\ FoundIn(img, c.files) \in {c.o.path, None}
                     THEN StoreOf(Load(Appended(c, recs, v, replace, n)), Appended(c, recs, v, replace, n))
                     ELSE store)
      PROVE  Inv' /\ StoreSteps
  <2>1. /\ c = Outcome(c.o, c.files, c.ok) /\ c.o \in Objs /\ c.files \in [Paths -> Files]
        /\ StoreAt(c.o, c.files) = store /\ Opened(c.o, c.files)
    BY <1>1, <1>4, CreateOK DEF Inv
  <2>2. v = c.o.book.version + 1
    <3>1. StoreAt(c.o, c.files).version = c.o.book.version
      BY DEF StoreAt, StoreOf
    <3> QED
      BY <1>2, <1>4, <2>1, <3>1
  <2> DEFINE obj == c.o
             old == c.files
             ok == c.ok
             new == Left(obj, old, recs, v, replace, n)
             s == IF n > Len(recs) /\ FoundIn(img, old) \in {obj.path, None}
                  THEN StoreOf(Load(new), new) ELSE store
             fs == FilesWith(old, obj.path, new)
  <2>3. /\ obj \in Objs /\ old \in [Paths -> Files] /\ StoreAt(obj, old) = store /\ Opened(obj, old)
        /\ v = obj.book.version + 1 /\ StoreOK(StoreAt(obj, old))
    BY <1>2, <2>1, <2>2
  <2> HIDE DEF obj, old, ok
  <2>4. /\ Appended(Outcome(obj, old, ok), recs, v, replace, n) = new /\ new \in Seq(Recs)
        /\ n > Len(recs) => Moves(StoreAt(obj, old), StoreOf(Load(new), new))
        /\ n <= Len(recs) => StoreOf(Load(new), new) = StoreAt(obj, old)
    BY <1>4, <2>3, PartLoads
  <2> HIDE DEF new
  <2>5. Appended(c, recs, v, replace, n) = new
    BY <2>1, <2>4, Zenon DEF obj, old, ok
  <2>6. Stopped(img, fs, s)
    BY <1>4, <2>5, Zenon DEF obj, old
  <2>7. StoreOf(Load(new), new) = s /\ (s = store \/ Moves(store, s))
    <3>1. n > Len(recs) \/ n <= Len(recs)
      BY <1>4
    <3>2. FoundIn(img, old) \in {obj.path, None}
      BY <2>3, FoundOpened
    <3> QED
      BY <2>3, <2>4, <3>1, <3>2
  <2>8. /\ fs \in [Paths -> Files] /\ AtMostOne(fs)
        /\ FoundIn(img, fs) # None => StoreIn(fs[FoundIn(img, fs)]) = StoreOf(Load(new), new)
    <3>1. /\ FilesWith(old, obj.path, new) \in [Paths -> Files] /\ AtMostOne(FilesWith(old, obj.path, new))
          /\ FoundIn(img, FilesWith(old, obj.path, new)) # None =>
               StoreIn(FilesWith(old, obj.path, new)[FoundIn(img, FilesWith(old, obj.path, new))]) =
                 StoreOf(Load(new), new)
      <4>1. old \in [Paths -> Files] /\ Opened(obj, old) /\ new \in Seq(Recs)
        BY <2>3, <2>4
      <4> QED
        BY <4>1, PartFound
    <3> QED
      BY <3>1, Zenon
  <2> HIDE DEF fs, s
  <2> QED
    BY <1>1, <1>2, <2>6, <2>7, <2>8, StoppedInv
<1>5. \E body \in Bodies \cup {<<>>}, replace \in BOOLEAN, c \in Create :
        /\ c.ok
        /\ \E n \in 0 .. Len(AsBlocks(body, o.book.version + 1, o.book.version + 1)) + 1 :
             LET v == o.book.version + 1
                 recs == AsBlocks(body, v, v)
                 new == Appended(c, recs, v, replace, n)
             IN  Stopped(img, FilesWith(c.files, c.o.path, new),
                         IF n > Len(recs) /\ FoundIn(img, c.files) \in {c.o.path, None}
                         THEN StoreOf(Load(new), new) ELSE store)
  BY DEF CrashInCommit, FilesWith
<1>6. \A body \in Bodies \cup {<<>>} :
        LET v == o.book.version + 1
            recs == AsBlocks(body, v, v)
        IN  recs \in Seq(Recs) /\ UploadOf(recs, v)
  <2>1. o.book.version + 1 \in Int
    BY <1>2
  <2> QED
    BY <1>2, <1>3, <2>1, AsBlocksOK
<1> QED
  BY <1>4, <1>5, <1>6

-----------------------------------------------------------------------------
\* A step that changes nothing.
LEMMA StutterInv ==
  ASSUME Inv, UNCHANGED vars
  PROVE  Inv' /\ StoreSteps
<1>1. UNCHANGED <<files, o, img, staged, req, readOnly, view, store>>
  BY DEF vars
<1>2. staged' \in Seq(Nat) /\ img' \in {"same", "changed", "gone"}
  BY <1>1 DEF Inv, Types
<1> QED
  BY <1>1, <1>2, SameInv DEF StoreSteps

\* Every step keeps the invariant, and is a step of the store of versions.
LEMMA StepInv ==
  ASSUME Reopens, Inv, [Next]_vars
  PROVE  Inv' /\ StoreSteps
<1>1. CASE Get
  BY <1>1, GetInv
<1>2. ASSUME NEW base \in 0 .. MaxVersion, Put(base) PROVE Inv' /\ StoreSteps
  BY <1>2, PutInv
<1>3. CASE Revert
  BY <1>3, RevertInv
<1>4. CASE (\E body \in Bodies : Stage(body)) \/ PruneStaged
  BY <1>4, StagedInv
<1>5. ASSUME NEW t \in Readers, NEW from \in 0 .. MaxVersion, Since(t, from) PROVE Inv' /\ StoreSteps
  BY <1>5, SinceInv
<1>6. ASSUME NEW t \in Readers, ReadBlock(t) PROVE Inv' /\ StoreSteps
  BY <1>6, ReadBlockInv
<1>7. ASSUME NEW t \in Readers, Done(t) PROVE Inv' /\ StoreSteps
  BY <1>7, DoneInv
<1>8. CASE Merge
  BY <1>8, MergeInv
<1>9. CASE MergeFails
  BY <1>9, MergeFailsInv
<1>10. CASE Drop
  BY <1>10, DropInv
<1>11. CASE Crash \/ CrashInMerge
  BY <1>11, CrashInv
<1>12. CASE CrashInCommit
  BY <1>12, CrashInCommitInv
<1>13. CASE CrashInCreate
  BY <1>13, CrashInCreateInv
<1>14. CASE UNCHANGED vars
  BY <1>14, StutterInv
<1> QED
  BY <1>1, <1>2, <1>3, <1>4, <1>5, <1>6, <1>7, <1>8, <1>9, <1>10, <1>11, <1>12, <1>13, <1>14 DEF Next

\* Overlay keeps its invariant.
THEOREM InvCorrect ==
  ASSUME Reopens
  PROVE  Spec => []Inv
<1>1. Init => Inv
  BY InitInv
<1>2. Inv /\ [Next]_vars => Inv'
  BY StepInv
<1> QED
  BY <1>1, <1>2, PTL DEF Spec

\* The invariant gives the types of the object's fields: the versions and the
\* reset of its book are in order, and no block is newer than the overlay.
LEMMA InvTypes ==
  ASSUME Inv
  PROVE  TypeOK
<1>1. /\ img \in {"same", "changed", "gone"} /\ readOnly \in BOOLEAN
      /\ o.path \in Paths \cup {None} /\ o.fallback \in Paths \cup {None}
      /\ o.readers = Cardinality({t \in Readers : req[t].pc = "reading"})
  BY DEF Inv, Types, Objs, Reading
<1>2. /\ o.book.version \in 0 .. MaxVersion /\ o.book.reset \in 0 .. o.book.version
      /\ o.book.dead \in Nat
      /\ \A n \in DOMAIN o.book.index : o.book.index[n].v \in 1 .. o.book.version
  <2>1. CASE o.book = NoBook
    <3>1. /\ o.book.version = 0 /\ o.book.reset = 0 /\ o.book.dead = 0 /\ o.book.index = Empty
          /\ DOMAIN Empty = {}
      BY <2>1, NoBookIs, NothingIs
    <3> QED
      BY <3>1, OverlayAssumption
  <2>2. CASE Cached /\ Opened(o, files)
    <3>1. LogOf(o, files) \in Seq(Recs)
      BY <2>2, LogIs DEF Opened, Inv, Types
    <3>2. Closed(LogOf(o, files)) /\ o.book = Load(LogOf(o, files))
      BY <2>2 DEF Opened, LogOf
    <3>3. o.book.dead \in Nat
      BY <3>1, <3>2, BookIs
    <3>4. /\ store.version = o.book.version /\ store.reset = o.book.reset
          /\ DOMAIN store.blocks = DOMAIN o.book.index
          /\ \A n \in DOMAIN o.book.index : store.blocks[n].v = o.book.index[n].v
      BY <2>2, BlocksAre
    <3>5. StoreOK(store)
      BY DEF Inv, StoreInv
    <3> QED
      BY <3>3, <3>4, <3>5 DEF StoreOK
  <2>3. o.book = NoBook \/ (Cached /\ Opened(o, files))
    BY NoObjIs DEF Inv, FileInv, Cached, Unopened
  <2> QED
    BY <2>1, <2>2, <2>3
<1> QED
  BY <1>1, <1>2 DEF TypeOK

\* The log of an object that is open gives what the object has in memory.
LEMMA InvMemory ==
  ASSUME Inv
  PROVE  MemoryIsDisk
<1> SUFFICES ASSUME o.open
             PROVE  files[o.path].head /\ Len(files[o.path].recs) = o.book.end /\ Load(files[o.path].recs) = o.book
  BY DEF MemoryIsDisk
<1>1. Opened(o, files)
  BY NoObjIs DEF Inv, FileInv, Cached, Unopened
<1>2. LogOf(o, files) \in Seq(Recs)
  BY <1>1, LogIs DEF Opened, Inv, Types
<1>3. files[o.path].head /\ Closed(LogOf(o, files)) /\ Load(LogOf(o, files)) = o.book
  BY <1>1 DEF Opened, LogOf
<1>4. o.book.end = Len(LogOf(o, files))
  BY <1>2, <1>3, BookIs
<1> QED
  BY <1>3, <1>4 DEF LogOf

\* The fields of struct overlay keep their types: as many readers as downloads
\* under way, and no block newer than the overlay (what since compares).
THEOREM OverlayTypeCorrect ==
  ASSUME Reopens
  PROVE  Spec => []TypeOK
<1>1. Inv => TypeOK
  BY InvTypes
<1> QED
  BY <1>1, InvCorrect, PTL

\* Whatever uploads, failures, compactions and downloads came before, load of
\* the object's log gives the object's fields.
THEOREM MemoryIsDiskCorrect ==
  ASSUME Reopens
  PROVE  Spec => []MemoryIsDisk
<1>1. Inv => MemoryIsDisk
  BY InvMemory
<1> QED
  BY <1>1, InvCorrect, PTL

\* Wherever the server stopped, what it finds on the disk is the last version
\* there was: all of an upload or nothing of it.
THEOREM DurableCorrect ==
  ASSUME Reopens
  PROVE  Spec => []Durable
<1>1. Inv => Durable
  BY DEF Inv, StoreInv
<1> QED
  BY <1>1, InvCorrect, PTL

\* A tab that has applied a download has what the overlay had at the version
\* it was told, though uploads and compactions ran while its blocks were read.
THEOREM ViewCorrect ==
  ASSUME Reopens
  PROVE  Spec => []ViewIsVersion
<1>1. Inv => ViewIsVersion
  BY DEF Inv, ViewInv, ViewIsVersion
<1> QED
  BY <1>1, InvCorrect, PTL

\* The overlay of a key is a store of versions: it implements OverlaySpec.
THEOREM StoreCorrect ==
  ASSUME Reopens
  PROVE  Spec => IsStore
<1>1. Init => Store!Init
  BY NoStoreIs DEF Init, Store!Init
<1>2. Inv /\ [Next]_vars => [Store!Next]_store
  <2> SUFFICES ASSUME Inv, [Next]_vars PROVE [Store!Next]_store
    OBVIOUS
  <2>1. StoreSteps
    BY StepInv
  <2> QED
    BY <2>1, NoStoreIs DEF StoreSteps, Moves, Store!Next, Store!Ended
<1> QED
  BY <1>1, <1>2, InvCorrect, PTL DEF Spec, IsStore, Store!Spec
=============================================================================
