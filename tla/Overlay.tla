------------------------------- MODULE Overlay -------------------------------
(***************************************************************************)
(* The overlay store of executor/server (overlay.go) for one key: its file *)
(* on the disk, the overlay object in memory, and the requests on it. An   *)
(* upload, a Revert, a merge and a drop each hold the object's mutex from  *)
(* beginning to end and are one step; a download holds it only in since    *)
(* and in done, and reads its blocks with no mutex in between. The server  *)
(* may stop at any moment: the log a commit was appending to, or the image *)
(* a merge was writing, is then left half written.                         *)
(*                                                                         *)
(* One object: a request that got it before a merge or a drop took it out  *)
(* of the store's map, and goes on with it afterwards, is left out. So are *)
(* two faults in a row: a Truncate that fails after a commit failed, and   *)
(* the old log that can't be opened again after a rename failed.           *)
(***************************************************************************)
EXTENDS OverlayLog

CONSTANTS
  Readers,      \* the downloads there may be at a time, each for one tab
  ImageBlocks,  \* the block numbers the library image has
  Bodies,       \* the block numbers of an upload's records: a set of sequences
  Names,        \* the names an upload may give the disk
  MaxVersion,   \* bound: the highest version an upload or a Revert makes
  MaxStaged,    \* bound: the records kept in the staging file
  CompactMin,   \* superseded blocks before a compaction (256 in the code)
  Faults        \* what can fail: the opening or the head of a new file, a
                \* commit's write, the writing of a compacted file, the opening
                \* of it once it is in place, a merge's access to the image

ASSUME OverlayAssumption ==
  /\ MaxVersion \in Nat /\ MaxStaged \in Nat /\ CompactMin \in Nat
  /\ \A body \in Bodies : body \in Seq(Nat)
  /\ Faults \subseteq {"create", "write", "compact", "reopen", "image"}

VARIABLES
  files,     \* the overlay's file beside the image and in DATA: [head, recs]
  o,         \* the overlay object, NoObj: not in s.overlays
  img,       \* the library image: "same" (as the key says), "changed", "gone"
  staged,    \* the staging file of one token: block numbers
  req,       \* what each download is doing
  readOnly,  \* the images directory can't be written
  view,      \* each tab's copy: the version it has, its blocks, and (history)
             \* the blocks the overlay had at that version
  store      \* history: the overlay's last version

vars == <<files, o, img, staged, req, readOnly, view, store>>

None   == "none"
Paths  == {"image", "data"}
NoFile == [made |-> FALSE, head |-> FALSE, recs |-> <<>>]
NoObj  == [path |-> None, fallback |-> None, open |-> FALSE, readers |-> 0, book |-> NoBook]
Idle   == [pc |-> "idle"]
NoView == [ver |-> 0, data |-> Empty, was |-> Empty]
Staged == 0     \* the content of staged records; the others of an upload
                \* have its version for their content

\* imageFor: the key names the image by its content.
Where == img = "same"

\* The file get would find, with the image i and the files fs: beside the
\* image when the key is a library disk's, else in DATA.
FoundIn(i, fs) == IF i = "same" /\ fs["image"].made THEN "image"
                  ELSE IF fs["data"].made THEN "data" ELSE None

OnDisk == IF FoundIn(img, files) = None THEN NoFile ELSE files[FoundIn(img, files)]

Cached == o # NoObj

-----------------------------------------------------------------------------
\* An outcome of an operation: the object and the files after it, and
\* whether it succeeded.
Outcome(obj, fs, ok) == [o |-> obj, files |-> fs, ok |-> ok]

Makeable(p) == ~files[p].made /\ ~(p = "image" /\ readOnly)

CanFail == "create" \in Faults

\* Where create's last attempt to open a file may be: at the object's path, or,
\* that one having failed, at its fallback.
Tried ==
  IF o.fallback \in {None, o.path} THEN {o.path}
  ELSE {p \in {o.path} : Makeable(p)} \cup {p \in {o.fallback} : ~Makeable(o.path) \/ CanFail}

\* create: the object's file made, with its head, where it was tried; or not.
Create ==
  LET made(p) == Outcome([o EXCEPT !.path = p, !.open = TRUE, !.book.end = 0],
                         [files EXCEPT ![p] = [made |-> TRUE, head |-> TRUE, recs |-> <<>>]],
                         TRUE)
      failed(p) == Outcome([o EXCEPT !.path = p], files, FALSE)
  IN  IF o.open THEN {Outcome(o, files, TRUE)}
      ELSE {made(p) : p \in {q \in Tried : Makeable(q)}}
             \cup {failed(p) : p \in {q \in Tried : ~Makeable(q) \/ CanFail}}

\* Mutant: while a download reads the file, too.
CompactDueAnyTime(obj) ==
  /\ obj.open
  /\ obj.book.dead >= CompactMin /\ obj.book.dead >= Cardinality(DOMAIN obj.book.index)

\* No download reads it, and the superseded blocks are enough, and no fewer
\* than the live ones.
CompactDue(obj) ==
  /\ obj.open /\ obj.readers = 0
  /\ obj.book.dead >= CompactMin /\ obj.book.dead >= Cardinality(DOMAIN obj.book.index)

\* A read of the object's file: it is open, and has the place.
InFile(obj, fs, off) == obj.open /\ off \in DOMAIN fs[obj.path].recs

\* maybeCompact, after an operation's outcome c: the file is written again
\* under another name and renamed; what fails before that changes nothing.
\* When the new file then can't be opened, the object has no file, and a book
\* of the old one.
MaybeCompact(c) ==
  LET index == c.o.book.index
      new == Compacted(c.o.book, c.files[c.o.path].recs)
      done == [c EXCEPT !.o.book = new.book, !.files[c.o.path].recs = new.log]
      shut == [c EXCEPT !.o.open = FALSE, !.files[c.o.path].recs = new.log]
  IN  IF ~CompactDue(c.o) \/ \E n \in DOMAIN index : ~InFile(c.o, c.files, index[n].off)
      THEN {c}
      ELSE {done} \cup (IF "compact" \in Faults THEN {c} ELSE {})
                  \cup (IF "reopen" \in Faults THEN {shut} ELSE {})

\* The log's records after n of those a commit writes.
Appended(c, recs, v, replace, n) ==
  SubSeq(c.files[c.o.path].recs, 1, c.o.book.end)
    \o SubSeq(CommitRecords(c.o.book, recs, v, replace), 1, n)

\* commit of recs as version v. When the write or the sync fails the log is
\* cut off at its committed length.
CommitTo(recs, v, replace) ==
  LET written(c) ==
        [c EXCEPT !.o.book = Committed(c.o.book, recs, v, replace),
                  !.files[c.o.path].recs = Appended(c, recs, v, replace, Len(recs) + 1)]
  IN  UNION {IF ~c.ok THEN {c}
             ELSE MaybeCompact(written(c))
                    \cup (IF "write" \in Faults THEN {[c EXCEPT !.ok = FALSE]} ELSE {})
             : c \in Create}

\* A book with the content of its blocks: one version of the overlay.
StoreOf(book, log) ==
  [version |-> book.version, reset |-> book.reset,
   blocks  |-> [n \in DOMAIN book.index |->
                  [v |-> book.index[n].v, d |-> ReadAt(log, book.index[n].off)]]]

NoStore == StoreOf(NoBook, <<>>)

-----------------------------------------------------------------------------
Init ==
  /\ files = [p \in Paths |-> NoFile]
  /\ o = NoObj
  /\ img \in {"same", "gone"}     \* a library disk's key, or another disk's
  /\ staged = <<>>
  /\ req = [t \in Readers |-> Idle]
  /\ readOnly \in BOOLEAN
  /\ view = [t \in Readers |-> NoView]
  /\ store = NoStore

\* Orphan: an overlay left beside an image that a merge has changed in part.
\* The tabs have another key for that image; the model ends there.

\* get: the object made, and its file read if it has one (a file without its
\* head is "not an overlay", and the request fails).
Get ==
  LET p == FoundIn(img, files)
      book == Load(OnDisk.recs)
  IN  /\ ~Cached
      /\ files["image"].made => Where     \* bound: see Orphan
      /\ IF p = None
         THEN /\ o' = [NoObj EXCEPT !.path = IF Where THEN "image" ELSE "data",
                                    !.fallback = IF Where THEN "data" ELSE None]
              /\ UNCHANGED files
         ELSE /\ OnDisk.head
              /\ o' = [NoObj EXCEPT !.path = p, !.open = TRUE, !.book = book]
              /\ files' = [files EXCEPT ![p].recs = SubSeq(@, 1, book.end)]
      /\ UNCHANGED <<img, staged, req, readOnly, view, store>>

\* Mutant: the blocks carry the version they are based on.
AsBlocksOfBase(numbers, v, d) == [i \in DOMAIN numbers |-> Block(numbers[i], v - 1, d)]

\* The blocks of an upload that makes version v.
AsBlocks(numbers, v, d) == [i \in DOMAIN numbers |-> Block(numbers[i], v, d)]

\* put's records: the name when it is another, the staged blocks, the body.
PutRecords(body, name, token, v) ==
  (IF name # o.book.name THEN <<Meta(name)>> ELSE <<>>)
    \o (IF token THEN AsBlocks(staged, v, Staged) ELSE <<>>)
    \o AsBlocks(body, v, v)

\* The version after a commit: the object's, or what is in the file that it
\* couldn't open again.
Version(c) ==
  LET log == c.files[c.o.path].recs
  IN  StoreOf(IF c.o.open THEN c.o.book ELSE Load(log), log)

\* A commit's step.
CommitStep(c) ==
  /\ o' = c.o /\ files' = c.files
  /\ store' = IF c.ok THEN Version(c) ELSE store

\* put: an upload on the version base, refused (409) when that isn't the
\* overlay's.
Put(base) ==
  /\ Cached
  /\ base = o.book.version /\ base < MaxVersion
  /\ \E body \in Bodies, name \in Names, token, replace \in BOOLEAN :
       \E c \in CommitTo(PutRecords(body, name, token, base + 1), base + 1, replace) :
         /\ CommitStep(c)
         /\ staged' = IF c.ok /\ token THEN <<>> ELSE staged
  /\ UNCHANGED <<img, req, readOnly, view>>

\* stage: records kept for a put with the token.
Stage(body) ==
  /\ Len(staged) + Len(body) <= MaxStaged
  /\ staged' = staged \o body
  /\ UNCHANGED <<files, o, img, req, readOnly, view, store>>

\* pruneStaged: a day later, after a put of any key.
PruneStaged ==
  /\ staged # <<>>
  /\ staged' = <<>>
  /\ UNCHANGED <<files, o, img, req, readOnly, view, store>>

\* remove: a version that is a reset.
Revert ==
  /\ Cached /\ o.book.version < MaxVersion
  /\ \E c \in CommitTo(<<>>, o.book.version + 1, TRUE) : CommitStep(c)
  /\ UNCHANGED <<img, staged, req, readOnly, view>>

-----------------------------------------------------------------------------
\* What a tab has once it has applied a download: the newer blocks over the
\* ones it kept.
Applied(kept, version, got, was) ==
  [ver  |-> version, was |-> was,
   data |-> [n \in DOMAIN kept \cup DOMAIN got |->
               IF n \in DOMAIN got THEN got[n] ELSE kept[n]]]

\* since: the version, whether there was a reset, and the blocks newer than
\* the tab's version with their places. No blocks: the download is over. The
\* web tab asks once, from 0; the API's other clients from the version they
\* have, and drop their blocks first when told of a reset.
Since(t, from) ==
  LET newer == {n \in DOMAIN o.book.index : o.book.index[n].v > from}
      kept == IF from = 0 \/ o.book.reset > from THEN Empty ELSE view[t].data
      was == [n \in DOMAIN store.blocks |-> store.blocks[n].d]
  IN  /\ Cached /\ req[t].pc = "idle" /\ from \in {0, view[t].ver}
      /\ \/ /\ newer = {}
            /\ view' = [view EXCEPT ![t] = Applied(kept, o.book.version, Empty, was)]
            /\ UNCHANGED <<o, req>>
         \/ /\ newer # {}
            /\ o' = [o EXCEPT !.readers = @ + 1]
            /\ req' = [req EXCEPT ![t] =
                         [pc |-> "reading", ver |-> o.book.version, kept |-> kept,
                          was |-> was, got |-> Empty,
                          todo |-> [n \in newer |-> o.book.index[n].off]]]
            /\ UNCHANGED view
      /\ UNCHANGED <<files, img, staged, readOnly, store>>

\* readBlock, the lowest number first. (One that fails ends the download.)
ReadBlock(t) ==
  LET n == Min(DOMAIN req[t].todo)
      d == ReadAt(files[o.path].recs, req[t].todo[n])
  IN  /\ req[t].pc = "reading" /\ DOMAIN req[t].todo # {}
      /\ InFile(o, files, req[t].todo[n])
      /\ req' = [req EXCEPT ![t].todo = [m \in DOMAIN @ \ {n} |-> @[m]],
                            ![t].got  = [m \in DOMAIN @ \cup {n} |->
                                           IF m = n THEN d ELSE @[m]]]
      /\ UNCHANGED <<files, o, img, staged, readOnly, view, store>>

\* Mutant: a tab that goes before the last block stays a reader.
ReaderLeavesAtEnd(t) == IF DOMAIN req[t].todo = {} THEN [o EXCEPT !.readers = @ - 1] ELSE o

\* The object, read by one fewer.
ReaderLeaves(t) == [o EXCEPT !.readers = @ - 1]

\* done: after the last block, or earlier when the tab has gone.
Done(t) ==
  LET r == req[t]
  IN  /\ r.pc = "reading"
      /\ \E c \in MaybeCompact(Outcome(ReaderLeaves(t), files, TRUE)) :
           o' = c.o /\ files' = c.files
      /\ view' = IF DOMAIN r.todo = {}
                 THEN [view EXCEPT ![t] = Applied(r.kept, r.ver, r.got, r.was)]
                 ELSE view
      /\ req' = [req EXCEPT ![t] = Idle]
      /\ UNCHANGED <<img, staged, readOnly, store>>

-----------------------------------------------------------------------------
\* The key's overlay has ended: the next one starts at version 0, and the
\* tabs read the disk anew.
StartAnew == view' = [t \in Readers |-> NoView] /\ store' = NoStore

\* The blocks the image has room for, and those of them that can be read.
InImage == DOMAIN o.book.index \cap ImageBlocks
Merged  == {n \in InImage : InFile(o, files, o.book.index[n].off)}

\* The image with some (ns) of the overlay's blocks written into it.
Written(ns) == IF ns = {} THEN img ELSE "changed"

\* merge: without an image 404, while the overlay is read 409.
Merge ==
  /\ Cached /\ Where /\ o.readers = 0 /\ Merged = InImage
  /\ img' = Written(InImage)
  /\ o' = NoObj
  /\ files' = IF o.open THEN [files EXCEPT ![o.path] = NoFile] ELSE files
  /\ StartAnew
  /\ UNCHANGED <<staged, req, readOnly>>

\* merge that stops at a block it can't read or write: the ones before are
\* in the image.
MergeFails ==
  /\ Cached /\ Where /\ o.readers = 0
  /\ "image" \in Faults \/ Merged # InImage
  /\ \E ns \in SUBSET Merged : img' = Written(ns)
  /\ UNCHANGED <<files, o, staged, req, readOnly, view, store>>

\* drop, and what follows it in upload and removeUpload: the image replaced
\* (by the same one again, perhaps) or removed. While the overlay is read: 409.
Drop ==
  /\ Cached /\ Where /\ o.readers = 0
  /\ files' = [files EXCEPT ![o.path] = NoFile, !["data"] = NoFile]
  /\ o' = NoObj
  /\ img' \in {"same", "changed", "gone"}
  /\ StartAnew
  /\ UNCHANGED <<staged, req, readOnly>>

-----------------------------------------------------------------------------
\* The server stops, leaving the image i, the files fs and the version s: its
\* memory is gone. An overlay beside an image that has changed is not the
\* key's any more.
Stopped(i, fs, s) ==
  /\ o' = NoObj /\ req' = [t \in Readers |-> Idle]
  /\ img' = i /\ files' = fs
  /\ IF FoundIn(i, fs) = None THEN StartAnew ELSE store' = s /\ UNCHANGED view
  /\ UNCHANGED <<staged, readOnly>>

Crash == Cached /\ Stopped(img, files, store)

\* The server stops in a commit: a prefix of what it wrote is in the log. A
\* commit that is there, where the next start looks, counts, though nobody was
\* answered.
CrashInCommit ==
  LET v == o.book.version + 1
  IN  /\ Cached /\ v <= MaxVersion
      /\ \E body \in Bodies \cup {<<>>}, replace \in BOOLEAN, c \in Create :
           LET recs == AsBlocks(body, v, v)
               log(n) == Appended(c, recs, v, replace, n)
           IN  /\ c.ok
               /\ \E n \in 0 .. Len(recs) + 1 :
                    Stopped(img, [c.files EXCEPT ![c.o.path].recs = log(n)],
                            IF n > Len(recs) /\ FoundIn(img, c.files) \in {c.o.path, None}
                            THEN StoreOf(Load(log(n)), log(n)) ELSE store)

\* The server stops in create: the file is there and its head isn't.
CrashInCreate ==
  /\ Cached /\ ~o.open
  /\ \E c \in Create :
       /\ c.ok
       /\ Stopped(img, [c.files EXCEPT ![c.o.path].head = FALSE], store)

\* The server stops in a merge: some of the blocks are in the image.
CrashInMerge ==
  /\ Cached /\ Where /\ o.readers = 0
  /\ \E ns \in SUBSET Merged : Stopped(Written(ns), files, store)

Next ==
  \/ Get
  \/ \E base \in 0 .. MaxVersion : Put(base)
  \/ Revert
  \/ \E body \in Bodies : Stage(body)
  \/ PruneStaged
  \/ \E t \in Readers : \/ \E from \in 0 .. MaxVersion : Since(t, from)
                        \/ ReadBlock(t) \/ Done(t)
  \/ Merge \/ MergeFails \/ Drop
  \/ Crash \/ CrashInCommit \/ CrashInCreate \/ CrashInMerge

Spec == Init /\ [][Next]_vars

-----------------------------------------------------------------------------
\* The fields of struct overlay; as many readers as downloads under way; and
\* no block newer than the overlay (what since compares).
TypeOK ==
  /\ img \in {"same", "changed", "gone"} /\ readOnly \in BOOLEAN
  /\ o.path \in Paths \cup {None} /\ o.fallback \in Paths \cup {None}
  /\ o.readers = Cardinality({t \in Readers : req[t].pc = "reading"})
  /\ o.book.version \in 0 .. MaxVersion /\ o.book.reset \in 0 .. o.book.version
  /\ o.book.dead \in Nat
  /\ \A n \in DOMAIN o.book.index : o.book.index[n].v \in 1 .. o.book.version

\* Starting the server again loses and invents nothing: the log of the key's
\* object, read by load, gives what the object has in memory (its version,
\* its reset, its name, its blocks and how many are superseded), whatever
\* uploads, compactions and downloads came before, and whatever of them failed,
\* but for the opening of a compacted file.
MemoryIsDisk ==
  o.open => /\ files[o.path].head
            /\ Len(files[o.path].recs) = o.book.end
            /\ Load(files[o.path].recs) = o.book

\* What the server finds on the disk when it starts is the last version there
\* was (all of an upload or nothing of it), wherever it stopped and whatever
\* failed before, but for the opening of a compacted file: after that an upload
\* may go to a file that the next start doesn't look at.
Durable ==
  ~Cached =>
    store = IF OnDisk.head THEN StoreOf(Load(OnDisk.recs), OnDisk.recs) ELSE NoStore

\* A tab that asks for the blocks newer than the version it has (or for all of
\* them), and applies what it gets, has what the overlay had at the version it is told: though
\* uploads and compactions run while its blocks are read, and though it
\* skipped versions, a replace or a Revert.
ViewIsVersion == \A t \in Readers : view[t].data = view[t].was

\* The overlay of a key is a store of versions (OverlaySpec): it moves by
\* whole uploads and Reverts, one version at a time.
Store == INSTANCE OverlaySpec
IsStore == Store!Spec

\* The overlay can be read again after any stop of the server ("a load drops
\* what comes after the last commit (a write cut short)", overlay.go; "the
\* overlay logs are crash-consistent", docs/executor/Standalone.md).
Loads == OnDisk.made => OnDisk.head

\* No version a tab was answered for is lost by stopping and starting the
\* server, whatever failed in between ("every upload is a new version ...
\* Each upload is appended and synced", overlay.go; "the overlay logs are crash-consistent", docs/executor/Standalone.md).
NoneLost ==
  ~Cached => store.version <= IF OnDisk.head THEN Load(OnDisk.recs).version ELSE 0
=============================================================================
