----------------------------- MODULE OverlayLog -----------------------------
(***************************************************************************)
(* The log file of a disk's overlay (executor/server/overlay.go): its      *)
(* records, what load makes of them, what a commit adds to it and what     *)
(* maybeCompact writes in its place. Offsets are record positions: every   *)
(* record is appended and dropped whole (a record cut short at the end of  *)
(* the file reads as one that is not there).                               *)
(***************************************************************************)
EXTENDS Integers, Sequences, FiniteSets, SequencesExt

\* The records: a block's number, version and content; the overlay's name;
\* the version, and the reset version after it.
Block(n, v, d) == [kind |-> "block", n |-> n, v |-> v, d |-> d]
Meta(name)     == [kind |-> "meta", name |-> name]
Commit(v, r)   == [kind |-> "commit", v |-> v, reset |-> r]

Empty == [b \in {} |-> 0]

\* What the server keeps of a log in memory (the fields of struct overlay
\* that load fills in). index: where each block's content is, and its version.
NoBook == [version |-> 0, reset |-> 0, name |-> "", index |-> Empty,
           dead |-> 0, end |-> 0]

BlocksOf(recs) == {i \in DOMAIN recs : recs[i].kind = "block"}

\* The blocks of recs, which begin after position `at`, entered into the
\* index in order: a block that was there is superseded.
Enter(book, recs, at) ==
  LET names == {recs[i].n : i \in BlocksOf(recs)}
      newest(n) == Max({i \in BlocksOf(recs) : recs[i].n = n})
      place(i) == [v |-> recs[i].v, off |-> at + i]
  IN  [book EXCEPT
         !.index = [n \in DOMAIN @ \cup names |->
                      IF n \in names THEN place(newest(n)) ELSE @[n]],
         !.dead  = @ + Cardinality(BlocksOf(recs))
                     - Cardinality(names \ DOMAIN book.index)]

\* The overlay's name after records: the last one given, if one is.
Named(name, recs) ==
  LET metas == {i \in DOMAIN recs : recs[i].kind = "meta"}
  IN  IF metas = {} THEN name ELSE recs[Max(metas)].name

\* A reset: the blocks before it are all superseded.
DropBlocks(book) ==
  [book EXCEPT !.dead = @ + Cardinality(DOMAIN book.index), !.index = Empty]

\* load: the book of a log. Its loop enters the records of a commit when it
\* comes to it, having dropped the blocks before if the commit's reset is
\* another than the last one's; so the blocks that count are those after the
\* commit before the last such one, up to the last commit. What follows that
\* (a write cut short) is cut off.
Load(log) ==
  LET commits == {i \in DOMAIN log : log[i].kind = "commit"}
      before(i) == Max({j \in commits : j < i} \cup {0})
      resetAt(i) == IF i = 0 THEN 0 ELSE log[i].reset
      resets == {i \in commits : resetAt(i) # resetAt(before(i))}
      from == IF resets = {} THEN 0 ELSE before(Max(resets))
      end  == Max(commits \cup {0})
      seen == SubSeq(log, 1, end)
      old  == Cardinality(BlocksOf(SubSeq(log, 1, from)))
  IN  IF end = 0 THEN NoBook
      ELSE Enter([version |-> log[end].v, reset |-> log[end].reset, end |-> end,
                  name |-> Named("", seen), index |-> Empty, dead |-> old],
                 SubSeq(log, from + 1, end), from)

\* The book after commit has appended recs and a commit of version v.
Committed(book, recs, v, replace) ==
  LET kept == IF replace THEN DropBlocks(book) ELSE book
  IN  [Enter(kept, recs, book.end) EXCEPT
         !.name    = Named(@, recs),
         !.end     = @ + Len(recs) + 1,
         !.version = v,
         !.reset   = IF replace THEN v ELSE @]

\* Mutant: the commit before the records it is of.
CommitRecordsFirst(book, recs, v, replace) ==
  <<Commit(v, IF replace THEN v ELSE book.reset)>> \o recs

\* The records commit writes: recs, then the commit.
CommitRecords(book, recs, v, replace) ==
  Append(recs, Commit(v, IF replace THEN v ELSE book.reset))

Junk == -2

\* The content at a place of a log (anything else there is not a block's).
ReadAt(log, off) ==
  IF off \in DOMAIN log /\ log[off].kind = "block" THEN log[off].d ELSE Junk

\* Mutant: the reset version is forgotten.
CompactCommitAnew(book) == Commit(book.version, 0)

\* The commit of a compacted file.
CompactCommit(book) == Commit(book.version, book.reset)

\* The block numbers S in order.
InOrder(S) ==
  CHOOSE s \in [1 .. Cardinality(S) -> S] : \A i, j \in DOMAIN s : i < j => s[i] < s[j]

\* maybeCompact's file: the name, the live blocks with the versions they
\* have, one commit; and its book.
Compacted(book, log) ==
  LET numbers == InOrder(DOMAIN book.index)
      head    == IF book.name = "" THEN <<>> ELSE <<Meta(book.name)>>
      blocks  == [k \in DOMAIN numbers |->
                    LET e == book.index[numbers[k]]
                    IN  Block(numbers[k], e.v, ReadAt(log, e.off))]
      recs    == head \o blocks
  IN  [log  |-> Append(recs, CompactCommit(book)),
       book |-> Enter([book EXCEPT !.index = Empty, !.dead = 0, !.end = Len(recs) + 1],
                      recs, 0)]
=============================================================================
