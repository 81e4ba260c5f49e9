---------------------------- MODULE OverlaySpec ----------------------------
(***************************************************************************)
(* What the overlay store promises of a key (the head of overlay.go): a    *)
(* disk's changed blocks, versioned. Every upload is a new version, all of *)
(* it or nothing, and its blocks carry it; a replace and a Revert are      *)
(* resets; a merge (or the image's removal) starts the key again at 0.     *)
(***************************************************************************)
EXTENDS Integers

VARIABLE store   \* [version, reset, blocks]; a block's version and content

NoStore == [version |-> 0, reset |-> 0, blocks |-> [n \in {} |-> 0]]

Init == store = NoStore

\* One more version: the blocks in it carry it, the others are as they were.
Upload(old, new) ==
  /\ new.version = old.version + 1
  /\ new.reset = old.reset
  /\ DOMAIN old.blocks \subseteq DOMAIN new.blocks
  /\ \A n \in DOMAIN new.blocks :
       \/ n \in DOMAIN old.blocks /\ new.blocks[n] = old.blocks[n]
       \/ new.blocks[n].v = new.version

\* A replace, or a Revert (no blocks): none of the blocks before is left.
Replace(old, new) ==
  /\ new.version = old.version + 1
  /\ new.reset = new.version
  /\ \A n \in DOMAIN new.blocks : new.blocks[n].v = new.version

\* Merged into the image, or dropped with it.
Ended(new) == new = NoStore

Next == Upload(store, store') \/ Replace(store, store') \/ Ended(store')

Spec == Init /\ [][Next]_store
=============================================================================
