----------------------------- MODULE FrameSpec -----------------------------
(***************************************************************************)
(* What the video stream promises, whatever buffers and counters carry it: *)
(* the viewers are shown whole pictures, each one the emulator published,  *)
(* in the order it published them; pictures may be skipped, but while the  *)
(* emulator runs the viewers do not stay behind.                           *)
(***************************************************************************)
EXTENDS Naturals, Sequences

CONSTANT Pictures

VARIABLES
    published,  \* the pictures the emulator published, in order
    shown,      \* how many of them the viewers are past: 0, or the index of the one shown
    running     \* the emulator runs

vars == <<published, shown, running>>

Init == published = <<>> /\ shown = 0 /\ running \in BOOLEAN

Publish ==
    /\ Len(published') = Len(published) + 1
    /\ \E p \in Pictures : published' = Append(published, p)
    /\ UNCHANGED <<shown, running>>

Show ==
    /\ shown' \in shown + 1 .. Len(published)
    /\ UNCHANGED <<published, running>>

StartOrStop ==
    /\ running' = ~running
    /\ UNCHANGED <<published, shown>>

Next == Publish \/ Show \/ StartOrStop

Spec == Init /\ [][Next]_vars /\ WF_vars(running /\ Show)
=============================================================================
