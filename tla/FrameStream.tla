---------------------------- MODULE FrameStream ----------------------------
(***************************************************************************)
(* The picture's way from the emulator child to the viewers: the child's   *)
(* tick thread copies the guest's framebuffer into one of three buffers in *)
(* shared memory (ipc/video_ipc_ppc.cpp, ipc/ipc_protocol.h); the parent's *)
(* encoder thread copies the newest one out, sends what changed since the  *)
(* frame before (drivers/video/video_encoder_thread.cpp) to the peers of   *)
(* webrtc/webrtc_server.cpp, which come and go, and copes with a child     *)
(* that is replaced. PNG or WebP, one resolution.                          *)
(*                                                                         *)
(* A picture is the two halves of the screen, Top over Bottom, as wide as  *)
(* the screen; a half's value counts the times the guest drew it. A memory *)
(* copy is one step for each half. frame_count grows for ever: from        *)
(* MaxCount on, the counts it is compared with go down instead. Two loads  *)
(* of the encoder are one step where the second could as well have been    *)
(* made at once: a count that was too new stays so.                        *)
(***************************************************************************)
EXTENDS Integers, SequencesExt

CONSTANTS
    Clients,
    Attempts,      \* the encoder's tries at a copy: 4 in the code
    MaxCount,      \* bound: frame_count
    MaxDraws,      \* bound: how often the guest draws
    MaxChildren,   \* bound: children
    MaxLaps        \* bound: copies in a row during which the child completes two frames

ASSUME FrameAssumption ==
    /\ Attempts \in Nat \ {0} /\ MaxCount \in Nat \ {0, 1}
    /\ {MaxDraws, MaxChildren, MaxLaps} \subseteq Nat

Halves == {"top", "bottom"}
Buffers == 0 .. 2
Blank == [h \in Halves |-> -1]      \* a canvas nothing was drawn on
Zeroed == [h \in Halves |-> 0]

VARIABLES
    \* the child
    fb,             \* the guest's framebuffer
    wpc,            \* where video_ipc_refresh is
    frames, write_index, ready_index, frame_count,     \* IPCBuffer
    children,       \* children started
    published,      \* the different pictures published so far
    \* the atoms of the parent
    connected,      \* ipc_shm_atom_ is not null
    replaced,       \* its address or the notify fd is not the one the encoder knows
    reset_due,      \* the start handler, if it was one, is to call reset_webrtc_peers
    g_request_keyframe,
    \* the encoder thread
    pc,
    was_connected, last_count,      \* ipc_was_connected, ipc_last_frame_count
    attempt, fc0, idx, copy,
    keyframe,       \* keyframe_requested
    have_prev, prev_frame,
    vo_fresh,       \* VideoOutput has a frame that was not released
    laps,
    \* the peers
    peer,           \* "out", "created" or in peers_
    needs_first_frame,
    canvas          \* what the browser shows

buffer  == <<frames, write_index, ready_index, frame_count>>
child   == <<fb, wpc, buffer, children, published>>
link    == <<connected, replaced, reset_due>>
seen    == <<was_connected, last_count>>
try     == <<attempt, fc0, idx, copy>>
sent    == <<have_prev, prev_frame, vo_fresh>>
peers   == <<peer, needs_first_frame, canvas>>
vars    == <<child, link, g_request_keyframe, pc, seen, try, keyframe, sent, laps, peers>>

Init ==
    /\ fb = Zeroed /\ wpc = "top"
    /\ frames = [b \in Buffers |-> Zeroed]
    /\ write_index = 0 /\ ready_index = 0 /\ frame_count = 0
    /\ children = 1 /\ published = <<>>
    /\ connected = TRUE /\ replaced = FALSE /\ reset_due = FALSE
    /\ g_request_keyframe = FALSE
    /\ pc = "idle"
    /\ was_connected = FALSE /\ last_count = 0
    /\ attempt = 0 /\ fc0 = 0 /\ idx = 0 /\ copy = Blank
    /\ keyframe = FALSE
    /\ have_prev = FALSE /\ prev_frame = Blank /\ vo_fresh = FALSE
    /\ laps = 0
    /\ peer = [c \in Clients |-> "out"]
    /\ needs_first_frame = [c \in Clients |-> TRUE]
    /\ canvas = [c \in Clients |-> Blank]

(***************************************************************************)
(* The child: the guest draws, the tick thread refreshes.                  *)
(***************************************************************************)
Draw(h) ==
    /\ connected
    /\ fb["top"] + fb["bottom"] < MaxDraws + 2 * (children - 1)
    /\ fb' = [fb EXCEPT ![h] = @ + 1]
    /\ UNCHANGED <<wpc, buffer, children, published, link, g_request_keyframe, pc, seen,
                   try, keyframe, sent, laps, peers>>

\* video_ipc_refresh copies a half into frames[write_index].
Refresh(h, next) ==
    /\ connected
    /\ wpc = h
    /\ frames' = [frames EXCEPT ![write_index][h] = fb[h]]
    /\ wpc' = next
    /\ UNCHANGED <<fb, write_index, ready_index, frame_count, children, published, link,
                   g_request_keyframe, pc, seen, try, keyframe, sent, laps, peers>>

\* Mutant: the write index is not taken modulo the number of buffers.
FrameReadyPast ==
    /\ connected
    /\ wpc = "ready"
    /\ ready_index' = write_index
    /\ write_index' = write_index + 1
    /\ published' = Append(published, frames[write_index])
    /\ wpc' = "count"
    /\ UNCHANGED <<fb, frames, frame_count, children, link, g_request_keyframe, pc, seen,
                   try, keyframe, sent, laps, peers>>

\* ipc_frame_complete: the indices,
FrameReady ==
    /\ connected
    /\ wpc = "ready"
    /\ ready_index' = write_index
    /\ write_index' = (write_index + 1) % 3
    /\ published' = IF published # <<>> /\ Last(published) = frames[write_index]
                    THEN published ELSE Append(published, frames[write_index])
    /\ wpc' = "count"
    /\ UNCHANGED <<fb, frames, frame_count, children, link, g_request_keyframe, pc, seen,
                   try, keyframe, sent, laps, peers>>

\* ... then the count. The encoder's counts are kept relative to it.
Copying == pc \in {"copy_top", "copy_bottom", "fc1"}
Less(n) == IF n = 0 THEN 0 ELSE n - 1

FrameCounted ==
    /\ connected
    /\ wpc = "count"
    /\ IF frame_count = MaxCount
       THEN last_count' = Less(last_count) /\ fc0' = Less(fc0) /\ UNCHANGED frame_count
       ELSE frame_count' = frame_count + 1 /\ UNCHANGED <<last_count, fc0>>
    /\ IF Copying /\ frame_count - fc0 = 1
       THEN laps < MaxLaps /\ laps' = laps + 1
       ELSE UNCHANGED laps
    /\ wpc' = "top"
    /\ UNCHANGED <<fb, frames, write_index, ready_index, children, published, link,
                   g_request_keyframe, pc, was_connected, attempt, idx, copy,
                   keyframe, sent, peers>>

(***************************************************************************)
(* A child stops, and a new one starts with a zeroed IPCBuffer, perhaps at *)
(* the same address and with the same fd. disconnect() waits for the       *)
(* encoder's shared lock.                                                  *)
(***************************************************************************)
Stop ==
    /\ connected
    /\ children < MaxChildren
    /\ connected' = FALSE
    /\ UNCHANGED <<child, replaced, reset_due, g_request_keyframe, pc, seen, try,
                   keyframe, sent, laps, peers>>

LockHeld == pc \notin {"idle", "wait"} /\ was_connected

Start(same) ==
    /\ ~connected
    /\ ~LockHeld
    /\ fb' = [h \in Halves |-> fb[h] + 1]
    /\ wpc' = "top"
    /\ frames' = [b \in Buffers |-> Zeroed]
    /\ write_index' = 0 /\ ready_index' = 0 /\ frame_count' = 0
    /\ children' = children + 1
    /\ connected' = TRUE /\ replaced' = (~same /\ was_connected) /\ reset_due' = TRUE
    /\ UNCHANGED <<published, g_request_keyframe, pc, seen, try, keyframe, sent, laps,
                   peers>>

(***************************************************************************)
(* The encoder thread's loop.                                              *)
(***************************************************************************)
\* Phase 1, without the lock: reset_for_new_child if it notices one.
NoticeChild ==
    /\ pc = "idle"
    /\ connected
    /\ IF ~was_connected \/ replaced
       THEN last_count' = 0 /\ have_prev' = FALSE /\ g_request_keyframe' = TRUE
       ELSE UNCHANGED <<last_count, have_prev, g_request_keyframe>>
    /\ was_connected' = TRUE /\ replaced' = FALSE
    /\ pc' = "wait"
    /\ UNCHANGED <<child, connected, reset_due, try, keyframe, prev_frame, vo_fresh, laps, peers>>

\* Phase 2, with the shared lock from here to the loop's end.
LockLosesChild ==
    /\ pc = "wait"
    /\ ~connected
    /\ was_connected' = FALSE
    /\ pc' = "idle"
    /\ UNCHANGED <<child, link, g_request_keyframe, last_count, try,
                   keyframe, sent, laps, peers>>

\* ... a new frame is there, and the first attempt reads the count again.
LockAndCompare ==
    /\ pc = "wait"
    /\ connected
    /\ LET restarted == frame_count < last_count
           last      == IF restarted THEN 0 ELSE last_count
       IN  /\ IF restarted
              THEN have_prev' = FALSE /\ g_request_keyframe' = TRUE
              ELSE UNCHANGED <<have_prev, g_request_keyframe>>
           /\ IF frame_count <= last
              THEN last_count' = last /\ pc' = "idle" /\ UNCHANGED <<attempt, fc0>>
              ELSE last_count' = frame_count /\ pc' = "copy_top" /\ attempt' = 1
                   /\ fc0' = frame_count
    /\ UNCHANGED <<child, link, was_connected, idx, copy, keyframe, prev_frame,
                   vo_fresh, laps, peers>>

\* The attempt reads ready_index and copies the frame, half by half.
CopyTop ==
    /\ pc = "copy_top"
    /\ idx' = ready_index
    /\ copy' = [copy EXCEPT !["top"] = frames[ready_index]["top"]]
    /\ pc' = "copy_bottom"
    /\ UNCHANGED <<child, link, g_request_keyframe, seen, attempt, fc0, keyframe, sent, laps,
                   peers>>

CopyBottom ==
    /\ pc = "copy_bottom"
    /\ copy' = [copy EXCEPT !["bottom"] = frames[idx]["bottom"]]
    /\ pc' = "fc1"
    /\ UNCHANGED <<child, link, g_request_keyframe, seen, attempt, fc0, idx, keyframe, sent,
                   laps, peers>>

\* Mutant: three buffers are taken to last for three frames.
KeepsLappedCopy == frame_count - fc0 < 3

\* fc1: the copy is good if fewer than two frames were completed meanwhile,
\* and VideoOutput gets it; else once more, or give up.
KeepsCopy == frame_count - fc0 < 2

TakeKeyframeFlag ==
    /\ keyframe' = g_request_keyframe
    /\ g_request_keyframe' = FALSE
    /\ pc' = "send"

KeepCopy ==
    /\ pc = "fc1"
    /\ KeepsCopy
    /\ last_count' = fc0
    /\ attempt' = 0 /\ fc0' = 0 /\ idx' = 0 /\ laps' = 0
    /\ vo_fresh' = TRUE
    /\ TakeKeyframeFlag
    /\ UNCHANGED <<child, link, was_connected, copy, have_prev, prev_frame,
                   peers>>

DropCopy ==
    /\ pc = "fc1"
    /\ ~KeepsCopy
    /\ IF attempt < Attempts
       THEN last_count' = fc0 /\ pc' = "copy_top" /\ attempt' = attempt + 1 /\ fc0' = frame_count
       ELSE last_count' = fc0 /\ pc' = "idle" /\ attempt' = 0 /\ fc0' = 0
    /\ idx' = 0 /\ copy' = Blank
    /\ UNCHANGED <<child, link, g_request_keyframe, was_connected, keyframe,
                   sent, laps, peers>>

\* No child: the frame VideoOutput has, if it was not released, is the one
\* the encoder submitted last.
TakeFromVideoOutput ==
    /\ pc = "idle"
    /\ ~connected
    /\ was_connected' = FALSE
    /\ IF vo_fresh
       THEN copy' = prev_frame /\ TakeKeyframeFlag
       ELSE UNCHANGED <<copy, pc, keyframe, g_request_keyframe>>
    /\ UNCHANGED <<child, link, last_count, attempt, fc0, idx, sent, laps,
                   peers>>

\* compute_dirty_rect, or the whole screen
Rect ==
    IF have_prev /\ ~keyframe
    THEN {h \in Halves : copy[h] # prev_frame[h]}
    ELSE Halves

\* send_video_frame: a peer that has not seen a full frame takes a rect at
\* the top left as wide as the screen for one, and asks for one otherwise.
SendVideoFrame(rect) ==
    LET in == {c \in Clients : peer[c] = "in"}
    IN  /\ canvas' = [c \in Clients |->
                        IF c \in in
                        THEN [h \in Halves |-> IF h \in rect THEN copy[h] ELSE canvas[c][h]]
                        ELSE canvas[c]]
        /\ needs_first_frame' = [c \in Clients |->
                        needs_first_frame[c] /\ ~(c \in in /\ "top" \in rect)]
        /\ g_request_keyframe' =
              (g_request_keyframe \/ \E c \in in : needs_first_frame[c] /\ "top" \notin rect)
        /\ UNCHANGED peer

\* Mutant: the frame kept for the next diff is the one in the SHM by now.
SendKeepsNewest ==
    /\ pc = "send"
    /\ IF Rect = {}
       THEN UNCHANGED <<peers, g_request_keyframe>>
       ELSE SendVideoFrame(Rect)
    /\ prev_frame' = frames[ready_index]
    /\ have_prev' = TRUE
    /\ vo_fresh' = (vo_fresh /\ was_connected)
    /\ copy' = Blank /\ keyframe' = FALSE
    /\ pc' = "idle"
    /\ UNCHANGED <<child, link, seen, attempt, fc0, idx, laps>>

\* The frame is sent unless nothing changed, and kept for the next diff. One
\* that came from VideoOutput, without a child, is released.
Send ==
    /\ pc = "send"
    /\ IF Rect = {}
       THEN UNCHANGED <<peers, g_request_keyframe>>
       ELSE SendVideoFrame(Rect)
    /\ prev_frame' = copy
    /\ have_prev' = TRUE
    /\ vo_fresh' = (vo_fresh /\ was_connected)
    /\ copy' = Blank /\ keyframe' = FALSE
    /\ pc' = "idle"
    /\ UNCHANGED <<child, link, seen, attempt, fc0, idx, laps>>

(***************************************************************************)
(* The peers.                                                              *)
(***************************************************************************)
\* create_peer_connection, for PNG and WebP,
CreatePeer(c) ==
    /\ peer[c] = "out"
    /\ peer' = [peer EXCEPT ![c] = "created"]
    /\ g_request_keyframe' = TRUE
    /\ UNCHANGED <<child, link, pc, seen, try, keyframe, sent, laps, needs_first_frame,
                   canvas>>

\* ... then peers_[peer_id] = peer.
AddPeer(c) ==
    /\ peer[c] = "created"
    /\ peer' = [peer EXCEPT ![c] = "in"]
    /\ UNCHANGED <<child, link, g_request_keyframe, pc, seen, try, keyframe, sent, laps,
                   needs_first_frame, canvas>>

RemovePeer(c) ==
    /\ peer[c] = "in"
    /\ peer' = [peer EXCEPT ![c] = "out"]
    /\ needs_first_frame' = [needs_first_frame EXCEPT ![c] = TRUE]
    /\ canvas' = [canvas EXCEPT ![c] = Blank]
    /\ UNCHANGED <<child, link, g_request_keyframe, pc, seen, try, keyframe, sent, laps>>

ResetPeerState ==
    /\ reset_due
    /\ reset_due' = FALSE
    /\ needs_first_frame' = [c \in Clients |-> TRUE]
    /\ UNCHANGED <<child, connected, replaced, g_request_keyframe, pc, seen, try,
                   keyframe, sent, laps, peer, canvas>>

-----------------------------------------------------------------------------
Child == Refresh("top", "bottom") \/ Refresh("bottom", "ready") \/ FrameReady \/ FrameCounted

Encoder ==
    \/ NoticeChild \/ TakeFromVideoOutput \/ LockLosesChild \/ LockAndCompare
    \/ CopyTop \/ CopyBottom \/ KeepCopy \/ DropCopy \/ Send

Peers == \E c \in Clients : CreatePeer(c) \/ AddPeer(c) \/ RemovePeer(c)

Next ==
    \/ \E h \in Halves : Draw(h)
    \/ Child
    \/ Stop
    \/ \E same \in BOOLEAN : Start(same)
    \/ Encoder
    \/ Peers
    \/ ResetPeerState

(***************************************************************************)
(* The tick thread refreshes 60 times a second, changed or not, and the    *)
(* encoder's waits have timeouts. The guest and the viewers do as they     *)
(* like, but a connect handler that created a peer adds it.                *)
(***************************************************************************)
Fairness ==
    /\ WF_vars(Child) /\ WF_vars(Encoder)
    /\ \A c \in Clients : WF_vars(AddPeer(c))

Spec == Init /\ [][Next]_vars /\ Fairness

-----------------------------------------------------------------------------
Values == -1 .. MaxDraws + MaxChildren
TypeOK ==
    /\ fb \in [Halves -> Nat] /\ frames \in [Buffers -> [Halves -> Values]]
    /\ wpc \in Halves \cup {"ready", "count"}
    /\ {write_index, ready_index, idx} \subseteq Buffers
    /\ {frame_count, last_count, fc0} \subseteq 0 .. MaxCount
    /\ pc \in {"idle", "wait", "copy_top", "copy_bottom", "fc1", "send"}
    /\ attempt \in 0 .. Attempts
    /\ copy \in [Halves -> Values] /\ prev_frame \in [Halves -> Values]
    /\ peer \in [Clients -> {"out", "created", "in"}]
    /\ needs_first_frame \in [Clients -> BOOLEAN]
    /\ canvas \in [Clients -> [Halves -> Values]]
    /\ {connected, replaced, reset_due, g_request_keyframe, was_connected, keyframe, have_prev,
        vo_fresh} \subseteq BOOLEAN

\* What a viewer sees of the screen is what the encoder takes it to see: the
\* part of the canvas that was ever drawn is the frame the next one is
\* compared with, so that no change is left out for good.
CanvasIsPrev ==
    \A c \in Clients, h \in Halves :
        canvas[c][h] # -1 => canvas[c][h] = prev_frame[h]

\* The stream is FrameSpec's: the encoder sends whole pictures in the order
\* the child published them, each another one, and, as long as the child
\* runs, it does not stay behind the last.
shown == SelectInSeq(published, LAMBDA p : p = prev_frame)
Stream ==
    INSTANCE FrameSpec WITH
        Pictures  <- [Halves -> Values],
        published <- published,
        shown     <- shown,
        running   <- connected
ShowsWhatIsPublished == Stream!Spec

\* The comment in process_signaling: frames start flowing as soon as the
\* encoder has one ready; a peer in peers_ gets a picture of the whole screen.
PeerGetsPicture ==
    \A c \in Clients :
        peer[c] = "in" ~> peer[c] # "in" \/ \A h \in Halves : canvas[c][h] # -1
=============================================================================
