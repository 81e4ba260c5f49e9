------------------------- MODULE FrameStreamProofs --------------------------
(***************************************************************************)
(* FrameStream for any number of viewers, frames, children and attempts:   *)
(* a viewer's canvas is what the encoder takes it to be, and the encoder   *)
(* sends whole pictures in the order the child published them, so that     *)
(* every step is one of FrameSpec's.                                       *)
(***************************************************************************)
EXTENDS FrameStream, SequenceTheorems, TLAPS

\* How often the guest can have drawn: a child draws MaxDraws times at most,
\* and each one's first picture is another.
ChildInv ==
  /\ children \in Nat \ {0} /\ children - 1 <= MaxChildren
  /\ ~connected => children < MaxChildren
  /\ fb["top"] + fb["bottom"] <= MaxDraws + 2 * (children - 1)
  /\ \A h \in Halves : children - 1 <= fb[h]

\* The pictures are published in the order they were drawn, each once.
PubInv ==
  /\ published \in Seq([Halves -> Values])
  /\ \A i \in 1 .. Len(published), h \in Halves : published[i][h] \in 0 .. fb[h]
  /\ \A i, j \in 1 .. Len(published) :
       i < j => /\ \A h \in Halves : published[i][h] <= published[j][h]
                /\ published[i] # published[j]

\* The half p of a picture is as new as the last one published.
AsNew(p, h) ==
  /\ p[h] \in 0 .. fb[h]
  /\ published # <<>> => published[Len(published)][h] <= p[h]

\* What is copied of the next picture is newer than the last one; and once a
\* child has made a picture ready, that one is in its buffer, and the next is
\* written to another.
WriteInv ==
  /\ wpc \in {"bottom", "ready"} => AsNew(frames[write_index], "top")
  /\ wpc = "ready" => AsNew(frames[write_index], "bottom")
  /\ wpc = "count" \/ frame_count > 0 =>
       /\ published # <<>> /\ write_index = (ready_index + 1) % 3
       /\ frames[ready_index] = published[Len(published)]

\* A picture p of those in pub, and not before prev, if there was one.
Follows(pub, prev, p) ==
  \E j \in 1 .. Len(pub) : p = pub[j] /\ (prev = Blank \/ \E i \in 1 .. j : prev = pub[i])

\* The buffer the encoder copies from is not the one that is written, unless
\* two more frames have been counted: the child is at the first after it, at
\* the second, which is counted as one more, or done with the second.
CopyInv ==
  /\ pc \in {"wait", "copy_top", "copy_bottom", "fc1"} => was_connected
  /\ Copying => frame_count > 0 /\ fc0 <= frame_count
  /\ pc \in {"copy_bottom", "fc1"} /\ KeepsCopy =>
       /\ \/ write_index = (idx + 1) % 3
          \/ write_index = (idx + 2) % 3 /\ (frame_count = fc0 => wpc = "count")
          \/ write_index = idx /\ wpc = "count" /\ frame_count = fc0 + 1
       /\ Follows(published, prev_frame, frames[idx])
       /\ copy["top"] = frames[idx]["top"]
       /\ pc = "fc1" => copy["bottom"] = frames[idx]["bottom"]
  /\ pc = "send" => copy = prev_frame \/ Follows(published, prev_frame, copy)
  /\ prev_frame = Blank \/ \E i \in 1 .. Len(published) : prev_frame = published[i]

\* Who is not in peers_ shows nothing.
CanvasInv ==
  /\ CanvasIsPrev
  /\ \A c \in Clients : peer[c] # "in" => canvas[c] = Blank

\* The inductive invariant.
Inv == TypeOK /\ ChildInv /\ PubInv /\ WriteInv /\ CopyInv /\ CanvasInv

-----------------------------------------------------------------------------
\* The buffers after one of the three.
LEMMA ThreeBuffers ==
  ASSUME NEW x \in Buffers
  PROVE  /\ (x + 1) % 3 = (IF x = 2 THEN 0 ELSE x + 1) /\ (x + 1) % 3 \in Buffers
         /\ (x + 2) % 3 = (IF x = 0 THEN 2 ELSE x - 1) /\ (x + 2) % 3 \in Buffers
         /\ (x + 1) % 3 # x /\ (x + 2) % 3 # x
         /\ (((x + 1) % 3) + 1) % 3 = (x + 2) % 3 /\ (((x + 2) % 3) + 1) % 3 = x
  BY DEF Buffers

\* The last of a sequence with one more.
LEMMA LastAppended ==
  ASSUME NEW S, NEW s \in Seq(S), NEW e \in S
  PROVE  Append(s, e) # <<>> /\ Append(s, e)[Len(Append(s, e))] = e
  OBVIOUS

\* What the guest has drawn is a value of a picture.
LEMMA DrawnIsValue ==
  ASSUME TypeOK, ChildInv
  PROVE  \A h \in Halves : fb[h] \in Values
  BY FrameAssumption DEF TypeOK, ChildInv, Halves, Values

\* A canvas nothing was drawn on, and a buffer nothing was written to.
LEMMA PlainPictures == Blank \in [Halves -> Values] /\ Zeroed \in [Halves -> Values]
  BY FrameAssumption DEF Blank, Zeroed, Values

\* A picture's values are numbers.
LEMMA ValuesAreInts == \A p \in [Halves -> Values], h \in Halves : p[h] \in Int
  BY FrameAssumption DEF Values

\* Pictures are the same if both halves are.
LEMMA SamePicture ==
  ASSUME NEW S, NEW p \in [Halves -> S], NEW q \in [Halves -> S],
         p["top"] = q["top"], p["bottom"] = q["bottom"]
  PROVE  p = q
  BY DEF Halves

\* Every step keeps the types.
LEMMA TypeStep == TypeOK /\ ChildInv /\ [Next]_vars => TypeOK'
<1> SUFFICES ASSUME TypeOK, ChildInv, [Next]_vars PROVE TypeOK'
  OBVIOUS
<1> USE FrameAssumption DEF TypeOK, buffer, child, link, seen, try, sent, peers
<1>1. ASSUME NEW h \in Halves, Draw(h) PROVE TypeOK'
  BY <1>1 DEF Draw
<1>2. CASE Refresh("top", "bottom")
  <2>1. frames' \in [Buffers -> [Halves -> Values]]
    BY <1>2, DrawnIsValue DEF Refresh, Halves
  <2> QED
    BY <1>2, <2>1 DEF Refresh, Halves
<1>3. CASE Refresh("bottom", "ready")
  <2>1. frames' \in [Buffers -> [Halves -> Values]]
    BY <1>3, DrawnIsValue DEF Refresh, Halves
  <2> QED
    BY <1>3, <2>1 DEF Refresh, Halves
<1>4. CASE FrameReady
  <2>1. write_index' \in Buffers /\ ready_index' \in Buffers
    BY <1>4, ThreeBuffers DEF FrameReady
  <2> QED
    BY <1>4, <2>1 DEF FrameReady
<1>5. CASE FrameCounted
  <2>a. \A n \in 0 .. MaxCount : Less(n) \in 0 .. MaxCount /\ (n # MaxCount => n + 1 \in 0 .. MaxCount)
    BY DEF Less
  <2>b. {frame_count, last_count, fc0} \subseteq 0 .. MaxCount
    OBVIOUS
  <2>1. {frame_count', last_count', fc0'} \subseteq 0 .. MaxCount
    BY <1>5, <2>a, <2>b DEF FrameCounted
  <2>2. wpc' = "top"
    BY <1>5 DEF FrameCounted
  <2> QED
    BY <1>5, <2>1, <2>2 DEF FrameCounted, Halves
<1>6. CASE Stop
  BY <1>6 DEF Stop
<1>7. ASSUME NEW same \in BOOLEAN, Start(same) PROVE TypeOK'
  <2>1. fb' \in [Halves -> Nat]
    BY <1>7 DEF Start
  <2>2. frames' \in [Buffers -> [Halves -> Values]] /\ {write_index', ready_index', idx'} \subseteq Buffers
    BY <1>7, PlainPictures DEF Start, Buffers
  <2>3. {connected', replaced', reset_due', g_request_keyframe', was_connected', keyframe',
        have_prev', vo_fresh'} \subseteq BOOLEAN
    BY <1>7 DEF Start
  <2>4. {frame_count', last_count', fc0'} \subseteq 0 .. MaxCount
    BY <1>7 DEF Start
  <2> QED
    BY <1>7, <2>1, <2>2, <2>3, <2>4 DEF Start, Halves
<1>8. CASE NoticeChild
  <2>1. {connected', replaced', reset_due', g_request_keyframe', was_connected', keyframe',
        have_prev', vo_fresh'} \subseteq BOOLEAN
    BY <1>8 DEF NoticeChild
  <2>2. {frame_count', last_count', fc0'} \subseteq 0 .. MaxCount
    BY <1>8 DEF NoticeChild
  <2> QED
    BY <1>8, <2>1, <2>2 DEF NoticeChild
<1>9. CASE TakeFromVideoOutput
  BY <1>9 DEF TakeFromVideoOutput, TakeKeyframeFlag
<1>10. CASE LockLosesChild
  BY <1>10 DEF LockLosesChild
<1>11. CASE LockAndCompare
  <2>1. {connected', replaced', reset_due', g_request_keyframe', was_connected', keyframe',
        have_prev', vo_fresh'} \subseteq BOOLEAN
    BY <1>11 DEF LockAndCompare
  <2>2. {frame_count', last_count', fc0'} \subseteq 0 .. MaxCount
    BY <1>11 DEF LockAndCompare
  <2>3. attempt' \in 0 .. Attempts
    BY <1>11 DEF LockAndCompare
  <2>4. pc' \in {"idle", "copy_top"}
    BY <1>11 DEF LockAndCompare
  <2> QED
    BY <1>11, <2>1, <2>2, <2>3, <2>4 DEF LockAndCompare
<1>12. CASE CopyTop
  BY <1>12 DEF CopyTop
<1>13. CASE CopyBottom
  BY <1>13 DEF CopyBottom
<1>14. CASE KeepCopy
  <2>1. {connected', replaced', reset_due', g_request_keyframe', was_connected', keyframe',
        have_prev', vo_fresh'} \subseteq BOOLEAN
    BY <1>14 DEF KeepCopy, TakeKeyframeFlag
  <2>2. {frame_count', last_count', fc0'} \subseteq 0 .. MaxCount
    BY <1>14 DEF KeepCopy
  <2>3. idx' \in Buffers /\ attempt' \in 0 .. Attempts
    BY <1>14 DEF KeepCopy, Buffers
  <2> QED
    BY <1>14, <2>1, <2>2, <2>3 DEF KeepCopy, TakeKeyframeFlag
<1>15. CASE DropCopy
  <2>1. {frame_count', last_count', fc0'} \subseteq 0 .. MaxCount
    BY <1>15 DEF DropCopy
  <2>2. idx' \in Buffers /\ attempt' \in 0 .. Attempts
    BY <1>15 DEF DropCopy, Buffers
  <2>3. pc' \in {"idle", "copy_top"}
    BY <1>15 DEF DropCopy
  <2>4. copy' \in [Halves -> Values]
    BY <1>15, PlainPictures DEF DropCopy
  <2> QED
    BY <1>15, <2>1, <2>2, <2>3, <2>4 DEF DropCopy
<1>16. CASE Send
  <2>1. {connected', replaced', reset_due', g_request_keyframe', was_connected', keyframe',
        have_prev', vo_fresh'} \subseteq BOOLEAN
    BY <1>16 DEF Send, SendVideoFrame
  <2>2. canvas' \in [Clients -> [Halves -> Values]]
    BY <1>16 DEF Send, SendVideoFrame
  <2>3. needs_first_frame' \in [Clients -> BOOLEAN]
    BY <1>16 DEF Send, SendVideoFrame
  <2>4. copy' \in [Halves -> Values] /\ prev_frame' \in [Halves -> Values]
    BY <1>16, PlainPictures DEF Send
  <2>5. UNCHANGED peer
    BY <1>16 DEF Send, SendVideoFrame
  <2> QED
    BY <1>16, <2>1, <2>2, <2>3, <2>4, <2>5 DEF Send
<1>17. ASSUME NEW c \in Clients, CreatePeer(c) PROVE TypeOK'
  BY <1>17 DEF CreatePeer
<1>18. ASSUME NEW c \in Clients, AddPeer(c) PROVE TypeOK'
  BY <1>18 DEF AddPeer
<1>19. ASSUME NEW c \in Clients, RemovePeer(c) PROVE TypeOK'
  <2>1. canvas' \in [Clients -> [Halves -> Values]]
    BY <1>19, PlainPictures DEF RemovePeer
  <2>2. needs_first_frame' \in [Clients -> BOOLEAN]
    BY <1>19 DEF RemovePeer
  <2> QED
    BY <1>19, <2>1, <2>2 DEF RemovePeer
<1>20. CASE ResetPeerState
  BY <1>20 DEF ResetPeerState
<1>21. CASE UNCHANGED vars
  BY <1>21 DEF vars
<1> QED
  BY <1>1, <1>2, <1>3, <1>4, <1>5, <1>6, <1>7, <1>8, <1>9, <1>10, <1>11, <1>12, <1>13,
     <1>14, <1>15, <1>16, <1>17, <1>18, <1>19, <1>20, <1>21
  DEF Next, Child, Encoder, Peers

\* Every step keeps to how often the guest can have drawn.
LEMMA ChildStep == TypeOK /\ ChildInv /\ [Next]_vars => ChildInv'
<1> SUFFICES ASSUME TypeOK, ChildInv, [Next]_vars PROVE ChildInv'
  OBVIOUS
<1> USE FrameAssumption DEF TypeOK, ChildInv, Halves, buffer, child, link, seen, try, sent, peers
<1>1. ASSUME NEW h \in Halves, Draw(h) PROVE ChildInv'
  <2>1. fb'["top"] + fb'["bottom"] = fb["top"] + fb["bottom"] + 1
    BY <1>1 DEF Draw
  <2>2. \A k \in Halves : fb[k] <= fb'[k]
    BY <1>1 DEF Draw
  <2>3. fb["top"] + fb["bottom"] < MaxDraws + 2 * (children - 1) /\ UNCHANGED <<children, connected>>
    BY <1>1 DEF Draw
  <2>4. fb' \in [Halves -> Nat]
    BY <1>1 DEF Draw
  <2>5. fb'["top"] + fb'["bottom"] <= MaxDraws + 2 * (children - 1)
    BY <2>1, <2>3, FrameAssumption
  <2>6. \A k \in Halves : children - 1 <= fb'[k]
    BY <2>2, <2>4
  <2> QED
    BY <2>3, <2>5, <2>6
<1>2. CASE Refresh("top", "bottom")
  BY <1>2 DEF Refresh
<1>3. CASE Refresh("bottom", "ready")
  BY <1>3 DEF Refresh
<1>4. CASE FrameReady
  BY <1>4 DEF FrameReady
<1>5. CASE FrameCounted
  BY <1>5 DEF FrameCounted
<1>6. CASE Stop
  BY <1>6 DEF Stop
<1>7. ASSUME NEW same \in BOOLEAN, Start(same) PROVE ChildInv'
  <2>1. fb'["top"] = fb["top"] + 1 /\ fb'["bottom"] = fb["bottom"] + 1
    BY <1>7 DEF Start
  <2>2. children' = children + 1 /\ connected' = TRUE /\ ~connected
    BY <1>7 DEF Start
  <2> QED
    BY <2>1, <2>2, FrameAssumption
<1>8. CASE NoticeChild
  BY <1>8 DEF NoticeChild
<1>9. CASE TakeFromVideoOutput
  BY <1>9 DEF TakeFromVideoOutput, TakeKeyframeFlag
<1>10. CASE LockLosesChild
  BY <1>10 DEF LockLosesChild
<1>11. CASE LockAndCompare
  BY <1>11 DEF LockAndCompare
<1>12. CASE CopyTop
  BY <1>12 DEF CopyTop
<1>13. CASE CopyBottom
  BY <1>13 DEF CopyBottom
<1>14. CASE KeepCopy
  BY <1>14 DEF KeepCopy, TakeKeyframeFlag
<1>15. CASE DropCopy
  BY <1>15 DEF DropCopy
<1>16. CASE Send
  BY <1>16 DEF Send
<1>17. ASSUME NEW c \in Clients, CreatePeer(c) PROVE ChildInv'
  BY <1>17 DEF CreatePeer
<1>18. ASSUME NEW c \in Clients, AddPeer(c) PROVE ChildInv'
  BY <1>18 DEF AddPeer
<1>19. ASSUME NEW c \in Clients, RemovePeer(c) PROVE ChildInv'
  BY <1>19 DEF RemovePeer
<1>20. CASE ResetPeerState
  BY <1>20 DEF ResetPeerState
<1>21. CASE UNCHANGED vars
  BY <1>21 DEF vars
<1> QED
  BY <1>1, <1>2, <1>3, <1>4, <1>5, <1>6, <1>7, <1>8, <1>9, <1>10, <1>11, <1>12, <1>13,
     <1>14, <1>15, <1>16, <1>17, <1>18, <1>19, <1>20, <1>21
  DEF Next, Child, Encoder, Peers

\* A frame that is sent changes every canvas to the one that is kept, where the
\* canvas was drawn on at all.
LEMMA CanvasStep == TypeOK /\ CanvasInv /\ [Next]_vars => CanvasInv'
<1> SUFFICES ASSUME TypeOK, CanvasInv, [Next]_vars PROVE CanvasInv'
  OBVIOUS
<1> USE DEF TypeOK, CanvasInv, CanvasIsPrev, buffer, child, link, seen, try, sent, peers
<1>1. ASSUME NEW h \in Halves, Draw(h) PROVE CanvasInv'
  BY <1>1 DEF Draw
<1>2. CASE Refresh("top", "bottom")
  BY <1>2 DEF Refresh
<1>3. CASE Refresh("bottom", "ready")
  BY <1>3 DEF Refresh
<1>4. CASE FrameReady
  BY <1>4 DEF FrameReady
<1>5. CASE FrameCounted
  BY <1>5 DEF FrameCounted
<1>6. CASE Stop
  BY <1>6 DEF Stop
<1>7. ASSUME NEW same \in BOOLEAN, Start(same) PROVE CanvasInv'
  BY <1>7 DEF Start
<1>8. CASE NoticeChild
  BY <1>8 DEF NoticeChild
<1>9. CASE TakeFromVideoOutput
  BY <1>9 DEF TakeFromVideoOutput, TakeKeyframeFlag
<1>10. CASE LockLosesChild
  BY <1>10 DEF LockLosesChild
<1>11. CASE LockAndCompare
  BY <1>11 DEF LockAndCompare
<1>12. CASE CopyTop
  BY <1>12 DEF CopyTop
<1>13. CASE CopyBottom
  BY <1>13 DEF CopyBottom
<1>14. CASE KeepCopy
  BY <1>14 DEF KeepCopy, TakeKeyframeFlag
<1>15. CASE DropCopy
  BY <1>15 DEF DropCopy
<1>16. CASE Send
  <2> SUFFICES ASSUME NEW c \in Clients
               PROVE  /\ \A h \in Halves : canvas'[c][h] # -1 => canvas'[c][h] = copy[h]
                      /\ peer'[c] # "in" => canvas'[c] = Blank
    BY <1>16 DEF Send
  <2>1. CASE Rect = {}
    <3>1. \A h \in Halves : copy[h] = prev_frame[h]
      BY <2>1 DEF Rect, Halves
    <3> QED
      BY <1>16, <2>1, <3>1 DEF Send
  <2>2. CASE Rect # {} /\ peer[c] = "in"
    <3>1. canvas'[c] = [h \in Halves |-> IF h \in Rect THEN copy[h] ELSE canvas[c][h]]
      BY <1>16, <2>2 DEF Send, SendVideoFrame
    <3>2. \A h \in Halves : h \notin Rect => copy[h] = prev_frame[h]
      BY DEF Rect
    <3>3. peer'[c] = "in"
      BY <1>16, <2>2 DEF Send, SendVideoFrame
    <3> QED
      BY <3>1, <3>2, <3>3
  <2>3. CASE Rect # {} /\ peer[c] # "in"
    <3>1. canvas'[c] = canvas[c]
      BY <1>16, <2>3 DEF Send, SendVideoFrame
    <3> QED
      BY <2>3, <3>1 DEF Blank
  <2> QED
    BY <2>1, <2>2, <2>3
<1>17. ASSUME NEW c \in Clients, CreatePeer(c) PROVE CanvasInv'
  BY <1>17 DEF CreatePeer
<1>18. ASSUME NEW c \in Clients, AddPeer(c) PROVE CanvasInv'
  BY <1>18 DEF AddPeer
<1>19. ASSUME NEW c \in Clients, RemovePeer(c) PROVE CanvasInv'
  <2>1. canvas'[c] = Blank /\ \A d \in Clients : d # c => canvas'[d] = canvas[d] /\ peer'[d] = peer[d]
    BY <1>19 DEF RemovePeer
  <2>2. UNCHANGED prev_frame
    BY <1>19 DEF RemovePeer
  <2>3. \A h \in Halves : canvas'[c][h] = -1
    BY <2>1 DEF Blank
  <2>4. ASSUME NEW d \in Clients
        PROVE  /\ \A h \in Halves : canvas'[d][h] # -1 => canvas'[d][h] = prev_frame'[h]
               /\ peer'[d] # "in" => canvas'[d] = Blank
    <3>1. CASE d = c
      BY <2>1, <2>3, <3>1
    <3>2. CASE d # c
      BY <2>1, <2>2, <3>2
    <3> QED
      BY <3>1, <3>2
  <2> QED
    BY <2>4
<1>20. CASE ResetPeerState
  BY <1>20 DEF ResetPeerState
<1>21. CASE UNCHANGED vars
  BY <1>21 DEF vars
<1> QED
  BY <1>1, <1>2, <1>3, <1>4, <1>5, <1>6, <1>7, <1>8, <1>9, <1>10, <1>11, <1>12, <1>13,
     <1>14, <1>15, <1>16, <1>17, <1>18, <1>19, <1>20, <1>21
  DEF Next, Child, Encoder, Peers

\* A longer list of pictures has what was in it, in the same order.
LEMMA FollowsAppend ==
  ASSUME NEW S, NEW pub \in Seq(S), NEW q \in S, NEW prev, NEW p, Follows(pub, prev, p)
  PROVE  Follows(Append(pub, q), prev, p)
<1> DEFINE new == Append(pub, q)
<1>1. Len(pub) \in Nat /\ Len(new) = Len(pub) + 1 /\ \A i \in 1 .. Len(pub) : new[i] = pub[i]
  OBVIOUS
<1>2. PICK j \in 1 .. Len(pub) : p = pub[j] /\ (prev = Blank \/ \E i \in 1 .. j : prev = pub[i])
  BY DEF Follows
<1> HIDE DEF new
<1>3. j \in 1 .. Len(new) /\ p = new[j] /\ \A i \in 1 .. j : new[i] = pub[i]
  BY <1>1, <1>2
<1>4. Follows(new, prev, p)
  BY <1>2, <1>3 DEF Follows
<1> QED
  BY <1>4 DEF new

\* The last picture comes after every one.
LEMMA FollowsLast ==
  ASSUME NEW S, NEW pub \in Seq(S), pub # <<>>, NEW prev,
         prev = Blank \/ \E i \in 1 .. Len(pub) : prev = pub[i]
  PROVE  Follows(pub, prev, pub[Len(pub)])
<1>1. Len(pub) \in 1 .. Len(pub)
  OBVIOUS
<1> QED
  BY <1>1 DEF Follows

\* A picture that is published is newer than those before it.
LEMMA PubStep == TypeOK /\ PubInv /\ WriteInv /\ [Next]_vars => PubInv'
<1> SUFFICES ASSUME TypeOK, PubInv, WriteInv, [Next]_vars PROVE PubInv'
  OBVIOUS
<1> USE DEF TypeOK, PubInv, buffer, child, link, seen, try, sent, peers
<1>1. ASSUME NEW h \in Halves, Draw(h) PROVE PubInv'
  <2>1. \A k \in Halves : fb[k] \in Nat /\ fb'[k] \in Nat /\ fb[k] <= fb'[k]
    BY <1>1 DEF Draw
  <2>2. UNCHANGED published
    BY <1>1 DEF Draw
  <2>3. \A i \in 1 .. Len(published), k \in Halves : published[i][k] \in 0 .. fb'[k]
    BY <2>1
  <2> QED
    BY <2>2, <2>3
<1>2. CASE Refresh("top", "bottom")
  BY <1>2 DEF Refresh
<1>3. CASE Refresh("bottom", "ready")
  BY <1>3 DEF Refresh
<1>4. CASE FrameReady
  <2> DEFINE p == frames[write_index]
             n == Len(published)
  <2>1. UNCHANGED fb /\ n \in Nat /\ p \in [Halves -> Values]
    BY <1>4 DEF FrameReady
  <2>2. \A h \in Halves : p[h] \in 0 .. fb[h] /\ (published # <<>> => published[n][h] <= p[h])
    BY <1>4 DEF FrameReady, WriteInv, AsNew, Halves
  <2>3. CASE published' = published
    BY <2>1, <2>3
  <2>4. CASE published' = Append(published, p) /\ (published # <<>> => published[n] # p)
    <3>1. published' \in Seq([Halves -> Values]) /\ Len(published') = n + 1
      BY <2>1, <2>4
    <3>2. published'[n + 1] = p /\ \A i \in 1 .. n : published'[i] = published[i]
      BY <2>1, <2>4
    <3>a. /\ \A i \in 1 .. n : published[i] \in [Halves -> Values]
          /\ \A i \in 1 .. n, h \in Halves : published[i][h] \in 0 .. fb[h]
          /\ \A i, j \in 1 .. n :
               i < j => /\ \A h \in Halves : published[i][h] <= published[j][h]
                        /\ published[i] # published[j]
      OBVIOUS
    <3>b. n > 0 => published # <<>>
      OBVIOUS
    <3> HIDE DEF p, n
    <3>c. \A i \in 1 .. n + 1 : i \in 1 .. n \/ i = n + 1
      BY <2>1
    <3>3. \A i \in 1 .. n + 1, h \in Halves : published'[i][h] \in 0 .. fb[h]
      BY <2>2, <3>2, <3>a, <3>c
    <3>4. ASSUME NEW i \in 1 .. n
          PROVE  (\A h \in Halves : published[i][h] <= p[h]) /\ published[i] # p
      <4>1. n \in 1 .. n /\ published # <<>> /\ published[n] \in [Halves -> Values] /\ published[i] \in [Halves -> Values]
        BY <2>1, <3>a, <3>b
      <4>2. \A h \in Halves : /\ published[i][h] \in Int /\ published[n][h] \in Int /\ p[h] \in Int
                              /\ published[i][h] <= published[n][h] /\ published[n][h] <= p[h]
        <5>1. ASSUME NEW h \in Halves PROVE published[i][h] \in Int /\ published[n][h] \in Int /\ p[h] \in Int
          BY <2>1, <4>1, ValuesAreInts
        <5>2. ASSUME NEW h \in Halves PROVE published[i][h] <= published[n][h]
          BY <2>1, <3>a, <4>1, <5>1
        <5> QED
          BY <2>2, <4>1, <5>1, <5>2
      <4>3. ASSUME NEW h \in Halves PROVE published[i][h] <= p[h]
        <5>1. \A x, y, z \in Int : x <= y /\ y <= z => x <= z
          OBVIOUS
        <5> QED
          BY <4>2, <5>1
      <4>4. ASSUME published[i] = p PROVE FALSE
        <5>1. \A h \in Halves : published[n][h] = p[h]
          BY <4>2, <4>4
        <5>2. published[n] = p
          BY <2>1, <4>1, <5>1, SamePicture DEF Halves
        <5> QED
          BY <2>4, <4>1, <5>2
      <4> QED
        BY <4>3, <4>4
    <3>5. ASSUME NEW i \in 1 .. n + 1, NEW j \in 1 .. n + 1, i < j
          PROVE  /\ \A h \in Halves : published'[i][h] <= published'[j][h]
                 /\ published'[i] # published'[j]
      <4>1. CASE j = n + 1
        <5>1. i \in 1 .. n
          BY <2>1, <3>5, <4>1
        <5> QED
          BY <3>2, <3>4, <4>1, <5>1
      <4>2. CASE j # n + 1
        <5>a. \A m \in Nat : \A x, y \in 1 .. m + 1 : x < y /\ y # m + 1 => x \in 1 .. m /\ y \in 1 .. m
          OBVIOUS
        <5>1. i \in 1 .. n /\ j \in 1 .. n
          BY <2>1, <3>5, <4>2, <5>a
        <5> QED
          BY <3>2, <3>5, <3>a, <5>1
      <4> QED
        BY <4>1, <4>2
    <3> QED
      BY <2>1, <3>1, <3>3, <3>5
  <2> QED
    BY <1>4, <2>3, <2>4 DEF FrameReady, Last
<1>5. CASE FrameCounted
  BY <1>5 DEF FrameCounted
<1>6. CASE Stop
  BY <1>6 DEF Stop
<1>7. ASSUME NEW same \in BOOLEAN, Start(same) PROVE PubInv'
  <2>1. \A k \in Halves : fb[k] \in Nat /\ fb'[k] \in Nat /\ fb[k] <= fb'[k]
    BY <1>7 DEF Start
  <2>2. UNCHANGED published
    BY <1>7 DEF Start
  <2>3. \A i \in 1 .. Len(published), k \in Halves : published[i][k] \in 0 .. fb'[k]
    BY <2>1
  <2> QED
    BY <2>2, <2>3
<1>8. CASE NoticeChild
  BY <1>8 DEF NoticeChild
<1>9. CASE TakeFromVideoOutput
  BY <1>9 DEF TakeFromVideoOutput, TakeKeyframeFlag
<1>10. CASE LockLosesChild
  BY <1>10 DEF LockLosesChild
<1>11. CASE LockAndCompare
  BY <1>11 DEF LockAndCompare
<1>12. CASE CopyTop
  BY <1>12 DEF CopyTop
<1>13. CASE CopyBottom
  BY <1>13 DEF CopyBottom
<1>14. CASE KeepCopy
  BY <1>14 DEF KeepCopy, TakeKeyframeFlag
<1>15. CASE DropCopy
  BY <1>15 DEF DropCopy
<1>16. CASE Send
  BY <1>16 DEF Send
<1>17. ASSUME NEW c \in Clients, CreatePeer(c) PROVE PubInv'
  BY <1>17 DEF CreatePeer
<1>18. ASSUME NEW c \in Clients, AddPeer(c) PROVE PubInv'
  BY <1>18 DEF AddPeer
<1>19. ASSUME NEW c \in Clients, RemovePeer(c) PROVE PubInv'
  BY <1>19 DEF RemovePeer
<1>20. CASE ResetPeerState
  BY <1>20 DEF ResetPeerState
<1>21. CASE UNCHANGED vars
  BY <1>21 DEF vars
<1> QED
  BY <1>1, <1>2, <1>3, <1>4, <1>5, <1>6, <1>7, <1>8, <1>9, <1>10, <1>11, <1>12, <1>13,
     <1>14, <1>15, <1>16, <1>17, <1>18, <1>19, <1>20, <1>21
  DEF Next, Child, Encoder, Peers

\* The buffer that is ready is not written to.
LEMMA WriteStep == TypeOK /\ PubInv /\ WriteInv /\ [Next]_vars => WriteInv'
<1> SUFFICES ASSUME TypeOK, PubInv, WriteInv, [Next]_vars PROVE WriteInv'
  OBVIOUS
<1> USE DEF TypeOK, WriteInv, AsNew, buffer, child, link, seen, try, sent, peers
<1>1. ASSUME NEW h \in Halves, Draw(h) PROVE WriteInv'
  <2>1. \A k \in Halves : fb[k] \in Nat /\ fb'[k] \in Nat /\ fb[k] <= fb'[k]
    BY <1>1 DEF Draw
  <2>2. \A b \in Buffers, k \in Halves : frames[b][k] \in Int
    BY DEF Values
  <2>3. UNCHANGED <<frames, write_index, ready_index, frame_count, wpc, published>>
    BY <1>1 DEF Draw
  <2>4. \A p, k : k \in Halves /\ p[k] \in 0 .. fb[k] => p[k] \in 0 .. fb'[k]
    BY <2>1
  <2> QED
    BY <2>3, <2>4 DEF Halves
<1>2. CASE Refresh("top", "bottom")
  <2>1. /\ wpc = "top" /\ wpc' = "bottom"
        /\ UNCHANGED <<fb, published, write_index, ready_index, frame_count>>
    BY <1>2 DEF Refresh
  <2>2. /\ frames'[write_index]["top"] = fb["top"]
        /\ \A h \in Halves : h # "top" => frames'[write_index][h] = frames[write_index][h]
        /\ \A x \in Buffers : x # write_index => frames'[x] = frames[x]
    BY <1>2 DEF Refresh, Halves
  <2>3. fb["top"] \in Nat /\ (published # <<>> => published[Len(published)]["top"] <= fb["top"])
    BY DEF PubInv, Halves
  <2>4. write_index = (ready_index + 1) % 3 => ready_index # write_index
    BY ThreeBuffers
  <2> QED
    BY <2>1, <2>2, <2>3, <2>4 DEF Halves
<1>3. CASE Refresh("bottom", "ready")
  <2>1. /\ wpc = "bottom" /\ wpc' = "ready"
        /\ UNCHANGED <<fb, published, write_index, ready_index, frame_count>>
    BY <1>3 DEF Refresh
  <2>2. /\ frames'[write_index]["bottom"] = fb["bottom"]
        /\ \A h \in Halves : h # "bottom" => frames'[write_index][h] = frames[write_index][h]
        /\ \A x \in Buffers : x # write_index => frames'[x] = frames[x]
    BY <1>3 DEF Refresh, Halves
  <2>3. fb["bottom"] \in Nat /\ (published # <<>> => published[Len(published)]["bottom"] <= fb["bottom"])
    BY DEF PubInv, Halves
  <2>4. write_index = (ready_index + 1) % 3 => ready_index # write_index
    BY ThreeBuffers
  <2> QED
    BY <2>1, <2>2, <2>3, <2>4 DEF Halves
<1>4. CASE FrameReady
  <2>1. wpc' = "count" /\ ready_index' = write_index /\ write_index' = (write_index + 1) % 3 /\ UNCHANGED frames
    BY <1>4 DEF FrameReady
  <2>2. published' # <<>> /\ published'[Len(published')] = frames[write_index]
    <3>1. CASE published # <<>> /\ published[Len(published)] = frames[write_index] /\ UNCHANGED published
      BY <3>1
    <3>2. CASE published' = Append(published, frames[write_index])
      <4>1. published \in Seq([Halves -> Values]) /\ frames[write_index] \in [Halves -> Values]
        BY DEF PubInv
      <4> QED
        BY <3>2, <4>1, LastAppended
    <3> QED
      BY <1>4, <3>1, <3>2 DEF FrameReady, Last
  <2> QED
    BY <2>1, <2>2
<1>5. CASE FrameCounted
  <2>1. wpc = "count" /\ wpc' = "top" /\ UNCHANGED <<frames, write_index, ready_index, published>>
    BY <1>5 DEF FrameCounted
  <2> QED
    BY <2>1
<1>6. CASE Stop
  BY <1>6 DEF Stop
<1>7. ASSUME NEW same \in BOOLEAN, Start(same) PROVE WriteInv'
  <2>1. wpc' = "top" /\ frame_count' = 0
    BY <1>7 DEF Start
  <2> QED
    BY <2>1
<1>8. CASE NoticeChild
  BY <1>8 DEF NoticeChild
<1>9. CASE TakeFromVideoOutput
  BY <1>9 DEF TakeFromVideoOutput, TakeKeyframeFlag
<1>10. CASE LockLosesChild
  BY <1>10 DEF LockLosesChild
<1>11. CASE LockAndCompare
  BY <1>11 DEF LockAndCompare
<1>12. CASE CopyTop
  BY <1>12 DEF CopyTop
<1>13. CASE CopyBottom
  BY <1>13 DEF CopyBottom
<1>14. CASE KeepCopy
  BY <1>14 DEF KeepCopy, TakeKeyframeFlag
<1>15. CASE DropCopy
  BY <1>15 DEF DropCopy
<1>16. CASE Send
  BY <1>16 DEF Send
<1>17. ASSUME NEW c \in Clients, CreatePeer(c) PROVE WriteInv'
  BY <1>17 DEF CreatePeer
<1>18. ASSUME NEW c \in Clients, AddPeer(c) PROVE WriteInv'
  BY <1>18 DEF AddPeer
<1>19. ASSUME NEW c \in Clients, RemovePeer(c) PROVE WriteInv'
  BY <1>19 DEF RemovePeer
<1>20. CASE ResetPeerState
  BY <1>20 DEF ResetPeerState
<1>21. CASE UNCHANGED vars
  BY <1>21 DEF vars
<1> QED
  BY <1>1, <1>2, <1>3, <1>4, <1>5, <1>6, <1>7, <1>8, <1>9, <1>10, <1>11, <1>12, <1>13,
     <1>14, <1>15, <1>16, <1>17, <1>18, <1>19, <1>20, <1>21
  DEF Next, Child, Encoder, Peers

\* A copy that is kept is of one picture, and not of one before the last sent.
LEMMA CopyStep == TypeOK /\ PubInv /\ WriteInv /\ CopyInv /\ [Next]_vars => CopyInv'
<1> SUFFICES ASSUME TypeOK, PubInv, WriteInv, CopyInv, [Next]_vars PROVE CopyInv'
  OBVIOUS
<1> USE DEF CopyInv, Copying, KeepsCopy, buffer, child, link, seen, try, sent, peers
<1>1. ASSUME NEW h \in Halves, Draw(h) PROVE CopyInv'
  BY <1>1 DEF Draw
<1>2. CASE Refresh("top", "bottom")
  <2>1. /\ wpc \in {"top", "bottom"} /\ wpc' # "count"
        /\ UNCHANGED <<published, write_index, frame_count, fc0, idx, pc, copy, prev_frame, was_connected>>
    BY <1>2 DEF Refresh
  <2>2. \A x \in Buffers : x # write_index => frames'[x] = frames[x]
    BY <1>2 DEF Refresh, TypeOK
  <2>3. pc \in {"copy_bottom", "fc1"} /\ KeepsCopy => idx # write_index /\ idx \in Buffers
    BY <2>1, ThreeBuffers DEF TypeOK
  <2> QED
    BY <2>1, <2>2, <2>3
<1>3. CASE Refresh("bottom", "ready")
  <2>1. /\ wpc \in {"top", "bottom"} /\ wpc' # "count"
        /\ UNCHANGED <<published, write_index, frame_count, fc0, idx, pc, copy, prev_frame, was_connected>>
    BY <1>3 DEF Refresh
  <2>2. \A x \in Buffers : x # write_index => frames'[x] = frames[x]
    BY <1>3 DEF Refresh, TypeOK
  <2>3. pc \in {"copy_bottom", "fc1"} /\ KeepsCopy => idx # write_index /\ idx \in Buffers
    BY <2>1, ThreeBuffers DEF TypeOK
  <2> QED
    BY <2>1, <2>2, <2>3
<1>4. CASE FrameReady
  <2>1. /\ wpc = "ready" /\ wpc' = "count" /\ write_index' = (write_index + 1) % 3
        /\ UNCHANGED <<frames, frame_count, fc0, idx, pc, copy, prev_frame, was_connected>>
    BY <1>4 DEF FrameReady
  <2>2. \A p : Follows(published, prev_frame, p) => Follows(published', prev_frame', p)
    BY <1>4, FollowsAppend DEF FrameReady, PubInv, TypeOK
  <2>3. prev_frame' = Blank \/ \E i \in 1 .. Len(published') : prev_frame' = published'[i]
    <3>1. CASE published' = published
      BY <2>1, <3>1
    <3>2. CASE published' = Append(published, frames[write_index])
      BY <2>1, <3>2 DEF PubInv, TypeOK
    <3> QED
      BY <1>4, <3>1, <3>2 DEF FrameReady
  <2>4. ASSUME pc \in {"copy_bottom", "fc1"}, KeepsCopy
        PROVE  \/ write_index' = (idx + 2) % 3
               \/ write_index' = idx /\ frame_count = fc0 + 1
    <3>1. idx \in Buffers /\ frame_count \in Nat /\ fc0 \in Nat
      BY DEF TypeOK
    <3>2. CASE write_index = (idx + 1) % 3
      BY <2>1, <3>1, <3>2, ThreeBuffers
    <3>3. CASE write_index = (idx + 2) % 3 /\ frame_count # fc0
      BY <2>1, <2>4, <3>1, <3>3, ThreeBuffers
    <3> QED
      BY <2>1, <2>4, <3>2, <3>3
  <2> QED
    BY <2>1, <2>2, <2>3, <2>4
<1>5. CASE FrameCounted
  <2>1. /\ wpc = "count" /\ wpc' = "top"
        /\ UNCHANGED <<frames, published, write_index, idx, pc, copy, prev_frame, was_connected>>
    BY <1>5 DEF FrameCounted
  <2>2. frame_count \in 0 .. MaxCount /\ fc0 \in 0 .. MaxCount /\ MaxCount > 1 /\ MaxCount \in Nat
    BY FrameAssumption DEF TypeOK
  <2>3. Copying => frame_count' > 0 /\ fc0' <= frame_count'
    BY <1>5, <2>2 DEF FrameCounted, Less
  <2>4. Copying /\ KeepsCopy' => frame_count = fc0 /\ frame_count' # fc0'
    BY <1>5, <2>2 DEF FrameCounted, Less
  <2>5. Copying /\ KeepsCopy' => KeepsCopy /\ frame_count # fc0 + 1
    BY <2>2, <2>4
  <2> QED
    BY <2>1, <2>3, <2>4, <2>5
<1>6. CASE Stop
  BY <1>6 DEF Stop
<1>7. ASSUME NEW same \in BOOLEAN, Start(same) PROVE CopyInv'
  <2>1. pc \notin {"copy_top", "copy_bottom", "fc1"}
    BY <1>7 DEF Start, LockHeld
  <2>2. UNCHANGED <<published, pc, copy, prev_frame, was_connected>>
    BY <1>7 DEF Start
  <2> QED
    BY <2>1, <2>2
<1>8. CASE NoticeChild
  BY <1>8 DEF NoticeChild
<1>9. CASE TakeFromVideoOutput
  BY <1>9 DEF TakeFromVideoOutput, TakeKeyframeFlag
<1>10. CASE LockLosesChild
  BY <1>10 DEF LockLosesChild
<1>11. CASE LockAndCompare
  <2>1. frame_count \in Nat /\ last_count \in Nat
    BY DEF TypeOK
  <2>2. pc = "wait" /\ UNCHANGED <<published, prev_frame, was_connected, frame_count>>
    BY <1>11 DEF LockAndCompare
  <2>3. pc' = "idle" \/ (pc' = "copy_top" /\ frame_count > 0 /\ fc0' = frame_count)
    BY <1>11, <2>1 DEF LockAndCompare
  <2> QED
    BY <2>1, <2>2, <2>3
<1>12. CASE CopyTop
  <2>1. /\ pc = "copy_top" /\ pc' = "copy_bottom" /\ idx' = ready_index
        /\ UNCHANGED <<frames, published, prev_frame, write_index, frame_count, fc0, was_connected>>
    BY <1>12 DEF CopyTop
  <2>2. copy'["top"] = frames[ready_index]["top"]
    BY <1>12 DEF CopyTop, TypeOK, Halves
  <2>3. write_index = (ready_index + 1) % 3 /\ published # <<>> /\ frames[ready_index] = published[Len(published)]
    BY <2>1 DEF WriteInv
  <2>4. Follows(published, prev_frame, frames[ready_index])
    BY <2>3, FollowsLast DEF PubInv
  <2> QED
    BY <2>1, <2>2, <2>3, <2>4
<1>13. CASE CopyBottom
  <2>1. /\ pc = "copy_bottom" /\ pc' = "fc1"
        /\ UNCHANGED <<frames, published, prev_frame, write_index, idx, frame_count, fc0, wpc, was_connected>>
    BY <1>13 DEF CopyBottom
  <2>2. copy'["bottom"] = frames[idx]["bottom"] /\ copy'["top"] = copy["top"]
    BY <1>13 DEF CopyBottom, TypeOK, Halves
  <2> QED
    BY <2>1, <2>2
<1>14. CASE KeepCopy
  <2>1. copy = frames[idx]
    BY <1>14, SamePicture DEF KeepCopy, TypeOK
  <2>2. pc' = "send" /\ UNCHANGED <<published, prev_frame, copy>>
    BY <1>14 DEF KeepCopy, TakeKeyframeFlag
  <2> QED
    BY <1>14, <2>1, <2>2 DEF KeepCopy
<1>15. CASE DropCopy
  <2>1. frame_count \in Nat /\ pc = "fc1"
    BY <1>15 DEF TypeOK, DropCopy
  <2>2. pc' = "idle" \/ (pc' = "copy_top" /\ fc0' = frame_count)
    BY <1>15 DEF DropCopy
  <2>3. UNCHANGED <<published, prev_frame, was_connected, frame_count>>
    BY <1>15 DEF DropCopy
  <2> QED
    BY <2>1, <2>2, <2>3
<1>16. CASE Send
  <2>1. pc = "send" /\ pc' = "idle" /\ prev_frame' = copy /\ UNCHANGED published
    BY <1>16 DEF Send
  <2> QED
    BY <2>1 DEF Follows
<1>17. ASSUME NEW c \in Clients, CreatePeer(c) PROVE CopyInv'
  BY <1>17 DEF CreatePeer
<1>18. ASSUME NEW c \in Clients, AddPeer(c) PROVE CopyInv'
  BY <1>18 DEF AddPeer
<1>19. ASSUME NEW c \in Clients, RemovePeer(c) PROVE CopyInv'
  BY <1>19 DEF RemovePeer
<1>20. CASE ResetPeerState
  BY <1>20 DEF ResetPeerState
<1>21. CASE UNCHANGED vars
  BY <1>21 DEF vars
<1> QED
  BY <1>1, <1>2, <1>3, <1>4, <1>5, <1>6, <1>7, <1>8, <1>9, <1>10, <1>11, <1>12, <1>13,
     <1>14, <1>15, <1>16, <1>17, <1>18, <1>19, <1>20, <1>21
  DEF Next, Child, Encoder, Peers

-----------------------------------------------------------------------------
\* The inductive invariant holds in every state.
LEMMA FrameInv == Spec => []Inv
<1>1. Init => Inv
  <2> SUFFICES ASSUME Init PROVE Inv
    OBVIOUS
  <2> USE FrameAssumption, PlainPictures DEF Init
  <2>1. TypeOK
    <3>1. {connected, replaced, reset_due, g_request_keyframe, was_connected, keyframe,
           have_prev, vo_fresh} \subseteq BOOLEAN
      OBVIOUS
    <3>2. fb \in [Halves -> Nat] /\ wpc \in Halves
      BY DEF Zeroed, Halves
    <3>3. needs_first_frame \in [Clients -> BOOLEAN]
      OBVIOUS
    <3> QED
      BY <3>1, <3>2, <3>3 DEF TypeOK, Buffers
  <2>2. ChildInv
    BY DEF ChildInv, Zeroed, Halves
  <2>3. PubInv
    BY DEF PubInv
  <2>4. WriteInv /\ CopyInv
    BY DEF WriteInv, CopyInv, Copying
  <2>5. CanvasInv
    BY DEF CanvasInv, CanvasIsPrev, Blank
  <2> QED
    BY <2>1, <2>2, <2>3, <2>4, <2>5 DEF Inv
<1>2. Inv /\ [Next]_vars => Inv'
  BY TypeStep, ChildStep, PubStep, WriteStep, CopyStep, CanvasStep DEF Inv
<1> QED
  BY <1>1, <1>2, PTL DEF Spec

\* The types of the buffers, counts and pictures, whatever the child does while
\* the encoder copies.
THEOREM FrameTypeCorrect == Spec => []TypeOK
<1>1. Inv => TypeOK
  BY DEF Inv
<1> QED
  BY <1>1, FrameInv, PTL

\* What a viewer sees is what the encoder compares the next frame with, through
\* any joins, leaves, keyframes and changes of child.
THEOREM CanvasCorrect == Spec => []CanvasIsPrev
<1>1. Inv => CanvasIsPrev
  BY DEF Inv, CanvasInv
<1> QED
  BY <1>1, FrameInv, PTL

-----------------------------------------------------------------------------
\* Where a picture is among those published, as FrameStream's shown has it.
First(pub, p) == SelectInSeq(pub, LAMBDA q : q = p)

\* A picture that is published once is where it is.
LEMMA FirstIs ==
  ASSUME NEW S, NEW pub \in Seq(S), NEW k \in 1 .. Len(pub),
         \A i, j \in 1 .. Len(pub) : i < j => pub[i] # pub[j]
  PROVE  First(pub, pub[k]) = k
<1> DEFINE I == {i \in 1 .. Len(pub) : pub[i] = pub[k]}
<1>1. I = {k}
  BY Z3
<1>2. First(pub, pub[k]) = IF I # {} THEN Min(I) ELSE 0
  BY DEF First, SelectInSeq
<1>3. Min({k}) = k
  BY DEF Min
<1> HIDE DEF I
<1> QED
  BY <1>1, <1>2, <1>3

\* One that is not is at 0.
LEMMA FirstNone ==
  ASSUME NEW pub, NEW p, \A i \in 1 .. Len(pub) : pub[i] # p
  PROVE  First(pub, p) = 0
  BY DEF First, SelectInSeq

\* Where the encoder's last picture is, in this state and the next.
LEMMA ShownIsFirst ==
  /\ shown = First(published, prev_frame)
  /\ shown' = First(published', prev_frame')
  BY DEF shown, First, SelectInSeq

\* The number of pictures the viewers are past is that of the one sent last.
LEMMA ShownIs ==
  ASSUME NEW S, NEW pub \in Seq([Halves -> S]), NEW prev,
         \A i, j \in 1 .. Len(pub) : i < j => pub[i] # pub[j],
         \A i \in 1 .. Len(pub), h \in Halves : pub[i][h] \in Nat
  PROVE  /\ prev = Blank => First(pub, prev) = 0
         /\ \A k \in 1 .. Len(pub) : prev = pub[k] => First(pub, prev) = k
<1>1. Blank["top"] \notin Nat /\ "top" \in Halves
  BY DEF Blank, Halves
<1>2. \A i \in 1 .. Len(pub) : pub[i] # Blank
  BY <1>1
<1> QED
  BY <1>2, FirstIs, FirstNone

\* Every step is one of FrameSpec's: a picture is published, a later one is
\* shown, the child starts or stops, or nothing the viewers can tell.
LEMMA StreamStep == Inv /\ Inv' /\ [Next]_vars => [Stream!Next]_(Stream!vars)
<1> SUFFICES ASSUME Inv, Inv', [Next]_vars PROVE [Stream!Next]_(Stream!vars)
  OBVIOUS
<1> USE DEF Stream!Next, Stream!vars
<1>1. /\ prev_frame = Blank => shown = 0
      /\ \A k \in 1 .. Len(published) : prev_frame = published[k] => shown = k
  <2>1. published \in Seq([Halves -> Values]) /\ \A i, j \in 1 .. Len(published) : i < j => published[i] # published[j]
    BY DEF Inv, PubInv
  <2>2. \A i \in 1 .. Len(published), h \in Halves : published[i][h] \in Nat
    BY DEF Inv, PubInv
  <2> QED
    BY <2>1, <2>2, ShownIs, ShownIsFirst
<1>2. /\ prev_frame' = Blank => shown' = 0
      /\ \A k \in 1 .. Len(published') : prev_frame' = published'[k] => shown' = k
  <2>1. published' \in Seq([Halves -> Values]) /\ \A i, j \in 1 .. Len(published') : i < j => published'[i] # published'[j]
    BY DEF Inv, PubInv, Values
  <2>2. \A i \in 1 .. Len(published'), h \in Halves : published'[i][h] \in Nat
    BY DEF Inv, PubInv
  <2> QED
    BY <2>1, <2>2, ShownIs, ShownIsFirst
<1>3. ASSUME UNCHANGED <<published, prev_frame>> PROVE shown' = shown
  BY <1>3, ShownIsFirst
<1>4. CASE FrameReady
  <2>1. UNCHANGED <<prev_frame, connected>>
    BY <1>4 DEF FrameReady, sent, link
  <2>2. CASE UNCHANGED published
    BY <1>3, <2>1, <2>2
  <2>3. CASE published' = Append(published, frames[write_index])
    <3>1. published \in Seq([Halves -> Values]) /\ frames[write_index] \in [Halves -> Values]
      BY DEF Inv, PubInv, TypeOK
    <3>2. Len(published') = Len(published) + 1 /\ \A i \in 1 .. Len(published) : published'[i] = published[i]
      BY <2>3, <3>1
    <3>3. \A i \in 1 .. Len(published) : i \in 1 .. Len(published')
      BY <3>1, <3>2
    <3>4. prev_frame = Blank \/ \E i \in 1 .. Len(published) : prev_frame = published[i]
      BY DEF Inv, CopyInv
    <3>5. shown' = shown
      BY <1>1, <1>2, <2>1, <3>2, <3>3, <3>4
    <3> QED
      BY <2>1, <2>3, <3>1, <3>2, <3>5 DEF Stream!Publish
  <2> QED
    BY <1>4, <2>2, <2>3 DEF FrameReady
<1>5. CASE Send
  <2>1. UNCHANGED <<published, connected>> /\ prev_frame' = copy /\ pc = "send"
    BY <1>5 DEF Send, child, link
  <2>2. CASE copy = prev_frame
    BY <1>3, <2>1, <2>2
  <2>3. CASE Follows(published, prev_frame, copy)
    <3>1. PICK j \in 1 .. Len(published) :
             /\ copy = published[j]
             /\ prev_frame = Blank \/ \E i \in 1 .. j : prev_frame = published[i]
      BY <2>3 DEF Follows
    <3>2. shown' = j
      BY <1>2, <2>1, <3>1
    <3>3. Len(published) \in Nat
      BY DEF Inv, PubInv
    <3>4. shown \in 0 .. j
      BY <1>1, <3>1, <3>3
    <3>5. shown' = shown \/ shown' \in shown + 1 .. Len(published)
      BY <3>2, <3>3, <3>4
    <3> QED
      BY <2>1, <3>5 DEF Stream!Show
  <2> QED
    BY <2>1, <2>2, <2>3 DEF Inv, CopyInv
<1>6. CASE Stop \/ \E same \in BOOLEAN : Start(same)
  <2>1. UNCHANGED <<published, prev_frame>> /\ connected' = ~connected
    BY <1>6 DEF Stop, Start, child, sent
  <2> QED
    BY <1>3, <2>1 DEF Stream!StartOrStop
<1>7. ASSUME UNCHANGED <<published, prev_frame, connected>> PROVE UNCHANGED <<published, shown, connected>>
  BY <1>3, <1>7
<1>8. CASE \/ \E h \in Halves : Draw(h)
           \/ Refresh("top", "bottom") \/ Refresh("bottom", "ready") \/ FrameCounted
           \/ NoticeChild \/ TakeFromVideoOutput \/ LockLosesChild \/ LockAndCompare
           \/ CopyTop \/ CopyBottom \/ KeepCopy \/ DropCopy \/ Peers \/ ResetPeerState
  <2>1. UNCHANGED <<published, prev_frame, connected>>
    BY <1>8
    DEF Draw, Refresh, FrameCounted, NoticeChild, TakeFromVideoOutput, LockLosesChild,
        LockAndCompare, CopyTop, CopyBottom, KeepCopy, DropCopy, Peers, CreatePeer, AddPeer,
        RemovePeer, ResetPeerState, child, link, sent
  <2> QED
    BY <1>7, <2>1
<1>9. CASE UNCHANGED vars
  BY <1>7, <1>9 DEF vars, child, link, sent
<1> QED
  BY <1>4, <1>5, <1>6, <1>8, <1>9 DEF Next, Child, Encoder

\* FrameStream implements FrameSpec's safety: the viewers are sent whole
\* pictures, each one the child published, none before one sent earlier, though
\* the child writes its three buffers while the encoder copies, the encoder's
\* copy may be lapped, and children are replaced.
THEOREM StreamRefines == Spec => Stream!Init /\ [][Stream!Next]_(Stream!vars)
<1>1. Init => Stream!Init
  <2> SUFFICES ASSUME Init PROVE Stream!Init
    OBVIOUS
  <2>1. published = <<>> /\ connected \in BOOLEAN
    BY DEF Init
  <2>2. shown = 0
    BY <2>1, FirstNone, ShownIsFirst
  <2> QED
    BY <2>1, <2>2 DEF Stream!Init
<1> QED
  BY <1>1, StreamStep, FrameInv, PTL DEF Spec
=============================================================================
