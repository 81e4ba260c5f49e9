----------------------------- MODULE InputPath -----------------------------
(***************************************************************************)
(* The way of a key, a click or a move into the Mac: the web server's      *)
(* process_input_message (webrtc/webrtc_server.cpp) and IPCClient::send_*  *)
(* (ipc/ipc_client.cpp), the control socket, the child's worker thread     *)
(* (ipc/control_ipc_child.cpp), the ADB buffers it fills and ADBInterrupt, *)
(* which the CPU thread runs (core/adb.cpp, core/emul_op.cpp).             *)
(*                                                                         *)
(* One viewer, one child. A move is to a position, a number from 1, or     *)
(* relative: then the Mac's cursor is Elsewhere, and mouse_x is 1, a delta *)
(* that is not 0. A ring whose write pointer catches up with its read      *)
(* pointer is empty.                                                       *)
(*                                                                         *)
(* mouse_lock locks nothing: B2_lock_mutex and B2_unlock_mutex are empty   *)
(* (drivers/platform/platform_null.cpp). The worker and the CPU thread     *)
(* read and write the position and the mode one after the other's steps.   *)
(* Messages come whole: drain_control_socket drops the part of one that    *)
(* readAll returns without its rest, which is left out.                    *)
(***************************************************************************)
EXTENDS Integers, SequencesExt

CONSTANTS
    Buttons,       \* at most 3
    Keys,
    MaxPosition,
    RingSize,      \* KEY_BUFFER_SIZE, BUTTON_BUFFER_SIZE: 16 and 32 in the code
    MaxPending,    \* bound: clicks and keys on their way; the Mac keeps up with the viewer
    MaxInSocket    \* bound: messages in the socket

ASSUME InputAssumption ==
    /\ RingSize \in Nat \ {0} /\ MaxPosition \in Nat
    /\ MaxPending \in 0 .. RingSize - 1 /\ MaxInSocket \in Nat

Elsewhere == -1
NoMove == 0
Relative == -1      \* a relative move, in a message

VARIABLES
    held, down,     \* the buttons and the keys the viewer holds; held is ipc_buttons
    pointed,        \* where the viewer pointed last, 0 at first
    socket,         \* the messages in the control socket
    \* the worker thread
    wpc, msg,       \* its place in process_binary_input, and the message
    last_buttons,
    \* ADB
    relative_mouse, mouse_x, old_mouse_x, button_buffer, key_buffer,
    sum,            \* mouse_x with a delta added to it, before the worker stores it
    flag,           \* INTFLAG_ADB
    \* the CPU thread
    cpu, mx,        \* its place in ADBInterrupt, and the position it read
    started,        \* HasMacStarted(), and ADB is initialized
    skipped,        \* an interrupt came before that, and none since
    \* the Mac
    mouse_button, mac_keys, cursor

viewer == <<held, down, pointed>>
worker == <<wpc, msg, last_buttons>>
mouse  == <<relative_mouse, mouse_x, sum>>
rings  == <<button_buffer, key_buffer>>
irq    == <<cpu, mx, started, skipped>>
mac    == <<mouse_button, mac_keys, cursor, old_mouse_x>>
vars   == <<viewer, socket, worker, mouse, rings, flag, irq, mac>>

None == [type |-> "none"]

Init ==
    /\ held = {} /\ down = {} /\ pointed = 0
    /\ socket = <<>>
    /\ wpc = "idle" /\ msg = None /\ last_buttons = {}
    /\ relative_mouse = TRUE        \* worker_main sets it
    /\ mouse_x = 0 /\ old_mouse_x = 0 /\ sum = 0
    /\ button_buffer = <<>> /\ key_buffer = <<>>
    /\ flag = FALSE
    /\ cpu = "guest" /\ mx = 0 /\ started = FALSE /\ skipped = FALSE
    /\ mouse_button = {} /\ mac_keys = {} /\ cursor = 0

Toggle(S, x) == IF x \in S THEN S \ {x} ELSE S \cup {x}

(***************************************************************************)
(* The web server: one handler for each type of message.                   *)
(***************************************************************************)
Pending == Len(socket) + Len(button_buffer) + Len(key_buffer) + (IF wpc = "idle" THEN 0 ELSE 1)

Send(m) ==
    /\ Len(socket) < MaxInSocket
    /\ socket' = Append(socket, m)
    /\ UNCHANGED <<worker, mouse, rings, flag, irq, mac>>

SendButton(b) ==
    /\ Pending < MaxPending
    /\ held' = Toggle(held, b)
    /\ Send([type |-> "mouse", buttons |-> held', move |-> NoMove])
    /\ UNCHANGED <<down, pointed>>

SendKey(k) ==
    /\ Pending < MaxPending
    /\ down' = Toggle(down, k)
    /\ Send([type |-> "key", key |-> k, up |-> k \in down])
    /\ UNCHANGED <<held, pointed>>

SendMove(p) ==
    /\ pointed' = IF p = Relative THEN pointed ELSE p
    /\ Send([type |-> "mouse", buttons |-> held, move |-> p])
    /\ UNCHANGED <<held, down>>

(***************************************************************************)
(* The child's worker thread: drain_control_socket, process_binary_input   *)
(* and the ADB functions, each of which ends with INTFLAG_ADB.             *)
(***************************************************************************)
Receive ==
    /\ wpc = "idle"
    /\ socket # <<>>
    /\ msg' = Head(socket)
    /\ socket' = Tail(socket)
    /\ wpc' = IF msg'.type = "key" THEN "key"
              ELSE IF msg'.move = NoMove THEN "buttons" ELSE "mode"
    /\ UNCHANGED <<viewer, last_buttons, mouse, rings, flag, irq, mac>>

\* ADBSetRelMouseMode takes no lock: the mode first, then the position.
SetMode ==
    /\ wpc = "mode"
    /\ relative_mouse' = (msg.move = Relative)
    /\ wpc' = IF relative_mouse' = relative_mouse THEN "move" ELSE "zero"
    /\ UNCHANGED <<viewer, socket, msg, last_buttons, mouse_x, sum, rings, flag, irq, mac>>

ZeroPosition ==
    /\ wpc = "zero"
    /\ mouse_x' = 0
    /\ wpc' = "move"
    /\ UNCHANGED <<viewer, socket, msg, last_buttons, relative_mouse, sum, rings, flag, irq, mac>>

\* Mutant: a position is added up as a delta is.
MouseMovedAdding ==
    /\ wpc = "move"
    /\ sum' = mouse_x + (IF relative_mouse THEN 1 ELSE msg.move)
    /\ wpc' = "add"
    /\ UNCHANGED <<viewer, socket, msg, last_buttons, relative_mouse, mouse_x, rings, flag, irq, mac>>

\* ADBMouseMoved: a position is stored, a delta added to what is read first.
\* It may take back the one before it.
MouseMoved ==
    /\ wpc = "move"
    /\ IF relative_mouse
       THEN /\ sum' \in IF mouse_x = 0 THEN {1} ELSE {0, 1}
            /\ wpc' = "add"
            /\ UNCHANGED mouse_x
       ELSE /\ mouse_x' = msg.move
            /\ wpc' = "moved"
            /\ UNCHANGED sum
    /\ UNCHANGED <<viewer, socket, msg, last_buttons, relative_mouse, rings, flag, irq, mac>>

StoreSum ==
    /\ wpc = "add"
    /\ mouse_x' = sum /\ sum' = 0
    /\ wpc' = "moved"
    /\ UNCHANGED <<viewer, socket, msg, last_buttons, relative_mouse, rings, flag, irq, mac>>

MoveFlags ==
    /\ wpc = "moved"
    /\ flag' = TRUE
    /\ wpc' = "buttons"
    /\ UNCHANGED <<viewer, socket, msg, last_buttons, mouse, rings, irq, mac>>

Push(ring, e) == IF Len(ring) = RingSize - 1 THEN <<>> ELSE Append(ring, e)

Event(x, up) == [what |-> x, up |-> up]

\* Mutant: a button that went up is not looked for.
ChangedDown == msg.buttons \ last_buttons

\* A button that changed goes into the buffer, one at a time.
Changed == (msg.buttons \ last_buttons) \cup (last_buttons \ msg.buttons)

PushButton ==
    /\ wpc = "buttons"
    /\ \E b \in Changed :
          /\ button_buffer' = Push(button_buffer, Event(b, b \notin msg.buttons))
          /\ last_buttons' = Toggle(last_buttons, b)
    /\ wpc' = "pushed"
    /\ UNCHANGED <<viewer, socket, msg, mouse, key_buffer, flag, irq, mac>>

PushKey ==
    /\ wpc = "key"
    /\ key_buffer' = Push(key_buffer, Event(msg.key, msg.up))
    /\ wpc' = "pushed"
    /\ UNCHANGED <<viewer, socket, msg, last_buttons, mouse, button_buffer, flag, irq, mac>>

PushFlags ==
    /\ wpc = "pushed"
    /\ flag' = TRUE
    /\ wpc' = IF msg.type = "mouse" THEN "buttons" ELSE "done"
    /\ UNCHANGED <<viewer, socket, msg, last_buttons, mouse, rings, irq, mac>>

Processed ==
    /\ wpc = "done" \/ (wpc = "buttons" /\ Changed = {})
    /\ wpc' = "idle" /\ msg' = None
    /\ UNCHANGED <<viewer, socket, last_buttons, mouse, rings, flag, irq, mac>>

(***************************************************************************)
(* The CPU thread: M68K_EMUL_OP_IRQ and ADBInterrupt.                      *)
(***************************************************************************)
MacStarts ==
    /\ ~started
    /\ started' = TRUE
    /\ UNCHANGED <<viewer, socket, worker, mouse, rings, flag, cpu, mx, skipped, mac>>

\* The flag is cleared first, whether the Mac has started or not.
TakeInterrupt ==
    /\ cpu = "guest"
    /\ flag
    /\ flag' = FALSE
    /\ IF started
       THEN cpu' = "read" /\ UNCHANGED skipped
       ELSE skipped' = TRUE /\ UNCHANGED cpu
    /\ UNCHANGED <<viewer, socket, worker, mouse, rings, mx, started, mac>>

\* ADBInterrupt reads the position, then the mode, and takes a delta away.
ReadMouse ==
    /\ cpu = "read"
    /\ mx' = mouse_x
    /\ cpu' = "test"
    /\ UNCHANGED <<viewer, socket, worker, mouse, rings, flag, started, skipped, mac>>

TestMode ==
    /\ cpu = "test"
    /\ cpu' = IF relative_mouse THEN "zero" ELSE "mode"
    /\ UNCHANGED <<viewer, socket, worker, mouse, rings, flag, mx, started, skipped, mac>>

ZeroMouse ==
    /\ cpu = "zero"
    /\ mouse_x' = 0
    /\ cpu' = "mode"
    /\ UNCHANGED <<viewer, socket, worker, relative_mouse, sum, rings, flag, mx, started, skipped,
                   mac>>

\* The mode is read once more. An absolute move goes to the cursor at once, a
\* relative one to the mouse's handler.
MoveCursor ==
    /\ cpu = "mode"
    /\ IF relative_mouse
       THEN /\ cursor' = IF mx # 0 THEN Elsewhere ELSE cursor
            /\ UNCHANGED old_mouse_x
       ELSE /\ cursor' = IF mx # old_mouse_x THEN mx ELSE cursor
            /\ old_mouse_x' = mx
    /\ mx' = 0
    /\ cpu' = "buttons"
    /\ UNCHANGED <<viewer, socket, worker, mouse, rings, flag, started, skipped, mouse_button,
                   mac_keys>>

Put(S, e) == IF e.up THEN S \ {e.what} ELSE S \cup {e.what}

\* Mutant: the loop waits for the button to come up.
DrainButtonsHeld ==
    /\ cpu = "buttons"
    /\ IF button_buffer = <<>>
       THEN /\ cpu' = IF mouse_button = {} THEN "keys" ELSE "buttons"
            /\ UNCHANGED <<button_buffer, mouse_button>>
       ELSE /\ mouse_button' = Put(mouse_button, Head(button_buffer))
            /\ button_buffer' = Tail(button_buffer)
            /\ UNCHANGED cpu
    /\ UNCHANGED <<viewer, socket, worker, mouse, key_buffer, flag, mx, started, skipped,
                   mac_keys, cursor, old_mouse_x>>

DrainButtons ==
    /\ cpu = "buttons"
    /\ IF button_buffer = <<>>
       THEN cpu' = "keys" /\ UNCHANGED <<button_buffer, mouse_button>>
       ELSE /\ mouse_button' = Put(mouse_button, Head(button_buffer))
            /\ button_buffer' = Tail(button_buffer)
            /\ UNCHANGED cpu
    /\ UNCHANGED <<viewer, socket, worker, mouse, key_buffer, flag, mx, started, skipped,
                   mac_keys, cursor, old_mouse_x>>

DrainKeys ==
    /\ cpu = "keys"
    /\ IF key_buffer = <<>>
       THEN cpu' = "guest" /\ skipped' = FALSE /\ UNCHANGED <<key_buffer, mac_keys>>
       ELSE /\ mac_keys' = Put(mac_keys, Head(key_buffer))
            /\ key_buffer' = Tail(key_buffer)
            /\ UNCHANGED <<cpu, skipped>>
    /\ UNCHANGED <<viewer, socket, worker, mouse, button_buffer, flag, mx, started,
                   mouse_button, cursor, old_mouse_x>>

-----------------------------------------------------------------------------
Viewer ==
    \/ \E b \in Buttons : SendButton(b)
    \/ \E k \in Keys : SendKey(k)
    \/ \E p \in 1 .. MaxPosition \cup {Relative} : SendMove(p)

Worker == Receive \/ SetMode \/ ZeroPosition \/ MouseMoved \/ StoreSum \/ MoveFlags
          \/ PushButton \/ PushKey \/ PushFlags \/ Processed

Cpu == TakeInterrupt \/ ReadMouse \/ TestMode \/ ZeroMouse \/ MoveCursor \/ DrainButtons \/ DrainKeys

Next == Viewer \/ Worker \/ Cpu \/ MacStarts

\* The worker polls the socket, and the guest takes its interrupts.
Spec == Init /\ [][Next]_vars /\ WF_vars(Worker) /\ WF_vars(Cpu)

-----------------------------------------------------------------------------
Messages ==
    [type : {"mouse"}, buttons : SUBSET Buttons, move : Relative .. MaxPosition]
      \cup [type : {"key"}, key : Keys, up : BOOLEAN]
TypeOK ==
    /\ held \subseteq Buttons /\ down \subseteq Keys /\ pointed \in 0 .. MaxPosition
    /\ \A i \in DOMAIN socket : socket[i] \in Messages
    /\ msg \in Messages \cup {None}
    /\ wpc \in {"idle", "mode", "zero", "move", "add", "moved", "buttons", "pushed", "key", "done"}
    /\ last_buttons \subseteq Buttons
    /\ {mouse_x, old_mouse_x, mx, sum} \subseteq 0 .. MaxPosition + 1
    /\ {Len(button_buffer), Len(key_buffer)} \subseteq 0 .. RingSize - 1
    /\ {relative_mouse, flag, started, skipped} \subseteq BOOLEAN
    /\ cpu \in {"guest", "read", "test", "zero", "mode", "buttons", "keys"}
    /\ mouse_button \subseteq Buttons /\ mac_keys \subseteq Keys
    /\ cursor \in Elsewhere .. MaxPosition + 1

\* Nothing is on its way: no message, no event, and no interrupt the worker
\* raised is left to be taken.
Quiet ==
    /\ socket = <<>> /\ wpc = "idle"
    /\ ~flag /\ cpu = "guest"
    /\ ~skipped

\* The Mac has the buttons and the keys down that the viewer holds, once
\* nothing is on its way: no event was lost, doubled or put out of order
\* between the page and the Mac, whatever mode changes came between.
InStep == Quiet => mouse_button = held /\ mac_keys = down

\* The position ADB keeps in absolute mode is then the one the viewer pointed
\* to last: what the worker stored is not overwritten by the CPU thread, which
\* puts 0 in the place of a delta it has read. adb.cpp has mouse_lock for it.
PositionKept == Quiet /\ ~relative_mouse => mouse_x = pointed

\* A position that ADB keeps is the Mac's cursor's too, once it has been told:
\* a click after it lands where the viewer pointed, whatever relative moves
\* came before.
CursorFollows == Quiet /\ ~relative_mouse /\ mouse_x = pointed => cursor = pointed

\* Input gets there: unless the viewer goes on sending for ever, the Mac
\* comes into step with it and stays so. The interrupt that tells of an
\* event is not lost. What came before the Mac had started waits for the
\* next input.
Delivered ==
    \/ []<><<Viewer>>_vars
    \/ <>[]((mouse_button = held /\ mac_keys = down) \/ skipped \/ ~started)
=============================================================================
