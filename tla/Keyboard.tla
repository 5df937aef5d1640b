------------------------------ MODULE Keyboard ------------------------------
(***************************************************************************)
(* The keyboard, from the bytes of a PS/2 keyboard to READ: the interrupt  *)
(* handler that decodes scancodes (ps2.c), the two queues of key packets   *)
(* (core.c), the line discipline (line.c) and the raw device (raw.c).      *)
(*                                                                         *)
(* A packet is taken from a queue with interrupts off, and what a reader   *)
(* does with it touches only what its task owns, so the two are one step.  *)
(* Interrupts come between any two steps.                                  *)
(***************************************************************************)
EXTENDS Integers, Sequences, SequencesExt

CONSTANTS
    Users,            \* tasks that use the keyboard
    NoUser,           \* nobody
    Keys,             \* keys somebody presses
    QueueSize,        \* KBD_QUEUE_SIZE
    KbdMaxWaiters,    \* KBD_MAX_WAITERS
    LineCap,          \* KBD_LINE_CAP
    ReadLens,         \* sizes of the buffers that lines are read into
    MaxPresses,       \* key presses in one behaviour
    MaxOpens          \* devices opened in one behaviour

ASSUME KeyboardAssumption ==
    /\ NoUser \notin Users /\ ReadLens \subseteq Nat \ {0}
    /\ {QueueSize, KbdMaxWaiters, LineCap} \subseteq Nat \ {0}

VARIABLES
    down,             \* keys held down
    wire,             \* bytes the keyboard has sent
    ps2,              \* the handler's static variables
    queue,            \* "line" and "raw": packets and waiters
    line,             \* kbd_line_state_t
    user,             \* per task: what it is doing, and the devices it has open
    presses, opens

kbdVars == <<down, wire, ps2, queue, line, user, presses, opens>>

-----------------------------------------------------------------------------
(***************************************************************************)
(* The keyboard itself: what it sends for a key, in scancode set 1.        *)
(***************************************************************************)
E0 == [code |-> "E0", up |-> FALSE]
E1 == [code |-> "E1", up |-> FALSE]
Scancode(code, up) == [code |-> code, up |-> up]

Plain == [x1C |-> "enter", x1D |-> "lctrl", x1E |-> "a", x20 |-> "d", x0E |-> "backspace",
          x2A |-> "lshift", x45 |-> "numlock", x29 |-> "none"]
Extended == [x1C |-> "enter", x1D |-> "rctrl"]
KeyTable(extended) == IF extended THEN Extended ELSE Plain
keycode(extended, code) == IF code \in DOMAIN KeyTable(extended) THEN KeyTable(extended)[code] ELSE "none"

Sent(key, up) ==
    CASE key = "pause" -> IF up THEN <<>>
                          ELSE <<E1, Scancode("x1D", FALSE), Scancode("x45", FALSE), E1, Scancode("x1D", TRUE), Scancode("x45", TRUE)>>
      [] key = "rctrl" -> <<E0, Scancode("x1D", up)>>
      [] key = "print" -> <<E0, Scancode("x2A", up)>>
      [] OTHER -> <<Scancode(CHOOSE c \in DOMAIN Plain : Plain[c] = key, up)>>

ASSUME KeysAssumption == Keys \subseteq {Plain[c] : c \in DOMAIN Plain} \union {"pause", "rctrl", "print"}

-----------------------------------------------------------------------------
Woken(us, ws) == [t \in Users |-> IF Contains(ws, t) THEN [us[t] EXCEPT !.blocked = FALSE] ELSE us[t]]

\* A full queue drops its oldest packet.
queue_push(q, pkt) ==
    LET pkts == IF Len(q.pkts) = QueueSize THEN Tail(q.pkts) ELSE q.pkts
    IN  [q |-> [pkts |-> Append(pkts, pkt), waiting |-> <<>>], wakes |-> q.waiting]

kbd_core_push(pkt) ==
    LET l == queue_push(queue.line, pkt)
        r == queue_push(queue.raw, pkt)
    IN  /\ queue' = [line |-> l.q, raw |-> r.q]
        /\ user' = Woken(user, l.wakes \o r.wakes)

Held(key, pressed) ==
    [ps2 EXCEPT !.extended = FALSE,
                !.shift = IF key = "lshift" THEN pressed ELSE @,
                !.ctrl = IF key \in {"lctrl", "rctrl"} THEN pressed ELSE @,
                !.num = IF key = "numlock" /\ pressed THEN ~@ ELSE @]

\* As a bug: an unknown key leaves the prefix pending.
Decode_KeepsPrefix(key, pressed) ==
    IF key = "none" THEN ps2 ELSE Held(key, pressed)

\* What the handler remembers of a key.
Decode(key, pressed) ==
    IF key = "none" THEN [ps2 EXCEPT !.extended = FALSE] ELSE Held(key, pressed)

\* ps2_irq1_handler, for the next byte.
ps2_irq1_handler ==
    /\ wire # <<>> /\ wire' = Tail(wire)
    /\ LET b == Head(wire)
           key == keycode(ps2.extended, b.code)
           next == Decode(key, ~b.up)
       IN  IF ps2.pause > 0
           THEN ps2' = [ps2 EXCEPT !.pause = @ - 1] /\ UNCHANGED <<queue, user>>
           ELSE IF b = E1
           THEN ps2' = [ps2 EXCEPT !.extended = FALSE, !.pause = 5] /\ UNCHANGED <<queue, user>>
           ELSE IF b = E0
           THEN ps2' = [ps2 EXCEPT !.extended = TRUE] /\ UNCHANGED <<queue, user>>
           ELSE /\ ps2' = next
                /\ IF key = "none" THEN UNCHANGED <<queue, user>>
                   ELSE kbd_core_push([key |-> key, pressed |-> ~b.up, ctrl |-> next.ctrl])
    /\ UNCHANGED <<down, line, presses, opens>>

\* Its bytes are read long before somebody gets to the next key.
KeyDown(k) ==
    /\ wire = <<>> /\ k \notin down /\ presses < MaxPresses /\ presses' = presses + 1
    /\ down' = down \union (IF k = "pause" THEN {} ELSE {k})
    /\ wire' = wire \o Sent(k, FALSE)
    /\ UNCHANGED <<ps2, queue, line, user, opens>>
KeyUp(k) ==
    /\ wire = <<>> /\ k \in down /\ down' = down \ {k}
    /\ wire' = wire \o Sent(k, TRUE)
    /\ UNCHANGED <<ps2, queue, line, user, presses, opens>>

-----------------------------------------------------------------------------
(***************************************************************************)
(* The line discipline.                                                    *)
(***************************************************************************)
NoLine == [text |-> <<>>, pos |-> 0, used |-> FALSE, owner |-> NoUser]
Idle(u) == [u EXCEPT !.at = "idle", !.blocked = FALSE]

clear_line(l) == [l EXCEPT !.text = <<>>, !.pos = 0]
backspace(l) ==
    LET text == IF l.text = <<>> THEN <<>> ELSE Front(l.text)
    IN  [l EXCEPT !.text = text, !.pos = IF @ > Len(text) THEN Len(text) ELSE @]

\* The caller gets what fits, and keeps the line until it has all of it.
deliver_line(l, len) ==
    LET avail == Len(l.text) - l.pos
        n == IF avail < len - 1 THEN avail ELSE len - 1
    IN  IF l.pos + n = Len(l.text) THEN NoLine ELSE [l EXCEPT !.pos = @ + n]

Ascii == {"a", "d"}

\* READ claims the line, or answers BUSY.
ReadLine(t, len) ==
    /\ user[t].at = "idle"
    /\ ~line.used \/ line.owner = t
    /\ line' = [line EXCEPT !.used = TRUE, !.owner = t]
    /\ user' = [user EXCEPT ![t].at = "line", ![t].len = len]
    /\ UNCHANGED <<down, wire, ps2, queue, presses, opens>>

LineReturns(t, l) == line' = l /\ user' = [user EXCEPT ![t] = Idle(@)]
LineGoes(l) == line' = l /\ UNCHANGED user

\* One packet of the loop in kbd_line_read.
LineStep(t) ==
    /\ user[t].at = "line" /\ ~user[t].blocked /\ queue.line.pkts # <<>>
    /\ queue' = [queue EXCEPT !.line.pkts = Tail(@)]
    /\ LET p == Head(queue.line.pkts)
       IN  IF ~p.pressed THEN LineGoes(line)
           ELSE IF p.ctrl
           THEN CASE p.key = "d" /\ line.text = <<>> -> LineReturns(t, NoLine)
                  [] p.key = "d" /\ line.text # <<>> -> LineGoes(clear_line(line))
                  [] OTHER -> LineGoes(line)
           ELSE CASE p.key = "backspace" -> LineGoes(backspace(line))
                  [] p.key = "enter" -> LineReturns(t, deliver_line(line, user[t].len))
                  [] p.key \in Ascii /\ Len(line.text) < LineCap -> LineGoes([line EXCEPT !.text = Append(@, p.key)])
                  [] OTHER -> LineGoes(line)
    /\ UNCHANGED <<down, wire, ps2, presses, opens>>

\* kbd_line_close, which only a handle of the device brings about.
kbd_line_close(l, t) == IF l.used /\ l.owner = t THEN NoLine ELSE l

-----------------------------------------------------------------------------
(***************************************************************************)
(* The raw device: READ waits until its buffer is full of packets.         *)
(***************************************************************************)
ReadRaw(t, n) ==
    /\ user[t].at = "idle" /\ "raw" \in user[t].has
    /\ user' = [user EXCEPT ![t].at = "raw", ![t].len = n]
    /\ UNCHANGED <<down, wire, ps2, queue, line, presses, opens>>

RawStep(t) ==
    /\ user[t].at = "raw" /\ ~user[t].blocked /\ queue.raw.pkts # <<>>
    /\ queue' = [queue EXCEPT !.raw.pkts = Tail(@)]
    /\ user' = [user EXCEPT ![t] = IF @.len = 1 THEN Idle(@) ELSE [@ EXCEPT !.len = @ - 1]]
    /\ UNCHANGED <<down, wire, ps2, line, presses, opens>>

\* As a bug: a key that came since the queue was found empty is not looked for.
KbdWait_Unmasked(t, q) ==
    /\ user[t].at = q /\ ~user[t].blocked
    /\ queue' = [queue EXCEPT ![q].waiting = IF Len(@) < KbdMaxWaiters THEN Append(@, t) ELSE @]
    /\ user' = [user EXCEPT ![t].blocked = TRUE]
    /\ UNCHANGED <<down, wire, ps2, line, presses, opens>>

\* queue_read finds nothing: the task registers, if there is room, and blocks.
KbdWait(t, q) ==
    /\ user[t].at = q /\ ~user[t].blocked /\ queue[q].pkts = <<>>
    /\ queue' = [queue EXCEPT ![q].waiting = IF Len(@) < KbdMaxWaiters THEN Append(@, t) ELSE @]
    /\ user' = [user EXCEPT ![t].blocked = TRUE]
    /\ UNCHANGED <<down, wire, ps2, line, presses, opens>>

KbdOpen(t, q) ==
    /\ user[t].at = "idle" /\ q \notin user[t].has /\ opens < MaxOpens /\ opens' = opens + 1
    /\ user' = [user EXCEPT ![t].has = @ \union {q}]
    /\ queue' = IF q = "raw" THEN [queue EXCEPT !.raw.pkts = <<>>] ELSE queue
    /\ UNCHANGED <<down, wire, ps2, line, presses>>

\* The end of a raw session drops what was typed for lines meanwhile.
kbd_drained(qs, closed) == IF "raw" \in closed THEN [qs EXCEPT !.line.pkts = <<>>] ELSE qs

KbdClose(t, q) ==
    /\ user[t].at = "idle" /\ q \in user[t].has
    /\ user' = [user EXCEPT ![t].has = @ \ {q}]
    /\ queue' = kbd_drained(queue, {q})
    /\ line' = IF q = "line" THEN kbd_line_close(line, t) ELSE line
    /\ UNCHANGED <<down, wire, ps2, presses, opens>>

\* EXIT; the handles are closed when the task is reaped, its streams only let go
\* (task_teardown), and the structure is given to the next task.
UserEnds(t) ==
    /\ user[t].at = "idle" /\ user' = [user EXCEPT ![t].at = "over"]
    /\ UNCHANGED <<down, wire, ps2, queue, line, presses, opens>>
UserReaped(t) ==
    /\ user[t].at = "over"
    /\ user' = [user EXCEPT ![t].at = "none", ![t].has = {}]
    /\ queue' = kbd_drained(queue, user[t].has)
    /\ line' = IF "line" \in user[t].has THEN kbd_line_close(line, t) ELSE line
    /\ UNCHANGED <<down, wire, ps2, presses, opens>>
UserStarts(t) ==
    /\ user[t].at = "none" /\ user' = [user EXCEPT ![t].at = "idle"]
    /\ UNCHANGED <<down, wire, ps2, queue, line, presses, opens>>

-----------------------------------------------------------------------------
KbdInit ==
    /\ down = {} /\ wire = <<>> /\ presses = 0 /\ opens = 0
    /\ ps2 = [extended |-> FALSE, pause |-> 0, shift |-> FALSE, ctrl |-> FALSE, num |-> FALSE]
    /\ queue = [line |-> [pkts |-> <<>>, waiting |-> <<>>], raw |-> [pkts |-> <<>>, waiting |-> <<>>]]
    /\ line = NoLine
    /\ user = [t \in Users |-> [at |-> "idle", len |-> 0, blocked |-> FALSE, has |-> {}]]

Reads(t) == LineStep(t) \/ RawStep(t) \/ \E q \in {"line", "raw"} : KbdWait(t, q)

KbdNext ==
    \/ ps2_irq1_handler
    \/ \E k \in Keys : KeyDown(k) \/ KeyUp(k)
    \/ \E t \in Users :
          \/ Reads(t) \/ UserEnds(t) \/ UserReaped(t) \/ UserStarts(t)
          \/ \E len \in ReadLens : ReadLine(t, len) \/ ReadRaw(t, len)
          \/ \E q \in {"line", "raw"} : KbdOpen(t, q) \/ KbdClose(t, q)

KbdSpec == KbdInit /\ [][KbdNext]_kbdVars

\* Bytes that were sent interrupt, and a task that can run does in the end.
KbdFairness == WF_kbdVars(ps2_irq1_handler) /\ \A t \in Users : WF_kbdVars(Reads(t))

-----------------------------------------------------------------------------
\* Once every key is up and every byte is read, no modifier is held: neither the
\* burst of the pause key nor a prefix before an unknown key leaves one behind.
NoStuckModifiers ==
    down = {} /\ wire = <<>> => ~ps2.shift /\ ~ps2.ctrl /\ ~ps2.extended /\ ps2.pause = 0

\* Enter wakes the task that waits for a line: it comes to look at every packet
\* there is, unless a full queue or the end of a raw session drops it.
EnterIsSeen ==
    \A t \in Users :
        (user[t].at = "line" /\ queue.line.pkts # <<>>) ~> (user[t].at # "line" \/ queue.line.pkts = <<>>)
=============================================================================
