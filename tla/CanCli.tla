------------------------------- MODULE CanCli -------------------------------
(***************************************************************************)
(* The CAN command layer (can_cli.c): the receive interrupt stores frames  *)
(* in a ring of slots, each with a lock, and posts one token per frame to  *)
(* a queue; can_cli_task takes a token, pops a slot, runs the callback     *)
(* registered for the frame's identifier and frees the slot.               *)
(* The interrupt runs between any two steps of the task, never inside one. *)
(***************************************************************************)
EXTENDS Integers

CONSTANTS BufferLen,    \* CAN_CLI_RX_BUFFER_LEN
          QueueLen,     \* CAN_ISR_QUEUE_LENGTH
          Msg,          \* the frames of the bus, as far as dispatch tells them apart
          NoMsg

ASSUME BufferLenAssumption == BufferLen \in Nat \ {0}
ASSUME QueueLenAssumption == QueueLen \in Nat /\ QueueLen >= BufferLen
ASSUME NoMsgAssumption == NoMsg \notin Msg

Slot == 0 .. BufferLen - 1

VARIABLES rx_msg_fill_top,   \* next slot the interrupt fills; BufferLen means 0
          rx_msg_pop_top,    \* next slot the task pops; BufferLen means 0
          lock,              \* lock[i]: slot i holds a frame
          rx_msg_buffer,     \* the frame in each slot
          queue_can_isr,     \* number of tokens in the queue
          pc,                \* where can_cli_task is in its loop
          rx_msg             \* the slot the task has popped

vars == <<rx_msg_fill_top, rx_msg_pop_top, lock, rx_msg_buffer,
          queue_can_isr, pc, rx_msg>>

Init ==
    /\ rx_msg_fill_top = 0
    /\ rx_msg_pop_top = 0
    /\ lock = [i \in Slot |-> FALSE]
    /\ rx_msg_buffer = [i \in Slot |-> NoMsg]
    /\ queue_can_isr = 0
    /\ pc = "wait"
    /\ rx_msg = 0

\* both tops are reset lazily, at the start of the call that uses them
Wrapped(top) == IF top >= BufferLen THEN 0 ELSE top

\* mutants: the lock is not looked at; the frame is copied before it is
can_cli_rx_indication_LockIgnored(m) ==
    LET top == Wrapped(rx_msg_fill_top)
    IN  /\ lock' = [lock EXCEPT ![top] = TRUE]
        /\ rx_msg_buffer' = [rx_msg_buffer EXCEPT ![top] = m]
        /\ rx_msg_fill_top' = top + 1

can_cli_rx_indication_CopyFirst(m) ==
    LET top == Wrapped(rx_msg_fill_top)
    IN  /\ rx_msg_buffer' = [rx_msg_buffer EXCEPT ![top] = m]
        /\ lock' = [lock EXCEPT ![top] = TRUE]
        /\ rx_msg_fill_top' = IF lock[top] THEN top ELSE top + 1

\* can_cli_buffer_alloc and the copy of the frame; a full ring drops it
can_cli_rx_indication(m) ==
    LET top == Wrapped(rx_msg_fill_top)
    IN  \/ /\ lock[top]
           /\ rx_msg_fill_top' = top
           /\ UNCHANGED <<lock, rx_msg_buffer>>
        \/ /\ ~ lock[top]
           /\ lock' = [lock EXCEPT ![top] = TRUE]
           /\ rx_msg_buffer' = [rx_msg_buffer EXCEPT ![top] = m]
           /\ rx_msg_fill_top' = top + 1

\* mutants: no limit; one token fewer than the queue holds
PostToken_Unbounded(n) == n + 1
PostToken_OneFewer(n) == IF n < QueueLen - 1 THEN n + 1 ELSE n

\* the driver posts a token for every frame it passes up, even a dropped one;
\* a full queue loses the token (xQueueSendFromISR's result is not looked at)
PostToken(n) == IF n < QueueLen THEN n + 1 ELSE n

can_frame_read(m) ==
    /\ can_cli_rx_indication(m)
    /\ queue_can_isr' = PostToken(queue_can_isr)
    /\ UNCHANGED <<rx_msg_pop_top, pc, rx_msg>>

\* xQueueReceive(queue_can_isr, portMAX_DELAY)
TakeToken ==
    /\ pc = "wait"
    /\ queue_can_isr > 0
    /\ queue_can_isr' = queue_can_isr - 1
    /\ pc' = "ready"
    /\ UNCHANGED <<rx_msg_fill_top, rx_msg_pop_top, lock, rx_msg_buffer, rx_msg>>

can_cli_buffer_ready ==
    LET top == Wrapped(rx_msg_pop_top)
    IN  /\ pc = "ready"
        /\ \/ /\ lock[top]
              /\ rx_msg' = top
              /\ rx_msg_pop_top' = top + 1
              /\ pc' = "callback"
           \/ /\ ~ lock[top]              \* a token without a frame: yield
              /\ rx_msg_pop_top' = top
              /\ pc' = "wait"
              /\ UNCHANGED rx_msg
        /\ UNCHANGED <<rx_msg_fill_top, lock, rx_msg_buffer, queue_can_isr>>

\* the callback has run (or none was registered): release the slot
can_cli_buffer_free ==
    /\ pc = "callback"
    /\ lock' = [lock EXCEPT ![rx_msg] = FALSE]
    /\ pc' = "wait"
    /\ UNCHANGED <<rx_msg_fill_top, rx_msg_pop_top, rx_msg_buffer,
                   queue_can_isr, rx_msg>>

can_cli_handle == TakeToken \/ can_cli_buffer_ready \/ can_cli_buffer_free

Next == can_cli_handle \/ \E m \in Msg : can_frame_read(m)

Spec == Init /\ [][Next]_vars /\ WF_vars(can_cli_handle)

-----------------------------------------------------------------------------
TypeOK ==
    /\ rx_msg_fill_top \in 0 .. BufferLen
    /\ rx_msg_pop_top \in 0 .. BufferLen
    /\ lock \in [Slot -> BOOLEAN]
    /\ rx_msg_buffer \in [Slot -> Msg \cup {NoMsg}]
    /\ queue_can_isr \in 0 .. QueueLen
    /\ pc \in {"wait", "ready", "callback"}
    /\ rx_msg \in Slot

\* No frame is stranded: a task that would block on the token queue leaves no
\* stored frame behind, although tokens are lost when the queue is full and
\* surplus tokens are posted for the frames the ring dropped.
NoStrandedFrame == (pc = "wait" /\ queue_can_isr = 0) => \A i \in Slot : ~ lock[i]

-----------------------------------------------------------------------------
(* The inductive invariant: the locked slots are the frame in service and  *)
(* a window of n slots that starts where the task pops and ends where the  *)
(* interrupt fills, and there is a token for each frame of the window.     *)

InService == pc = "callback"

InWindow(i, n) ==
    LET p == Wrapped(rx_msg_pop_top)
    IN  \/ p <= i /\ i < p + n
        \/ p <= i + BufferLen /\ i + BufferLen < p + n

Window(n) ==
    LET p == Wrapped(rx_msg_pop_top)
        f == Wrapped(rx_msg_fill_top)
    IN  /\ f = p + n \/ f + BufferLen = p + n
        /\ \A i \in Slot : lock[i] <=> (InWindow(i, n) \/ (InService /\ i = rx_msg))
        /\ InService => n < BufferLen /\ rx_msg + 1 = rx_msg_pop_top
        /\ n - (IF pc = "ready" THEN 1 ELSE 0) <= queue_can_isr

RingInv == \E n \in 0 .. BufferLen : Window(n)

-----------------------------------------------------------------------------
(* The refinement: the window, read from the pop end, is the mailbox.      *)

Backlog == CHOOSE n \in 0 .. BufferLen : Window(n)

SlotAfter(k) ==
    LET i == Wrapped(rx_msg_pop_top) + k
    IN  IF i >= BufferLen THEN i - BufferLen ELSE i

Mailbox == INSTANCE CanMailbox WITH
    Capacity <- BufferLen,
    box <- [k \in 1 .. Backlog |-> rx_msg_buffer[SlotAfter(k - 1)]],
    serving <- IF InService THEN rx_msg_buffer[rx_msg] ELSE NoMsg

\* Every frame that was stored is handed to the task once, in the order of
\* arrival, unchanged, and is eventually handed over.
ServesMailbox == Mailbox!Spec

=============================================================================
