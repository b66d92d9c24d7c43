----------------------------- MODULE ConsoleTx -----------------------------
(***************************************************************************)
(* The transmitter of the console (console.c over uart_hal.c): tasks print *)
(* lines (EMBARC_PRINTF) and dump data (bprintf) through buffers that are  *)
(* hooked up, each with a ticket, and leave by the UART's interrupt in the *)
(* order of the tickets.  A step is what no interrupt comes between.       *)
(***************************************************************************)
EXTENDS Naturals, Sequences

CONSTANTS Printers, Dumpers,    \* tasks that print, tasks that dump
          Nobody,
          TaskBufs, UserBufs,   \* CS_TASK_BUF_CNT_MAX, CS_USER_BUF_CNT_MAX
          MaxPrints,            \* bound: messages of one task
          Preempt               \* may the tick switch tasks while one prints?

ASSUME ConsoleAssumption ==
    /\ Printers \cap Dumpers = {}
    /\ Nobody \notin Printers \cup Dumpers
    /\ {TaskBufs, UserBufs} \subseteq Nat \ {0}
    /\ MaxPrints \in Nat
    /\ Preempt \in BOOLEAN

Tasks == Printers \cup Dumpers
User == 0 .. UserBufs - 1                       \* hookers of bprintf
Local == UserBufs .. UserBufs + TaskBufs - 1    \* hookers of tasks' printf
NoBuf == UserBufs + TaskBufs

Message == Tasks \X Nat
NoMessage == <<Nobody, 0>>

VARIABLES
    txbuf_hooker,           \* state, ticket, the message in it, is used_size its length?
    push_order_cnt, pop_order_cnt,
    cur_userbuf_id,
    state, cur_buf_id,      \* of the transmitter
    buf_len,                \* of its DEV_BUFFER: is it the length of what is sent?
    uart_int,               \* is the transmit interrupt enabled?
    outptr,                 \* the task whose buffer xprintf writes to
    pc, own, printed,       \* each task: place, hooker, number of its message
    taken,                  \* history: messages by ticket
    sent                    \* history: messages that left

tickets == <<push_order_cnt, pop_order_cnt, cur_userbuf_id>>
uart == <<state, cur_buf_id, buf_len, uart_int>>
history == <<taken, sent>>
tvars == <<txbuf_hooker, tickets, uart, outptr, pc, own, printed, history>>

MessageOf(p) == <<p, printed[p]>>

\* places where another task that prints would disturb: cs_txbuf_install without
\* a lock, and cs_userbuf_alloc between its ticket and its lock
Delicate == {"user", "local", "install", "disable", "enable", "u_alloc"}

MayRun(p) == Preempt \/ \A q \in Tasks \ {p} : pc[q] \notin Delicate

At(p, place) == pc[p] = place /\ MayRun(p)
Goto(p, place) == pc' = [pc EXCEPT ![p] = place]

\* what an idle hooker still holds is never read
Idle == [state |-> "idle", timestamp |-> 0, msg |-> NoMessage, used_size |-> FALSE]

\* the hooker gets the ticket n and waits for its data, with the length of earlier
\* data, or 0, until it gets its own
Take(p, b, n) ==
    /\ txbuf_hooker' = [txbuf_hooker EXCEPT ![b] =
           [state |-> "filling", timestamp |-> n, msg |-> MessageOf(p), used_size |-> FALSE]]
    /\ push_order_cnt' = push_order_cnt + 1
    /\ own' = [own EXCEPT ![p] = b]
    /\ taken' = Append(taken, MessageOf(p))

-----------------------------------------------------------------------------
(* cs_txbuf_install, in steps for the tasks that call it without a lock    *)

\* mutant: any buffer that is ready is sent next
IsNext_AnyReady(b) == txbuf_hooker[b].state = "ready"

IsNext(b) == txbuf_hooker[b].state = "ready" /\ txbuf_hooker[b].timestamp = pop_order_cnt

Next1(B) == {b \in B : IsNext(b) /\ \A c \in B : IsNext(c) => b <= c}

Installed(b, h) == [h EXCEPT ![b].state = "installed"]

\* with interrupts off: the next buffer, of a user first, or nothing more to do
cs_txbuf_install(h, quiet) ==
    LET ready == IF Next1(User) # {} THEN Next1(User) ELSE Next1(Local)
    IN  \/ \E b \in ready :
              /\ txbuf_hooker' = Installed(b, h)
              /\ cur_buf_id' = b /\ buf_len' = h[b].used_size
              /\ state' = 1 /\ uart_int' = TRUE
              /\ pop_order_cnt' = pop_order_cnt + 1
        \/ /\ ready = {}
           /\ txbuf_hooker' = h /\ state' = 0 /\ uart_int' = quiet
           /\ UNCHANGED <<cur_buf_id, buf_len, pop_order_cnt>>

-----------------------------------------------------------------------------
(* A task prints: pre_printf, xvprintf, post_printf                        *)

Alloc(p) ==
    /\ At(p, "alloc")
    /\ \E b \in Local :
         /\ txbuf_hooker[b].state = "idle"
         /\ \A c \in Local : c < b => txbuf_hooker[c].state # "idle"
         /\ Take(p, b, push_order_cnt)
    /\ Goto(p, "xbuf")
    /\ UNCHANGED <<pop_order_cnt, cur_userbuf_id, uart, outptr, printed, sent>>

XbufInstall(p) ==
    /\ At(p, "xbuf")
    /\ outptr = Nobody
    /\ outptr' = p
    /\ Goto(p, "fill")
    /\ UNCHANGED <<txbuf_hooker, tickets, uart, own, printed, history>>

XbufRelease(p) ==
    /\ At(p, "fill")
    /\ outptr' = Nobody
    /\ Goto(p, "ready")
    /\ UNCHANGED <<txbuf_hooker, tickets, uart, own, printed, history>>

\* the buffer is ready, and only then gets its length
MarkReady(p) ==
    /\ At(p, "ready")
    /\ txbuf_hooker' = [txbuf_hooker EXCEPT ![own[p]].state = "ready"]
    /\ Goto(p, "size")
    /\ UNCHANGED <<tickets, uart, outptr, own, printed, history>>

\* by now the buffer may be installed, be sent, or be another's
SetSize(p) ==
    /\ At(p, "size")
    /\ txbuf_hooker' = [txbuf_hooker EXCEPT
           ![own[p]].used_size = (txbuf_hooker[own[p]].msg = MessageOf(p))]
    /\ Goto(p, "test")
    /\ UNCHANGED <<tickets, uart, outptr, own, printed, history>>

\* mutant: a buffer is left to the interrupt also when that has stopped
TestState_Never(p) ==
    /\ At(p, "test")
    /\ Goto(p, "idle")
    /\ UNCHANGED <<txbuf_hooker, tickets, uart, outptr, own, printed, history>>

TestState(p) ==
    /\ At(p, "test")
    /\ Goto(p, IF state = 0 THEN "user" ELSE "idle")
    /\ UNCHANGED <<txbuf_hooker, tickets, uart, outptr, own, printed, history>>

\* cs_userbuf_ready and cs_local_buf_ready: own is now the buffer to send
PickFrom(p, place, B, otherwise) ==
    /\ At(p, place)
    /\ \/ \E b \in Next1(B) :
            /\ own' = [own EXCEPT ![p] = b]
            /\ pop_order_cnt' = pop_order_cnt + 1
            /\ Goto(p, "install")
       \/ /\ Next1(B) = {}
          /\ Goto(p, otherwise)
          /\ UNCHANGED <<own, pop_order_cnt>>
    /\ UNCHANGED <<txbuf_hooker, push_order_cnt, cur_userbuf_id, uart, outptr, printed, history>>

InstallPicked(p) ==
    /\ At(p, "install")
    /\ txbuf_hooker' = Installed(own[p], txbuf_hooker)
    /\ cur_buf_id' = own[p] /\ buf_len' = txbuf_hooker[own[p]].used_size /\ state' = 1
    /\ Goto(p, "enable")
    /\ UNCHANGED <<uart_int, tickets, outptr, own, printed, history>>

NothingPicked(p) ==
    /\ At(p, "disable")
    /\ state' = 0 /\ uart_int' = FALSE
    /\ Goto(p, "enable")
    /\ UNCHANGED <<txbuf_hooker, cur_buf_id, buf_len, tickets, outptr, own, printed, history>>

EnableInt(p) ==
    /\ At(p, "enable")
    /\ uart_int' = TRUE
    /\ Goto(p, "idle")
    /\ UNCHANGED <<txbuf_hooker, state, cur_buf_id, buf_len, tickets, outptr, own, printed,
                   history>>

Prints(p) ==
    \/ Alloc(p) \/ XbufInstall(p) \/ XbufRelease(p) \/ MarkReady(p)
    \/ SetSize(p) \/ TestState(p)
    \/ PickFrom(p, "user", User, "local") \/ PickFrom(p, "local", Local, "disable")
    \/ InstallPicked(p) \/ NothingPicked(p) \/ EnableInt(p)

-----------------------------------------------------------------------------
(* A task dumps: bprintf                                                   *)

\* cs_userbuf_alloc reads the ticket before it takes the lock
UserRead(p) ==
    /\ At(p, "u_read")
    /\ own' = [own EXCEPT ![p] = push_order_cnt]
    /\ Goto(p, "u_alloc")
    /\ UNCHANGED <<txbuf_hooker, tickets, uart, outptr, printed, history>>

UserAlloc(p) ==
    /\ At(p, "u_alloc")
    /\ \/ /\ txbuf_hooker[cur_userbuf_id].state = "idle"
          /\ Take(p, cur_userbuf_id, own[p])
          /\ cur_userbuf_id' = (cur_userbuf_id + 1) % UserBufs
          /\ Goto(p, "u_fill")
       \/ /\ txbuf_hooker[cur_userbuf_id].state # "idle"
          /\ Goto(p, "u_read")
          /\ UNCHANGED <<txbuf_hooker, push_order_cnt, own, cur_userbuf_id, taken>>
    /\ UNCHANGED <<pop_order_cnt, uart, outptr, printed, sent>>

\* mutant: the length is not set
UserFill_NoLength(p) ==
    /\ At(p, "u_fill")
    /\ txbuf_hooker' = [txbuf_hooker EXCEPT ![own[p]].state = "ready"]
    /\ Goto(p, "u_post")
    /\ UNCHANGED <<tickets, uart, outptr, own, printed, history>>

\* the length is set before the state: no install sees the one without the other
UserFill(p) ==
    /\ At(p, "u_fill")
    /\ txbuf_hooker' = [txbuf_hooker EXCEPT ![own[p]].state = "ready", ![own[p]].used_size = TRUE]
    /\ Goto(p, "u_post")
    /\ UNCHANGED <<tickets, uart, outptr, own, printed, history>>

UserPost(p) ==
    /\ At(p, "u_post")
    /\ \/ state = 0 /\ cs_txbuf_install(txbuf_hooker, TRUE)
       \/ state # 0 /\ UNCHANGED <<txbuf_hooker, uart, pop_order_cnt>>
    /\ Goto(p, "idle")
    /\ UNCHANGED <<push_order_cnt, cur_userbuf_id, outptr, own, printed, history>>

Dumps(p) == UserRead(p) \/ UserAlloc(p) \/ UserFill(p) \/ UserPost(p)

\* a task has something to say
Begin(p) ==
    /\ At(p, "idle")
    /\ printed[p] < MaxPrints
    /\ printed' = [printed EXCEPT ![p] = @ + 1]
    /\ Goto(p, IF p \in Printers THEN "alloc" ELSE "u_read")
    /\ UNCHANGED <<txbuf_hooker, tickets, uart, outptr, own, history>>

-----------------------------------------------------------------------------
(* The interrupt: uart_isr, when the last of the buffer has been written,  *)
(* and cs_isr_callback                                                     *)

\* mutant: the buffer that was sent is not given back
UartTxDone_NotReleased ==
    /\ uart_int /\ state = 1
    /\ sent' = Append(sent, txbuf_hooker[cur_buf_id].msg)
    /\ cs_txbuf_install(txbuf_hooker, FALSE)
    /\ UNCHANGED <<push_order_cnt, cur_userbuf_id, outptr, pc, own, printed, taken>>

UartTxDone ==
    /\ uart_int /\ state = 1
    /\ sent' = Append(sent, txbuf_hooker[cur_buf_id].msg)
    /\ cs_txbuf_install([txbuf_hooker EXCEPT ![cur_buf_id] = Idle], FALSE)
    /\ UNCHANGED <<push_order_cnt, cur_userbuf_id, outptr, pc, own, printed, taken>>

-----------------------------------------------------------------------------

TxInit ==
    /\ txbuf_hooker = [b \in User \cup Local |-> Idle]
    /\ push_order_cnt = 0 /\ pop_order_cnt = 0 /\ cur_userbuf_id = 0
    /\ state = 0 /\ cur_buf_id = 0 /\ buf_len = FALSE /\ uart_int = FALSE
    /\ outptr = Nobody
    /\ pc = [p \in Tasks |-> "idle"] /\ own = [p \in Tasks |-> NoBuf]
    /\ printed = [p \in Tasks |-> 0]
    /\ taken = <<>> /\ sent = <<>>

TxStep ==
    \/ \E p \in Printers : Prints(p)
    \/ \E p \in Dumpers : Dumps(p)
    \/ UartTxDone

=============================================================================
