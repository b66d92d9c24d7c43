------------------------------ MODULE Console ------------------------------
(***************************************************************************)
(* The console: its transmitter, its receiver, and the task of the command *)
(* line, which prints an answer to what it reads.                          *)
(***************************************************************************)
EXTENDS ConsoleTx, ConsoleRx

CONSTANT Cli            \* command_interpreter_task

ASSUME CliAssumption == Cli \in Printers

vars == <<tvars, rvars>>

\* command_task.c: a task that waits for a message
Reads ==
    /\ At(Cli, "idle")
    /\ console_wait_newline
    /\ IF Fits(Head(msg_queue))
       THEN printed' = [printed EXCEPT ![Cli] = @ + 1] /\ Goto(Cli, "alloc")
       ELSE UNCHANGED <<printed, pc>>
    /\ UNCHANGED <<txbuf_hooker, tickets, uart, outptr, own, history>>

Types == UNCHANGED tvars /\ \E k \in 1 .. Size : Paced(k) /\ UartRx(k)

Init == TxInit /\ RxInit

Next ==
    \/ TxStep /\ UNCHANGED rvars
    \/ \E p \in Tasks \ {Cli} : Begin(p) /\ UNCHANGED rvars
    \/ Reads
    \/ Types

Spec == Init /\ [][Next]_vars

\* the scheduler runs every task that can, and a UART that has data to send interrupts
FairSpec ==
    /\ Spec
    /\ \A p \in Printers : SF_vars(Prints(p) /\ UNCHANGED rvars)
    /\ \A p \in Dumpers : WF_vars(Dumps(p) /\ UNCHANGED rvars)
    /\ WF_vars(UartTxDone /\ UNCHANGED rvars)

-----------------------------------------------------------------------------

Hooker == [state : {"idle", "filling", "ready", "installed"}, timestamp : Nat,
           msg : Message \cup {NoMessage}, used_size : BOOLEAN]

TypeOK ==
    /\ txbuf_hooker \in [User \cup Local -> Hooker]
    /\ pop_order_cnt \in 0 .. push_order_cnt
    /\ push_order_cnt = Len(taken)
    /\ cur_userbuf_id \in User
    /\ state \in 0 .. 1 /\ uart_int \in BOOLEAN
    /\ cur_buf_id \in User \cup Local /\ buf_len \in BOOLEAN
    /\ outptr \in Tasks \cup {Nobody}
    /\ own \in [Tasks -> Nat] /\ printed \in [Tasks -> Nat]
    /\ RxTypeOK

\* no ticket is passed over, given twice or sent twice
InTurn == Len(sent) <= Len(taken) /\ \A i \in DOMAIN sent : sent[i] = taken[i]

\* the UART has the length of the dump that it sends
DumpsWhole == state = 1 /\ cur_buf_id \in User => buf_len

\* Buffers leave in the order in which their tasks got them, each once, whoever
\* installs the next one, the task that finds the transmitter idle or the
\* interrupt; and what a task dumps leaves whole.  A printed line may not: its
\* buffer can be installed, and even sent and given to another, before
\* post_printf has set its length, and leaves with the length of an earlier line
\* or with none.
SentInOrder == InTurn /\ DumpsWhole

\* Only the buffer the UART is sending is installed: no install runs over
\* another and leaves a message behind that is neither sent nor given back.
InstalledIsSent ==
    \A b \in User \cup Local : txbuf_hooker[b].state = "installed" => b = cur_buf_id /\ state = 1

\* Every buffer that a task has got is handed to the UART and given back in the
\* end: the task that posts a message and the interrupt that stops the transmitter
\* do not each leave it to the other, also when the interrupt comes between the two
\* steps of the post.  (With which length it leaves is for SentInOrder to say;
\* tasks have only so much to print.)
AllSent == []<>(Len(sent) = Len(taken))

=============================================================================
