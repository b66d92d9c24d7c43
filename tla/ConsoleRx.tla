----------------------------- MODULE ConsoleRx -----------------------------
(***************************************************************************)
(* The receiver of the console (console.c): the UART's interrupt writes    *)
(* into a window of a ring, reports what is new through a queue and, when  *)
(* the window is full, opens the next one as far as the reader has got.    *)
(* A character is its number: 1 for the first one typed.                   *)
(***************************************************************************)
EXTENDS Naturals, Sequences

CONSTANTS Size,         \* CS_RX_BUF_LEN_MAX
          QueueLen,     \* RX_MSG_QUEUE_ITEM_LEN
          LineLen,      \* wbuf_len: cmdMAX_INPUT_SIZE
          MaxTyped      \* bound: characters typed

ASSUME ReceiverAssumption == {Size, QueueLen, LineLen} \subseteq Nat \ {0} /\ MaxTyped \in Nat

VARIABLES
    cs_rx_buffer,
    window,         \* the DEV_BUFFER of the interrupt: buf (an offset in the ring), len, ofs
    buf_rp_pos, buf_rd_pos,
    msg_queue,      \* where and how many, of each report
    typed, heard    \* history: characters from the line, characters read

rvars == <<cs_rx_buffer, window, buf_rp_pos, buf_rd_pos, msg_queue, typed, heard>>

\* mutant: the end of the ring is not looked for
cs_rxbuf_reinstall_NoWrap(w) ==
    LET post_range_s == w.buf + w.len
    IN  [buf |-> post_range_s, ofs |-> 0,
         len |-> (IF buf_rd_pos > post_range_s THEN buf_rd_pos ELSE Size) - post_range_s]

\* the window after w
cs_rxbuf_reinstall(w) ==
    LET post_range_s == w.buf + w.len
    IN  IF post_range_s = Size
        THEN [buf |-> 0, len |-> buf_rd_pos, ofs |-> 0]
        ELSE [buf |-> post_range_s, ofs |-> 0,
              len |-> (IF buf_rd_pos > post_range_s THEN buf_rd_pos ELSE Size) - post_range_s]

\* mutant: a report starts where the window does
Unreported_WholeWindow(w) == [buf |-> w.buf, len |-> w.ofs]

\* cs_rxdata_indication: what the next report says
Unreported(w) == [buf |-> buf_rp_pos, len |-> w.buf + w.ofs - buf_rp_pos]

\* the ring when k characters have come, up to the cell before end
Filled(end, k) ==
    [i \in 0 .. Size - 1 |->
        IF i \in end - k .. end - 1 THEN typed + 1 + i - (end - k) ELSE cs_rx_buffer[i]]

\* k characters are written, reported (if the queue has room), and the window may move
UartRx(k) ==
    LET w == [window EXCEPT !.ofs = @ + k]
        written == w.buf + w.ofs
        room == Len(msg_queue) < QueueLen
    IN  /\ typed + k <= MaxTyped
        /\ k <= window.len - window.ofs
        /\ typed' = typed + k
        /\ cs_rx_buffer' = Filled(written, k)
        /\ msg_queue' = IF room THEN Append(msg_queue, Unreported(w)) ELSE msg_queue
        /\ window' = IF w.ofs >= w.len THEN cs_rxbuf_reinstall(w) ELSE w
        /\ buf_rp_pos' = IF w.ofs >= w.len THEN window'.buf
                         ELSE IF room THEN written ELSE buf_rp_pos
        /\ UNCHANGED <<buf_rd_pos, heard>>

\* mutant: the end of the ring is passed by one
Advance_PastTheEnd(pos, n) == IF pos + n > Size THEN 0 ELSE pos + n

Advance(pos, n) == IF pos + n >= Size THEN 0 ELSE pos + n

Fits(msg) == msg.len <= LineLen

\* a report is taken and its characters are copied; one too long for the line is
\* dropped, and the reader stays where it is
console_wait_newline ==
    /\ msg_queue # <<>>
    /\ LET msg == Head(msg_queue)
       IN  IF Fits(msg)
           THEN /\ heard' = heard \o [i \in 1 .. msg.len |-> cs_rx_buffer[msg.buf + i - 1]]
                /\ buf_rd_pos' = Advance(buf_rd_pos, msg.len)
           ELSE UNCHANGED <<heard, buf_rd_pos>>
    /\ msg_queue' = Tail(msg_queue)
    /\ UNCHANGED <<cs_rx_buffer, window, buf_rp_pos, typed>>

\* the line is no faster than the reader: it never fills the ring nor the queue, and
\* one interrupt, which brings what is in the UART's FIFO, no more than a line
Paced(k) ==
    /\ typed + k - Len(heard) < Size
    /\ Len(msg_queue) < QueueLen
    /\ k <= LineLen

RxInit ==
    /\ cs_rx_buffer = [i \in 0 .. Size - 1 |-> 0]
    /\ window = [buf |-> 0, len |-> Size, ofs |-> 0]
    /\ buf_rp_pos = 0 /\ buf_rd_pos = 0
    /\ msg_queue = <<>>
    /\ typed = 0 /\ heard = <<>>

RxTypeOK ==
    /\ cs_rx_buffer \in [0 .. Size - 1 -> 0 .. MaxTyped]
    /\ window \in [buf : 0 .. Size - 1, len : 0 .. Size, ofs : 0 .. Size]
    /\ window.buf + window.len <= Size /\ window.ofs <= window.len
    /\ buf_rp_pos \in 0 .. Size - 1 /\ buf_rd_pos \in 0 .. Size - 1
    /\ \A i \in DOMAIN msg_queue : msg_queue[i].buf + msg_queue[i].len <= Size
    /\ Len(msg_queue) <= QueueLen
    /\ typed \in 0 .. MaxTyped /\ heard \in Seq(1 .. MaxTyped)

\* What is read is what was typed, in its order: no report covers characters
\* twice, misses some, or names a place that was written again before the
\* reader came to it.
InputInOrder == \A i \in DOMAIN heard : heard[i] = i

\* The interrupt always has room for a character, wherever in the ring the
\* reader is when a window is full: none is opened empty.
NeverDeaf == window.ofs < window.len

=============================================================================
