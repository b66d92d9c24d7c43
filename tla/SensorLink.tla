----------------------------- MODULE SensorLink -----------------------------
(***************************************************************************)
(* The cascade link as the application of a two-chip sensor sees it: the   *)
(* calls of cascade.c over a wire that carries one package at a time.  The *)
(* steps of a transfer are CascadeLink's, abstracted to who has the link   *)
(* open and when each end lets go of it.                                   *)
(***************************************************************************)
EXTENDS Naturals

CONSTANTS QueueLen,     \* CASCADE_QUEUE_LEN
          NoPackage

ASSUME LinkAssumption == QueueLen \in Nat \ {0}

Chip == {"M", "S"}
Peer(c) == IF c = "M" THEN "S" ELSE "M"

VARIABLES
    xfer_type,        \* cs_proc.xfer_type; LAST: only the last checksum is left
    cas_tx_buf,       \* the package being filled or sent
    rx_data_buffer,   \* the one receive buffer
    rx_queue,         \* number of packages indicated
    tx_queue          \* confirmations; one from the start, as the first call waits for none

link == <<xfer_type, cas_tx_buf, rx_data_buffer, rx_queue, tx_queue>>

LinkInit ==
    /\ xfer_type = [c \in Chip |-> "INVALID"]
    /\ cas_tx_buf = [c \in Chip |-> NoPackage]
    /\ rx_data_buffer = [c \in Chip |-> NoPackage]
    /\ rx_queue = [c \in Chip |-> 0]
    /\ tx_queue = [c \in Chip |-> 1]

Counted(n) == IF n < QueueLen THEN n + 1 ELSE n

\* waits for the last confirmation, then the buffer is filled
cascade_write_buf_req(c, pkg) ==
    /\ tx_queue[c] > 0
    /\ tx_queue' = [tx_queue EXCEPT ![c] = @ - 1]
    /\ cas_tx_buf' = [cas_tx_buf EXCEPT ![c] = pkg]
    /\ UNCHANGED <<xfer_type, rx_data_buffer, rx_queue>>

\* cascade_write is called again for as long as this chip's end is busy
cascade_write_buf_done(c) ==
    /\ xfer_type[c] = "INVALID"
    /\ xfer_type' = [xfer_type EXCEPT ![c] = "TX"]
    /\ UNCHANGED <<cas_tx_buf, rx_data_buffer, rx_queue, tx_queue>>

HasPackage(c) == rx_queue[c] > 0

\* cascade_read_buf_req finds a package; what is read is what the buffer holds
cascade_read_buf_req(c) ==
    /\ HasPackage(c)
    /\ rx_queue' = [rx_queue EXCEPT ![c] = @ - 1]
    /\ UNCHANGED <<xfer_type, cas_tx_buf, rx_data_buffer, tx_queue>>

\* cascade_process_done closes whatever session is open
cascade_read_buf_done(c) ==
    /\ xfer_type' = [xfer_type EXCEPT ![c] = "INVALID"]
    /\ UNCHANGED <<cas_tx_buf, rx_data_buffer, rx_queue, tx_queue>>

-----------------------------------------------------------------------------
(* The transfer from chip c to the other one.                              *)

\* the header reaches a chip whose end is free
HeaderArrives(c) ==
    /\ xfer_type[c] = "TX" /\ xfer_type[Peer(c)] = "INVALID"
    /\ xfer_type' = [xfer_type EXCEPT ![Peer(c)] = "RX"]
    /\ UNCHANGED <<cas_tx_buf, rx_data_buffer, rx_queue, tx_queue>>

\* the last word has left: cascade_tx_confirmation, cascade_package_done
SenderDone(c) ==
    /\ xfer_type[c] = "TX" /\ xfer_type[Peer(c)] = "RX"
    /\ xfer_type' = [xfer_type EXCEPT ![c] = "INVALID", ![Peer(c)] = "LAST"]
    /\ rx_data_buffer' = [rx_data_buffer EXCEPT ![Peer(c)] = cas_tx_buf[c]]
    /\ tx_queue' = [tx_queue EXCEPT ![c] = Counted(@)]
    /\ UNCHANGED <<cas_tx_buf, rx_queue>>

\* the last checksum is compared: cascade_rx_indication, cascade_package_done
ReceiverDone(c) ==
    /\ xfer_type[Peer(c)] = "LAST"
    /\ xfer_type' = [xfer_type EXCEPT ![Peer(c)] = "INVALID"]
    /\ rx_queue' = [rx_queue EXCEPT ![Peer(c)] = Counted(@)]
    /\ UNCHANGED <<cas_tx_buf, rx_data_buffer, tx_queue>>

Transfer(c) == HeaderArrives(c) \/ SenderDone(c) \/ ReceiverDone(c)

\* a package is on its way to chip c
Coming(c) == xfer_type[Peer(c)] = "TX" \/ xfer_type[c] \in {"RX", "LAST"}

\* nothing is under way and nothing waits to be read
Quiet == \A c \in Chip : xfer_type[c] = "INVALID" /\ rx_queue[c] = 0

LinkTypeOK(Package) ==
    /\ xfer_type \in [Chip -> {"INVALID", "TX", "RX", "LAST"}]
    /\ cas_tx_buf \in [Chip -> Package \cup {NoPackage}]
    /\ rx_data_buffer \in [Chip -> Package \cup {NoPackage}]
    /\ rx_queue \in [Chip -> 0 .. QueueLen]
    /\ tx_queue \in [Chip -> 0 .. QueueLen]

=============================================================================
