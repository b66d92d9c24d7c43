---------------------------- MODULE CascadeFrame ----------------------------
(***************************************************************************)
(* The frame arithmetic of the cascade link (frame.c, and the package part *)
(* of core.c).  A package of up to BufferSize words is cut into frames of  *)
(* FrameLen words, a frame into parts of PartLen words; a manager walks    *)
(* one package, and its current frame records how far the walk has come.   *)
(* All lengths are in 32-bit words; a payload pointer is an offset into    *)
(* the package's buffer.                                                   *)
(***************************************************************************)
EXTENDS Integers

CONSTANTS FrameLen,     \* CASCADE_FRAME_LEN_MAX >> 2
          PartLen,      \* CASCADE_FRAME_PART_LEN_MAX
          BufferSize    \* CASCADE_BUFFER_SIZE

ASSUME LenAssumption ==
    /\ PartLen \in Nat \ {0}
    /\ FrameLen \in Nat \ {0}
    /\ BufferSize \in Nat \ {0}

AtMost(n, bound) == IF n > bound THEN bound ELSE n

\* mutant: the rest that does not fill a frame is forgotten
FrameCount_Floor(len) == len \div FrameLen

\* how many frames carry len words
FrameCount(len) == (len + FrameLen - 1) \div FrameLen

BlankFrame ==
    [header |-> 0, payload |-> 0, len |-> 0, handled |-> 0, crc |-> <<>>,
     crc_valid |-> FALSE, crc_done |-> FALSE,
     header_done |-> FALSE, payload_done |-> FALSE]

\* a manager before its first package
BlankManager ==
    [state |-> "IDLE", xfer_size |-> 0, nof_frame |-> 0, cur_frame_id |-> 0,
     crc_done_cnt |-> 0, frame |-> BlankFrame]

\* the fields every "first/next frame" function sets alike
StartFrame(f, ofs, len, headerDone) ==
    [f EXCEPT !.payload = ofs, !.len = AtMost(len, FrameLen), !.handled = 0,
              !.header_done = headerDone, !.payload_done = FALSE,
              !.crc_done = FALSE]

cascade_package_init(x, len) ==
    [x EXCEPT !.xfer_size = len, !.nof_frame = FrameCount(len), !.cur_frame_id = 0]

cascade_tx_first_frame_init(x) ==
    [x EXCEPT !.frame = [StartFrame(@, 0, x.xfer_size, FALSE)
                            EXCEPT !.header = x.xfer_size, !.crc_valid = FALSE]]

\* mutant: the frame number is not advanced
cascade_tx_next_frame_init_NotCounted(x) ==
    LET ofs == (x.cur_frame_id + 1) * FrameLen
        len == AtMost(x.xfer_size - ofs, FrameLen)
    IN  [x EXCEPT !.frame = [StartFrame(@, ofs, len, FALSE) EXCEPT !.header = len]]

\* the header carries the length of the frame; crc_valid is left as it is
cascade_tx_next_frame_init(x) ==
    LET ofs == (x.cur_frame_id + 1) * FrameLen
        len == AtMost(x.xfer_size - ofs, FrameLen)
    IN  [x EXCEPT !.frame = [StartFrame(@, ofs, len, FALSE) EXCEPT !.header = len],
                  !.cur_frame_id = @ + 1]

\* the whole manager is set up for a package of length words; 0 is ignored
cascade_receiver_init(x, length) ==
    IF length > 0
    THEN [cascade_package_init(x, length) EXCEPT !.crc_done_cnt = 0, !.state = "BUSY"]
    ELSE x

\* a package that does not fit leaves the frame alone
cascade_rx_first_frame_init(x) ==
    IF x.xfer_size <= BufferSize
    THEN [x EXCEPT !.frame = [StartFrame(@, 0, x.xfer_size, TRUE)
                                EXCEPT !.crc_valid = FALSE]]
    ELSE x

\* mutant: the offset of the current frame, not of the next
cascade_rx_next_frame_init_SameFrame(x) ==
    LET ofs == x.cur_frame_id * FrameLen
    IN  [x EXCEPT !.frame = StartFrame(@, ofs, x.xfer_size - (x.cur_frame_id + 1) * FrameLen, TRUE),
                  !.cur_frame_id = @ + 1]

\* the length in the received header is not used: it follows from the package
cascade_rx_next_frame_init(x) ==
    LET ofs == (x.cur_frame_id + 1) * FrameLen
    IN  [x EXCEPT !.frame = StartFrame(@, ofs, x.xfer_size - ofs, TRUE),
                  !.cur_frame_id = @ + 1]

\* mutant: done only when more than the frame has been handled
cascade_frame_part_update_Strict(f, cnt) ==
    [f EXCEPT !.handled = @ + cnt,
              !.payload_done = @ \/ f.handled + cnt > f.len]

cascade_frame_part_update(f, cnt) ==
    [f EXCEPT !.handled = @ + cnt,
              !.payload_done = @ \/ f.handled + cnt >= f.len]

cascade_frame_reset(f) ==
    [f EXCEPT !.len = 0, !.handled = 0, !.payload = 0, !.header_done = FALSE,
              !.payload_done = FALSE, !.crc_done = FALSE]

FramePartBase(f) == f.payload + f.handled

\* mutant: the last part is not cut off at the end of the frame
FramePartSize_Unbounded(f) == PartLen

FramePartSize(f) == AtMost(f.len - f.handled, PartLen)

\* mutant: off by one
IsLastFrame_OffByOne(x) == x.cur_frame_id >= x.nof_frame

IsLastFrame(x) == x.cur_frame_id >= x.nof_frame - 1

=============================================================================
