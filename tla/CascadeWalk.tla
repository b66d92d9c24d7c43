---------------------------- MODULE CascadeWalk ----------------------------
(***************************************************************************)
(* A package on its way through the frame arithmetic of both ends          *)
(* (frame.c), without the wire: the sending manager tx and the receiving   *)
(* manager rx compute on their own where each part of the payload starts   *)
(* and how long it is; only the package's length is told.  The sizes are   *)
(* the real ones in the run, and arbitrary in CascadeWalkProof.            *)
(***************************************************************************)
EXTENDS CascadeFrame

VARIABLES tx, rx,   \* the two managers
          moved     \* how many words of the payload have gone over

walk == <<tx, rx, moved>>

Init ==
    \E len \in 1 .. BufferSize :
        /\ tx = cascade_tx_first_frame_init(cascade_package_init(BlankManager, len))
        /\ rx = cascade_rx_first_frame_init(cascade_receiver_init(BlankManager, len))
        /\ moved = 0

\* the sender clocks its next part, the receiver stores as many words
Part ==
    LET n == FramePartSize(tx.frame)
    IN  /\ ~ tx.frame.payload_done
        /\ tx' = [tx EXCEPT !.frame = cascade_frame_part_update(@, n)]
        /\ rx' = [rx EXCEPT !.frame = cascade_frame_part_update(@, n)]
        /\ moved' = moved + n

\* the checksums have been exchanged: each end moves on to its next frame
NextFrame ==
    /\ tx.frame.payload_done /\ rx.frame.payload_done
    /\ ~ IsLastFrame(tx)
    /\ tx' = cascade_tx_next_frame_init(tx)
    /\ rx' = cascade_rx_next_frame_init([rx EXCEPT !.frame = cascade_frame_reset(@)])
    /\ UNCHANGED moved

Next == Part \/ NextFrame

Spec == Init /\ [][Next]_walk /\ WF_walk(Next)

-----------------------------------------------------------------------------

\* The types, with every offset and count within the package.
TypeOK ==
    /\ moved \in 0 .. BufferSize
    /\ \A x \in {tx, rx} :
        /\ x.xfer_size \in 1 .. BufferSize
        /\ x.nof_frame \in 1 .. x.xfer_size
        /\ x.cur_frame_id \in 0 .. x.nof_frame - 1
        /\ x.frame.len \in 1 .. FrameLen
        /\ x.frame.handled \in 0 .. x.frame.len

\* The receiver ignores the length in a frame's header, and the two ends size
\* their frames by two different functions: at every moment they agree.
EndsAgree ==
    /\ rx.nof_frame = tx.nof_frame
    /\ rx.cur_frame_id = tx.cur_frame_id
    /\ rx.frame.len = tx.frame.len
    /\ rx.frame.handled = tx.frame.handled
    /\ rx.frame.payload_done = tx.frame.payload_done

\* The parts follow each other without gap or overlap, and the receiver puts
\* each where the sender took it from, within rx_data_buffer.
PartsInPlace ==
    /\ FramePartBase(tx.frame) = moved
    /\ FramePartBase(rx.frame) = moved
    /\ moved + FramePartSize(rx.frame) <= BufferSize

\* When the last frame is through, so is the whole package.
WholePackage ==
    IsLastFrame(tx) /\ tx.frame.payload_done => moved = tx.xfer_size

\* The walk ends: every frame is reached, and no frame is left half done.
WalkEnds == <>[](IsLastFrame(tx) /\ tx.frame.payload_done)

=============================================================================
