-------------------------- MODULE CascadeWalkProof --------------------------
(***************************************************************************)
(* The frame arithmetic of the cascade link is right for every frame size, *)
(* part size, buffer size and package length: proofs about CascadeWalk.    *)
(***************************************************************************)
EXTENDS CascadeWalk, TLAPS

-----------------------------------------------------------------------------
(* Lemmas about the operators of CascadeFrame.                             *)

\* The number of frames is the least that holds len words.
LEMMA FrameCountBounds ==
    ASSUME NEW len \in Nat, len > 0
    PROVE  /\ FrameCount(len) \in Nat
           /\ 1 <= FrameCount(len) /\ FrameCount(len) <= len
           /\ (FrameCount(len) - 1) * FrameLen < len
           /\ len <= FrameCount(len) * FrameLen
<1>1. FrameCount(len) \in Nat /\ 1 <= FrameCount(len)
  BY LenAssumption DEF FrameCount
<1>2. (FrameCount(len) - 1) * FrameLen < len
  BY LenAssumption DEF FrameCount
<1>3. len <= FrameCount(len) * FrameLen
  BY LenAssumption DEF FrameCount
<1>4. FrameCount(len) - 1 <= (FrameCount(len) - 1) * FrameLen
  <2> DEFINE c == FrameCount(len) - 1
  <2>1. c \in Nat
    BY <1>1
  <2> HIDE DEF c
  <2>2. c <= c * FrameLen
    BY <2>1, LenAssumption
  <2> QED
    BY <2>2 DEF c
<1>5. FrameCount(len) <= len
  <2> DEFINE n == FrameCount(len)
             w == (n - 1) * FrameLen
  <2>1. n \in Nat /\ w \in Int /\ n - 1 <= w /\ w < len
    BY <1>1, <1>2, <1>4, LenAssumption
  <2> HIDE DEF n, w
  <2>2. n <= len
    BY <2>1
  <2> QED
    BY <2>2 DEF n
<1> QED
  BY <1>1, <1>2, <1>3, <1>5

\* Every frame starts inside the package, the last one holds what is left, and
\* every other one is full.
LEMMA FrameSpan ==
    ASSUME NEW len \in Nat, len > 0,
           NEW c \in Nat, c < FrameCount(len)
    PROVE  /\ c * FrameLen \in Nat
           /\ c * FrameLen < len
           /\ (c + 1) * FrameLen = c * FrameLen + FrameLen
           /\ c >= FrameCount(len) - 1 => len - c * FrameLen <= FrameLen
           /\ c < FrameCount(len) - 1 => (c + 1) * FrameLen < len
<1> DEFINE n == FrameCount(len)
<1>1. /\ n \in Nat
      /\ (n - 1) * FrameLen < len
      /\ len <= n * FrameLen
  BY FrameCountBounds
<1>2. c < n
  OBVIOUS
<1> HIDE DEF n
<1>3. ASSUME NEW d \in Nat, d <= n - 1
      PROVE  d * FrameLen < len
  <2>1. d * FrameLen <= (n - 1) * FrameLen
    BY <1>1, <1>3, LenAssumption
  <2>2. d * FrameLen \in Int /\ (n - 1) * FrameLen \in Int
    BY <1>1, LenAssumption
  <2> QED
    BY <2>1, <2>2, <1>1
<1>4. c * FrameLen \in Nat
  BY LenAssumption
<1>5. (c + 1) * FrameLen = c * FrameLen + FrameLen
  BY LenAssumption
<1>6. c * FrameLen < len
  BY <1>1, <1>2, <1>3
<1>7. c >= n - 1 => len - c * FrameLen <= FrameLen
  <2> SUFFICES ASSUME c >= n - 1
               PROVE  len - c * FrameLen <= FrameLen
    OBVIOUS
  <2>1. n = c + 1
    BY <1>1, <1>2
  <2>2. len <= (c + 1) * FrameLen
    BY <2>1, <1>1
  <2> QED
    BY <2>2, <1>4, <1>5, LenAssumption
<1>8. c < n - 1 => (c + 1) * FrameLen < len
  BY <1>1, <1>3
<1> QED
  BY <1>4, <1>5, <1>6, <1>7, <1>8 DEF n

-----------------------------------------------------------------------------
(* The inductive invariant: the sender's frame is the cur_frame_id-th slice *)
(* of the package, its handled words are the last of those moved, and the   *)
(* receiver's manager repeats it.                                           *)

Frame ==
    [header : Nat, payload : Nat, len : Nat, handled : Nat, crc : {<<>>},
     crc_valid : BOOLEAN, crc_done : BOOLEAN, header_done : BOOLEAN, payload_done : BOOLEAN]
Manager ==
    [state : {"IDLE", "BUSY"}, xfer_size : Nat, nof_frame : Nat, cur_frame_id : Nat,
     crc_done_cnt : Nat, frame : Frame]

\* f is the slice number c of a package of size words
Slice(f, c, size) ==
    /\ f.payload = c * FrameLen
    /\ f.len = AtMost(size - c * FrameLen, FrameLen)
    /\ f.handled <= f.len
    /\ f.payload_done <=> f.handled >= f.len

Walking(x) ==
    /\ x \in Manager
    /\ 0 < x.xfer_size /\ x.xfer_size <= BufferSize
    /\ x.nof_frame = FrameCount(x.xfer_size)
    /\ x.cur_frame_id < x.nof_frame
    /\ Slice(x.frame, x.cur_frame_id, x.xfer_size)

IInv ==
    /\ Walking(tx) /\ Walking(rx)
    /\ rx.xfer_size = tx.xfer_size
    /\ rx.cur_frame_id = tx.cur_frame_id
    /\ rx.frame.handled = tx.frame.handled
    /\ moved = tx.frame.payload + tx.frame.handled

-----------------------------------------------------------------------------
(* What the properties need of IInv.                                       *)

\* A slice has at least one word and ends within the package.
LEMMA SliceFits ==
    ASSUME NEW x, Walking(x)
    PROVE  /\ x.frame.payload \in Nat /\ x.frame.len \in Nat /\ x.frame.handled \in Nat
           /\ 1 <= x.frame.len /\ x.frame.len <= FrameLen
           /\ x.frame.payload + x.frame.len <= x.xfer_size
           /\ IsLastFrame(x) => x.frame.payload + x.frame.len = x.xfer_size
           /\ ~ IsLastFrame(x) => x.frame.len = FrameLen
           /\ ~ IsLastFrame(x) => x.frame.payload + FrameLen < x.xfer_size
<1> DEFINE c == x.cur_frame_id
           size == x.xfer_size
           ofs == c * FrameLen
<1>1. /\ c \in Nat /\ size \in Nat /\ 0 < size
      /\ c < FrameCount(size)
      /\ x.frame.payload \in Nat /\ x.frame.len \in Nat /\ x.frame.handled \in Nat
      /\ x.frame.payload = ofs
      /\ x.frame.len = AtMost(size - ofs, FrameLen)
  BY DEF Walking, Manager, Frame, Slice
<1>2. FrameCount(size) \in Nat
  BY <1>1, FrameCountBounds
<1>3. IsLastFrame(x) <=> c >= FrameCount(size) - 1
  BY DEF Walking, IsLastFrame
<1>4. /\ ofs \in Nat /\ ofs < size
      /\ (c + 1) * FrameLen = ofs + FrameLen
      /\ c >= FrameCount(size) - 1 => size - ofs <= FrameLen
      /\ c < FrameCount(size) - 1 => (c + 1) * FrameLen < size
  BY <1>1, FrameSpan
<1>5. c < FrameCount(size) - 1 => ofs + FrameLen < size
  BY <1>4
<1> HIDE DEF c, ofs
<1>6. 1 <= x.frame.len /\ x.frame.len <= FrameLen /\ ofs + x.frame.len <= size
  BY <1>1, <1>4, LenAssumption DEF AtMost
<1>7. IsLastFrame(x) => ofs + x.frame.len = size
  BY <1>1, <1>3, <1>4, LenAssumption DEF AtMost
<1>8. ~ IsLastFrame(x) => x.frame.len = FrameLen /\ ofs + FrameLen < size
  BY <1>1, <1>2, <1>3, <1>4, <1>5, LenAssumption DEF AtMost
<1> QED
  BY <1>1, <1>6, <1>7, <1>8

\* Two managers at the same frame of packages of the same size agree on it.
LEMMA SameSlice == IInv => EndsAgree /\ rx.frame.payload = tx.frame.payload
<1> SUFFICES ASSUME IInv
             PROVE  EndsAgree /\ rx.frame.payload = tx.frame.payload
  OBVIOUS
<1>1. /\ rx.nof_frame = tx.nof_frame
      /\ rx.cur_frame_id = tx.cur_frame_id
      /\ rx.frame.payload = tx.frame.payload
      /\ rx.frame.len = tx.frame.len
      /\ rx.frame.handled = tx.frame.handled
  BY DEF IInv, Walking, Slice
<1>2. tx.frame.payload_done \in BOOLEAN /\ rx.frame.payload_done \in BOOLEAN
  BY DEF IInv, Walking, Manager, Frame
<1>3. /\ tx.frame.payload_done <=> tx.frame.handled >= tx.frame.len
      /\ rx.frame.payload_done <=> rx.frame.handled >= rx.frame.len
  BY DEF IInv, Walking, Slice
<1>4. rx.frame.payload_done <=> tx.frame.payload_done
  <2> HIDE DEF IInv
  <2> QED
    BY <1>1, <1>3
<1>5. rx.frame.payload_done = tx.frame.payload_done
  BY <1>2, <1>4
<1> QED
  BY <1>1, <1>5 DEF EndsAgree

LEMMA TypeFollows == IInv => TypeOK
<1> SUFFICES ASSUME IInv
             PROVE  TypeOK
  OBVIOUS
<1>1. ASSUME NEW x \in {tx, rx}
      PROVE  /\ x.xfer_size \in 1 .. BufferSize
             /\ x.nof_frame \in 1 .. x.xfer_size
             /\ x.cur_frame_id \in 0 .. x.nof_frame - 1
             /\ x.frame.len \in 1 .. FrameLen
             /\ x.frame.handled \in 0 .. x.frame.len
  <2>1. Walking(x)
    BY <1>1 DEF IInv
  <2>2. x.xfer_size \in 1 .. BufferSize /\ x.cur_frame_id \in Nat /\ x.nof_frame \in Nat
    BY <2>1, LenAssumption DEF Walking, Manager
  <2>3. x.nof_frame \in 1 .. x.xfer_size
    BY <2>1, <2>2, FrameCountBounds DEF Walking
  <2>4. x.cur_frame_id \in 0 .. x.nof_frame - 1
    BY <2>1, <2>2 DEF Walking
  <2>5. x.frame.len \in 1 .. FrameLen
    BY <2>1, SliceFits, LenAssumption
  <2>6. x.frame.handled \in 0 .. x.frame.len
    BY <2>1, SliceFits DEF Walking, Slice
  <2> QED
    BY <2>2, <2>3, <2>4, <2>5, <2>6
<1>2. moved \in 0 .. BufferSize
  <2>1. Walking(tx) /\ moved = tx.frame.payload + tx.frame.handled
    BY DEF IInv
  <2>2. /\ tx.frame.handled <= tx.frame.len /\ tx.xfer_size <= BufferSize
        /\ tx.xfer_size \in Nat
    BY <2>1 DEF Walking, Slice, Manager
  <2> QED
    BY <2>1, <2>2, SliceFits, LenAssumption
<1> QED
  BY <1>1, <1>2 DEF TypeOK

LEMMA PlaceFollows == IInv => PartsInPlace /\ WholePackage
<1> SUFFICES ASSUME IInv
             PROVE  PartsInPlace /\ WholePackage
  OBVIOUS
<1>1. /\ Walking(tx) /\ Walking(rx) /\ EndsAgree
      /\ rx.frame.payload = tx.frame.payload
      /\ moved = tx.frame.payload + tx.frame.handled
  BY SameSlice DEF IInv
<1>2. /\ rx.frame.handled <= rx.frame.len /\ rx.xfer_size <= BufferSize
      /\ tx.frame.handled <= tx.frame.len
      /\ rx.xfer_size \in Nat /\ tx.xfer_size \in Nat
      /\ tx.frame.payload_done => tx.frame.handled >= tx.frame.len
  BY <1>1 DEF Walking, Slice, Manager
<1>3. FramePartSize(rx.frame) <= rx.frame.len - rx.frame.handled
  BY <1>1, SliceFits, LenAssumption DEF FramePartSize, AtMost
<1>4. FramePartSize(rx.frame) \in Int
  BY <1>1, SliceFits, LenAssumption DEF FramePartSize, AtMost
<1>5. PartsInPlace
  BY <1>1, <1>2, <1>3, <1>4, SliceFits, LenAssumption DEF PartsInPlace, EndsAgree, FramePartBase
<1>6. WholePackage
  BY <1>1, <1>2, SliceFits DEF WholePackage
<1> QED
  BY <1>5, <1>6

-----------------------------------------------------------------------------
(* IInv is inductive.                                                      *)

\* The blank manager a package is set up in has the right type.
LEMMA BlankTypes == BlankFrame \in Frame /\ BlankManager \in Manager
<1>1. BlankFrame \in Frame
  BY DEF BlankFrame, Frame
<1> QED
  BY <1>1 DEF BlankManager, Manager

\* Cutting a length off at the frame size leaves a length.
LEMMA AtMostNat == \A len \in Nat : AtMost(len, FrameLen) \in Nat
BY LenAssumption DEF AtMost

\* The sender's manager is set up for a package of len words.
LEMMA TxFirst ==
    ASSUME NEW len \in Nat, FrameCount(len) \in Nat,
           NEW y, y = cascade_tx_first_frame_init(cascade_package_init(BlankManager, len))
    PROVE  /\ y \in Manager
           /\ y.xfer_size = len /\ y.nof_frame = FrameCount(len) /\ y.cur_frame_id = 0
           /\ y.frame.payload = 0 /\ y.frame.len = AtMost(len, FrameLen)
           /\ y.frame.handled = 0 /\ y.frame.payload_done = FALSE
<1> DEFINE x == cascade_package_init(BlankManager, len)
<1>1. /\ x \in Manager /\ x.frame \in Frame
      /\ x.xfer_size = len /\ x.nof_frame = FrameCount(len) /\ x.cur_frame_id = 0
  BY BlankTypes DEF cascade_package_init, Manager
<1> HIDE DEF x
<1>3. PICK f : f = StartFrame(x.frame, 0, len, FALSE)
  OBVIOUS
<1> DEFINE g == [f EXCEPT !.header = len, !.crc_valid = FALSE]
<1>2. y = [x EXCEPT !.frame = g]
  BY <1>1, <1>3 DEF cascade_tx_first_frame_init, x
<1>4. /\ f \in Frame /\ f.payload = 0 /\ f.len = AtMost(len, FrameLen)
      /\ f.handled = 0 /\ f.payload_done = FALSE
  BY <1>1, <1>3, AtMostNat DEF StartFrame, Frame
<1>5. /\ g \in Frame /\ g.payload = f.payload /\ g.len = f.len
      /\ g.handled = f.handled /\ g.payload_done = f.payload_done
  BY <1>4 DEF Frame
<1> HIDE DEF g
<1>6. /\ y \in Manager /\ y.frame = g /\ y.xfer_size = x.xfer_size
      /\ y.nof_frame = x.nof_frame /\ y.cur_frame_id = x.cur_frame_id
  BY <1>1, <1>2, <1>5 DEF Manager
<1> QED
  BY <1>1, <1>4, <1>5, <1>6

\* The receiver's manager is set up for a package of len words that fits.
LEMMA RxFirst ==
    ASSUME NEW len \in Nat, FrameCount(len) \in Nat, 0 < len, len <= BufferSize,
           NEW y, y = cascade_rx_first_frame_init(cascade_receiver_init(BlankManager, len))
    PROVE  /\ y \in Manager
           /\ y.xfer_size = len /\ y.nof_frame = FrameCount(len) /\ y.cur_frame_id = 0
           /\ y.frame.payload = 0 /\ y.frame.len = AtMost(len, FrameLen)
           /\ y.frame.handled = 0 /\ y.frame.payload_done = FALSE
<1> DEFINE p == cascade_package_init(BlankManager, len)
           x == cascade_receiver_init(BlankManager, len)
<1>1. /\ p \in Manager
      /\ p.xfer_size = len /\ p.nof_frame = FrameCount(len) /\ p.cur_frame_id = 0
  BY BlankTypes DEF cascade_package_init, Manager
<1>2. x = [p EXCEPT !.crc_done_cnt = 0, !.state = "BUSY"]
  BY DEF cascade_receiver_init
<1> HIDE DEF p, x
<1>3. /\ x \in Manager /\ x.frame \in Frame
      /\ x.xfer_size = len /\ x.nof_frame = FrameCount(len) /\ x.cur_frame_id = 0
  BY <1>1, <1>2 DEF Manager
<1>5. PICK f : f = StartFrame(x.frame, 0, len, TRUE)
  OBVIOUS
<1> DEFINE g == [f EXCEPT !.crc_valid = FALSE]
<1>4. y = [x EXCEPT !.frame = g]
  BY <1>3, <1>5 DEF cascade_rx_first_frame_init, x
<1>6. /\ f \in Frame /\ f.payload = 0 /\ f.len = AtMost(len, FrameLen)
      /\ f.handled = 0 /\ f.payload_done = FALSE
  BY <1>3, <1>5, AtMostNat DEF StartFrame, Frame
<1>7. /\ g \in Frame /\ g.payload = f.payload /\ g.len = f.len
      /\ g.handled = f.handled /\ g.payload_done = f.payload_done
  BY <1>6 DEF Frame
<1> HIDE DEF g
<1>8. /\ y \in Manager /\ y.frame = g /\ y.xfer_size = x.xfer_size
      /\ y.nof_frame = x.nof_frame /\ y.cur_frame_id = x.cur_frame_id
  BY <1>3, <1>4, <1>7 DEF Manager
<1> QED
  BY <1>3, <1>6, <1>7, <1>8

\* Both ends start at the first slice.
LEMMA InitEstablishes == Init => IInv
<1> SUFFICES ASSUME NEW len \in 1 .. BufferSize,
                    tx = cascade_tx_first_frame_init(cascade_package_init(BlankManager, len)),
                    rx = cascade_rx_first_frame_init(cascade_receiver_init(BlankManager, len)),
                    moved = 0
             PROVE  IInv
  BY DEF Init
<1>1. /\ len \in Nat /\ 0 < len /\ len <= BufferSize
      /\ FrameCount(len) \in Nat /\ 0 < FrameCount(len)
      /\ 0 < AtMost(len, FrameLen) /\ AtMost(len, FrameLen) \in Nat
  BY LenAssumption, FrameCountBounds DEF AtMost
<1>2. 0 * FrameLen = 0 /\ len - 0 * FrameLen = len
  BY <1>1, LenAssumption
<1>3. ASSUME NEW x \in Manager,
             x.xfer_size = len, x.nof_frame = FrameCount(len), x.cur_frame_id = 0,
             x.frame.payload = 0, x.frame.len = AtMost(len, FrameLen),
             x.frame.handled = 0, x.frame.payload_done = FALSE
      PROVE  Walking(x)
  <2>1. x.frame.len = AtMost(len - 0 * FrameLen, FrameLen)
    BY <1>2, <1>3
  <2>2. Slice(x.frame, 0, len)
    BY <1>1, <1>2, <1>3, <2>1 DEF Slice
  <2> QED
    BY <1>1, <1>3, <2>2 DEF Walking
<1>4. /\ tx \in Manager
      /\ tx.xfer_size = len /\ tx.nof_frame = FrameCount(len) /\ tx.cur_frame_id = 0
      /\ tx.frame.payload = 0 /\ tx.frame.len = AtMost(len, FrameLen)
      /\ tx.frame.handled = 0 /\ tx.frame.payload_done = FALSE
  BY <1>1, TxFirst
<1>5. /\ rx \in Manager
      /\ rx.xfer_size = len /\ rx.nof_frame = FrameCount(len) /\ rx.cur_frame_id = 0
      /\ rx.frame.payload = 0 /\ rx.frame.len = AtMost(len, FrameLen)
      /\ rx.frame.handled = 0 /\ rx.frame.payload_done = FALSE
  BY <1>1, RxFirst
<1>6. Walking(tx) /\ Walking(rx)
  BY <1>3, <1>4, <1>5
<1> QED
  BY <1>4, <1>5, <1>6 DEF IInv

\* What storing or clocking n words does to a frame.
LEMMA PartUpdates ==
    ASSUME NEW f \in Frame, NEW n \in Nat,
           NEW g, g = cascade_frame_part_update(f, n)
    PROVE  /\ g \in Frame
           /\ g.payload = f.payload /\ g.len = f.len
           /\ g.handled = f.handled + n
           /\ g.payload_done <=> f.payload_done \/ f.handled + n >= f.len
<1> DEFINE h == f.handled + n
           d == f.payload_done \/ h >= f.len
<1>1. h \in Nat /\ d \in BOOLEAN
  BY DEF Frame
<1>2. g = [f EXCEPT !.handled = h, !.payload_done = d]
  BY DEF cascade_frame_part_update, Frame
<1> HIDE DEF h, d
<1>3. g \in Frame
  BY <1>1, <1>2 DEF Frame
<1>4. g.payload = f.payload /\ g.len = f.len /\ g.handled = h /\ g.payload_done = d
  BY <1>2 DEF Frame
<1> QED
  BY <1>3, <1>4 DEF h, d

\* A part of the size FramePartSize leaves the manager at the same slice.
LEMMA PartWalks ==
    ASSUME NEW x, Walking(x), ~ x.frame.payload_done,
           NEW y, y = [x EXCEPT !.frame = cascade_frame_part_update(@, FramePartSize(x.frame))]
    PROVE  /\ Walking(y)
           /\ y.xfer_size = x.xfer_size /\ y.cur_frame_id = x.cur_frame_id
           /\ y.frame.payload = x.frame.payload
           /\ y.frame.handled = x.frame.handled + FramePartSize(x.frame)
           /\ FramePartSize(x.frame) \in Nat
<1> DEFINE s == FramePartSize(x.frame)
           f == cascade_frame_part_update(x.frame, s)
<1>1. /\ x \in Manager /\ x.frame \in Frame
      /\ x.frame.len \in Nat /\ x.frame.handled \in Nat
      /\ x.frame.handled <= x.frame.len
      /\ x.frame.payload_done = FALSE
  BY DEF Walking, Slice, Manager, Frame
<1>2. s \in Nat /\ x.frame.handled + s <= x.frame.len
  BY <1>1, LenAssumption DEF FramePartSize, AtMost
<1> HIDE DEF s, f
<1>3. /\ f \in Frame
      /\ f.payload = x.frame.payload /\ f.len = x.frame.len
      /\ f.handled = x.frame.handled + s
      /\ f.payload_done <=> x.frame.handled + s >= x.frame.len
  BY <1>1, <1>2, PartUpdates DEF f
<1>4. y = [x EXCEPT !.frame = f]
  BY DEF f, s
<1>5. /\ y \in Manager /\ y.frame = f
      /\ y.xfer_size = x.xfer_size /\ y.nof_frame = x.nof_frame
      /\ y.cur_frame_id = x.cur_frame_id
  BY <1>1, <1>3, <1>4 DEF Manager
<1>6. Slice(f, x.cur_frame_id, x.xfer_size)
  <2>1. /\ x.frame.payload = x.cur_frame_id * FrameLen
        /\ x.frame.len = AtMost(x.xfer_size - x.cur_frame_id * FrameLen, FrameLen)
    BY DEF Walking, Slice
  <2> QED
    BY <2>1, <1>2, <1>3 DEF Slice
<1>7. Walking(y)
  BY <1>5, <1>6 DEF Walking
<1> QED
  BY <1>2, <1>3, <1>5, <1>7 DEF s

\* There is a next slice unless this is the last.
LEMMA NextOffset ==
    ASSUME NEW x, Walking(x), ~ IsLastFrame(x)
    PROVE  /\ (x.cur_frame_id + 1) * FrameLen \in Nat
           /\ x.xfer_size - (x.cur_frame_id + 1) * FrameLen \in Nat
<1> DEFINE next == (x.cur_frame_id + 1) * FrameLen
<1>1. /\ x.xfer_size \in Nat /\ 0 < x.xfer_size
      /\ x.cur_frame_id \in Nat /\ x.cur_frame_id < x.nof_frame
      /\ x.nof_frame = FrameCount(x.xfer_size)
      /\ x.nof_frame \in Nat
  BY DEF Walking, Manager
<1>2. x.cur_frame_id < FrameCount(x.xfer_size) - 1
  BY <1>1 DEF IsLastFrame
<1>3. next < x.xfer_size
  BY <1>1, <1>2, FrameSpan
<1>4. next \in Nat
  BY <1>1, LenAssumption
<1> HIDE DEF next
<1>5. x.xfer_size - next \in Nat
  BY <1>1, <1>3, <1>4
<1> QED
  BY <1>4, <1>5 DEF next

\* A manager whose frame starts at the next slice is at the next slice.
LEMMA NextWalks ==
    ASSUME NEW x, Walking(x), ~ IsLastFrame(x),
           NEW y \in Manager,
           y.xfer_size = x.xfer_size, y.nof_frame = x.nof_frame,
           y.cur_frame_id = x.cur_frame_id + 1,
           y.frame.payload = (x.cur_frame_id + 1) * FrameLen,
           y.frame.len = AtMost(x.xfer_size - (x.cur_frame_id + 1) * FrameLen, FrameLen),
           y.frame.handled = 0, y.frame.payload_done = FALSE
    PROVE  /\ Walking(y)
           /\ y.frame.payload = x.frame.payload + x.frame.len
<1> DEFINE next == (x.cur_frame_id + 1) * FrameLen
<1>1. /\ x.xfer_size \in Nat /\ 0 < x.xfer_size /\ x.xfer_size <= BufferSize
      /\ x.cur_frame_id \in Nat /\ x.cur_frame_id < x.nof_frame
      /\ x.nof_frame = FrameCount(x.xfer_size)
      /\ x.nof_frame \in Nat
      /\ x.frame.payload = x.cur_frame_id * FrameLen
  BY DEF Walking, Slice, Manager
<1>2. x.cur_frame_id + 1 < x.nof_frame
  BY <1>1 DEF IsLastFrame
<1>3. next = x.cur_frame_id * FrameLen + FrameLen
  BY <1>1, FrameSpan
<1>4. x.frame.len = FrameLen /\ x.frame.payload + FrameLen < x.xfer_size
  BY SliceFits
<1> HIDE DEF next
<1>5. next = x.frame.payload + x.frame.len
  BY <1>1, <1>3, <1>4
<1>6. next \in Nat /\ next < x.xfer_size
  BY <1>1, <1>4, <1>5, SliceFits
<1>7. y.frame.len \in Nat /\ 0 < y.frame.len
  BY <1>1, <1>6, LenAssumption DEF AtMost, next
<1>8. Slice(y.frame, y.cur_frame_id, y.xfer_size)
  BY <1>7 DEF Slice
<1>9. Walking(y)
  BY <1>1, <1>2, <1>8 DEF Walking
<1> QED
  BY <1>5, <1>9 DEF next

\* One part, clocked at one end and stored at the other.
LEMMA PartKeeps == IInv /\ Part => IInv'
<1> SUFFICES ASSUME IInv, Part
             PROVE  IInv'
  OBVIOUS
<1> DEFINE n == FramePartSize(tx.frame)
<1>1. /\ Walking(tx) /\ Walking(rx) /\ EndsAgree
      /\ rx.frame.payload = tx.frame.payload
      /\ rx.xfer_size = tx.xfer_size
      /\ moved = tx.frame.payload + tx.frame.handled
  BY SameSlice DEF IInv
<1>2. /\ ~ tx.frame.payload_done /\ ~ rx.frame.payload_done
      /\ FramePartSize(rx.frame) = n
  BY <1>1 DEF Part, EndsAgree, FramePartSize
<1>3. /\ tx' = [tx EXCEPT !.frame = cascade_frame_part_update(@, FramePartSize(tx.frame))]
      /\ rx' = [rx EXCEPT !.frame = cascade_frame_part_update(@, FramePartSize(rx.frame))]
      /\ moved' = moved + n
  BY <1>2 DEF Part
<1>4. /\ Walking(tx')
      /\ tx'.xfer_size = tx.xfer_size /\ tx'.cur_frame_id = tx.cur_frame_id
      /\ tx'.frame.payload = tx.frame.payload
      /\ tx'.frame.handled = tx.frame.handled + n
      /\ n \in Nat
  BY <1>1, <1>2, <1>3, PartWalks
<1>5. /\ Walking(rx')
      /\ rx'.xfer_size = rx.xfer_size /\ rx'.cur_frame_id = rx.cur_frame_id
      /\ rx'.frame.handled = rx.frame.handled + n
  BY <1>1, <1>2, <1>3, PartWalks
<1> HIDE DEF n
<1>6. moved' = tx'.frame.payload + tx'.frame.handled
  <2>1. tx.frame.payload \in Nat /\ tx.frame.handled \in Nat
    BY <1>1, SliceFits
  <2> QED
    BY <1>1, <1>3, <1>4, <2>1
<1>7. rx'.xfer_size = tx'.xfer_size /\ rx'.cur_frame_id = tx'.cur_frame_id
  BY <1>1, <1>4, <1>5 DEF EndsAgree
<1>8. rx'.frame.handled = tx'.frame.handled
  BY <1>1, <1>4, <1>5 DEF EndsAgree
<1> QED
  BY <1>4, <1>5, <1>6, <1>7, <1>8 DEF IInv

\* The sender's next frame is the next slice.
LEMMA TxNext ==
    ASSUME NEW x, Walking(x), ~ IsLastFrame(x),
           NEW y, y = cascade_tx_next_frame_init(x)
    PROVE  /\ Walking(y)
           /\ y.xfer_size = x.xfer_size /\ y.cur_frame_id = x.cur_frame_id + 1
           /\ y.frame.payload = x.frame.payload + x.frame.len
           /\ y.frame.handled = 0
<1> DEFINE ofs == (x.cur_frame_id + 1) * FrameLen
           left == x.xfer_size - ofs
           len == AtMost(left, FrameLen)
<1>1. /\ x \in Manager /\ x.frame \in Frame /\ x.cur_frame_id \in Nat
      /\ x.xfer_size \in Nat /\ x.frame.len \in Nat /\ x.frame.payload \in Nat
  BY DEF Walking, Manager, Frame
<1>2. ofs \in Nat /\ left \in Nat
  BY NextOffset
<1> HIDE DEF ofs, left
<1>3. len \in Nat /\ AtMost(len, FrameLen) = len
  BY <1>2, LenAssumption DEF AtMost
<1>5. PICK f : f = StartFrame(x.frame, ofs, len, FALSE)
  OBVIOUS
<1> DEFINE g == [f EXCEPT !.header = len]
           id == x.cur_frame_id + 1
<1>4. y = [x EXCEPT !.frame = g, !.cur_frame_id = id]
  BY <1>1, <1>5 DEF cascade_tx_next_frame_init, Manager, ofs, left
<1>9. id \in Nat
  BY <1>1
<1> HIDE DEF len, id
<1>6. /\ f \in Frame /\ f.payload = ofs /\ f.len = len
      /\ f.handled = 0 /\ f.payload_done = FALSE
  BY <1>1, <1>2, <1>3, <1>5, AtMostNat DEF StartFrame, Frame
<1>7. /\ g \in Frame /\ g.payload = ofs /\ g.len = len
      /\ g.handled = 0 /\ g.payload_done = FALSE
  BY <1>3, <1>6 DEF Frame
<1> HIDE DEF g
<1>8. /\ y \in Manager /\ y.frame = g /\ y.xfer_size = x.xfer_size
      /\ y.nof_frame = x.nof_frame /\ y.cur_frame_id = id
  BY <1>1, <1>4, <1>7, <1>9 DEF Manager
<1> QED
  BY <1>7, <1>8, NextWalks DEF len, left, ofs, id

\* The receiver's next frame is the next slice, whatever the last one left in
\* the fields that cascade_frame_reset clears.
LEMMA RxNext ==
    ASSUME NEW x, Walking(x), ~ IsLastFrame(x),
           NEW y, y = cascade_rx_next_frame_init([x EXCEPT !.frame = cascade_frame_reset(@)])
    PROVE  /\ Walking(y)
           /\ y.xfer_size = x.xfer_size /\ y.cur_frame_id = x.cur_frame_id + 1
           /\ y.frame.handled = 0
<1> DEFINE ofs == (x.cur_frame_id + 1) * FrameLen
           left == x.xfer_size - ofs
           e == cascade_frame_reset(x.frame)
           z == [x EXCEPT !.frame = e]
           id == x.cur_frame_id + 1
<1>1. /\ x \in Manager /\ x.frame \in Frame /\ x.cur_frame_id \in Nat
      /\ x.xfer_size \in Nat
  BY DEF Walking, Manager
<1>2. ofs \in Nat /\ left \in Nat
  BY NextOffset
<1>3. e \in Frame
  BY <1>1 DEF cascade_frame_reset, Frame
<1> HIDE DEF e
<1>4. /\ z \in Manager /\ z.frame = e /\ z.xfer_size = x.xfer_size
      /\ z.nof_frame = x.nof_frame /\ z.cur_frame_id = x.cur_frame_id
  BY <1>1, <1>3 DEF Manager
<1>5. y = cascade_rx_next_frame_init(z)
  BY DEF e
<1> HIDE DEF z
<1>7. PICK f : f = StartFrame(e, ofs, left, TRUE)
  OBVIOUS
<1>6. y = [z EXCEPT !.frame = f, !.cur_frame_id = id]
  BY <1>1, <1>4, <1>5, <1>7 DEF cascade_rx_next_frame_init, Manager
<1>10. id \in Nat
  BY <1>1
<1> HIDE DEF ofs, left, id
<1>8. /\ f \in Frame /\ f.payload = ofs /\ f.len = AtMost(left, FrameLen)
      /\ f.handled = 0 /\ f.payload_done = FALSE
  BY <1>2, <1>3, <1>7, AtMostNat DEF StartFrame, Frame
<1>9. /\ y \in Manager /\ y.frame = f /\ y.xfer_size = x.xfer_size
      /\ y.nof_frame = x.nof_frame /\ y.cur_frame_id = id
  BY <1>1, <1>4, <1>6, <1>8, <1>10 DEF Manager
<1> QED
  BY <1>8, <1>9, NextWalks DEF left, ofs, id

\* A whole frame later both ends are at the next slice.
LEMMA NextFrameKeeps == IInv /\ NextFrame => IInv'
<1> SUFFICES ASSUME IInv, NextFrame
             PROVE  IInv'
  OBVIOUS
<1>1. /\ Walking(tx) /\ Walking(rx) /\ EndsAgree
      /\ rx.xfer_size = tx.xfer_size
      /\ moved = tx.frame.payload + tx.frame.handled
  BY SameSlice DEF IInv
<1>2. ~ IsLastFrame(tx) /\ ~ IsLastFrame(rx)
  BY <1>1 DEF NextFrame, EndsAgree, IsLastFrame
<1>3. /\ Walking(tx')
      /\ tx'.xfer_size = tx.xfer_size /\ tx'.cur_frame_id = tx.cur_frame_id + 1
      /\ tx'.frame.payload = tx.frame.payload + tx.frame.len
      /\ tx'.frame.handled = 0
  BY <1>1, <1>2, TxNext DEF NextFrame
<1>4. /\ Walking(rx')
      /\ rx'.xfer_size = rx.xfer_size /\ rx'.cur_frame_id = rx.cur_frame_id + 1
      /\ rx'.frame.handled = 0
  BY <1>1, <1>2, RxNext DEF NextFrame
<1>5. moved' = tx'.frame.payload + tx'.frame.handled
  <2>1. /\ tx.frame.payload \in Nat /\ tx.frame.handled \in Nat /\ tx.frame.len \in Nat
    BY <1>1, SliceFits
  <2>2. tx.frame.handled = tx.frame.len
    BY <1>1, <2>1 DEF NextFrame, Walking, Slice
  <2>3. moved' = moved
    BY DEF NextFrame
  <2> QED
    BY <1>1, <1>3, <2>1, <2>2, <2>3
<1>6. rx'.xfer_size = tx'.xfer_size /\ rx'.cur_frame_id = tx'.cur_frame_id
  BY <1>1, <1>3, <1>4 DEF EndsAgree
<1> QED
  BY <1>3, <1>4, <1>5, <1>6 DEF IInv

\* The inductive invariant holds throughout every walk.
LEMMA InductiveInvariant == Spec => []IInv
<1>1. Init => IInv
  BY InitEstablishes
<1>2. IInv /\ [Next]_walk => IInv'
  <2> SUFFICES ASSUME IInv, [Next]_walk
               PROVE  IInv'
    OBVIOUS
  <2>1. CASE Part
    BY <2>1, PartKeeps
  <2>2. CASE NextFrame
    BY <2>2, NextFrameKeeps
  <2>3. CASE UNCHANGED walk
    BY <2>3 DEF walk, IInv
  <2> QED
    BY <2>1, <2>2, <2>3 DEF Next
<1> QED
  BY <1>1, <1>2, PTL DEF Spec

-----------------------------------------------------------------------------
(* The theorems.                                                           *)

\* Every offset and count stays within the package (cascade_frame_t and
\* cascade_package_mng_t), whatever its length.
THEOREM WalkTypes == Spec => []TypeOK
<1>1. IInv => TypeOK
  BY TypeFollows
<1> QED
  BY <1>1, InductiveInvariant, PTL

\* The sender's and the receiver's next-frame functions (frame.c 66-127) size
\* and number every frame alike, although the length is told only once.
THEOREM EndsAlwaysAgree == Spec => []EndsAgree
<1>1. IInv => EndsAgree
  BY SameSlice
<1> QED
  BY <1>1, InductiveInvariant, PTL

\* Every part is stored where it was taken from, inside rx_data_buffer.
THEOREM EveryPartInPlace == Spec => []PartsInPlace
<1>1. IInv => PartsInPlace
  BY PlaceFollows
<1> QED
  BY <1>1, InductiveInvariant, PTL

\* A package whose last frame is through has gone over completely.
THEOREM PackageArrivesWhole == Spec => []WholePackage
<1>1. IInv => WholePackage
  BY PlaceFollows
<1> QED
  BY <1>1, InductiveInvariant, PTL

=============================================================================
