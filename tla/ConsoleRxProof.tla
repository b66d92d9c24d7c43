-------------------------- MODULE ConsoleRxProof ---------------------------
(***************************************************************************)
(* Proofs about the receiver of the console, for every size of the ring    *)
(* and of the queue of reports and however much is typed: what is read is  *)
(* what was typed, and the interrupt always has room.                      *)
(***************************************************************************)
EXTENDS Console, SequenceTheorems, TLAPS

\* Where in the ring the character after the first x typed goes, when the
\* reader is at rd and has read h; x lies less than a ring beyond h.
Cell(rd, h, x) == IF rd + (x - h) >= Size THEN rd + (x - h) - Size ELSE rd + (x - h)

\* The line is paced: less than a ring full waits.
Unread == Len(heard) <= typed /\ typed - Len(heard) < Size

\* The interrupt writes, and has reported up to, the cell of the next character.
AtWriter ==
    /\ window.buf + window.ofs = Cell(buf_rd_pos, Len(heard), typed)
    /\ buf_rp_pos = Cell(buf_rd_pos, Len(heard), typed)

\* What was not read yet is in its cell.
Stored == \A x \in Len(heard) .. typed - 1 :
             cs_rx_buffer[Cell(buf_rd_pos, Len(heard), x)] = x + 1

\* The reports of q cover the characters from h to t, one after the other: the
\* i-th begins after the first from[i] characters, which the cells of rd place.
Covers(from, q, rd, h, t) ==
    /\ from \in [1 .. Len(q) + 1 -> h .. t]
    /\ from[1] = h /\ from[Len(q) + 1] = t
    /\ \A i, j \in 1 .. Len(q) + 1 : i <= j => from[i] <= from[j]
    /\ \A i \in 1 .. Len(q) :
         q[i].buf = Cell(rd, h, from[i]) /\ from[i + 1] = from[i] + q[i].len

\* A report fits into a line, or the reader would drop it.
Report == [buf : Nat, len : 0 .. LineLen]

\* The reports in the queue cover what was not read.
Reported ==
    /\ msg_queue \in Seq(Report)
    /\ \E from : Covers(from, msg_queue, buf_rd_pos, Len(heard), typed)

RxInv == RxTypeOK /\ Unread /\ NeverDeaf /\ AtWriter /\ Stored /\ Reported /\ InputInOrder

-----------------------------------------------------------------------------
(* Cells                                                                   *)

\* The cells that k characters are written to from the next one on: none of
\* them holds a character not read yet, and after them comes a cell that the
\* reader has left.
LEMMA NextCells ==
    ASSUME Size \in Nat, Size > 0, NEW rd \in 0 .. Size - 1, NEW h \in Nat, NEW t \in Nat,
           NEW k \in Nat, k >= 1, h <= t, t + k - h < Size,
           NEW c, c = Cell(rd, h, t), c + k <= Size
    PROVE  /\ c \in Nat
           /\ \A x \in t .. t + k - 1 : Cell(rd, h, x) = c + (x - t)
           /\ Cell(rd, h, t + k) = IF c + k = Size THEN 0 ELSE c + k
           /\ \A x \in h .. t - 1 : /\ Cell(rd, h, x) \in 0 .. Size - 1
                                    /\ Cell(rd, h, x) \notin c .. c + k - 1
           /\ c + k # rd /\ (c + k = Size => rd > 0)
BY DEF Cell

-----------------------------------------------------------------------------
(* Reports                                                                 *)

\* A report of what follows joins the queue.
LEMMA ReportAdded ==
    ASSUME NEW q \in Seq(Report), NEW rd \in Nat, NEW h \in Nat, NEW t \in Nat, NEW k \in Nat,
           h <= t, NEW from, Covers(from, q, rd, h, t), NEW m \in Report,
           m.buf = Cell(rd, h, t), m.len = k
    PROVE  \E f : Covers(f, Append(q, m), rd, h, t + k)
<1> DEFINE n == Len(q)
           q1 == Append(q, m)
           f == [i \in 1 .. n + 2 |-> IF i = n + 2 THEN t + k ELSE from[i]]
<1>f. f = [i \in 1 .. n + 2 |-> IF i = n + 2 THEN t + k ELSE from[i]]
    OBVIOUS
<1>1. n \in Nat /\ Len(q1) = n + 1 /\ q1[n + 1] = m /\ \A i \in 1 .. n : q1[i] = q[i]
    BY AppendProperties, LenProperties
<1>2. /\ from \in [1 .. n + 1 -> h .. t]
      /\ from[1] = h /\ from[n + 1] = t
      /\ \A i, j \in 1 .. n + 1 : i <= j => from[i] <= from[j]
      /\ \A i \in 1 .. n :
           q[i].buf = Cell(rd, h, from[i]) /\ from[i + 1] = from[i] + q[i].len
    BY DEF Covers
<1> HIDE DEF n, q1, f
<1>3. (\A i \in 1 .. n + 1 : f[i] = from[i]) /\ f[n + 2] = t + k
    BY <1>1, <1>f
<1>4. f \in [1 .. n + 2 -> h .. t + k]
    <2>1. \A i \in 1 .. n + 1 : from[i] \in h .. t + k
        BY <1>2
    <2>2. t + k \in h .. t + k
        OBVIOUS
    <2>3. QED
        BY <1>1, <1>f, <2>1, <2>2
<1>5. ASSUME NEW i \in 1 .. n + 2, NEW j \in 1 .. n + 2, i <= j
      PROVE  f[i] <= f[j]
    <2>1. CASE j = n + 2
        <3>1. f[j] = t + k /\ f[i] \in h .. t + k
            BY <1>3, <1>4, <2>1
        <3>2. QED
            BY <3>1
    <2>2. CASE j # n + 2
        <3>1. i \in 1 .. n + 1 /\ j \in 1 .. n + 1
            BY <1>1, <1>5, <2>2
        <3>2. QED
            BY <1>2, <1>3, <1>5, <3>1
    <2>3. QED
        BY <2>1, <2>2
<1>6. ASSUME NEW i \in 1 .. n + 1
      PROVE  q1[i].buf = Cell(rd, h, f[i]) /\ f[i + 1] = f[i] + q1[i].len
    <2>1. CASE i \in 1 .. n
        <3>1. q1[i] = q[i] /\ f[i] = from[i] /\ f[i + 1] = from[i + 1]
            BY <1>1, <1>3, <2>1
        <3>2. QED
            BY <1>2, <2>1, <3>1
    <2>2. CASE i = n + 1
        <3>1. q1[i] = m /\ f[i] = t /\ f[i + 1] = t + k
            BY <1>1, <1>2, <1>3, <2>2
        <3>2. QED
            BY <3>1
    <2>3. QED
        BY <1>1, <2>1, <2>2
<1>7. f[1] = h /\ Len(q1) + 1 = n + 2
    BY <1>1, <1>2, <1>3
<1>8. Covers(f, q1, rd, h, t + k)
    BY <1>1, <1>3, <1>4, <1>5, <1>6, <1>7 DEF Covers
<1>9. QED
    BY <1>8 DEF q1

\* The oldest report leaves the queue; it covered the next characters.
LEMMA ReportTaken ==
    ASSUME NEW q \in Seq(Report), q # <<>>, NEW rd \in Nat, NEW h \in Nat, NEW t \in Nat,
           NEW from, Covers(from, q, rd, h, t),
           NEW rd1, \A x \in h + Head(q).len .. t : Cell(rd1, h + Head(q).len, x) = Cell(rd, h, x)
    PROVE  /\ Head(q).buf = Cell(rd, h, h) /\ Head(q).len \in Nat /\ h + Head(q).len <= t
           /\ \E f : Covers(f, Tail(q), rd1, h + Head(q).len, t)
<1> DEFINE n == Len(q)
           k == Head(q).len
           q1 == Tail(q)
           f == [i \in 1 .. n |-> from[i + 1]]
<1>f. f = [i \in 1 .. n |-> from[i + 1]]
    OBVIOUS
<1>1. /\ n \in Nat /\ n >= 1 /\ Len(q1) = n - 1 /\ q[1].len = k /\ Head(q) = q[1]
      /\ k \in Nat /\ \A i \in 1 .. n - 1 : q1[i] = q[i + 1]
    <2>1. n \in Nat /\ n >= 1
        BY EmptySeq, LenProperties
    <2>2. Head(q) = q[1] /\ Len(q1) = n - 1 /\ \A i \in 1 .. n - 1 : q1[i] = q[i + 1]
        BY <2>1, HeadTailProperties
    <2>3. q[1] \in Report
        BY <2>1, ElementOfSeq
    <2>4. QED
        BY <2>1, <2>2, <2>3 DEF Report
<1>2. /\ from \in [1 .. n + 1 -> h .. t]
      /\ from[1] = h /\ from[n + 1] = t
      /\ \A i, j \in 1 .. n + 1 : i <= j => from[i] <= from[j]
      /\ \A i \in 1 .. n :
           q[i].buf = Cell(rd, h, from[i]) /\ from[i + 1] = from[i] + q[i].len
    BY DEF Covers
<1>x. \A x \in h + k .. t : Cell(rd1, h + k, x) = Cell(rd, h, x)
    OBVIOUS
<1> HIDE DEF n, k, q1, f
<1>3. from[2] = h + k /\ q[1].buf = Cell(rd, h, h)
    BY <1>1, <1>2
<1>4. ASSUME NEW i \in 1 .. n
      PROVE  from[i + 1] \in h + k .. t
    <2>1. from[2] <= from[i + 1] /\ from[i + 1] \in h .. t
        BY <1>1, <1>2
    <2>2. QED
        BY <1>1, <1>3, <2>1
<1>5. h + k <= t
    BY <1>1, <1>4
<1>6. f \in [1 .. n -> h + k .. t] /\ \A i \in 1 .. n : f[i] = from[i + 1]
    BY <1>4, <1>f
<1>7. f[1] = h + k /\ f[n] = t
    BY <1>1, <1>2, <1>3, <1>6
<1>8. ASSUME NEW i \in 1 .. n, NEW j \in 1 .. n, i <= j
      PROVE  f[i] <= f[j]
    <2>1. from[i + 1] <= from[j + 1]
        BY <1>1, <1>2, <1>8
    <2>2. QED
        BY <1>6, <2>1
<1>9. ASSUME NEW i \in 1 .. n - 1
      PROVE  q1[i].buf = Cell(rd1, h + k, f[i]) /\ f[i + 1] = f[i] + q1[i].len
    <2>1. i \in 1 .. n /\ i + 1 \in 1 .. n /\ q1[i] = q[i + 1]
        BY <1>1
    <2>2. q[i + 1].buf = Cell(rd, h, from[i + 1]) /\ from[i + 2] = from[i + 1] + q[i + 1].len
        BY <1>2, <2>1
    <2>3. f[i] = from[i + 1] /\ f[i + 1] = from[i + 2] /\ f[i] \in h + k .. t
        BY <1>6, <2>1
    <2>4. QED
        BY <1>x, <2>1, <2>2, <2>3
<1>10. Len(q1) + 1 = n
    BY <1>1
<1>11. Covers(f, q1, rd1, h + k, t)
    BY <1>1, <1>6, <1>7, <1>8, <1>9, <1>10 DEF Covers
<1>12. QED
    BY <1>1, <1>3, <1>5, <1>11 DEF q1, k

-----------------------------------------------------------------------------

\* Nothing was typed, nothing is reported.
LEMMA InitRxInv == RxInit => RxInv
<1> SUFFICES ASSUME RxInit PROVE RxInv
    OBVIOUS
<1>1. Size \in Nat /\ Size > 0 /\ MaxTyped \in Nat /\ QueueLen \in Nat
    BY ReceiverAssumption
<1>2. /\ heard = <<>> /\ msg_queue = <<>> /\ typed = 0 /\ buf_rd_pos = 0 /\ buf_rp_pos = 0
      /\ window.buf = 0 /\ window.len = Size /\ window.ofs = 0
    BY DEF RxInit
<1>3. Len(heard) = 0 /\ Len(msg_queue) = 0
    BY <1>2
<1>4. RxTypeOK
    BY <1>1, <1>2, <1>3 DEF RxInit, RxTypeOK
<1>5. Cell(0, 0, 0) = 0
    BY <1>1 DEF Cell
<1>6. Unread /\ NeverDeaf /\ AtWriter
    BY <1>1, <1>2, <1>3, <1>5 DEF Unread, NeverDeaf, AtWriter
<1>7. Stored /\ InputInOrder
    BY <1>2, <1>3 DEF Stored, InputInOrder
<1>8. Covers([i \in 1 .. 1 |-> 0], msg_queue, buf_rd_pos, Len(heard), typed)
    BY <1>2, <1>3 DEF Covers
<1>9. Reported
    BY <1>2, <1>8 DEF Reported
<1>10. QED
    BY <1>4, <1>6, <1>7, <1>9 DEF RxInv

\* What the invariant says of the numbers.
LEMMA Numbers ==
    ASSUME RxInv
    PROVE  /\ Size \in Nat /\ Size > 0 /\ MaxTyped \in Nat /\ QueueLen \in Nat
           /\ Len(heard) \in Nat /\ typed \in Nat /\ typed <= MaxTyped
           /\ buf_rd_pos \in 0 .. Size - 1
           /\ Len(heard) <= typed /\ typed - Len(heard) < Size
           /\ window \in [buf : 0 .. Size - 1, len : 0 .. Size, ofs : 0 .. Size]
           /\ window.buf + window.len <= Size
           /\ window.buf + window.ofs = Cell(buf_rd_pos, Len(heard), typed)
           /\ buf_rp_pos = Cell(buf_rd_pos, Len(heard), typed)
<1>1. Size \in Nat /\ Size > 0 /\ MaxTyped \in Nat /\ QueueLen \in Nat
    BY ReceiverAssumption
<1>2. heard \in Seq(1 .. MaxTyped)
    BY DEF RxInv, RxTypeOK
<1>3. Len(heard) \in Nat
    BY <1>2, LenProperties
<1>4. typed \in Nat /\ typed <= MaxTyped
    BY <1>1 DEF RxInv, RxTypeOK
<1>5. /\ buf_rd_pos \in 0 .. Size - 1
      /\ window \in [buf : 0 .. Size - 1, len : 0 .. Size, ofs : 0 .. Size]
      /\ window.buf + window.len <= Size
    BY DEF RxInv, RxTypeOK
<1>6. QED
    BY <1>1, <1>3, <1>4, <1>5 DEF RxInv, Unread, AtWriter

\* Characters arrive: they are written from the next cell on and reported at
\* once; a window that is full is followed by one that begins at the next cell.
LEMMA UartRxKeeps ==
    ASSUME RxInv, NEW k \in 1 .. Size, Paced(k), UartRx(k)
    PROVE  RxInv'
<1> DEFINE H == Len(heard)
           c == Cell(buf_rd_pos, H, typed)
           w == [window EXCEPT !.ofs = @ + k]
<1>1. /\ Size \in Nat /\ Size > 0 /\ MaxTyped \in Nat /\ QueueLen \in Nat
      /\ H \in Nat /\ typed \in Nat /\ typed <= MaxTyped /\ buf_rd_pos \in 0 .. Size - 1
      /\ H <= typed
    BY Numbers
<1>2. /\ window \in [buf : 0 .. Size - 1, len : 0 .. Size, ofs : 0 .. Size]
      /\ window.buf + window.len <= Size
      /\ window.buf + window.ofs = c /\ buf_rp_pos = c
    BY Numbers
<1>3. typed + k - H < Size /\ Len(msg_queue) < QueueLen /\ k <= LineLen
    BY DEF Paced
<1>w. w = [window EXCEPT !.ofs = @ + k]
    OBVIOUS
<1>4. typed + k <= MaxTyped /\ k <= window.len - window.ofs
    BY DEF UartRx
<1>5. /\ typed' = typed + k /\ heard' = heard /\ buf_rd_pos' = buf_rd_pos
      /\ msg_queue' = Append(msg_queue, Unreported(w))
      /\ cs_rx_buffer' = Filled(w.buf + w.ofs, k)
      /\ window' = IF w.ofs >= w.len THEN cs_rxbuf_reinstall(w) ELSE w
      /\ buf_rp_pos' = IF w.ofs >= w.len THEN window'.buf ELSE w.buf + w.ofs
    <2>1. /\ typed' = typed + k /\ heard' = heard /\ buf_rd_pos' = buf_rd_pos
          /\ window' = IF w.ofs >= w.len THEN cs_rxbuf_reinstall(w) ELSE w
          /\ cs_rx_buffer' = Filled(w.buf + w.ofs, k)
        BY DEF UartRx
    <2>2. /\ msg_queue' = IF Len(msg_queue) < QueueLen THEN Append(msg_queue, Unreported(w))
                          ELSE msg_queue
          /\ buf_rp_pos' = IF w.ofs >= w.len THEN window'.buf
                           ELSE IF Len(msg_queue) < QueueLen THEN w.buf + w.ofs ELSE buf_rp_pos
        BY DEF UartRx
    <2>3. Len(msg_queue) < QueueLen
        BY <1>3
    <2>4. QED
        BY <2>1, <2>2, <2>3
<1>h. Len(heard') = H
    BY <1>5
<1>c. c = Cell(buf_rd_pos, H, typed)
    OBVIOUS
<1> HIDE DEF H, c, w
<1>6. /\ k \in Nat /\ k >= 1 /\ window.ofs + k <= window.len
      /\ window.buf \in Nat /\ window.len \in Nat /\ window.ofs \in Nat /\ c + k <= Size
    BY <1>1, <1>2, <1>4
<1>7. /\ w \in [buf : 0 .. Size - 1, len : 0 .. Size, ofs : 0 .. Size]
      /\ w.buf = window.buf /\ w.len = window.len /\ w.ofs = window.ofs + k
    BY <1>w, <1>1, <1>2, <1>6
<1>8. c \in Nat /\ w.buf + w.ofs = c + k /\ w.ofs <= w.len /\ w.buf + w.len <= Size
    BY <1>2, <1>6, <1>7
<1>9. /\ \A x \in typed .. typed + k - 1 : Cell(buf_rd_pos, H, x) = c + (x - typed)
      /\ Cell(buf_rd_pos, H, typed + k) = IF c + k = Size THEN 0 ELSE c + k
      /\ \A x \in H .. typed - 1 : /\ Cell(buf_rd_pos, H, x) \in 0 .. Size - 1
                                   /\ Cell(buf_rd_pos, H, x) \notin c .. c + k - 1
      /\ c + k # buf_rd_pos /\ (c + k = Size => buf_rd_pos > 0)
    <2>1. /\ Size \in Nat /\ Size > 0 /\ buf_rd_pos \in 0 .. Size - 1 /\ H \in Nat /\ typed \in Nat
          /\ k \in Nat /\ k >= 1 /\ H <= typed /\ typed + k - H < Size /\ c + k <= Size
        BY <1>1, <1>3, <1>6
    <2>2. QED
        BY <1>c, <2>1, NextCells
<1>10. Unreported(w) = [buf |-> c, len |-> k]
    <2>1. Unreported(w) = [buf |-> buf_rp_pos, len |-> w.buf + w.ofs - buf_rp_pos]
        BY DEF Unreported
    <2>2. w.buf + w.ofs - c = k
        <3>1. c + k - c = k
            BY <1>6, <1>8
        <3>2. w.buf \in Nat /\ w.ofs \in Nat
            BY <1>6, <1>7
        <3>3. QED
            BY <1>6, <1>8, <3>1, <3>2
    <2>3. QED
        BY <1>2, <2>1, <2>2
\* the new window
<1>11. /\ window'.buf + window'.ofs = Cell(buf_rd_pos, H, typed + k)
       /\ buf_rp_pos' = Cell(buf_rd_pos, H, typed + k)
       /\ window'.ofs < window'.len /\ window'.buf + window'.len <= Size
       /\ window' \in [buf : 0 .. Size - 1, len : 0 .. Size, ofs : 0 .. Size]
    <2>1. CASE w.ofs < w.len
        <3>1. ~ (w.ofs >= w.len) /\ c + k < Size
            <4>1. w.buf \in Nat /\ w.len \in Nat /\ w.ofs \in Nat /\ c + k \in Nat /\ Size \in Nat
                BY <1>1, <1>6, <1>7, <1>8
            <4>2. w.buf + w.ofs = c + k /\ w.buf + w.len <= Size
                BY <1>8
            <4>3. QED
                BY <2>1, <4>1, <4>2
        <3>2. window' = w /\ buf_rp_pos' = c + k
            BY <1>5, <1>8, <3>1
        <3>3. Cell(buf_rd_pos, H, typed + k) = c + k
            <4>1. c + k # Size
                BY <1>1, <1>6, <1>8, <3>1
            <4>2. QED
                BY <1>9, <4>1
        <3>4. QED
            BY <1>7, <1>8, <2>1, <3>2, <3>3
    <2>2. CASE w.ofs >= w.len
        <3>1. w.buf + w.len = c + k
            BY <1>6, <1>7, <1>8, <2>2
        <3>2. window' = cs_rxbuf_reinstall(w) /\ buf_rp_pos' = window'.buf
            BY <1>5, <2>2
        <3>3. CASE c + k = Size
            <4>1. window' = [buf |-> 0, len |-> buf_rd_pos, ofs |-> 0]
                BY <3>1, <3>2, <3>3 DEF cs_rxbuf_reinstall
            <4>2. /\ window'.buf = 0 /\ window'.len = buf_rd_pos /\ window'.ofs = 0
                  /\ buf_rd_pos > 0 /\ Cell(buf_rd_pos, H, typed + k) = 0
                BY <1>9, <3>3, <4>1
            <4>3. window' \in [buf : 0 .. Size - 1, len : 0 .. Size, ofs : 0 .. Size]
                BY <1>1, <4>1
            <4>4. QED
                BY <1>1, <3>2, <4>2, <4>3
        <3>4. CASE c + k < Size
            <4> DEFINE l == (IF buf_rd_pos > c + k THEN buf_rd_pos ELSE Size) - (c + k)
            <4>1. window' = [buf |-> c + k, ofs |-> 0, len |-> l]
                BY <1>1, <1>6, <1>8, <3>1, <3>2, <3>4 DEF cs_rxbuf_reinstall
            <4>2. l \in 0 .. Size /\ l > 0 /\ c + k + l <= Size /\ c + k \in 0 .. Size - 1
                BY <1>1, <1>6, <1>8, <1>9, <3>4
            <4> HIDE DEF l
            <4>3. /\ window'.buf = c + k /\ window'.len = l /\ window'.ofs = 0
                  /\ Cell(buf_rd_pos, H, typed + k) = c + k
                <5>1. c + k # Size
                    BY <1>1, <1>6, <1>8, <3>4
                <5>2. QED
                    BY <1>9, <4>1, <5>1
            <4>4. window' \in [buf : 0 .. Size - 1, len : 0 .. Size, ofs : 0 .. Size]
                BY <1>1, <4>1, <4>2
            <4>5. QED
                BY <3>2, <4>2, <4>3, <4>4
        <3>5. QED
            BY <1>1, <1>6, <1>8, <3>3, <3>4
    <2>3. QED
        BY <1>6, <1>7, <2>1, <2>2
\* the characters
<1>12. /\ cs_rx_buffer' = [i \in 0 .. Size - 1 |-> cs_rx_buffer'[i]]
       /\ \A i \in 0 .. Size - 1 : cs_rx_buffer'[i] =
             IF i \in c .. c + k - 1 THEN typed + 1 + (i - c) ELSE cs_rx_buffer[i]
    <2>1. cs_rx_buffer' = Filled(c + k, k)
        BY <1>5, <1>8
    <2>2. cs_rx_buffer' = [i \in 0 .. Size - 1 |-> cs_rx_buffer'[i]]
        BY <2>1 DEF Filled
    <2>3. ASSUME NEW i \in 0 .. Size - 1
          PROVE  cs_rx_buffer'[i] = IF i \in c .. c + k - 1 THEN typed + 1 + (i - c)
                                    ELSE cs_rx_buffer[i]
        <3>1. PICK end : end = c + k
            OBVIOUS
        <3>2. Filled(end, k)[i] = IF i \in end - k .. end - 1 THEN typed + 1 + i - (end - k)
                                  ELSE cs_rx_buffer[i]
            BY DEF Filled
        <3>3. end - k = c /\ end - 1 = c + k - 1 /\ typed + 1 + i - c = typed + 1 + (i - c)
            BY <1>1, <1>6, <1>8, <3>1
        <3>4. QED
            BY <2>1, <3>1, <3>2, <3>3
    <2>4. QED
        BY <2>2, <2>3
<1>13. ASSUME NEW x \in H .. typed + k - 1
       PROVE  cs_rx_buffer'[Cell(buf_rd_pos, H, x)] = x + 1
    <2>1. CASE x < typed
        <3>1. x \in H .. typed - 1
            BY <1>1, <2>1
        <3>2. cs_rx_buffer[Cell(buf_rd_pos, H, x)] = x + 1
            BY <3>1 DEF RxInv, Stored, H
        <3>3. QED
            <4>1. Cell(buf_rd_pos, H, x) \in 0 .. Size - 1 /\ Cell(buf_rd_pos, H, x) \notin c .. c + k - 1
                BY <1>9, <3>1
            <4>2. QED
                BY <1>12, <3>2, <4>1
    <2>2. CASE x >= typed
        <3>1. Cell(buf_rd_pos, H, x) = c + (x - typed)
            BY <1>1, <1>6, <1>9, <2>2
        <3>2. /\ c + (x - typed) \in 0 .. Size - 1 /\ c + (x - typed) \in c .. c + k - 1
              /\ typed + 1 + (c + (x - typed) - c) = x + 1
            BY <1>1, <1>6, <1>8, <2>2
        <3>3. PICK e : e = c + (x - typed)
            OBVIOUS
        <3>4. /\ Cell(buf_rd_pos, H, x) = e /\ e \in 0 .. Size - 1 /\ e \in c .. c + k - 1
              /\ typed + 1 + (e - c) = x + 1
            BY <1>1, <1>6, <1>8, <3>1, <3>2, <3>3
        <3>5. cs_rx_buffer'[e] = typed + 1 + (e - c)
            BY <1>12, <3>4
        <3>6. QED
            BY <3>4, <3>5
    <2>3. QED
        BY <1>1, <2>1, <2>2
<1>14. Stored'
    <2>1. typed' = typed + k /\ buf_rd_pos' = buf_rd_pos
        BY <1>5
    <2>2. \A x \in H .. typed' - 1 : cs_rx_buffer'[Cell(buf_rd_pos', H, x)] = x + 1
        BY <1>1, <1>6, <1>13, <2>1
    <2>3. QED
        BY <1>h, <2>2 DEF Stored
\* the reports
<1>15. msg_queue \in Seq(Report) /\ Unreported(w) \in Report
    BY <1>3, <1>6, <1>8, <1>10, ReceiverAssumption DEF RxInv, Reported, Report
<1>16. /\ msg_queue' \in Seq(Report) /\ Len(msg_queue') = Len(msg_queue) + 1
       /\ Len(msg_queue) \in Nat
       /\ \A i \in 1 .. Len(msg_queue) : msg_queue'[i] = msg_queue[i]
       /\ msg_queue'[Len(msg_queue) + 1] = [buf |-> c, len |-> k]
    BY <1>5, <1>10, <1>15, AppendProperties, LenProperties
<1>17. Reported'
    <2>1. PICK from : Covers(from, msg_queue, buf_rd_pos, H, typed)
        BY DEF RxInv, Reported, H
    <2>2. Unreported(w).buf = c /\ Unreported(w).len = k
        BY <1>10
    <2>3. \E f : Covers(f, msg_queue', buf_rd_pos, H, typed + k)
        BY <1>1, <1>5, <1>6, <1>c, <1>15, <2>1, <2>2, ReportAdded
    <2>4. QED
        BY <1>5, <1>h, <1>16, <2>3 DEF Reported
<1>18. RxTypeOK'
    <2>1. cs_rx_buffer' \in [0 .. Size - 1 -> 0 .. MaxTyped]
        <3>1. \A i \in 0 .. Size - 1 : cs_rx_buffer[i] \in 0 .. MaxTyped
            BY DEF RxInv, RxTypeOK
        <3>2. \A i \in c .. c + k - 1 : typed + 1 + (i - c) \in 0 .. MaxTyped
            BY <1>1, <1>4, <1>6, <1>8
        <3>3. QED
            BY <1>12, <3>1, <3>2
    <2>2. Cell(buf_rd_pos, H, typed + k) \in 0 .. Size - 1
        BY <1>1, <1>6, <1>8, <1>9
    <2>3. \A i \in DOMAIN msg_queue' : msg_queue'[i].buf + msg_queue'[i].len <= Size
        <3>1. DOMAIN msg_queue = 1 .. Len(msg_queue) /\ DOMAIN msg_queue' = 1 .. Len(msg_queue) + 1
            BY <1>15, <1>16, LenProperties
        <3>2. \A i \in 1 .. Len(msg_queue) : msg_queue[i].buf + msg_queue[i].len <= Size
            BY <3>1 DEF RxInv, RxTypeOK
        <3>3. [buf |-> c, len |-> k].buf + [buf |-> c, len |-> k].len <= Size
            BY <1>6
        <3>4. \A i \in 1 .. Len(msg_queue) + 1 : i \in 1 .. Len(msg_queue) \/ i = Len(msg_queue) + 1
            BY <1>16
        <3>5. ASSUME NEW i \in 1 .. Len(msg_queue) + 1
              PROVE  msg_queue'[i].buf + msg_queue'[i].len <= Size
            <4>1. CASE i \in 1 .. Len(msg_queue)
                <5>1. msg_queue'[i] = msg_queue[i]
                    BY <1>16, <4>1
                <5>2. QED
                    BY <3>2, <4>1, <5>1
            <4>2. CASE i = Len(msg_queue) + 1
                <5>1. msg_queue'[i] = [buf |-> c, len |-> k]
                    BY <1>16, <4>2
                <5>2. QED
                    BY <3>3, <5>1
            <4>3. QED
                BY <3>4, <4>1, <4>2
        <3>6. QED
            BY <3>1, <3>5
    <2>4. Len(msg_queue') <= QueueLen
        BY <1>1, <1>3, <1>16
    <2>5. window'.ofs <= window'.len
        BY <1>11
    <2>6. typed' \in 0 .. MaxTyped
        BY <1>1, <1>4, <1>5, <1>6
    <2>7. heard' \in Seq(1 .. MaxTyped) /\ buf_rd_pos' \in 0 .. Size - 1
        BY <1>1, <1>5 DEF RxInv, RxTypeOK
    <2>8. QED
        BY <1>11, <2>1, <2>2, <2>3, <2>4, <2>5, <2>6, <2>7 DEF RxTypeOK
<1>19. Unread' /\ NeverDeaf' /\ AtWriter'
    BY <1>1, <1>3, <1>5, <1>6, <1>h, <1>11 DEF Unread, NeverDeaf, AtWriter
<1>20. InputInOrder'
    BY <1>5 DEF RxInv, InputInOrder
<1>21. QED
    BY <1>14, <1>17, <1>18, <1>19, <1>20 DEF RxInv

\* The reader takes the oldest report, which begins at its own place and covers
\* the next characters.
LEMMA ReadKeeps ==
    ASSUME RxInv, console_wait_newline
    PROVE  RxInv'
<1> DEFINE H == Len(heard)
           n == Len(msg_queue)
           msg == Head(msg_queue)
           copy == [i \in 1 .. msg.len |-> cs_rx_buffer[msg.buf + i - 1]]
<1>1. /\ Size \in Nat /\ Size > 0 /\ MaxTyped \in Nat /\ QueueLen \in Nat
      /\ H \in Nat /\ typed \in Nat /\ typed <= MaxTyped /\ buf_rd_pos \in 0 .. Size - 1
      /\ H <= typed /\ typed - H < Size
    BY Numbers
<1>2. /\ heard' = heard \o copy
      /\ buf_rd_pos' = Advance(buf_rd_pos, msg.len)
      /\ msg_queue' = Tail(msg_queue)
      /\ cs_rx_buffer' = cs_rx_buffer /\ window' = window /\ buf_rp_pos' = buf_rp_pos
      /\ typed' = typed /\ msg_queue # <<>>
    <2>1. msg_queue # <<>> /\ msg_queue \in Seq(Report)
        BY DEF console_wait_newline, RxInv, Reported
    <2>2. Head(msg_queue) \in Report
        BY <2>1, HeadTailProperties
    <2>3. Fits(msg)
        BY <2>2, ReceiverAssumption DEF Fits, Report
    <2>4. QED
        BY <2>3 DEF console_wait_newline
<1>c. copy = [i \in 1 .. msg.len |-> cs_rx_buffer[msg.buf + i - 1]]
    OBVIOUS
<1>3. /\ msg_queue \in Seq(Report) /\ n \in Nat /\ n >= 1 /\ msg = msg_queue[1]
      /\ msg_queue' \in Seq(Report) /\ Len(msg_queue') = n - 1
      /\ \A i \in 1 .. n - 1 : msg_queue'[i] = msg_queue[i + 1]
      /\ DOMAIN msg_queue = 1 .. n /\ DOMAIN msg_queue' = 1 .. n - 1
    BY <1>2, EmptySeq, LenProperties, HeadTailProperties DEF RxInv, Reported
<1>4. PICK from : Covers(from, msg_queue, buf_rd_pos, H, typed)
    BY DEF RxInv, Reported
<1>q. \A i \in 1 .. n : msg_queue[i].buf + msg_queue[i].len <= Size
    BY <1>3 DEF RxInv, RxTypeOK
<1>5. msg.len \in Nat /\ msg.buf \in Nat /\ H + msg.len <= typed /\ msg.buf = Cell(buf_rd_pos, H, H)
    <2> DEFINE m == msg_queue[1]
    <2>1. m \in Report /\ msg = m /\ 1 \in 1 .. n /\ 2 \in 1 .. n + 1
        BY <1>3, ElementOfSeq
    <2>2. /\ from \in [1 .. n + 1 -> H .. typed] /\ from[1] = H
          /\ m.buf = Cell(buf_rd_pos, H, from[1]) /\ from[2] = from[1] + m.len
        BY <1>4, <2>1 DEF Covers
    <2>3. QED
        BY <1>1, <2>1, <2>2 DEF Report
<1>h. H = Len(heard) /\ msg = Head(msg_queue)
    OBVIOUS
<1> HIDE DEF H, n, msg, copy
<1>6. msg.buf = buf_rd_pos /\ buf_rd_pos + msg.len <= Size
    <2>1. Cell(buf_rd_pos, H, H) = buf_rd_pos
        BY <1>1 DEF Cell
    <2>2. msg.buf + msg.len <= Size
        BY <1>3, <1>q
    <2>3. QED
        BY <1>5, <2>1, <2>2
<1>7. /\ buf_rd_pos' \in 0 .. Size - 1
      /\ \A x \in H + msg.len .. typed : Cell(buf_rd_pos', H + msg.len, x) = Cell(buf_rd_pos, H, x)
      /\ \A i \in 1 .. msg.len : Cell(buf_rd_pos, H, H + i - 1) = buf_rd_pos + i - 1
    <2>1. /\ Size \in Nat /\ Size > 0 /\ buf_rd_pos \in 0 .. Size - 1 /\ H \in Nat /\ typed \in Nat
          /\ msg.len \in Nat /\ H + msg.len <= typed /\ typed - H < Size
          /\ buf_rd_pos + msg.len <= Size
        BY <1>1, <1>5, <1>6
    <2>2. /\ Advance(buf_rd_pos, msg.len) \in 0 .. Size - 1
          /\ \A x \in H + msg.len .. typed :
               Cell(Advance(buf_rd_pos, msg.len), H + msg.len, x) = Cell(buf_rd_pos, H, x)
          /\ \A i \in 1 .. msg.len : Cell(buf_rd_pos, H, H + i - 1) = buf_rd_pos + i - 1
        BY <2>1 DEF Cell, Advance
    <2>3. QED
        BY <1>2, <2>2
\* what is read
<1>8. ASSUME NEW i \in 1 .. msg.len
      PROVE  copy[i] = H + i
    <2>1. H + i - 1 \in H .. typed - 1 /\ (H + i - 1) + 1 = H + i
        BY <1>1, <1>5
    <2>2. cs_rx_buffer[Cell(buf_rd_pos, H, H + i - 1)] = (H + i - 1) + 1
        BY <1>h, <2>1 DEF RxInv, Stored
    <2>3. copy[i] = cs_rx_buffer[buf_rd_pos + i - 1]
        BY <1>c, <1>6
    <2>4. QED
        BY <1>7, <2>1, <2>2, <2>3
<1>9. copy \in Seq(1 .. MaxTyped) /\ Len(copy) = msg.len
    <2>1. \A i \in 1 .. msg.len : H + i \in 1 .. MaxTyped
        BY <1>1, <1>5
    <2>2. copy \in [1 .. msg.len -> 1 .. MaxTyped]
        BY <1>c, <1>8, <2>1
    <2>3. copy \in Seq(1 .. MaxTyped)
        BY <1>5, <2>2, SeqDef
    <2>4. Len(copy) \in Nat /\ 1 .. Len(copy) = 1 .. msg.len
        BY <2>2, <2>3, LenProperties
    <2>5. QED
        BY <1>5, <2>3, <2>4
<1>10. /\ heard \in Seq(1 .. MaxTyped) /\ DOMAIN heard = 1 .. H
       /\ \A i \in 1 .. H : heard[i] = i
    BY <1>h, LenProperties DEF RxInv, RxTypeOK, InputInOrder
<1>11. /\ heard' \in Seq(1 .. MaxTyped) /\ Len(heard') = H + msg.len
       /\ \A i \in 1 .. H + msg.len : heard'[i] = IF i <= H THEN heard[i] ELSE copy[i - H]
    <2>1. /\ heard \o copy \in Seq(1 .. MaxTyped) /\ Len(heard \o copy) = Len(heard) + Len(copy)
          /\ \A i \in 1 .. Len(heard) + Len(copy) :
               (heard \o copy)[i] = IF i <= Len(heard) THEN heard[i] ELSE copy[i - Len(heard)]
        BY <1>9, <1>10, ConcatProperties
    <2>2. QED
        BY <1>h, <1>2, <1>9, <2>1
<1>12. InputInOrder'
    <2>1. DOMAIN heard' = 1 .. H + msg.len
        BY <1>11, LenProperties
    <2>2. ASSUME NEW i \in 1 .. H + msg.len
          PROVE  heard'[i] = i
        <3>1. CASE i <= H
            BY <1>1, <1>5, <1>10, <1>11, <3>1
        <3>2. CASE i > H
            <4>1. i - H \in 1 .. msg.len /\ H + (i - H) = i
                BY <1>1, <1>5, <3>2
            <4>2. heard'[i] = copy[i - H]
                BY <1>1, <1>5, <1>11, <3>2
            <4>3. QED
                BY <1>8, <4>1, <4>2
        <3>3. QED
            BY <1>1, <3>1, <3>2
    <2>3. QED
        BY <2>1, <2>2 DEF InputInOrder
\* what is left
<1>13. Unread' /\ NeverDeaf'
    BY <1>1, <1>2, <1>5, <1>11 DEF RxInv, Unread, NeverDeaf
<1>14. AtWriter'
    <2>1. typed \in H + msg.len .. typed
        BY <1>1, <1>5
    <2>2. Cell(buf_rd_pos', H + msg.len, typed) = Cell(buf_rd_pos, H, typed)
        BY <1>7, <2>1
    <2>3. QED
        BY <1>h, <1>2, <1>11, <2>2 DEF RxInv, AtWriter
<1>15. Stored'
    <2>1. ASSUME NEW x \in H + msg.len .. typed - 1
          PROVE  cs_rx_buffer[Cell(buf_rd_pos', H + msg.len, x)] = x + 1
        <3>1. x \in H .. typed - 1 /\ x \in H + msg.len .. typed
            BY <1>1, <1>5
        <3>2. cs_rx_buffer[Cell(buf_rd_pos, H, x)] = x + 1
            BY <1>h, <3>1 DEF RxInv, Stored
        <3>3. QED
            BY <1>7, <3>1, <3>2
    <2>2. QED
        BY <1>2, <1>11, <2>1 DEF Stored
<1>16. Reported'
    <2>1. buf_rd_pos \in Nat
        BY <1>1
    <2>2. \E f : Covers(f, msg_queue', buf_rd_pos', H + msg.len, typed)
        <3>1. msg_queue # <<>> /\ msg_queue \in Seq(Report) /\ H \in Nat /\ typed \in Nat
            BY <1>1, <1>2, <1>3
        <3>2. \A x \in H + Head(msg_queue).len .. typed :
                Cell(buf_rd_pos', H + Head(msg_queue).len, x) = Cell(buf_rd_pos, H, x)
            BY <1>7, <1>h
        <3>3. \E f : Covers(f, Tail(msg_queue), buf_rd_pos', H + Head(msg_queue).len, typed)
            BY <1>4, <2>1, <3>1, <3>2, ReportTaken
        <3>4. QED
            BY <1>2, <1>h, <3>3
    <2>3. QED
        BY <1>2, <1>3, <1>11, <2>2 DEF Reported
<1>17. RxTypeOK'
    <2>1. \A i \in DOMAIN msg_queue' : msg_queue'[i].buf + msg_queue'[i].len <= Size
        <3>1. \A i \in 1 .. n - 1 : i + 1 \in 1 .. n
            BY <1>3
        <3>2. QED
            BY <1>3, <1>q, <3>1
    <2>2. Len(msg_queue') <= QueueLen
        <3>1. n <= QueueLen
            BY DEF RxInv, RxTypeOK, n
        <3>2. QED
            BY <1>1, <1>3, <3>1
    <2>3. QED
        BY <1>2, <1>7, <1>11, <2>1, <2>2 DEF RxInv, RxTypeOK
<1>18. QED
    BY <1>12, <1>13, <1>14, <1>15, <1>16, <1>17 DEF RxInv

-----------------------------------------------------------------------------

\* Every step of the console keeps the invariant of its receiver.
LEMMA NextKeepsRxInv == RxInv /\ [Next]_vars => RxInv'
<1> SUFFICES ASSUME RxInv, [Next]_vars PROVE RxInv'
    OBVIOUS
<1>1. CASE UNCHANGED rvars
    BY <1>1 DEF RxInv, RxTypeOK, Unread, NeverDeaf, AtWriter, Stored, Reported,
                InputInOrder, rvars
<1>2. CASE Reads
    BY <1>2, ReadKeeps DEF Reads
<1>3. CASE Types
    BY <1>3, UartRxKeeps DEF Types
<1>4. QED
    BY <1>1, <1>2, <1>3 DEF Next, vars

\* The invariant always holds.
LEMMA RxInvHolds == Spec => []RxInv
<1>1. Init => RxInv
    BY InitRxInv DEF Init
<1>2. QED
    BY <1>1, NextKeepsRxInv, PTL DEF Spec

\* What is read is what was typed, in its order, for every size of ring and
\* queue: no report covers a character twice, misses one or is overwritten.
THEOREM InputAlwaysInOrder == Spec => []InputInOrder
BY RxInvHolds, PTL DEF RxInv

\* No window is opened empty, wherever the reader is: the interrupt never loses
\* its place to write.
THEOREM AlwaysRoom == Spec => []NeverDeaf
BY RxInvHolds, PTL DEF RxInv

=============================================================================
