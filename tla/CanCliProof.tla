---------------------------- MODULE CanCliProof ----------------------------
(***************************************************************************)
(* Proofs about the CAN receive ring, for every ring and queue length and  *)
(* every set of frames: its shape, and that the command layer implements   *)
(* the mailbox of CanMailbox, step by step.  (That whatever is in the box  *)
(* is served in the end is left to TLC.)                                   *)
(***************************************************************************)
EXTENDS CanCli, SequenceTheorems, TLAPS

IInv == TypeOK /\ RingInv

\* The state the layer starts in: no slot is locked, so the window is empty.
LEMMA InitIInv == Init => IInv
<1> SUFFICES ASSUME Init PROVE IInv
    OBVIOUS
<1> USE BufferLenAssumption, QueueLenAssumption
<1>1. TypeOK
    BY DEF Init, TypeOK, Slot
<1>2. Window(0)
    BY DEF Init, Window, InWindow, InService, Wrapped, Slot
<1>3. QED
    BY <1>1, <1>2 DEF IInv, RingInv

\* A receive interrupt that finds its slot locked drops the frame; the token
\* it posts all the same does no harm.
LEMMA FrameDropped ==
    ASSUME TypeOK, NEW n \in 0 .. BufferLen, Window(n),
           NEW m \in Msg, can_frame_read(m), lock[Wrapped(rx_msg_fill_top)]
    PROVE  TypeOK' /\ Window(n)'
<1> USE BufferLenAssumption, QueueLenAssumption
<1> DEFINE top == Wrapped(rx_msg_fill_top)
<1>1. top \in Slot
    BY DEF TypeOK, Wrapped, Slot
<1>2. UNCHANGED <<lock, rx_msg_buffer, rx_msg_pop_top, pc, rx_msg>> /\ rx_msg_fill_top' = top
    BY DEF can_frame_read, can_cli_rx_indication
<1>3. queue_can_isr' \in 0 .. QueueLen /\ queue_can_isr' >= queue_can_isr
    BY DEF can_frame_read, PostToken, TypeOK
<1>4. TypeOK'
    BY <1>1, <1>2, <1>3 DEF TypeOK, Slot
<1>5. /\ Wrapped(rx_msg_pop_top)' = Wrapped(rx_msg_pop_top)
      /\ Wrapped(rx_msg_fill_top)' = Wrapped(rx_msg_fill_top)
    BY <1>1, <1>2 DEF Wrapped, Slot
<1>6. n - (IF pc' = "ready" THEN 1 ELSE 0) <= queue_can_isr'
    <2>1. n - (IF pc = "ready" THEN 1 ELSE 0) <= queue_can_isr
        BY DEF Window
    <2>2. queue_can_isr \in Nat
        BY DEF TypeOK
    <2>3. QED
        BY <1>2, <1>3, <2>1, <2>2
<1>7. Window(n)'
    BY <1>2, <1>5, <1>6 DEF Window, InWindow, InService
<1>8. QED
    BY <1>4, <1>7

\* A receive interrupt that finds its slot free puts it at the end of the
\* window, with a token unless there is one for each slot already.
LEMMA FrameStored ==
    ASSUME TypeOK, NEW n \in 0 .. BufferLen, Window(n),
           NEW m \in Msg, can_frame_read(m), ~ lock[Wrapped(rx_msg_fill_top)]
    PROVE  /\ n + 1 \in 0 .. BufferLen /\ (InService => n + 1 < BufferLen)
           /\ TypeOK' /\ Window(n + 1)'
<1> USE BufferLenAssumption, QueueLenAssumption
<1> DEFINE top == Wrapped(rx_msg_fill_top)
<1>1. top \in Slot
    BY DEF TypeOK, Wrapped, Slot
<1>2. /\ UNCHANGED <<rx_msg_pop_top, pc, rx_msg>>
      /\ rx_msg_fill_top' = top + 1
      /\ lock' = [lock EXCEPT ![top] = TRUE]
      /\ rx_msg_buffer' = [rx_msg_buffer EXCEPT ![top] = m]
    BY DEF can_frame_read, can_cli_rx_indication
<1>3. /\ queue_can_isr' \in 0 .. QueueLen
      /\ queue_can_isr' = queue_can_isr + 1 \/ queue_can_isr' = QueueLen
    BY DEF can_frame_read, PostToken, TypeOK
<1>4. TypeOK'
    BY <1>1, <1>2, <1>3 DEF TypeOK, Slot
<1>5. n < BufferLen
    BY <1>1 DEF Window, InWindow, InService, Wrapped, TypeOK, Slot
<1>6. InService => n + 1 < BufferLen
    BY <1>1, <1>5 DEF Window, InWindow, InService, Wrapped, TypeOK, Slot
<1>7. Wrapped(rx_msg_fill_top)' = IF top + 1 = BufferLen THEN 0 ELSE top + 1
    BY <1>1, <1>2 DEF Wrapped, Slot
<1>8. Window(n + 1)'
    <2>1. LET p == Wrapped(rx_msg_pop_top)'
              f == Wrapped(rx_msg_fill_top)'
          IN  f = p + (n + 1) \/ f + BufferLen = p + (n + 1)
        BY <1>1, <1>2, <1>7, <1>5 DEF Window, Wrapped, TypeOK, Slot
    <2>2. ASSUME NEW i \in Slot
          PROVE  lock'[i] <=> (InWindow(i, n + 1)' \/ (InService' /\ i = rx_msg'))
        <3>1. InWindow(i, n + 1)' <=> (InWindow(i, n) \/ i = top)
            BY <1>1, <1>2, <1>5 DEF InWindow, Window, Wrapped, TypeOK, Slot
        <3>2. lock'[i] <=> (lock[i] \/ i = top)
            BY <1>2 DEF TypeOK
        <3>3. QED
            BY <1>2, <3>1, <3>2 DEF Window, InService
    <2>3. InService' => n + 1 < BufferLen /\ rx_msg' + 1 = rx_msg_pop_top'
        BY <1>2, <1>6 DEF Window, InService
    <2>4. n + 1 - (IF pc' = "ready" THEN 1 ELSE 0) <= queue_can_isr'
        <3>1. n - (IF pc = "ready" THEN 1 ELSE 0) <= queue_can_isr
            BY DEF Window
        <3>2. n \in Nat /\ n + 1 <= QueueLen /\ queue_can_isr \in Nat
            BY <1>5 DEF TypeOK
        <3>3. pc' = pc
            BY <1>2
        <3>4. QED
            BY <1>3, <3>1, <3>2, <3>3
    <2>5. QED
        BY <2>1, <2>2, <2>3, <2>4 DEF Window
<1>9. QED
    BY <1>4, <1>5, <1>6, <1>8

\* A token becomes the right to pop.
LEMMA TokenTaken ==
    ASSUME TypeOK, NEW n \in 0 .. BufferLen, Window(n), TakeToken
    PROVE  TypeOK' /\ Window(n)'
<1> USE BufferLenAssumption, QueueLenAssumption
<1>1. TypeOK'
    BY DEF TypeOK, TakeToken
<1>2. Window(n)'
    BY DEF Window, InWindow, InService, Wrapped, TypeOK, TakeToken
<1>3. QED
    BY <1>1, <1>2

\* The pop moves the first slot of the window into service.
LEMMA SlotPopped ==
    ASSUME TypeOK, NEW n \in 0 .. BufferLen, Window(n),
           can_cli_buffer_ready, lock[Wrapped(rx_msg_pop_top)]
    PROVE  n - 1 \in 0 .. BufferLen /\ TypeOK' /\ Window(n - 1)'
<1> USE BufferLenAssumption, QueueLenAssumption
<1> DEFINE top == Wrapped(rx_msg_pop_top)
<1>1. top \in Slot
    BY DEF TypeOK, Wrapped, Slot
<1>2. /\ rx_msg' = top /\ rx_msg_pop_top' = top + 1 /\ pc' = "callback"
      /\ pc = "ready"
      /\ UNCHANGED <<rx_msg_fill_top, lock, rx_msg_buffer, queue_can_isr>>
    BY DEF can_cli_buffer_ready
<1>3. TypeOK'
    BY <1>1, <1>2 DEF TypeOK, Slot
<1>4. n > 0 /\ n - 1 \in 0 .. BufferLen
    BY <1>1, <1>2 DEF Window, InWindow, InService, TypeOK, Slot
<1>5. Window(n - 1)'
    <2>1. Wrapped(rx_msg_pop_top)' = IF top + 1 = BufferLen THEN 0 ELSE top + 1
        BY <1>1, <1>2 DEF Wrapped, Slot
    <2>2. LET p == Wrapped(rx_msg_pop_top)'
              f == Wrapped(rx_msg_fill_top)'
          IN  f = p + (n - 1) \/ f + BufferLen = p + (n - 1)
        <3>1. Wrapped(rx_msg_fill_top)' = Wrapped(rx_msg_fill_top)
            BY <1>2 DEF Wrapped
        <3>2. Wrapped(rx_msg_fill_top) \in Slot
            BY DEF Wrapped, TypeOK, Slot
        <3>3. QED
            BY <1>1, <1>4, <2>1, <3>1, <3>2 DEF Window, Slot
    <2>3. ASSUME NEW i \in Slot
          PROVE  lock'[i] <=> (InWindow(i, n - 1)' \/ (InService' /\ i = rx_msg'))
        <3>1. InWindow(i, n) <=> (InWindow(i, n - 1)' \/ i = top)
            BY <1>1, <1>4, <2>1 DEF InWindow, Slot
        <3>2. QED
            BY <1>2, <3>1 DEF Window, InService
    <2>4. QED
        BY <1>2, <1>4, <2>2, <2>3 DEF Window, InService, TypeOK
<1>6. QED
    BY <1>3, <1>4, <1>5

\* A token without a frame: there was nothing to pop.
LEMMA NothingPopped ==
    ASSUME TypeOK, NEW n \in 0 .. BufferLen, Window(n),
           can_cli_buffer_ready, ~ lock[Wrapped(rx_msg_pop_top)]
    PROVE  n = 0 /\ TypeOK' /\ Window(n)'
<1> USE BufferLenAssumption, QueueLenAssumption
<1> DEFINE top == Wrapped(rx_msg_pop_top)
<1>1. top \in Slot
    BY DEF TypeOK, Wrapped, Slot
<1>2. /\ rx_msg_pop_top' = top /\ pc' = "wait" /\ pc = "ready"
      /\ UNCHANGED <<rx_msg, rx_msg_fill_top, lock, rx_msg_buffer, queue_can_isr>>
    BY DEF can_cli_buffer_ready
<1>3. TypeOK'
    BY <1>1, <1>2 DEF TypeOK, Slot
<1>4. n = 0
    BY <1>1 DEF Window, InWindow, TypeOK, Slot
<1>5. Wrapped(rx_msg_pop_top)' = top
    BY <1>1, <1>2 DEF Wrapped, Slot
<1>6. Window(n)'
    BY <1>2, <1>4, <1>5 DEF Window, InWindow, InService, Wrapped, TypeOK
<1>7. QED
    BY <1>3, <1>4, <1>6

\* The release unlocks the slot in service, which is outside the window.
LEMMA SlotFreed ==
    ASSUME TypeOK, NEW n \in 0 .. BufferLen, Window(n), can_cli_buffer_free
    PROVE  TypeOK' /\ Window(n)'
<1> USE BufferLenAssumption, QueueLenAssumption
<1>1. TypeOK'
    BY DEF TypeOK, can_cli_buffer_free
<1>2. ~ InWindow(rx_msg, n)
    BY DEF Window, InWindow, InService, Wrapped, TypeOK, Slot, can_cli_buffer_free
<1>3. Window(n)'
    BY <1>2 DEF Window, InWindow, InService, Wrapped, TypeOK, can_cli_buffer_free
<1>4. QED
    BY <1>1, <1>3

\* Interrupt and task keep the ring's shape.
LEMMA NextKeepsIInv ==
    ASSUME IInv, Next
    PROVE  IInv'
<1>1. PICK n \in 0 .. BufferLen : Window(n)
    BY DEF IInv, RingInv
<1>2. TypeOK
    BY DEF IInv
<1>3. CASE \E m \in Msg : can_frame_read(m)
    <2>1. PICK m \in Msg : can_frame_read(m)
        BY <1>3
    <2>2. CASE lock[Wrapped(rx_msg_fill_top)]
        BY <1>1, <1>2, <2>1, <2>2, FrameDropped DEF IInv, RingInv
    <2>3. CASE ~ lock[Wrapped(rx_msg_fill_top)]
        BY <1>1, <1>2, <2>1, <2>3, FrameStored DEF IInv, RingInv
    <2>4. QED
        BY <2>2, <2>3
<1>4. CASE TakeToken
    BY <1>1, <1>2, <1>4, TokenTaken DEF IInv, RingInv
<1>5. CASE can_cli_buffer_ready
    <2>1. CASE lock[Wrapped(rx_msg_pop_top)]
        BY <1>1, <1>2, <1>5, <2>1, SlotPopped DEF IInv, RingInv
    <2>2. CASE ~ lock[Wrapped(rx_msg_pop_top)]
        BY <1>1, <1>2, <1>5, <2>2, NothingPopped DEF IInv, RingInv
    <2>3. QED
        BY <2>1, <2>2
<1>6. CASE can_cli_buffer_free
    BY <1>1, <1>2, <1>6, SlotFreed DEF IInv, RingInv
<1>7. QED
    BY <1>3, <1>4, <1>5, <1>6 DEF Next, can_cli_handle

\* The ring and its token queue keep their shape along every behaviour.
THEOREM RingInvHolds == Spec => [](TypeOK /\ RingInv)
<1>1. Init => IInv
    BY InitIInv
<1>2. IInv /\ [Next]_vars => IInv'
    <2> SUFFICES ASSUME IInv, [Next]_vars PROVE IInv'
        OBVIOUS
    <2>1. CASE Next
        BY <2>1, NextKeepsIInv
    <2>2. CASE UNCHANGED vars
        BY <2>2 DEF IInv, TypeOK, RingInv, Window, InWindow, InService, Wrapped, vars
    <2>3. QED
        BY <2>1, <2>2
<1>3. QED
    BY <1>1, <1>2, PTL DEF Spec, IInv

\* Every index, lock and token of the ring stays in its range.
THEOREM RingTypes == Spec => []TypeOK
<1>1. QED
    BY RingInvHolds, PTL

\* The task never blocks on the token queue while the ring holds a frame:
\* an empty window is all that an empty queue allows.
THEOREM NoFrameIsStranded == Spec => []NoStrandedFrame
<1>1. TypeOK /\ RingInv => NoStrandedFrame
    <2> SUFFICES ASSUME TypeOK, RingInv, pc = "wait", queue_can_isr = 0,
                        NEW i \in Slot
                 PROVE  ~ lock[i]
        BY DEF NoStrandedFrame
    <2>1. PICK n \in 0 .. BufferLen : Window(n)
        BY DEF RingInv
    <2>2. n = 0
        BY <2>1 DEF Window
    <2>3. QED
        BY BufferLenAssumption, <2>1, <2>2 DEF Window, InWindow, InService, Wrapped, TypeOK, Slot
<1>2. QED
    BY <1>1, RingInvHolds, PTL

-----------------------------------------------------------------------------
(* Functions on 1 .. n as sequences.                                       *)

\* A function on 1 .. n is a sequence of n elements.
LEMMA LenIs ==
    ASSUME NEW S, NEW n \in Nat, NEW f \in [1 .. n -> S]
    PROVE  f \in Seq(S) /\ Len(f) = n /\ (f = <<>> <=> n = 0)
<1>1. f \in Seq(S)
    BY SeqDef
<1>2. Len(f) \in Nat /\ 1 .. Len(f) = 1 .. n
    BY <1>1, LenProperties
<1>3. Len(f) = n
    BY <1>2
<1>4. f = <<>> <=> n = 0
    BY <1>1, <1>3, EmptySeq
<1>5. QED
    BY <1>1, <1>3, <1>4

\* Append, seen from the longer function.
LEMMA AppendIs ==
    ASSUME NEW S, NEW n \in Nat, NEW f \in [1 .. n -> S], NEW g \in [1 .. n + 1 -> S],
           \A k \in 1 .. n : g[k] = f[k]
    PROVE  g = Append(f, g[n + 1])
<1> DEFINE h == Append(f, g[n + 1])
<1>1. f \in Seq(S) /\ Len(f) = n /\ g \in Seq(S) /\ Len(g) = n + 1
    BY LenIs
<1>2. g[n + 1] \in S
    OBVIOUS
<1>3. /\ h \in Seq(S) /\ Len(h) = n + 1
      /\ \A k \in 1 .. n + 1 : h[k] = IF k <= n THEN f[k] ELSE g[n + 1]
    BY <1>1, <1>2
<1>4. QED
    BY <1>1, <1>3, SeqEqual

\* Head and Tail, seen from the shorter function.
LEMMA TailIs ==
    ASSUME NEW S, NEW n \in Nat, NEW f \in [1 .. n + 1 -> S], NEW g \in [1 .. n -> S],
           \A k \in 1 .. n : g[k] = f[k + 1]
    PROVE  g = Tail(f) /\ f[1] = Head(f) /\ f # <<>>
<1>1. f \in Seq(S) /\ Len(f) = n + 1 /\ g \in Seq(S) /\ Len(g) = n
    BY LenIs
<1>2. f # <<>>
    BY <1>1, EmptySeq
<1>3. Tail(f) \in Seq(S) /\ Len(Tail(f)) = n /\ \A k \in 1 .. n : Tail(f)[k] = f[k + 1]
    BY <1>1, <1>2, HeadTailProperties
<1>4. g = Tail(f)
    BY <1>1, <1>3, SeqEqual
<1>5. f[1] = Head(f)
    BY <1>1
<1>6. QED
    BY <1>2, <1>4, <1>5

-----------------------------------------------------------------------------
(* The mailbox in the ring.                                                *)

\* what the refinement mapping of CanCli substitutes
box == [k \in 1 .. Backlog |-> rx_msg_buffer[SlotAfter(k - 1)]]
serving == IF InService THEN rx_msg_buffer[rx_msg] ELSE NoMsg

\* A locked slot holds a frame.
Stored == \A i \in Slot : lock[i] => rx_msg_buffer[i] \in Msg

\* The window has one length, so the backlog is it.
LEMMA BacklogIs ==
    ASSUME NEW n \in 0 .. BufferLen
    PROVE  TypeOK /\ Window(n) => Backlog = n
<1> SUFFICES ASSUME TypeOK, Window(n), NEW k \in 0 .. BufferLen, Window(k)
             PROVE  k = n
    BY DEF Backlog
<1> QED
    BY BufferLenAssumption DEF TypeOK, Window, InWindow, InService, Wrapped, Slot

\* The slots of the window, in order, and none twice.
LEMMA SlotsOfWindow ==
    ASSUME TypeOK, NEW n \in 0 .. BufferLen, Window(n)
    PROVE  /\ \A k \in 0 .. n - 1 : SlotAfter(k) \in Slot /\ lock[SlotAfter(k)]
           /\ \A k \in 0 .. BufferLen - 1 : SlotAfter(k) \in Slot
           /\ \A j, k \in 0 .. BufferLen - 1 : SlotAfter(j) = SlotAfter(k) => j = k
           /\ SlotAfter(0) = Wrapped(rx_msg_pop_top)
           /\ n < BufferLen => SlotAfter(n) = Wrapped(rx_msg_fill_top)
<1>1. Wrapped(rx_msg_pop_top) \in Slot /\ Wrapped(rx_msg_fill_top) \in Slot
    BY BufferLenAssumption DEF TypeOK, Wrapped, Slot
<1> QED
    BY <1>1, BufferLenAssumption DEF Window, InWindow, SlotAfter, Slot

\* The box is a sequence of frames, one for each slot of the window.
LEMMA BoxIs ==
    ASSUME NEW n \in 0 .. BufferLen
    PROVE  TypeOK /\ Stored /\ Window(n) =>
              /\ box = [k \in 1 .. n |-> rx_msg_buffer[SlotAfter(k - 1)]]
              /\ box \in [1 .. n -> Msg]
<1> SUFFICES ASSUME TypeOK, Stored, Window(n)
             PROVE  /\ box = [k \in 1 .. n |-> rx_msg_buffer[SlotAfter(k - 1)]]
                    /\ box \in [1 .. n -> Msg]
    OBVIOUS
<1>1. Backlog = n
    BY BacklogIs
<1>2. \A k \in 1 .. n : rx_msg_buffer[SlotAfter(k - 1)] \in Msg
    BY SlotsOfWindow DEF Stored
<1> QED
    BY <1>1, <1>2 DEF box

-----------------------------------------------------------------------------
(* The steps.                                                              *)

RInv == TypeOK /\ RingInv /\ Stored

\* No frame is stored, none is in service.
LEMMA InitMailbox == Init => RInv /\ Mailbox!Init
<1> SUFFICES ASSUME Init PROVE RInv /\ Mailbox!Init
    OBVIOUS
<1>1. TypeOK /\ Window(0) /\ Stored
    <2>1. TypeOK /\ RingInv
        BY InitIInv DEF IInv
    <2>2. Window(0)
        BY BufferLenAssumption, QueueLenAssumption
        DEF Init, Window, InWindow, InService, Wrapped, Slot
    <2>3. Stored
        BY DEF Init, Stored
    <2>4. QED
        BY <2>1, <2>2, <2>3
<1>2. 0 \in 0 .. BufferLen
    BY BufferLenAssumption
<1>3. box \in [1 .. 0 -> Msg]
    BY <1>1, <1>2, BoxIs
<1>4. box = <<>>
    BY <1>3, LenIs
<1>5. serving = NoMsg
    BY DEF Init, InService, serving
<1>6. QED
    BY <1>1, <1>2, <1>4, <1>5 DEF RInv, RingInv, Mailbox!Init, box, serving

\* The same of the next state.
LEMMA BoxNext ==
    ASSUME NEW n \in 0 .. BufferLen, TypeOK', Stored', Window(n)'
    PROVE  /\ box' = [k \in 1 .. n |-> rx_msg_buffer'[SlotAfter(k - 1)']]
           /\ box' \in [1 .. n -> Msg]
<1>1. (TypeOK /\ Stored /\ Window(n) =>
          /\ box = [k \in 1 .. n |-> rx_msg_buffer[SlotAfter(k - 1)]]
          /\ box \in [1 .. n -> Msg])'
    BY BoxIs, PTL
<1>2. QED
    BY <1>1

\* A frame in service is one of the bus.
LEMMA ServingIs ==
    ASSUME RInv
    PROVE  /\ serving = NoMsg <=> ~ InService
           /\ InService => serving \in Msg
<1>1. PICK n \in 0 .. BufferLen : Window(n)
    BY DEF RInv, RingInv
<1>2. InService => lock[rx_msg] /\ rx_msg \in Slot
    BY <1>1 DEF RInv, TypeOK, Window
<1>3. QED
    BY <1>2, NoMsgAssumption DEF RInv, Stored, serving

\* A frame that finds its slot locked changes nothing.
LEMMA FrameIgnored ==
    ASSUME RInv, NEW m \in Msg, can_frame_read(m), lock[Wrapped(rx_msg_fill_top)]
    PROVE  RInv' /\ UNCHANGED <<box, serving>>
<1>1. PICK n \in 0 .. BufferLen : Window(n)
    BY DEF RInv, RingInv
<1>2. TypeOK /\ Stored
    BY DEF RInv
<1>3. box = [k \in 1 .. n |-> rx_msg_buffer[SlotAfter(k - 1)]]
    BY <1>1, <1>2, BoxIs
<1>4. TypeOK' /\ Window(n)'
    BY <1>1, <1>2, FrameDropped
<1>5. UNCHANGED <<rx_msg_buffer, lock, rx_msg_pop_top, pc, rx_msg>>
    BY DEF can_frame_read, can_cli_rx_indication
<1>6. Stored'
    BY <1>2, <1>5 DEF Stored
<1>7. box' = [k \in 1 .. n |-> rx_msg_buffer'[SlotAfter(k - 1)']]
    BY <1>4, <1>6, BoxNext
<1>8. UNCHANGED <<box, serving>>
    BY <1>3, <1>5, <1>7 DEF SlotAfter, Wrapped, serving, InService
<1>9. QED
    BY <1>4, <1>6, <1>8 DEF RInv, RingInv

\* A frame that finds its slot free joins the box at its end; there was room.
LEMMA FrameAccepted ==
    ASSUME RInv, NEW m \in Msg, can_frame_read(m), ~ lock[Wrapped(rx_msg_fill_top)]
    PROVE  RInv' /\ Mailbox!Accept(m)
<1> USE BufferLenAssumption
<1> DEFINE top == Wrapped(rx_msg_fill_top)
<1>1. PICK n \in 0 .. BufferLen : Window(n)
    BY DEF RInv, RingInv
<1>2. TypeOK /\ Stored
    BY DEF RInv
<1>3. /\ n + 1 \in 0 .. BufferLen /\ (InService => n + 1 < BufferLen)
      /\ TypeOK' /\ Window(n + 1)'
    BY <1>1, <1>2, FrameStored
<1>4. /\ UNCHANGED <<rx_msg_pop_top, pc, rx_msg>>
      /\ lock' = [lock EXCEPT ![top] = TRUE]
      /\ rx_msg_buffer' = [rx_msg_buffer EXCEPT ![top] = m]
    BY DEF can_frame_read, can_cli_rx_indication
<1>5. Stored'
    BY <1>2, <1>4 DEF Stored, TypeOK
<1>6. /\ box = [k \in 1 .. n |-> rx_msg_buffer[SlotAfter(k - 1)]]
      /\ box \in [1 .. n -> Msg]
    BY <1>1, <1>2, BoxIs
<1>7. /\ box' = [k \in 1 .. n + 1 |-> rx_msg_buffer'[SlotAfter(k - 1)']]
      /\ box' \in [1 .. n + 1 -> Msg]
    BY <1>3, <1>5, BoxNext
<1>8. \A k \in 0 .. BufferLen - 1 : SlotAfter(k)' = SlotAfter(k)
    BY <1>4 DEF SlotAfter, Wrapped
<1>9. /\ \A k \in 0 .. n - 1 : SlotAfter(k) # top /\ SlotAfter(k) \in Slot
      /\ SlotAfter(n) = top /\ top \in Slot
    BY <1>1, <1>2, <1>3, SlotsOfWindow
<1>10. /\ \A k \in 1 .. n : box'[k] = box[k]
       /\ box'[n + 1] = m
    BY <1>2, <1>3, <1>4, <1>6, <1>7, <1>8, <1>9 DEF TypeOK
<1>11. box' = Append(box, m)
    <2>1. n \in Nat /\ box \in [1 .. n -> Msg] /\ box' \in [1 .. n + 1 -> Msg]
        BY <1>6, <1>7
    <2>2. \A k \in 1 .. n : box'[k] = box[k]
        BY <1>10
    <2>3. box' = Append(box, box'[n + 1])
        BY <2>1, <2>2, AppendIs
    <2>4. QED
        BY <1>10, <2>3
<1>12. serving' = serving
    <2>1. InService => lock[rx_msg] /\ rx_msg \in Slot
        BY <1>1, <1>2 DEF TypeOK, Window
    <2>2. QED
        BY <1>2, <1>4, <2>1 DEF serving, InService, TypeOK
<1>13. Len(box) = n /\ n \in Nat
    BY <1>6, LenIs
<1>14. Len(box) + (IF serving = NoMsg THEN 0 ELSE 1) < BufferLen
    BY <1>3, <1>13, ServingIs
<1>15. QED
    BY <1>3, <1>5, <1>11, <1>12, <1>14
    DEF RInv, RingInv, Mailbox!Accept, Mailbox!InUse, box, serving

\* The pop hands the oldest frame over.
LEMMA FrameHandedOver ==
    ASSUME RInv, can_cli_buffer_ready, lock[Wrapped(rx_msg_pop_top)]
    PROVE  RInv' /\ Mailbox!HandOver
<1> USE BufferLenAssumption
<1> DEFINE top == Wrapped(rx_msg_pop_top)
<1>1. PICK n \in 0 .. BufferLen : Window(n)
    BY DEF RInv, RingInv
<1>2. TypeOK /\ Stored
    BY DEF RInv
<1>3. n - 1 \in 0 .. BufferLen /\ TypeOK' /\ Window(n - 1)'
    BY <1>1, <1>2, SlotPopped
<1>4. /\ rx_msg' = top /\ rx_msg_pop_top' = top + 1 /\ pc' = "callback" /\ pc = "ready"
      /\ UNCHANGED <<lock, rx_msg_buffer>>
    BY DEF can_cli_buffer_ready
<1>5. Stored'
    BY <1>2, <1>4 DEF Stored
<1>6. /\ box = [k \in 1 .. n |-> rx_msg_buffer[SlotAfter(k - 1)]]
      /\ box \in [1 .. n -> Msg]
    BY <1>1, <1>2, BoxIs
<1>7. /\ box' = [k \in 1 .. n - 1 |-> rx_msg_buffer'[SlotAfter(k - 1)']]
      /\ box' \in [1 .. n - 1 -> Msg]
    BY <1>3, <1>5, BoxNext
<1>8. ASSUME NEW k \in 0 .. n - 2
      PROVE  SlotAfter(k)' = SlotAfter(k + 1)
    BY <1>2, <1>3, <1>4 DEF SlotAfter, Wrapped, TypeOK
<1>9. \A k \in 1 .. n - 1 : box'[k] = box[k + 1]
    BY <1>3, <1>4, <1>6, <1>7, <1>8
<1>10. SlotAfter(0) = top /\ 1 \in 1 .. n
    BY <1>1, <1>2, <1>3, SlotsOfWindow
<1>11. box' = Tail(box) /\ box[1] = Head(box) /\ box # <<>>
    <2>1. PICK j \in Nat : j = n - 1
        BY <1>3
    <2>2. n = j + 1
        BY <2>1
    <2>3. box \in [1 .. j + 1 -> Msg] /\ box' \in [1 .. j -> Msg]
        BY <1>6, <1>7, <2>1, <2>2
    <2>4. \A k \in 1 .. j : box'[k] = box[k + 1]
        BY <1>9, <2>1
    <2>5. QED
        BY <2>3, <2>4, TailIs
<1>12. box[1] = rx_msg_buffer[top]
    BY <1>6, <1>10
<1>13. serving = NoMsg /\ serving' = rx_msg_buffer[top]
    BY <1>4 DEF serving, InService
<1>14. QED
    BY <1>3, <1>5, <1>11, <1>12, <1>13 DEF RInv, RingInv, Mailbox!HandOver, box, serving

\* Taking a token, and a pop that finds nothing, do not show.
LEMMA TokensDoNotShow ==
    ASSUME RInv, TakeToken \/ (can_cli_buffer_ready /\ ~ lock[Wrapped(rx_msg_pop_top)])
    PROVE  RInv' /\ UNCHANGED <<box, serving>>
<1> USE BufferLenAssumption
<1>1. PICK n \in 0 .. BufferLen : Window(n)
    BY DEF RInv, RingInv
<1>2. TypeOK /\ Stored
    BY DEF RInv
<1>3. TypeOK' /\ Window(n)'
    BY <1>1, <1>2, TokenTaken, NothingPopped
<1>4. /\ UNCHANGED <<lock, rx_msg_buffer>> /\ ~ InService /\ ~ InService'
      /\ Wrapped(rx_msg_pop_top)' = Wrapped(rx_msg_pop_top)
    BY <1>2 DEF TakeToken, can_cli_buffer_ready, InService, Wrapped, TypeOK
<1>5. Stored'
    BY <1>2, <1>4 DEF Stored
<1>6. box = [k \in 1 .. n |-> rx_msg_buffer[SlotAfter(k - 1)]]
    BY <1>1, <1>2, BoxIs
<1>7. box' = [k \in 1 .. n |-> rx_msg_buffer'[SlotAfter(k - 1)']]
    BY <1>3, <1>5, BoxNext
<1>8. UNCHANGED <<box, serving>>
    BY <1>4, <1>6, <1>7 DEF SlotAfter, serving
<1>9. QED
    BY <1>3, <1>5, <1>8 DEF RInv, RingInv

\* The release ends the service.
LEMMA ServiceFinished ==
    ASSUME RInv, can_cli_buffer_free
    PROVE  RInv' /\ Mailbox!Finish
<1> USE BufferLenAssumption
<1>1. PICK n \in 0 .. BufferLen : Window(n)
    BY DEF RInv, RingInv
<1>2. TypeOK /\ Stored
    BY DEF RInv
<1>3. TypeOK' /\ Window(n)'
    BY <1>1, <1>2, SlotFreed
<1>4. /\ InService /\ ~ InService' /\ UNCHANGED <<rx_msg_buffer, rx_msg_pop_top>>
      /\ \A i \in Slot : lock'[i] => lock[i]
    BY <1>2 DEF can_cli_buffer_free, InService, TypeOK
<1>5. Stored'
    BY <1>2, <1>4 DEF Stored
<1>6. box = [k \in 1 .. n |-> rx_msg_buffer[SlotAfter(k - 1)]]
    BY <1>1, <1>2, BoxIs
<1>7. box' = [k \in 1 .. n |-> rx_msg_buffer'[SlotAfter(k - 1)']]
    BY <1>3, <1>5, BoxNext
<1>8. box' = box
    BY <1>4, <1>6, <1>7 DEF SlotAfter, Wrapped
<1>9. serving # NoMsg /\ serving' = NoMsg
    BY <1>4, ServingIs, NoMsgAssumption DEF serving
<1>10. QED
    BY <1>3, <1>5, <1>8, <1>9 DEF RInv, RingInv, Mailbox!Finish, box, serving

-----------------------------------------------------------------------------

\* The layer implements the mailbox: every frame stored is handed over once, in
\* the order of arrival, unchanged, whatever becomes of the tokens.
THEOREM ImplementsMailbox == Spec => Mailbox!Init /\ [][Mailbox!Next]_Mailbox!vars
<1>1. Init => RInv /\ Mailbox!Init
    BY InitMailbox
<1>2. RInv /\ [Next]_vars => RInv' /\ [Mailbox!Next]_Mailbox!vars
    <2> SUFFICES ASSUME RInv, [Next]_vars PROVE RInv' /\ [Mailbox!Next]_Mailbox!vars
        OBVIOUS
    <2> USE DEF Mailbox!vars, Mailbox!Next
    <2>1. UNCHANGED <<box, serving>> => UNCHANGED Mailbox!vars
        BY DEF box, serving
    <2>2. CASE \E m \in Msg : can_frame_read(m)
        BY <2>1, <2>2, FrameIgnored, FrameAccepted
    <2>3. CASE TakeToken
        BY <2>1, <2>3, TokensDoNotShow
    <2>4. CASE can_cli_buffer_ready
        BY <2>1, <2>4, TokensDoNotShow, FrameHandedOver
    <2>5. CASE can_cli_buffer_free
        BY <2>5, ServiceFinished
    <2>6. CASE UNCHANGED vars
        <3>1. RInv'
            BY <2>6 DEF RInv, TypeOK, RingInv, Stored, Window, InWindow, InService, Wrapped, vars
        <3>2. UNCHANGED <<box, serving>>
            BY <2>6 DEF box, serving, Backlog, SlotAfter, Window, InWindow, InService, Wrapped, vars
        <3>3. QED
            BY <2>1, <3>1, <3>2
    <2>7. QED
        BY <2>2, <2>3, <2>4, <2>5, <2>6 DEF Next, can_cli_handle
<1>3. QED
    BY <1>1, <1>2, PTL DEF Spec

=============================================================================
